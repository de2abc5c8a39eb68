--------------------------- MODULE KVClientProofs ---------------------------
(***************************************************************************)
(* Proofs about the client library: any number of servers, hosts, objects, *)
(* calls, keys and values.  Inv is the part that the lifetime of the       *)
(* objects (RPCClientProofs) and the refinement (CallMapProofs) share.     *)
(***************************************************************************)
EXTENDS KVClient, SequenceTheorems, TLAPS

Object == [addr : Servers \cup {<<>>}, freed : BOOLEAN, slots : Seq(Slot)]

(* The places of the client's thread: in a constructor, in a destructor,   *)
(* and elsewhere.                                                          *)
Building   == {"stub", "spawn"}
Destroying == {"shut", "join", "delete"}
Outside    == {"idle", "pick", "ask", "send", "wait", "retry", "dead"}
Calling    == {"ask", "send", "wait", "retry"}

(* Object o of the objects os is one that a constructor has sized.         *)
Sized(os, o) == /\ os[o].addr \in Servers
                /\ Len(os[o].slots) = NumHosts[os[o].addr]

(* The types of RPCClient's variables.                                     *)
Types ==
    /\ objs \in [Objects -> Object] /\ num \in Nat /\ i \in Nat
    /\ client \in 0..MaxObjects /\ built \in 0..MaxObjects
    /\ dying \in 0..MaxObjects /\ async \in [Async -> Call]
    /\ pc \in Building \cup Destroying \cup Outside
    /\ after \in {"idle", "ask", "retry"}

(* The object that kv_client points to, the one under construction and the *)
(* one in its destructor are three different ones, and there are the last  *)
(* two exactly while the client's thread is in a constructor or a          *)
(* destructor; a thread that is to make a call has a client to make it     *)
(* through.                                                                *)
Roles ==
    /\ client # 0 => Sized(objs, client)
    /\ built # 0 => Sized(objs, built) /\ built # client /\ built # dying
    /\ dying # 0 => Sized(objs, dying) /\ dying # client
    /\ built # 0 <=> pc \in Building
    /\ pc \in Destroying => dying # 0
    /\ dying # 0 => pc \in Destroying \cup {"dead"}
    /\ pc \in Calling => client # 0
    /\ pc \in Destroying /\ after # "idle" => client # 0

(* The client's thread will ask the server it connects to whether it       *)
(* leads; it will send its put again.                                      *)
Asking   == \/ pc = "ask"
            \/ pc \in Building \cup Destroying /\ after = "ask"
Retrying == \/ pc = "retry"
            \/ pc \in Building \cup Destroying /\ after = "retry"

CallRecord ==
    {c \in [id : 1..MaxCalls, op : {"get", "put"}, key : Keys,
            val : Values \cup {NoValue}] : c.op = "put" => c.val \in Values}
Replies ==
    {NoReply} \cup [kind : {"redirect"}, to : Servers]
    \cup {r \in [kind : {"done"}, found : BOOLEAN,
                  val : Values \cup {NoValue}] : r.found <=> r.val # NoValue}
Results == [code : {-1, 0, 1}, val : Values \cup {NoValue} \cup
                                     {Copied(v) : v \in Values}]

(* The types of the variables of KVClient.                                 *)
ApiTypes ==
    /\ pos \in 0..Len(ServerList) + 1 /\ tries \in 0..RetryCount
    /\ count \in 0..MaxCalls /\ result \in Results
    /\ call # NoCall => call \in CallRecord /\ call.id <= count
    /\ leader \in Servers \cup {NoServer}
    /\ store \in [Keys -> Values \cup {NoValue}] /\ reply \in Replies
    /\ \A r \in net : /\ r.to \in Servers /\ r.call \in CallRecord
                      /\ r.call.id <= count

(* Where the thread is, against the call it runs.                          *)
Control ==
    /\ Asking => pos \in 1..Len(ServerList)
    /\ pc = "pick" => pos \in 1..Len(ServerList) + 1
    /\ pc \in {"send", "wait"} \/ Retrying => call # NoCall
    /\ pc \in {"send", "wait"} /\ call.op = "put" => tries >= 1
    /\ pc \in {"idle", "pick"} \/ Asking => call = NoCall
    /\ pc \in Destroying /\ after = "idle" => call = NoCall
    /\ pc \in Building => after # "idle"
    /\ reply # NoReply => pc = "wait"

Inv == Types /\ Roles /\ ready \in BOOLEAN /\ ApiTypes /\ Control

USE RPCAssumption DEF rpc, api, cluster, vars
-----------------------------------------------------------------------------
(* What an assignment to a field of a slot does to the objects: new are    *)
(* the objects afterwards.                                                 *)

(* Everything but slot n of object o stays.                                *)
Touches(new, o, n) ==
    /\ new \in [Objects -> Object]
    /\ \A p \in Objects : p # o => new[p] = objs[p]
    /\ new[o].addr = objs[o].addr /\ new[o].freed = objs[o].freed
    /\ Len(new[o].slots) = Len(objs[o].slots)
    /\ \A j \in 1..Len(objs[o].slots) :
          j # n => new[o].slots[j] = objs[o].slots[j]

(* One element of a sequence is replaced.                                  *)
LEMMA ReplaceSlot ==
    ASSUME NEW s \in Seq(Slot), NEW n, NEW e, n \in 1..Len(s) => e \in Slot,
           NEW t, t = [s EXCEPT ![n] = e]
    PROVE  /\ t \in Seq(Slot) /\ Len(t) = Len(s)
           /\ \A j \in 1..Len(s) : j # n => t[j] = s[j]
           /\ n \in 1..Len(s) => t[n] = e
<1>1. CASE n \in 1..Len(s)
  BY <1>1
<1>2. CASE n \notin 1..Len(s)
  <2>1. DOMAIN s = 1..Len(s)
    OBVIOUS
  <2>2. t = s
    BY <1>2, <2>1
  <2>. QED BY <1>2, <2>2
<1>. QED BY <1>1, <1>2

(* A slot of an object is replaced.                                        *)
LEMMA ReplaceInObject ==
    ASSUME objs \in [Objects -> Object], NEW o \in Objects, NEW n, NEW e,
           n \in 1..Len(objs[o].slots) => e \in Slot,
           NEW new, new = [objs EXCEPT ![o].slots[n] = e]
    PROVE  /\ Touches(new, o, n)
           /\ n \in 1..Len(objs[o].slots) => new[o].slots[n] = e
<1>. DEFINE s == objs[o].slots
            t == [s EXCEPT ![n] = e]
<1>1. objs[o] \in Object /\ s \in Seq(Slot)
  BY DEF Object
<1>2. /\ t \in Seq(Slot) /\ Len(t) = Len(s)
      /\ \A j \in 1..Len(s) : j # n => t[j] = s[j]
      /\ n \in 1..Len(s) => t[n] = e
  BY <1>1, ReplaceSlot, ZenonT(30)
<1>3. new = [objs EXCEPT ![o] = [objs[o] EXCEPT !.slots = t]]
  OBVIOUS
<1>. HIDE DEF t
<1>4. /\ [objs[o] EXCEPT !.slots = t] \in Object
      /\ [objs[o] EXCEPT !.slots = t].slots = t
      /\ [objs[o] EXCEPT !.slots = t].addr = objs[o].addr
      /\ [objs[o] EXCEPT !.slots = t].freed = objs[o].freed
  BY <1>1, <1>2 DEF Object
<1>5. new[o] = [objs[o] EXCEPT !.slots = t]
  BY <1>3
<1>6. /\ new \in [Objects -> Object]
      /\ \A p \in Objects : p # o => new[p] = objs[p]
  BY <1>3, <1>4
<1>. QED BY <1>2, <1>4, <1>5, <1>6 DEF Touches

(* The stub of a slot is assigned.                                         *)
LEMMA SetStub ==
    ASSUME objs \in [Objects -> Object], NEW o \in Objects, NEW n,
           NEW x \in {"unset", "live", "deleted"},
           NEW new, new = [objs EXCEPT ![o].slots[n].stub = x]
    PROVE  /\ Touches(new, o, n)
           /\ n \in 1..Len(objs[o].slots) =>
                 /\ new[o].slots[n].stub = x
                 /\ new[o].slots[n].thread = objs[o].slots[n].thread
<1>. DEFINE e == [objs[o].slots[n] EXCEPT !.stub = x]
<1>1. n \in 1..Len(objs[o].slots) => objs[o].slots[n] \in Slot
  BY DEF Object
<1>2. n \in 1..Len(objs[o].slots) =>
         e \in Slot /\ e.stub = x /\ e.thread = objs[o].slots[n].thread
  BY <1>1 DEF Slot
<1>3. new = [objs EXCEPT ![o].slots[n] = e]
  OBVIOUS
<1>. HIDE DEF e
<1>. QED BY <1>2, <1>3, ReplaceInObject

(* The queue of a slot is shut down.                                       *)
LEMMA SetShut ==
    ASSUME objs \in [Objects -> Object], NEW o \in Objects, NEW n,
           NEW new, new = [objs EXCEPT ![o].slots[n].shut = TRUE]
    PROVE  /\ Touches(new, o, n)
           /\ n \in 1..Len(objs[o].slots) =>
                 /\ new[o].slots[n].stub = objs[o].slots[n].stub
                 /\ new[o].slots[n].thread = objs[o].slots[n].thread
<1>. DEFINE e == [objs[o].slots[n] EXCEPT !.shut = TRUE]
<1>1. n \in 1..Len(objs[o].slots) => objs[o].slots[n] \in Slot
  BY DEF Object
<1>2. n \in 1..Len(objs[o].slots) =>
         /\ e \in Slot /\ e.stub = objs[o].slots[n].stub
         /\ e.thread = objs[o].slots[n].thread
  BY <1>1 DEF Slot
<1>3. new = [objs EXCEPT ![o].slots[n] = e]
  OBVIOUS
<1>. HIDE DEF e
<1>. QED BY <1>2, <1>3, ReplaceInObject

(* The thread of a slot goes on.                                           *)
LEMMA SetThread ==
    ASSUME objs \in [Objects -> Object], NEW o \in Objects, NEW n,
           NEW x \in {"none", "loop", "wait", "ended"},
           NEW new, new = [objs EXCEPT ![o].slots[n].thread = x]
    PROVE  /\ Touches(new, o, n)
           /\ n \in 1..Len(objs[o].slots) =>
                 /\ new[o].slots[n].stub = objs[o].slots[n].stub
                 /\ new[o].slots[n].thread = x
<1>. DEFINE e == [objs[o].slots[n] EXCEPT !.thread = x]
<1>1. n \in 1..Len(objs[o].slots) => objs[o].slots[n] \in Slot
  BY DEF Object
<1>2. n \in 1..Len(objs[o].slots) =>
         /\ e \in Slot /\ e.stub = objs[o].slots[n].stub /\ e.thread = x
  BY <1>1 DEF Slot
<1>3. new = [objs EXCEPT ![o].slots[n] = e]
  OBVIOUS
<1>. HIDE DEF e
<1>. QED BY <1>2, <1>3, ReplaceInObject
-----------------------------------------------------------------------------
(* The steps by what they do to the objects, and that each keeps Roles.    *)

(* Assignments to one slot leave the objects sized.                        *)
LEMMA TouchedStaysSized ==
    ASSUME NEW new, NEW o \in Objects, NEW n, Touches(new, o, n),
           NEW p \in Objects, Sized(objs, p)
    PROVE  Sized(new, p)
BY DEF Touches, Sized

(* An assignment to one slot, in a constructor, a destructor or a          *)
(* completion thread.                                                      *)
LEMMA TouchKeepsRoles ==
    ASSUME Types, Roles, NEW o \in Objects, NEW n, Touches(objs', o, n),
           UNCHANGED <<client, built, dying>>,
           pc' \in Building \cup Destroying \cup Outside, i' \in Nat,
           num' = num, after' = after, async' \in [Async -> Call],
           \/ pc' = pc
           \/ pc \in Building /\ pc' \in Building
           \/ pc \in Destroying /\ pc' \in Destroying
    PROVE  Types' /\ Roles'
<1>1. objs' \in [Objects -> Object]
  BY DEF Touches
<1>2. Types'
  BY <1>1 DEF Types
<1>3. \A p \in Objects : Sized(objs, p) => Sized(objs', p)
  BY TouchedStaysSized
<1>4. /\ client # 0 => client \in Objects
      /\ built # 0 => built \in Objects
      /\ dying # 0 => dying \in Objects
  BY DEF Types, Objects
<1>5. Roles'
  BY <1>3, <1>4 DEF Roles, Building, Destroying, Calling
<1>. QED BY <1>2, <1>5

(* The constructor and the destructor.                                     *)
LEMMA LifetimeKeepsRoles ==
    ASSUME Types, Roles, Lifetime
    PROVE  Types' /\ Roles'
<1>0. /\ client # 0 => client \in Objects
      /\ built # 0 => built \in Objects
      /\ dying # 0 => dying \in Objects
  BY DEF Types, Objects
<1>1. CASE MakeStub
  <2>1. built \in Objects
    BY <1>0, <1>1 DEF MakeStub, Roles, Building
  <2>2. PICK n, o : n = i /\ o = built
    OBVIOUS
  <2>3. objs' = [objs EXCEPT ![o].slots[n].stub = "live"]
    BY <1>1, <2>2 DEF MakeStub
  <2>4. Touches(objs', o, n)
    BY <2>1, <2>2, <2>3, SetStub DEF Types
  <2>. QED BY <1>1, <2>1, <2>2, <2>4, TouchKeepsRoles
           DEF MakeStub, Building, Types
<1>2. CASE StartThread
  <2>1. built \in Objects
    BY <1>0, <1>2 DEF StartThread, Roles, Building
  <2>2. PICK n, o : n = i /\ o = built
    OBVIOUS
  <2>3. objs' = [objs EXCEPT ![o].slots[n].thread = "loop"]
    BY <1>2, <2>2 DEF StartThread
  <2>4. Touches(objs', o, n)
    BY <2>1, <2>2, <2>3, SetThread, ZenonT(30) DEF Types
  <2>5. /\ i' \in Nat /\ pc \in Building /\ pc' \in Building
        /\ UNCHANGED <<num, client, built, dying, after>>
        /\ async' \in [Async -> Call]
    BY <1>2 DEF StartThread, Types, Building
  <2>. QED BY <2>1, <2>2, <2>4, <2>5, TouchKeepsRoles
<1>3. CASE Assign
  <2>1. /\ pc = "stub" /\ client' = built /\ built' = 0 /\ built # 0
        /\ UNCHANGED <<num, objs, async>> /\ StartDestroy(client)
        /\ Sized(objs, built) /\ built # client /\ dying = 0
    BY <1>3 DEF Assign, Roles, Building, Destroying
  <2>2. CASE client = 0
    <3>1. pc' = after /\ after' = "idle" /\ i' = 0 /\ dying' = 0
      BY <2>1, <2>2 DEF StartDestroy
    <3>2. Types'
      BY <2>1, <3>1 DEF Types, Outside
    <3>3. pc' \in {"idle", "ask", "retry"}
      BY <3>1 DEF Types
    <3>. QED BY <2>1, <3>1, <3>2, <3>3
             DEF Roles, Building, Destroying, Calling
  <2>3. CASE client # 0
    <3>1. pc' = "shut" /\ i' = 1 /\ dying' = client /\ after' = after
      BY <2>1, <2>3 DEF StartDestroy
    <3>2. Types'
      BY <2>1, <3>1 DEF Types, Destroying
    <3>. QED BY <2>1, <2>3, <3>1, <3>2
             DEF Roles, Building, Destroying, Calling
  <2>. QED BY <2>2, <2>3
<1>4. CASE ShutQueue
  <2>1. dying \in Objects
    BY <1>0, <1>4 DEF ShutQueue, Roles, Destroying
  <2>2. CASE i <= Len(objs[dying].slots)
    <3>1. PICK n, o : n = i /\ o = dying
      OBVIOUS
    <3>2. objs' = [objs EXCEPT ![o].slots[n].shut = TRUE]
      BY <1>4, <2>2, <3>1 DEF ShutQueue
    <3>3. Touches(objs', o, n)
      BY <2>1, <3>1, <3>2, SetShut DEF Types
    <3>. QED BY <1>4, <2>1, <2>2, <3>1, <3>3, TouchKeepsRoles
             DEF ShutQueue, Destroying, Types
  <2>3. CASE ~(i <= Len(objs[dying].slots))
    BY <1>4, <2>3
       DEF ShutQueue, Types, Roles, Building, Destroying, Outside, Calling
  <2>. QED BY <2>2, <2>3
<1>5. CASE JoinThread
  BY <1>5 DEF JoinThread, Types, Roles, Building, Destroying, Calling
<1>6. CASE DeleteStub
  <2>1. dying \in Objects
    BY <1>0, <1>6 DEF DeleteStub, Roles, Destroying
  <2>2. PICK n, o : n = i /\ o = dying
    OBVIOUS
  <2>3. objs' = [objs EXCEPT ![o].slots[n].stub = "deleted"]
    BY <1>6, <2>2 DEF DeleteStub
  <2>4. Touches(objs', o, n)
    BY <2>1, <2>2, <2>3, SetStub DEF Types
  <2>5. /\ i' \in Nat /\ pc \in Destroying /\ pc' \in Destroying
        /\ UNCHANGED <<num, client, built, dying, after>>
        /\ async' \in [Async -> Call]
    BY <1>6 DEF DeleteStub, Types, Destroying
  <2>. QED BY <2>1, <2>2, <2>4, <2>5, TouchKeepsRoles
<1>7. CASE FreeArrays
  <2>1. /\ pc = "shut" /\ pc' = after /\ after' = "idle" /\ i' = 0
        /\ dying' = 0 /\ UNCHANGED <<num, client, built, async>>
        /\ dying \in Objects /\ dying # client
    BY <1>0, <1>7 DEF FreeArrays, Roles, Destroying
  <2>2. PICK new : objs' = [objs EXCEPT ![dying] = new]
            /\ (new = NoObject \/ new = [objs[dying] EXCEPT !.freed = TRUE])
    BY <1>7 DEF FreeArrays
  <2>3. new \in Object
    <3>1. objs[dying] \in Object
      BY <2>1 DEF Types
    <3>2. [objs[dying] EXCEPT !.freed = TRUE] \in Object
      BY <3>1 DEF Object
    <3>3. NoObject \in Object
      BY DEF NoObject, Object
    <3>. QED BY <2>2, <3>2, <3>3
  <2>4. /\ objs' \in [Objects -> Object]
        /\ client # 0 => objs'[client] = objs[client]
    BY <2>1, <2>2, <2>3, <1>0 DEF Types
  <2>5. Types'
    BY <2>1, <2>4 DEF Types, Outside
  <2>6. pc' \in {"idle", "ask", "retry"}
    BY <2>1 DEF Types
  <2>. QED BY <2>1, <2>4, <2>5, <2>6
           DEF Roles, Sized, Building, Destroying, Calling
<1>. QED BY <1>1, <1>2, <1>3, <1>4, <1>5, <1>6, <1>7 DEF Lifetime

(* A constructor starts: its place was free, so it is no other's.          *)
LEMMA BuildKeepsRoles ==
    ASSUME Types, Roles, pc \in {"pick", "wait"}, NEW s \in Servers,
           NEW then \in {"ask", "retry"}, StartBuild(s, then)
    PROVE  Types' /\ Roles'
<1>1. PICK o \in Objects :
         /\ objs[o] = NoObject
         /\ num' = NumHosts[s] /\ built' = o /\ i' = 1
         /\ objs' = [objs EXCEPT ![o] = [addr |-> s, freed |-> FALSE,
                        slots |-> [j \in 1..NumHosts[s] |-> NewSlot]]]
         /\ pc' = "stub" /\ after' = then
         /\ UNCHANGED <<client, dying, async>>
  BY DEF StartBuild
<1>. DEFINE slots == [j \in 1..NumHosts[s] |-> NewSlot]
            new == [addr |-> s, freed |-> FALSE, slots |-> slots]
<1>2. NumHosts[s] \in Nat \ {0}
  OBVIOUS
<1>3. slots \in Seq(Slot) /\ Len(slots) = NumHosts[s]
  <2>1. NewSlot \in Slot
    BY DEF NewSlot, Slot
  <2>2. slots \in [1..NumHosts[s] -> Slot]
    BY <2>1
  <2>. HIDE DEF slots
  <2>. QED BY <2>2, <1>2
<1>. HIDE DEF slots
<1>4. new \in Object /\ new.addr = s /\ new.slots = slots
  BY <1>3 DEF Object
<1>. HIDE DEF new
<1>5. objs' = [objs EXCEPT ![o] = new]
  BY <1>1 DEF new, slots
<1>6. /\ objs' \in [Objects -> Object] /\ objs'[o] = new
      /\ \A p \in Objects : p # o => objs'[p] = objs[p]
  BY <1>4, <1>5 DEF Types
<1>7. Types'
  BY <1>1, <1>2, <1>6 DEF Types, Objects, Building
<1>8. /\ client # 0 => client \in Objects /\ client # o
      /\ dying = 0 /\ o # 0
  <2>1. client # 0 => client \in Objects
    BY DEF Types, Objects
  <2>2. client # 0 => Len(objs[client].slots) # 0
    BY DEF Roles, Sized
  <2>3. Len(objs[o].slots) = 0
    BY <1>1 DEF NoObject
  <2>. QED BY <2>1, <2>2, <2>3 DEF Objects, Roles, Destroying
<1>9. Sized(objs', o)
  BY <1>3, <1>4, <1>6 DEF Sized
<1>10. client # 0 => Sized(objs', client)
  BY <1>6, <1>8 DEF Roles, Sized
<1>. QED BY <1>1, <1>7, <1>8, <1>9, <1>10
         DEF Roles, Building, Destroying, Calling

(* The thread goes on elsewhere.                                           *)
LEMMA GotoKeepsRoles ==
    ASSUME Types, Roles, pc \in Outside \ {"dead"}, NEW l \in Outside,
           Goto(l), l \in Calling => client # 0
    PROVE  Types' /\ Roles'
<1>1. pc' = l /\ UNCHANGED <<num, objs, client, i, built, dying, after, async>>
  BY DEF Goto
<1>2. built = 0 /\ dying = 0
  BY DEF Roles, Outside, Building, Destroying
<1>3. l \notin Building /\ l \notin Destroying
  BY DEF Outside, Building, Destroying
<1>. QED BY <1>1, <1>2, <1>3 DEF Types, Roles

(* kv_client = nullptr.                                                    *)
LEMMA ReleaseKeepsRoles ==
    ASSUME Types, Roles, pc = "idle", client # 0, Release
    PROVE  Types' /\ Roles'
BY DEF Types, Roles, Release, Building, Destroying, Calling

(* The completion threads.                                                 *)
LEMMA CompletionKeepsRoles ==
    ASSUME Types, Roles, NEW o \in Objects, NEW j, Completion(o, j)
    PROVE  Types' /\ Roles'
<1>1. /\ \/ objs' = [objs EXCEPT ![o].slots[j].thread = "wait"]
         \/ objs' = [objs EXCEPT ![o].slots[j].thread = "loop"]
         \/ objs' = [objs EXCEPT ![o].slots[j].thread = "ended"]
      /\ UNCHANGED <<num, client, pc, i, built, dying, after>>
  BY DEF Completion, EnterNext, LeaveLoop, TakeEvent, Thread
<1>2. Touches(objs', o, j)
  <2>1. PICK new : new = objs'
    OBVIOUS
  <2>2. objs \in [Objects -> Object]
    BY DEF Types
  <2>3. Touches(new, o, j)
    <3>1. CASE new = [objs EXCEPT ![o].slots[j].thread = "wait"]
      BY <2>2, <3>1, SetThread, ZenonT(30)
    <3>2. CASE new = [objs EXCEPT ![o].slots[j].thread = "loop"]
      BY <2>2, <3>2, SetThread, ZenonT(30)
    <3>3. CASE new = [objs EXCEPT ![o].slots[j].thread = "ended"]
      BY <2>2, <3>3, SetThread, ZenonT(30)
    <3>. QED BY <1>1, <2>1, <3>1, <3>2, <3>3
  <2>. QED BY <2>1, <2>3
<1>3. async' \in [Async -> Call]
  <2>1. CASE async' = async
    BY <2>1 DEF Types
  <2>2. ASSUME NEW c \in Async, TakeEvent(o, j, c)
        PROVE  async' \in [Async -> Call]
    <3>1. async[c] \in Call
      BY DEF Types
    <3>2. async' = [async EXCEPT ![c].st =
                       IF @ = "ok" THEN "freed" ELSE "leaked"]
      BY <2>2 DEF TakeEvent
    <3>. QED BY <3>1, <3>2 DEF Types, Call
  <2>. QED BY <2>1, <2>2 DEF Completion, EnterNext, LeaveLoop
<1>4. pc' \in Building \cup Destroying \cup Outside /\ i' \in Nat
  BY <1>1 DEF Types
<1>. QED BY <1>1, <1>2, <1>3, <1>4, TouchKeepsRoles

(* Asynchronous calls are sent and answered.                               *)
LEMMA AsyncKeepsRoles ==
    ASSUME Types, Roles, NEW c \in Async,
           \/ \E j \in SlotIds : SendAsync(c, j)
           \/ \E st \in {"ok", "failed"} : CompleteAsync(c, st)
    PROVE  Types' /\ Roles'
<1>1. async[c] \in Call /\ async \in [Async -> Call]
  BY DEF Types
<1>2. async' \in [Async -> Call]
  <2>1. ASSUME NEW j \in SlotIds, SendAsync(c, j)
        PROVE  async' \in [Async -> Call]
    <3>1. j \in Nat
      BY DEF SlotIds
    <3>2. async' = [async EXCEPT ![c] =
                       [st |-> "open", obj |-> client, slot |-> j]]
      BY <2>1 DEF SendAsync
    <3>. QED BY <1>1, <3>1, <3>2 DEF Types, Call
  <2>2. ASSUME NEW st \in {"ok", "failed"}, CompleteAsync(c, st)
        PROVE  async' \in [Async -> Call]
    BY <1>1, <2>2 DEF CompleteAsync, Call
  <2>. QED BY <2>1, <2>2
<1>3. UNCHANGED <<num, objs, client, pc, i, built, dying, after>>
  BY DEF SendAsync, CompleteAsync
<1>. QED BY <1>2, <1>3 DEF Types, Roles
-----------------------------------------------------------------------------
(* The calls.                                                              *)

(* The initial states have the invariant.                                  *)
LEMMA InitInv == Init => Inv
<1>. SUFFICES ASSUME Init PROVE Inv
  OBVIOUS
<1>1. /\ num = 0 /\ objs = [o \in Objects |-> NoObject] /\ client = 0
      /\ pc = "idle" /\ i = 0 /\ built = 0 /\ dying = 0 /\ after = "idle"
      /\ async = [c \in Async |-> [st |-> "unused", obj |-> 0, slot |-> 0]]
  BY DEF Init, RPCInit
<1>2. NoObject \in Object
  BY DEF NoObject, Object
<1>3. objs \in [Objects -> Object]
  BY <1>1, <1>2
<1>4. Types
  <2>1. async \in [Async -> Call]
    BY <1>1 DEF Call
  <2>. QED BY <1>1, <1>3, <2>1 DEF Types, Outside
<1>5. Roles
  BY <1>1 DEF Roles, Building, Destroying, Calling
<1>6. ready \in BOOLEAN
  <2>1. ready = FALSE
    BY DEF Init
  <2>. QED BY <2>1, Zenon
<1>7. ApiTypes
  <2>1. result \in Results
    BY DEF Init, NoResult, Results
  <2>2. reply \in Replies
    BY DEF Init, Replies
  <2>3. /\ pos = 0 /\ call = NoCall /\ tries = 0 /\ count = 0
        /\ leader \in Servers /\ store = [k \in Keys |-> NoValue] /\ net = {}
    BY DEF Init
  <2>4. Len(ServerList) \in Nat /\ MaxCalls \in Nat
    BY KVAssumption
  <2>5. store \in [Keys -> Values \cup {NoValue}]
    BY <2>3
  <2>. QED BY <2>1, <2>2, <2>3, <2>4, <2>5 DEF ApiTypes, RetryCount
<1>8. Control
  BY <1>1
     DEF Init, Control, Asking, Retrying, Building, Destroying
<1>. QED BY <1>4, <1>5, <1>6, <1>7, <1>8 DEF Inv

(* A step inside a constructor or a destructor, or past its end, leaves    *)
(* the thread with the same work to do.                                    *)
LEMMA LifetimeKeepsControl ==
    ASSUME Types, Control, Lifetime, UNCHANGED <<api, cluster>>
    PROVE  Control'
<1>1. UNCHANGED <<pos, call, tries, reply>>
  OBVIOUS
<1>2. /\ pc \in Building \cup Destroying /\ reply = NoReply
  BY DEF Lifetime, MakeStub, StartThread, Assign, ShutQueue, JoinThread,
         DeleteStub, FreeArrays, Control, Building, Destroying
<1>3. \/ pc' \in Building /\ pc \in Building /\ after' = after
      \/ pc' \in Destroying /\ after' = after
      \/ pc' = after /\ after' = "idle"
      \/ pc' = "dead"
  BY DEF Lifetime, MakeStub, StartThread, Assign, StartDestroy, ShutQueue,
         JoinThread, DeleteStub, FreeArrays, Building, Destroying
<1>4. after \in {"idle", "ask", "retry"}
  BY DEF Types
<1>. QED BY <1>1, <1>2, <1>3, <1>4
         DEF Control, Asking, Retrying, Building, Destroying

(* Every step keeps the objects' types and roles.                          *)
LEMMA NextKeepsRoles ==
    ASSUME Inv, Next
    PROVE  Types' /\ Roles'
<1>0. Types /\ Roles /\ ApiTypes /\ Control
  BY DEF Inv
<1>1. ASSUME UNCHANGED rpc PROVE Types' /\ Roles'
  BY <1>0, <1>1 DEF Types, Roles
<1>2. ASSUME NEW l \in Outside \ Calling, Goto(l), pc \in Outside \ {"dead"}
      PROVE  Types' /\ Roles'
  BY <1>0, <1>2, GotoKeepsRoles
<1>3. ASSUME NEW l \in Outside, Goto(l), pc \in Outside \ {"dead"}, client # 0
      PROVE  Types' /\ Roles'
  BY <1>0, <1>3, GotoKeepsRoles
<1>4. /\ "idle" \in Outside \ Calling /\ "pick" \in Outside \ Calling
      /\ "dead" \in Outside \ Calling
      /\ \A l \in Calling : l \in Outside \ {"dead"}
      /\ "send" \in Calling /\ "wait" \in Calling
  BY DEF Outside, Calling
<1>5. pc \in Calling => client # 0
  BY <1>0 DEF Roles
<1>6. CASE ClientStep
  <2>1. CASE Lifetime
    BY <1>0, <2>1, LifetimeKeepsRoles
  <2>2. CASE PickServer
    <3>1. ServerList[pos] \in Servers
      BY <1>0, <2>2, KVAssumption DEF PickServer, Control
    <3>2. PICK s \in Servers : s = ServerList[pos]
      BY <3>1
    <3>3. pc = "pick" /\ StartBuild(s, "ask")
      BY <2>2, <3>2 DEF PickServer
    <3>. QED BY <1>0, <3>3, BuildKeepsRoles
  <2>3. CASE FollowRedirect
    <3>1. reply.to \in Servers
      BY <1>0, <2>3 DEF FollowRedirect, ApiTypes, Replies, NoReply
    <3>2. PICK s \in Servers : s = reply.to
      BY <3>1
    <3>3. pc = "wait" /\ StartBuild(s, "retry")
      BY <2>3, <3>2 DEF FollowRedirect
    <3>. QED BY <1>0, <3>3, BuildKeepsRoles
  <2>4. CASE LeaderFound \/ NotLeader \/ InitFails
    <3>1. pc \in Outside \ {"dead"} /\ (Goto("idle") \/ Goto("pick"))
      BY <2>4 DEF LeaderFound, NotLeader, InitFails, Outside
    <3>. QED BY <3>1, <1>2, <1>4
  <2>5. CASE SendRequest
    <3>1. pc \in Calling /\ Goto("wait")
      BY <2>5 DEF SendRequest, Calling
    <3>. QED BY <3>1, <1>3, <1>4, <1>5
  <2>6. CASE Receive \/ RequestFails \/ GetRedirected
    <3>1. pc \in Outside \ {"dead"} /\ Goto("idle")
      BY <2>6 DEF Receive, RequestFails, GetRedirected, Finish, Outside
    <3>. QED BY <3>1, <1>2, <1>4
  <2>7. CASE Retry
    <3>1. pc \in Calling /\ (Goto("send") \/ Goto("idle"))
      BY <2>7 DEF Retry, Finish, Calling
    <3>. QED BY <3>1, <1>3, <1>4, <1>5
  <2>. QED BY <1>6, <2>1, <2>2, <2>3, <2>4, <2>5, <2>6, <2>7 DEF ClientStep
<1>7. CASE Application
  <2>1. CASE Shutdown
    BY <1>0, <2>1, ReleaseKeepsRoles DEF Shutdown
  <2>2. CASE \E k \in Keys : Get(k) \/ \E v \in Values : Put(k, v)
    <3>1. pc = "idle" /\ client # 0 /\ Goto("send")
      BY <2>2 DEF Get, Put, Begin
    <3>2. "send" \in Outside /\ pc \in Outside \ {"dead"}
      BY <3>1 DEF Outside
    <3>. QED BY <3>1, <3>2, <1>3
  <2>3. CASE \E c \in Async, j \in SlotIds : SendAsync(c, j)
    BY <1>0, <2>3, AsyncKeepsRoles
  <2>4. CASE \/ CallInit \/ ShutdownNothing \/ ShutdownFails \/ NullCall
             \/ NullArgument
             \/ \E s \in Servers, code \in {-1, 0} : Die(s, code)
    <3>1. pc = "idle" /\ (Goto("pick") \/ Goto("idle") \/ Goto("dead"))
      BY <2>4 DEF CallInit, ShutdownNothing, ShutdownFails, NullCall,
                  NullArgument, Die
    <3>2. pc \in Outside \ {"dead"}
      BY <3>1 DEF Outside
    <3>. QED BY <3>1, <3>2, <1>2, <1>4
  <2>. QED BY <1>7, <2>1, <2>2, <2>3, <2>4 DEF Application
<1>8. CASE \E o \in Objects, j \in SlotIds : CompletionThread(o, j)
  BY <1>0, <1>8, CompletionKeepsRoles DEF CompletionThread
<1>9. CASE \E c \in Async, st \in {"ok", "failed"} : AsyncAnswer(c, st)
  BY <1>0, <1>9, AsyncKeepsRoles DEF AsyncAnswer
<1>10. CASE \E r \in net :
               Execute(r) \/ Lose(r) \/ \E s \in Servers : Redirect(r, s)
  BY <1>10, <1>1 DEF Execute, Lose, Redirect, Deliver
<1>11. CASE Change
  BY <1>11, <1>1 DEF Change
<1>. QED BY <1>6, <1>7, <1>8, <1>9, <1>10, <1>11 DEF Next

(* A step that changes nothing of the call or of the servers.              *)
LEMMA QuietKeepsTypes ==
    ASSUME ApiTypes, UNCHANGED <<api, cluster>>
    PROVE  ApiTypes'
BY DEF ApiTypes

(* A call returns.                                                         *)
LEMMA FinishKeepsCalls ==
    ASSUME ApiTypes, Control, pc \in {"wait", "retry"},
           NEW code, NEW val, Finish(code, val),
           [code |-> code, val |-> val] \in Results,
           \A r \in net' : r \in net
    PROVE  ApiTypes' /\ Control'
<1>1. /\ pc' = "idle" /\ call' = NoCall /\ tries' = 0 /\ reply' = NoReply
      /\ UNCHANGED <<pos, count, leader, store>>
  BY DEF Finish, Goto
<1>2. result' \in Results
  BY DEF Finish, Return
<1>3. NoReply \in Replies /\ 0 \in 0..RetryCount
  BY DEF Replies, RetryCount
<1>4. ApiTypes'
  BY <1>1, <1>2, <1>3 DEF ApiTypes
<1>5. Control'
  BY <1>1 DEF Control, Asking, Retrying, Building, Destroying
<1>. QED BY <1>4, <1>5

(* A server or the network takes a request.                                *)
LEMMA DeliverKeepsCalls ==
    ASSUME ApiTypes, Control, NEW r \in net, NEW answer \in Replies,
           Deliver(r, answer), store' \in [Keys -> Values \cup {NoValue}]
    PROVE  ApiTypes' /\ Control'
<1>1. /\ UNCHANGED <<pc, after, pos, call, tries, result, count, leader>>
      /\ net' = net \ {r}
      /\ reply' = IF Waiting(r) THEN answer ELSE reply
  BY DEF Deliver
<1>2. reply' \in Replies
  BY <1>1 DEF ApiTypes
<1>3. reply' # reply => pc = "wait"
  BY <1>1 DEF Waiting
<1>4. ApiTypes'
  BY <1>1, <1>2 DEF ApiTypes
<1>5. Control'
  BY <1>1, <1>3 DEF Control, Asking, Retrying
<1>. QED BY <1>4, <1>5

(* A call that is no get or put returns, or an init goes on.               *)
LEMMA OtherKeepsCalls ==
    ASSUME ApiTypes, Control, pc \in {"idle", "ask", "pick"},
           NEW l \in {"idle", "pick", "dead"}, Goto(l),
           result' \in Results, pos' \in 0..Len(ServerList) + 1,
           l = "pick" => pos' \in 1..Len(ServerList) + 1,
           leader' \in Servers \cup {NoServer},
           UNCHANGED <<call, tries, count, store, net, reply>>
    PROVE  ApiTypes' /\ Control'
<1>1. pc' = l
  BY DEF Goto
<1>2. ApiTypes'
  BY DEF ApiTypes
<1>3. Control'
  BY <1>1 DEF Control, Asking, Retrying, Building, Destroying
<1>. QED BY <1>2, <1>3

(* What a call returns is one of the results.                              *)
LEMMA ResultTypes ==
    /\ NoResult \in Results
    /\ \A code \in {-1, 0, 1} : [code |-> code, val |-> NoValue] \in Results
    /\ \A v \in Values : [code |-> 0, val |-> Copied(v)] \in Results
BY DEF NoResult, Results

(* Every step keeps the types of the calls and their control.              *)
LEMMA NextKeepsCalls ==
    ASSUME Inv, Next
    PROVE  ApiTypes' /\ Control'
<1>0. Types /\ Roles /\ ApiTypes /\ Control
  BY DEF Inv
<1>1. ASSUME UNCHANGED <<pc, after>>, UNCHANGED <<api, cluster>>
      PROVE  ApiTypes' /\ Control'
  <2>1. Control'
    BY <1>0, <1>1 DEF Control, Asking, Retrying
  <2>. QED BY <1>0, <1>1, <2>1, QuietKeepsTypes
<1>2. Len(ServerList) \in Nat /\ MaxCalls \in Nat
  BY KVAssumption
<1>3. CASE ClientStep
  <2>1. CASE Lifetime /\ UNCHANGED <<api, cluster>>
    BY <1>0, <2>1, QuietKeepsTypes, LifetimeKeepsControl
  <2>2. CASE PickServer
    <3>1. /\ pc = "pick" /\ pos <= Len(ServerList)
          /\ pc' = "stub" /\ after' = "ask" /\ UNCHANGED <<api, cluster>>
      BY <2>2 DEF PickServer, StartBuild
    <3>2. Control'
      BY <1>0, <1>2, <3>1
         DEF Control, Asking, Retrying, Building, Destroying
    <3>. QED BY <1>0, <3>1, <3>2, QuietKeepsTypes
  <2>3. CASE LeaderFound
    <3>1. /\ pc = "ask" /\ Goto("idle") /\ pos' = 0
          /\ result' = [code |-> 0, val |-> NoValue]
          /\ UNCHANGED <<call, tries, count, leader, store, net, reply>>
      BY <2>3 DEF LeaderFound, Return
    <3>. QED BY <1>0, <1>2, <3>1, ResultTypes, OtherKeepsCalls DEF ApiTypes
  <2>4. CASE NotLeader
    <3>1. /\ pc = "ask" /\ Goto("pick") /\ pos' = pos + 1
          /\ UNCHANGED <<call, tries, result, count, leader, store, net>>
          /\ reply' = reply
      BY <2>4 DEF NotLeader
    <3>2. pos \in 1..Len(ServerList)
      BY <1>0, <3>1 DEF Control, Asking
    <3>3. pos' \in 1..Len(ServerList) + 1 /\ pos' \in 0..Len(ServerList) + 1
      BY <1>2, <3>1, <3>2
    <3>. QED BY <1>0, <3>1, <3>3, OtherKeepsCalls DEF ApiTypes
  <2>5. CASE InitFails
    <3>1. /\ pc = "pick" /\ Goto("idle") /\ pos' = 0
          /\ result' = [code |-> -1, val |-> NoValue]
          /\ UNCHANGED <<call, tries, count, leader, store, net, reply>>
      BY <2>5 DEF InitFails, Return
    <3>. QED BY <1>0, <1>2, <3>1, ResultTypes, OtherKeepsCalls DEF ApiTypes
  <2>6. CASE SendRequest
    <3>1. /\ pc = "send" /\ pc' = "wait" /\ UNCHANGED after
          /\ net' = net \cup {[call |-> call, to |-> Address]}
          /\ UNCHANGED <<pos, call, tries, result, count, leader, store>>
          /\ reply' = reply
      BY <2>6 DEF SendRequest, Goto
    <3>2. call # NoCall /\ call \in CallRecord /\ call.id <= count
      BY <1>0, <3>1 DEF Control, ApiTypes
    <3>3. Address \in Servers
      BY <1>0, <3>1 DEF Address, Roles, Calling, Sized
    <3>4. ApiTypes'
      BY <1>0, <3>1, <3>2, <3>3 DEF ApiTypes
    <3>5. Control'
      BY <1>0, <3>1, <3>2
         DEF Control, Asking, Retrying, Building, Destroying
    <3>. QED BY <3>4, <3>5
  <2>7. CASE Receive
    <3>1. /\ pc = "wait" /\ reply.kind = "done" /\ net' = net
          /\ IF reply.found THEN Finish(0, Copied(reply.val))
             ELSE Finish(1, NoValue)
      BY <2>7 DEF Receive
    <3>2. reply.found => reply.val \in Values
      BY <1>0, <3>1 DEF ApiTypes, Replies, NoReply
    <3>3. CASE reply.found
      BY <1>0, <3>1, <3>2, <3>3, ResultTypes, FinishKeepsCalls
    <3>4. CASE ~reply.found
      BY <1>0, <3>1, <3>4, ResultTypes, FinishKeepsCalls
    <3>. QED BY <3>3, <3>4
  <2>8. CASE RequestFails \/ GetRedirected
    <3>1. /\ pc = "wait" /\ Finish(-1, NoValue) /\ \A r \in net' : r \in net
      BY <2>8 DEF RequestFails, GetRedirected
    <3>. QED BY <1>0, <3>1, ResultTypes, FinishKeepsCalls
  <2>9. CASE FollowRedirect
    <3>1. /\ pc = "wait" /\ reply.kind = "redirect" /\ call.op = "put"
          /\ pc' = "stub" /\ after' = "retry"
          /\ tries' = tries - 1 /\ reply' = NoReply
          /\ UNCHANGED <<pos, call, result, count, leader, store, net>>
      BY <2>9 DEF FollowRedirect, StartBuild
    <3>2. tries \in 1..RetryCount /\ call # NoCall
      BY <1>0, <3>1 DEF Control, ApiTypes, RetryCount
    <3>3. tries' \in 0..RetryCount /\ NoReply \in Replies
      BY <3>1, <3>2 DEF RetryCount, Replies
    <3>4. ApiTypes'
      BY <1>0, <3>1, <3>3 DEF ApiTypes
    <3>5. Control'
      BY <3>1, <3>2 DEF Control, Asking, Retrying, Building, Destroying
    <3>. QED BY <3>4, <3>5
  <2>10. CASE Retry
    <3>1. CASE tries > 0
      <4>1. /\ pc = "retry" /\ pc' = "send" /\ UNCHANGED <<api, cluster>>
        BY <2>10, <3>1 DEF Retry, Goto
      <4>2. Control'
        BY <1>0, <3>1, <4>1
           DEF Control, ApiTypes, Asking, Retrying, Building, Destroying
      <4>. QED BY <1>0, <4>1, <4>2, QuietKeepsTypes
    <3>2. CASE ~(tries > 0)
      <4>1. pc = "retry" /\ Finish(-1, NoValue) /\ net' = net
        BY <2>10, <3>2 DEF Retry
      <4>. QED BY <1>0, <4>1, ResultTypes, FinishKeepsCalls
    <3>. QED BY <3>1, <3>2
  <2>. QED BY <1>3, <2>1, <2>2, <2>3, <2>4, <2>5, <2>6, <2>7, <2>8, <2>9,
              <2>10 DEF ClientStep
<1>4. CASE Application
  <2>1. CASE CallInit
    <3>1. /\ pc = "idle" /\ Goto("pick") /\ pos' = 1
          /\ result' = NoResult
          /\ UNCHANGED <<call, tries, count, leader, store, net, reply>>
      BY <2>1 DEF CallInit
    <3>. QED BY <1>0, <1>2, <3>1, ResultTypes, OtherKeepsCalls DEF ApiTypes
  <2>2. CASE ShutdownNothing \/ ShutdownFails \/ NullArgument
    <3>1. /\ pc = "idle" /\ Goto("idle") /\ pos' = pos
          /\ \E code \in {-1, 0, 1} :
                result' = [code |-> code, val |-> NoValue]
          /\ UNCHANGED <<call, tries, count, leader, store, net, reply>>
      BY <2>2 DEF ShutdownNothing, ShutdownFails, NullArgument, Return
    <3>. QED BY <1>0, <3>1, ResultTypes, OtherKeepsCalls DEF ApiTypes
  <2>3. CASE Shutdown
    <3>1. /\ pc = "idle" /\ pc' = "shut" /\ after' = "idle" /\ pos' = pos
          /\ result' = [code |-> 0, val |-> NoValue]
          /\ UNCHANGED <<call, tries, count, leader, store, net, reply>>
      BY <2>3 DEF Shutdown, Return, Release
    <3>2. ApiTypes'
      BY <1>0, <3>1, ResultTypes DEF ApiTypes
    <3>3. Control'
      BY <1>0, <3>1 DEF Control, Asking, Retrying, Building, Destroying
    <3>. QED BY <3>2, <3>3
  <2>4. CASE NullCall
    <3>1. /\ pc = "idle" /\ Goto("dead") /\ UNCHANGED <<api, cluster>>
      BY <2>4 DEF NullCall
    <3>. QED BY <1>0, <3>1, OtherKeepsCalls DEF ApiTypes
  <2>5. ASSUME NEW s \in Servers, NEW code \in {-1, 0}, Die(s, code)
        PROVE  ApiTypes' /\ Control'
    <3>1. /\ pc = "idle" /\ Goto("idle") /\ pos' = pos
          /\ result' = [code |-> code, val |-> NoValue]
          /\ leader' \in {leader, NoServer}
          /\ UNCHANGED <<call, tries, count, store, net, reply>>
      BY <2>5 DEF Die, Return
    <3>. QED BY <1>0, <3>1, ResultTypes, OtherKeepsCalls DEF ApiTypes
  <2>6. ASSUME NEW op, NEW k \in Keys, NEW v, NEW n \in 0..RetryCount,
               Begin(op, k, v, n),
               \/ op = "get" /\ v = NoValue
               \/ op = "put" /\ v \in Values /\ n >= 1
        PROVE  ApiTypes' /\ Control'
    <3>1. /\ pc = "idle" /\ pc' = "send" /\ count < MaxCalls
          /\ call' = [id |-> count + 1, op |-> op, key |-> k, val |-> v]
          /\ count' = count + 1 /\ tries' = n
          /\ result' = NoResult
          /\ UNCHANGED <<pos, after, leader, store, net, reply>>
      BY <2>6 DEF Begin, Goto
    <3>2. count \in 0..MaxCalls
      BY <1>0 DEF ApiTypes
    <3>3. /\ call' \in CallRecord /\ call'.id = count' /\ call' # NoCall
          /\ call'.op = op /\ count' \in 0..MaxCalls
      BY <1>2, <2>6, <3>1, <3>2 DEF CallRecord, NoCall
    <3>4. ApiTypes'
      <4>1. \A r \in net' : /\ r.to \in Servers /\ r.call \in CallRecord
                            /\ r.call.id <= count'
        <5>. SUFFICES ASSUME NEW r \in net
                      PROVE  /\ r.to \in Servers /\ r.call \in CallRecord
                             /\ r.call.id <= count'
          BY <3>1
        <5>1. /\ r.to \in Servers /\ r.call \in CallRecord
              /\ r.call.id <= count
          BY <1>0 DEF ApiTypes
        <5>2. r.call.id \in 1..MaxCalls
          BY <5>1 DEF CallRecord
        <5>. QED BY <5>1, <5>2, <3>1, <3>2, <1>2
      <4>. QED BY <1>0, <1>2, <3>1, <3>2, <3>3, <4>1, ResultTypes
               DEF ApiTypes
    <3>5. Control'
      BY <1>0, <2>6, <3>1, <3>3
         DEF Control, Asking, Retrying, Building, Destroying
    <3>. QED BY <3>4, <3>5
  <2>7. ASSUME NEW k \in Keys, Get(k) PROVE ApiTypes' /\ Control'
    BY <2>6, <2>7 DEF Get, RetryCount
  <2>8. ASSUME NEW k \in Keys, NEW v \in Values, Put(k, v)
        PROVE  ApiTypes' /\ Control'
    <3>1. RetryCount \in 0..RetryCount /\ RetryCount >= 1
      BY DEF RetryCount
    <3>2. Begin("put", k, v, RetryCount)
      BY <2>8 DEF Put
    <3>. QED BY <2>6, <3>1, <3>2
  <2>9. ASSUME NEW c \in Async, NEW j \in SlotIds,
               SendAsync(c, j), UNCHANGED <<api, cluster>>
        PROVE  ApiTypes' /\ Control'
    BY <1>1, <2>9 DEF SendAsync
  <2>. QED BY <1>4, <2>1, <2>2, <2>3, <2>4, <2>5, <2>7, <2>8, <2>9
           DEF Application
<1>5. ASSUME NEW o \in Objects, NEW j \in SlotIds, CompletionThread(o, j)
      PROVE  ApiTypes' /\ Control'
  BY <1>1, <1>5 DEF CompletionThread, Completion, EnterNext, LeaveLoop,
                    TakeEvent, Thread
<1>6. ASSUME NEW c \in Async, NEW st \in {"ok", "failed"}, AsyncAnswer(c, st)
      PROVE  ApiTypes' /\ Control'
  BY <1>1, <1>6 DEF AsyncAnswer, CompleteAsync
<1>7. ASSUME NEW r \in net, Execute(r)
      PROVE  ApiTypes' /\ Control'
  <2>1. r.call \in CallRecord
    BY <1>0 DEF ApiTypes
  <2>2. /\ r.call.key \in Keys
        /\ r.call.op = "put" => r.call.val \in Values
    BY <2>1 DEF CallRecord
  <2>. DEFINE old == store[r.call.key]
              answer == [kind |-> "done", found |-> old # NoValue, val |-> old]
  <2>3. old \in Values \cup {NoValue}
    BY <1>0, <2>2 DEF ApiTypes
  <2>4. answer \in Replies
    BY <2>3 DEF Replies
  <2>5. store' \in [Keys -> Values \cup {NoValue}]
    BY <1>0, <1>7, <2>2 DEF Execute, ApiTypes
  <2>6. Deliver(r, answer)
    BY <1>7 DEF Execute
  <2>. HIDE DEF answer
  <2>. QED BY <1>0, <2>4, <2>5, <2>6, DeliverKeepsCalls
<1>8. ASSUME NEW r \in net, Lose(r)
      PROVE  ApiTypes' /\ Control'
  BY <1>0, <1>8, DeliverKeepsCalls DEF Lose, Replies, ApiTypes
<1>9. ASSUME NEW r \in net, NEW s \in Servers, Redirect(r, s)
      PROVE  ApiTypes' /\ Control'
  <2>1. PICK answer : answer = [kind |-> "redirect", to |-> s]
    OBVIOUS
  <2>2. answer \in Replies
    BY <2>1 DEF Replies
  <2>3. Deliver(r, answer) /\ store' = store
    BY <1>9, <2>1 DEF Redirect
  <2>. QED BY <1>0, <2>2, <2>3, DeliverKeepsCalls DEF ApiTypes
<1>10. CASE Change
  BY <1>0, <1>10 DEF Change, ApiTypes, Control, Asking, Retrying
<1>. QED BY <1>3, <1>4, <1>5, <1>6, <1>7, <1>8, <1>9, <1>10 DEF Next

(* ready is a Boolean.                                                     *)
LEMMA NextKeepsReady ==
    ASSUME ready \in BOOLEAN, Next
    PROVE  ready' \in BOOLEAN
<1>1. ready' = ready \/ ready' = TRUE \/ ready' = FALSE
  BY DEF Next, ClientStep, PickServer, LeaderFound, NotLeader, InitFails,
         SendRequest, Receive, RequestFails, FollowRedirect, Retry,
         GetRedirected, Finish, Application, CallInit, ShutdownNothing,
         Shutdown, ShutdownFails, NullCall, NullArgument, Die, Get, Put,
         Begin, CompletionThread, Execute, Lose, Redirect, Deliver,
         AsyncAnswer, Change
<1>. QED BY <1>1, Zenon

(* Inv holds in every behaviour.                                           *)
THEOREM Invariance == Spec => []Inv
<1>1. Init => Inv
  BY InitInv
<1>2. Inv /\ [Next]_vars => Inv'
  <2>. SUFFICES ASSUME Inv, [Next]_vars PROVE Inv'
    OBVIOUS
  <2>1. CASE Next
    BY <2>1, NextKeepsRoles, NextKeepsCalls, NextKeepsReady DEF Inv
  <2>2. CASE UNCHANGED vars
    <3>1. UNCHANGED rpc /\ UNCHANGED <<pos, call, tries, result, count>>
          /\ UNCHANGED cluster
      BY <2>2
    <3>2. ready' = ready
      BY <2>2
    <3>3. Types' /\ Roles' /\ ApiTypes' /\ Control'
      BY <3>1 DEF Inv, Types, Roles, ApiTypes, Control, Asking, Retrying
    <3>4. ready' \in BOOLEAN
      BY <3>2 DEF Inv
    <3>. QED BY <3>3, <3>4 DEF Inv
  <2>. QED BY <2>1, <2>2
<1>. QED BY <1>1, <1>2, PTL DEF Spec

(* Every variable of the client keeps its type, for any servers, hosts,    *)
(* objects, keys and values: a retry never takes retry_count below zero,   *)
(* a server list position is never read past the end, and a request is     *)
(* never sent to anything but a server.                                    *)
THEOREM TypeCorrect == Spec => []TypeOK
<1>1. Inv => TypeOK
  <2>. SUFFICES ASSUME Inv PROVE TypeOK
    OBVIOUS
  <2>1. ready \in BOOLEAN
    BY DEF Inv
  <2>2. RPCTypeOK
    BY DEF Inv, Types, RPCTypeOK, Object
  <2>3. /\ pc \in {"idle", "stub", "spawn", "shut", "join", "delete", "pick",
                   "ask", "send", "wait", "retry", "dead"}
        /\ pos \in 0..Len(ServerList) + 1 /\ tries \in 0..RetryCount
        /\ count \in 0..MaxCalls /\ result \in Results
        /\ leader \in Servers \cup {NoServer}
        /\ store \in [Keys -> Values \cup {NoValue}]
    BY DEF Inv, Types, ApiTypes, Building, Destroying, Outside
  <2>4. \A r \in net : r.to \in Servers /\ r.call.id \in 1..count
    <3>. SUFFICES ASSUME NEW r \in net
                  PROVE  r.to \in Servers /\ r.call.id \in 1..count
      OBVIOUS
    <3>1. r.to \in Servers /\ r.call \in CallRecord /\ r.call.id <= count
      BY DEF Inv, ApiTypes
    <3>2. r.call.id \in 1..MaxCalls
      BY <3>1 DEF CallRecord
    <3>. QED BY <2>3, <3>1, <3>2, KVAssumption
  <2>. QED BY <2>1, <2>2, <2>3, <2>4 DEF TypeOK, Results
<1>. QED BY <1>1, Invariance, PTL
=============================================================================
