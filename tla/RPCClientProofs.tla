--------------------------- MODULE RPCClientProofs ---------------------------
(***************************************************************************)
(* Proofs about the lifetime of the client's objects: constructors and     *)
(* destructors that run beside the completion threads.  The destructor     *)
(* counts with the number of hosts of the last object constructed, so what *)
(* is proved supposes that every address has the same number of hosts, as  *)
(* when each is a single one.                                              *)
(***************************************************************************)
EXTENDS KVClientProofs

Uniform == \A s, t \in Servers : NumHosts[s] = NumHosts[t]

(* Host j of object o has its stub, and its thread was started; host j of  *)
(* object o is released.                                                   *)
Serves(o, j) == /\ objs[o].slots[j].stub = "live"
                /\ objs[o].slots[j].thread # "none"
Gone(o, j) == /\ objs[o].slots[j].stub = "deleted"
              /\ objs[o].slots[j].thread = "ended"

(* Every object there is has one of the three roles.                       *)
Owned ==
    \A o \in Objects : objs[o] # NoObject =>
        /\ objs[o].freed = FALSE /\ Len(objs[o].slots) = num
        /\ o \in {client, built, dying}

(* kv_client points to an object that is whole; a constructor has finished *)
(* the hosts before i, a destructor has released them.                     *)
Complete == client # 0 => \A j \in 1..num : Serves(client, j)

UnderConstruction ==
    built # 0 =>
        /\ i \in 1..num + 1
        /\ pc = "spawn" => i <= num /\ objs[built].slots[i].stub = "live"
        /\ \A j \in 1..num : j < i => Serves(built, j)
        /\ \A j \in 1..num : j >= i => objs[built].slots[j].thread = "none"

UnderDestruction ==
    dying # 0 =>
        /\ i \in 1..num + 1
        /\ pc # "shut" => i <= num
        /\ pc = "delete" => objs[dying].slots[i].thread = "ended"
        /\ \A j \in 1..num : j < i => Gone(dying, j)
        /\ \A j \in 1..num : j >= i => Serves(dying, j)

(* The process dies only of a call on a null kv_client.                    *)
Protected == /\ pc = "dead" => dying = 0
             /\ ready = TRUE => client # 0 /\ pc # "dead"

Lives ==
    Owned /\ Complete /\ UnderConstruction /\ UnderDestruction /\ Protected

USE RPCAssumption DEF rpc, api, cluster, vars
-----------------------------------------------------------------------------
(* The objects in a role have num hosts.                                   *)
LEMMA RolesHaveHosts ==
    ASSUME Types, Roles, Owned, NEW o \in {client, built, dying}, o # 0
    PROVE  o \in Objects /\ Len(objs[o].slots) = num /\ num # 0
<1>1. o \in Objects /\ Sized(objs, o)
  BY DEF Types, Roles, Objects
<1>2. Len(objs[o].slots) # 0
  BY <1>1 DEF Sized
<1>3. objs[o] # NoObject
  BY <1>2 DEF NoObject
<1>. QED BY <1>1, <1>2, <1>3 DEF Owned

(* A step that assigns to one slot.                                        *)
LEMMA TouchKeepsOwned ==
    ASSUME Owned, NEW o \in Objects, NEW n \in 1..Len(objs[o].slots),
           objs \in [Objects -> Object],
           Touches(objs', o, n), UNCHANGED <<num, client, built, dying>>
    PROVE  Owned'
<1>. SUFFICES ASSUME NEW p \in Objects, objs'[p] # NoObject
              PROVE  /\ objs'[p].freed = FALSE /\ Len(objs'[p].slots) = num
                     /\ p \in {client, built, dying}
  BY DEF Owned
<1>1. /\ objs'[p].freed = objs[p].freed
      /\ Len(objs'[p].slots) = Len(objs[p].slots)
  BY DEF Touches
<1>2. objs[p] # NoObject
  <2>1. CASE p = o
    <3>1. Len(objs[p].slots) # 0
      BY <2>1 DEF Object
    <3>. QED BY <3>1 DEF NoObject
  <2>2. CASE p # o
    BY <2>2 DEF Touches
  <2>. QED BY <2>1, <2>2
<1>. QED BY <1>1, <1>2 DEF Owned

(* A completion thread takes a turn, or ends.                              *)
LEMMA CompletionKeepsLives ==
    ASSUME Types, Roles, Lives, NEW o \in Objects, NEW n, Completion(o, n)
    PROVE  Owned' /\ Complete' /\ UnderConstruction' /\ UnderDestruction'
<1>0. Owned /\ Complete /\ UnderConstruction /\ UnderDestruction
  BY DEF Lives
<1>1. /\ n \in DOMAIN objs[o].slots
      /\ objs[o].slots[n].thread \in {"loop", "wait"}
      /\ \/ objs' = [objs EXCEPT ![o].slots[n].thread = "wait"]
         \/ objs' = [objs EXCEPT ![o].slots[n].thread = "loop"]
         \/ objs' = [objs EXCEPT ![o].slots[n].thread = "ended"]
      /\ UNCHANGED <<num, client, pc, i, built, dying, after>>
  BY DEF Completion, EnterNext, LeaveLoop, TakeEvent, Thread
<1>2. n \in 1..Len(objs[o].slots)
  BY <1>1 DEF Types, Object
<1>3. /\ Touches(objs', o, n)
      /\ objs'[o].slots[n].stub = objs[o].slots[n].stub
      /\ objs'[o].slots[n].thread \in {"wait", "loop", "ended"}
  <2>1. PICK new : new = objs'
    OBVIOUS
  <2>2. objs \in [Objects -> Object]
    BY DEF Types
  <2>3. Touches(new, o, n)
    <3>1. CASE new = [objs EXCEPT ![o].slots[n].thread = "wait"]
      BY <2>2, <3>1, SetThread, ZenonT(30)
    <3>2. CASE new = [objs EXCEPT ![o].slots[n].thread = "loop"]
      BY <2>2, <3>2, SetThread, ZenonT(30)
    <3>3. CASE new = [objs EXCEPT ![o].slots[n].thread = "ended"]
      BY <2>2, <3>3, SetThread, ZenonT(30)
    <3>. QED BY <1>1, <2>1, <3>1, <3>2, <3>3
  <2>4. \A x \in {"none", "loop", "wait", "ended"} :
           new = [objs EXCEPT ![o].slots[n].thread = x] =>
              /\ new[o].slots[n].stub = objs[o].slots[n].stub
              /\ new[o].slots[n].thread = x
    <3>. TAKE x \in {"none", "loop", "wait", "ended"}
    <3>. HAVE new = [objs EXCEPT ![o].slots[n].thread = x]
    <3>1. n \in 1..Len(objs[o].slots) =>
             /\ new[o].slots[n].stub = objs[o].slots[n].stub
             /\ new[o].slots[n].thread = x
      BY <2>2, SetThread
    <3>. QED BY <1>2, <3>1
  <2>5. /\ new[o].slots[n].stub = objs[o].slots[n].stub
        /\ new[o].slots[n].thread \in {"wait", "loop", "ended"}
    BY <1>1, <2>1, <2>4
  <2>. QED BY <2>1, <2>3, <2>5
<1>4. Owned'
  BY <1>0, <1>1, <1>2, <1>3, TouchKeepsOwned DEF Types
<1>5. \A p \in Objects, j \in 1..num :
         p \in {client, built, dying} =>
            /\ ~(p = o /\ j = n) => objs'[p].slots[j] = objs[p].slots[j]
            /\ Serves(p, j) => Serves(p, j)'
  <2>. SUFFICES ASSUME NEW p \in Objects, NEW j \in 1..num,
                       p \in {client, built, dying}
                PROVE  /\ ~(p = o /\ j = n) =>
                             objs'[p].slots[j] = objs[p].slots[j]
                       /\ Serves(p, j) => Serves(p, j)'
    OBVIOUS
  <2>1. p # 0
    BY DEF Objects
  <2>2. Len(objs[p].slots) = num
    BY <1>0, <2>1, RolesHaveHosts
  <2>3. ~(p = o /\ j = n) => objs'[p].slots[j] = objs[p].slots[j]
    BY <1>3, <2>2 DEF Touches
  <2>4. Serves(p, j) => Serves(p, j)'
    BY <1>3, <2>3 DEF Serves
  <2>. QED BY <2>3, <2>4
<1>6. Complete'
  BY <1>0, <1>1, <1>5, RolesHaveHosts DEF Complete
<1>7. UnderConstruction'
  <2>. SUFFICES ASSUME built # 0 PROVE UnderConstruction'
    BY <1>1 DEF UnderConstruction
  <2>1. built \in Objects /\ Len(objs[built].slots) = num
    BY <1>0, RolesHaveHosts
  <2>2. \A j \in 1..num : j >= i =>
           /\ ~(built = o /\ j = n)
           /\ objs'[built].slots[j] = objs[built].slots[j]
    BY <1>0, <1>1, <1>5, <2>1 DEF UnderConstruction
  <2>3. /\ i \in 1..num + 1 /\ num \in Nat
        /\ \A j \in 1..num : j < i => Serves(built, j)'
    BY <1>0, <1>1, <1>5, <2>1 DEF UnderConstruction, Serves, Types
  <2>. QED BY <1>0, <1>1, <2>2, <2>3 DEF UnderConstruction
<1>8. UnderDestruction'
  <2>. SUFFICES ASSUME dying # 0 PROVE UnderDestruction'
    BY <1>1 DEF UnderDestruction
  <2>1. dying \in Objects /\ Len(objs[dying].slots) = num
    BY <1>0, RolesHaveHosts
  <2>2. /\ i \in 1..num + 1 /\ num \in Nat
        /\ \A j \in 1..num : j >= i => Serves(dying, j)'
    BY <1>0, <1>1, <1>5, <2>1 DEF UnderDestruction, Serves, Types
  <2>3. \A j \in 1..num : objs[dying].slots[j].thread = "ended" =>
           objs'[dying].slots[j] = objs[dying].slots[j]
    BY <1>1, <1>5, <2>1
  <2>4. \A j \in 1..num : Gone(dying, j) => Gone(dying, j)'
    BY <1>1, <2>3 DEF Gone
  <2>. QED BY <1>0, <1>1, <2>2, <2>3, <2>4, Z3T(30) DEF UnderDestruction
<1>. QED BY <1>4, <1>6, <1>7, <1>8

(* The step of a constructor or a destructor that assigns to slot i of     *)
(* object o, which kv_client does not point to.                            *)
LEMMA TouchKeepsComplete ==
    ASSUME Types, Roles, Owned, Complete, NEW o \in Objects, NEW n,
           o # client, Touches(objs', o, n), UNCHANGED <<num, client>>
    PROVE  Complete'
<1>1. client # 0 => client \in Objects
  BY DEF Types, Objects
<1>2. client # 0 => objs'[client] = objs[client]
  BY <1>1 DEF Touches
<1>. QED BY <1>2 DEF Complete, Serves

(* The constructor: its steps finish a host, the last one gives the object *)
(* to kv_client.                                                           *)
LEMMA ConstructorKeepsLives ==
    ASSUME Types, Roles, Lives, MakeStub \/ StartThread \/ Assign
    PROVE  Owned' /\ Complete' /\ UnderConstruction' /\ UnderDestruction'
<1>0. /\ Owned /\ Complete /\ UnderConstruction /\ UnderDestruction
      /\ objs \in [Objects -> Object] /\ num \in Nat
  BY DEF Lives, Types
<1>1. built # 0 /\ dying = 0 /\ built # client
  BY DEF MakeStub, StartThread, Assign, Roles, Building, Destroying
<1>2. built \in Objects /\ Len(objs[built].slots) = num
  BY <1>0, <1>1, RolesHaveHosts
<1>3. i \in 1..num + 1
  BY <1>0, <1>1 DEF UnderConstruction
<1>4. ASSUME MakeStub \/ StartThread, Touches(objs', built, i)
      PROVE  /\ Owned' /\ Complete' /\ UnderDestruction' /\ i \in 1..num
             /\ \A j \in 1..num : j # i =>
                   objs'[built].slots[j] = objs[built].slots[j]
  <2>1. /\ UNCHANGED <<num, client, built, dying>> /\ i \in 1..num
    BY <1>0, <1>1, <1>2, <1>3, <1>4
       DEF MakeStub, StartThread, UnderConstruction
  <2>2. Owned'
    BY <1>0, <1>2, <1>4, <2>1, TouchKeepsOwned
  <2>3. Complete'
    BY <1>0, <1>1, <1>2, <1>4, <2>1, TouchKeepsComplete
  <2>4. UnderDestruction'
    BY <1>1, <2>1 DEF UnderDestruction
  <2>5. \A j \in 1..num : j # i =>
           objs'[built].slots[j] = objs[built].slots[j]
    BY <1>2, <1>4 DEF Touches
  <2>. QED BY <2>1, <2>2, <2>3, <2>4, <2>5
<1>5. CASE MakeStub
  <2>1. PICK n, o : n = i /\ o = built
    OBVIOUS
  <2>2. objs' = [objs EXCEPT ![o].slots[n].stub = "live"]
    BY <1>5, <2>1 DEF MakeStub
  <2>3. Touches(objs', o, n)
    BY <1>0, <1>2, <2>1, <2>2, SetStub
  <2>4. n \in 1..Len(objs[o].slots) =>
           /\ objs'[o].slots[n].stub = "live"
           /\ objs'[o].slots[n].thread = objs[o].slots[n].thread
    BY <1>0, <1>2, <2>1, <2>2, SetStub
  <2>5. /\ Owned' /\ Complete' /\ UnderDestruction' /\ i \in 1..num
        /\ \A j \in 1..num : j # i =>
              objs'[built].slots[j] = objs[built].slots[j]
    BY <1>4, <1>5, <2>1, <2>3
  <2>6. /\ objs'[built].slots[i].stub = "live"
        /\ objs'[built].slots[i].thread = objs[built].slots[i].thread
    BY <1>2, <2>1, <2>4, <2>5
  <2>7. UNCHANGED <<num, built, i>> /\ pc = "stub" /\ pc' = "spawn"
    BY <1>5 DEF MakeStub
  <2>8. UnderConstruction'
    BY <1>0, <1>1, <2>5, <2>6, <2>7 DEF UnderConstruction, Serves
  <2>. QED BY <2>5, <2>8
<1>6. CASE StartThread
  <2>1. PICK n, o : n = i /\ o = built
    OBVIOUS
  <2>2. objs' = [objs EXCEPT ![o].slots[n].thread = "loop"]
    BY <1>6, <2>1 DEF StartThread
  <2>3. Touches(objs', o, n)
    BY <1>0, <1>2, <2>1, <2>2, SetThread, ZenonT(30)
  <2>4. n \in 1..Len(objs[o].slots) =>
           /\ objs'[o].slots[n].stub = objs[o].slots[n].stub
           /\ objs'[o].slots[n].thread = "loop"
    BY <1>0, <1>2, <2>1, <2>2, SetThread
  <2>5. /\ Owned' /\ Complete' /\ UnderDestruction' /\ i \in 1..num
        /\ \A j \in 1..num : j # i =>
              objs'[built].slots[j] = objs[built].slots[j]
    BY <1>4, <1>6, <2>1, <2>3
  <2>6. /\ objs'[built].slots[i].stub = objs[built].slots[i].stub
        /\ objs'[built].slots[i].thread = "loop"
    BY <1>2, <2>1, <2>4, <2>5
  <2>7. /\ UNCHANGED <<num, built>> /\ i' = i + 1
        /\ pc = "spawn" /\ pc' = "stub"
    BY <1>6 DEF StartThread
  <2>8. /\ i' \in 1..num' + 1
        /\ \A j \in 1..num : j >= i' => j >= i /\ j # i
        /\ \A j \in 1..num : j < i' => j < i \/ j = i
    BY <1>0, <2>5, <2>7
  <2>9. UnderConstruction'
    <3>1. \A j \in 1..num : j < i' => Serves(built, j)'
      BY <1>0, <1>1, <2>5, <2>6, <2>7, <2>8 DEF UnderConstruction, Serves
    <3>2. \A j \in 1..num : j >= i' => objs'[built].slots[j].thread = "none"
      BY <1>0, <1>1, <2>5, <2>8 DEF UnderConstruction
    <3>. QED BY <2>7, <2>8, <3>1, <3>2 DEF UnderConstruction, Serves
  <2>. QED BY <2>5, <2>9
<1>7. CASE Assign
  <2>1. /\ client' = built /\ built' = 0 /\ UNCHANGED <<num, objs>>
        /\ i > num /\ StartDestroy(client)
    BY <1>2, <1>7 DEF Assign
  <2>2. \A j \in 1..num : j < i
    BY <1>0, <1>3, <2>1
  <2>3. Complete'
    BY <1>0, <1>1, <2>1, <2>2 DEF Complete, UnderConstruction, Serves
  <2>4. UnderConstruction'
    BY <2>1 DEF UnderConstruction
  <2>5. CASE client = 0
    <3>1. dying' = 0
      BY <1>1, <2>1, <2>5 DEF StartDestroy
    <3>2. Owned'
      BY <1>0, <1>1, <2>1, <2>5, <3>1 DEF Owned, Objects
    <3>. QED BY <2>3, <2>4, <3>1, <3>2 DEF UnderDestruction
  <2>6. CASE client # 0
    <3>1. dying' = client /\ i' = 1 /\ pc' = "shut"
      BY <2>1, <2>6 DEF StartDestroy
    <3>2. Owned'
      BY <1>0, <1>1, <2>1, <3>1 DEF Owned, Objects
    <3>3. \A j \in 1..num : ~(j < 1)
      OBVIOUS
    <3>4. UnderDestruction'
      BY <1>0, <2>1, <2>6, <3>1, <3>3 DEF UnderDestruction, Complete, Serves
    <3>. QED BY <2>3, <2>4, <3>2, <3>4
  <2>. QED BY <2>5, <2>6
<1>. QED BY <1>5, <1>6, <1>7

(* The destructor: with num its own number of hosts it releases each of    *)
(* them once their thread has ended, and then the object.                  *)
LEMMA DestructorKeepsLives ==
    ASSUME Types, Roles, Lives,
           ShutQueue \/ JoinThread \/ DeleteStub \/ FreeArrays
    PROVE  /\ Owned' /\ Complete' /\ UnderConstruction' /\ UnderDestruction'
           /\ pc' # "dead"
<1>0. /\ Owned /\ Complete /\ UnderConstruction /\ UnderDestruction
      /\ objs \in [Objects -> Object] /\ num \in Nat
      /\ after \in {"idle", "ask", "retry"}
  BY DEF Lives, Types
<1>1. dying # 0 /\ built = 0 /\ dying # client
  BY DEF ShutQueue, JoinThread, DeleteStub, FreeArrays, Roles, Building,
         Destroying
<1>2. dying \in Objects /\ Len(objs[dying].slots) = num
  BY <1>0, <1>1, RolesHaveHosts
<1>3. i \in 1..num + 1 /\ (pc # "shut" => i \in 1..num)
  BY <1>0, <1>1 DEF UnderDestruction
<1>4. ASSUME UNCHANGED <<num, client, built, dying>>, i \in 1..num,
             Touches(objs', dying, i)
      PROVE  /\ Owned' /\ Complete' /\ UnderConstruction'
             /\ \A j \in 1..num : j # i =>
                   objs'[dying].slots[j] = objs[dying].slots[j]
  <2>1. Owned'
    BY <1>0, <1>2, <1>4, TouchKeepsOwned
  <2>2. Complete'
    BY <1>0, <1>1, <1>2, <1>4, TouchKeepsComplete
  <2>3. UnderConstruction'
    BY <1>1, <1>4 DEF UnderConstruction
  <2>4. \A j \in 1..num : j # i =>
           objs'[dying].slots[j] = objs[dying].slots[j]
    BY <1>2, <1>4 DEF Touches
  <2>. QED BY <2>1, <2>2, <2>3, <2>4
<1>5. CASE ShutQueue
  <2>1. /\ pc = "shut" /\ pc' = "join" /\ i <= num
        /\ objs' = [objs EXCEPT ![dying].slots[i].shut = TRUE]
        /\ UNCHANGED <<num, client, i, built, dying>>
    BY <1>2, <1>5 DEF ShutQueue
  <2>2. PICK n, o : n = i /\ o = dying
    OBVIOUS
  <2>3. objs' = [objs EXCEPT ![o].slots[n].shut = TRUE]
    BY <2>1, <2>2
  <2>4. Touches(objs', o, n)
    BY <1>0, <1>2, <2>2, <2>3, SetShut
  <2>5. n \in 1..Len(objs[o].slots) =>
           /\ objs'[o].slots[n].stub = objs[o].slots[n].stub
           /\ objs'[o].slots[n].thread = objs[o].slots[n].thread
    BY <1>0, <1>2, <2>2, <2>3, SetShut
  <2>6. i \in 1..num
    BY <1>0, <1>3, <2>1
  <2>7. /\ Owned' /\ Complete' /\ UnderConstruction'
        /\ \A j \in 1..num : j # i =>
              objs'[dying].slots[j] = objs[dying].slots[j]
    BY <1>4, <2>1, <2>2, <2>4, <2>6
  <2>8. \A j \in 1..num :
           /\ objs'[dying].slots[j].stub = objs[dying].slots[j].stub
           /\ objs'[dying].slots[j].thread = objs[dying].slots[j].thread
    BY <1>2, <2>2, <2>5, <2>6, <2>7
  <2>9. UnderDestruction'
    BY <1>0, <1>1, <2>1, <2>6, <2>8 DEF UnderDestruction, Serves, Gone
  <2>. QED BY <2>1, <2>7, <2>9
<1>6. CASE JoinThread
  <2>1. /\ pc = "join" /\ pc' = "delete"
        /\ objs[dying].slots[i].thread = "ended"
        /\ UNCHANGED <<num, objs, client, i, built, dying>>
    BY <1>6 DEF JoinThread
  <2>2. Owned' /\ Complete' /\ UnderConstruction'
    BY <1>0, <1>1, <2>1 DEF Owned, Complete, UnderConstruction, Serves
  <2>3. UnderDestruction'
    BY <1>0, <2>1 DEF UnderDestruction, Serves, Gone
  <2>. QED BY <2>1, <2>2, <2>3
<1>7. CASE DeleteStub
  <2>1. /\ pc = "delete" /\ pc' = "shut" /\ i' = i + 1
        /\ objs' = [objs EXCEPT ![dying].slots[i].stub = "deleted"]
        /\ UNCHANGED <<num, client, built, dying>>
    BY <1>7 DEF DeleteStub
  <2>2. PICK n, o : n = i /\ o = dying
    OBVIOUS
  <2>3. objs' = [objs EXCEPT ![o].slots[n].stub = "deleted"]
    BY <2>1, <2>2
  <2>4. Touches(objs', o, n)
    BY <1>0, <1>2, <2>2, <2>3, SetStub
  <2>5. n \in 1..Len(objs[o].slots) =>
           /\ objs'[o].slots[n].stub = "deleted"
           /\ objs'[o].slots[n].thread = objs[o].slots[n].thread
    BY <1>0, <1>2, <2>2, <2>3, SetStub
  <2>6. i \in 1..num
    BY <1>3, <2>1
  <2>7. /\ Owned' /\ Complete' /\ UnderConstruction'
        /\ \A j \in 1..num : j # i =>
              objs'[dying].slots[j] = objs[dying].slots[j]
    BY <1>4, <2>1, <2>2, <2>4, <2>6
  <2>8. /\ objs'[dying].slots[i].stub = "deleted"
        /\ objs'[dying].slots[i].thread = "ended"
    BY <1>0, <1>1, <1>2, <2>1, <2>2, <2>5, <2>6 DEF UnderDestruction
  <2>9. /\ i' \in 1..num' + 1
        /\ \A j \in 1..num : j >= i' => j >= i /\ j # i
        /\ \A j \in 1..num : j < i' => j < i \/ j = i
    BY <1>0, <2>1, <2>6
  <2>10. \A j \in 1..num : j < i' => Gone(dying, j)'
    BY <1>0, <1>1, <2>1, <2>7, <2>8, <2>9 DEF UnderDestruction, Gone
  <2>11. \A j \in 1..num : j >= i' => Serves(dying, j)'
    BY <1>0, <1>1, <2>1, <2>7, <2>9 DEF UnderDestruction, Serves
  <2>12. UnderDestruction'
    BY <2>1, <2>9, <2>10, <2>11 DEF UnderDestruction, Serves, Gone
  <2>. QED BY <2>1, <2>7, <2>12
<1>8. CASE FreeArrays
  <2>1. /\ i > num /\ pc' = after /\ dying' = 0
        /\ objs' = [objs EXCEPT ![dying] =
              IF \A j \in DOMAIN @.slots : @.slots[j].stub = "deleted"
              THEN NoObject ELSE [@ EXCEPT !.freed = TRUE]]
        /\ UNCHANGED <<num, client, built>>
    BY <1>8 DEF FreeArrays
  <2>2. DOMAIN objs[dying].slots = 1..num
    BY <1>0, <1>2 DEF Object
  <2>3. \A j \in DOMAIN objs[dying].slots :
           objs[dying].slots[j].stub = "deleted"
    BY <1>0, <1>1, <1>3, <2>1, <2>2 DEF UnderDestruction, Gone
  <2>4. objs' = [objs EXCEPT ![dying] = NoObject]
    BY <2>1, <2>3
  <2>5. \A p \in Objects : p # dying => objs'[p] = objs[p]
    BY <1>0, <2>4
  <2>6. objs'[dying] = NoObject
    BY <1>0, <1>2, <2>4
  <2>7. Owned'
    BY <1>0, <1>1, <2>1, <2>5, <2>6 DEF Owned
  <2>8. client # 0 => client \in Objects
    BY DEF Types, Objects
  <2>9. Complete'
    BY <1>0, <1>1, <2>1, <2>5, <2>8 DEF Complete, Serves
  <2>. QED BY <1>0, <1>1, <2>1, <2>7, <2>9
           DEF UnderConstruction, UnderDestruction
<1>. QED BY <1>5, <1>6, <1>7, <1>8

(* A constructor starts: the number of hosts stays what it was.            *)
LEMMA BuildKeepsLives ==
    ASSUME Uniform, Types, Roles, Lives, pc \in {"pick", "wait"},
           NEW s \in Servers, NEW then \in {"ask", "retry"},
           StartBuild(s, then)
    PROVE  Owned' /\ Complete' /\ UnderConstruction' /\ UnderDestruction'
<1>0. Owned /\ Complete
  BY DEF Lives
<1>1. PICK o \in Objects :
         /\ objs[o] = NoObject
         /\ num' = NumHosts[s] /\ built' = o /\ i' = 1
         /\ objs' = [objs EXCEPT ![o] = [addr |-> s, freed |-> FALSE,
                        slots |-> [j \in 1..NumHosts[s] |-> NewSlot]]]
         /\ pc' = "stub" /\ UNCHANGED <<client, dying>>
  BY DEF StartBuild
<1>2. dying = 0 /\ built = 0
  BY DEF Roles, Building, Destroying
<1>3. num' \in Nat \ {0} /\ 1 \in 1..num' + 1
  BY <1>1
<1>4. client # 0 => /\ client \in Objects /\ client # o
                    /\ Len(objs[client].slots) = num /\ num' = num
  <2>. SUFFICES ASSUME client # 0
                PROVE  /\ client \in Objects /\ client # o
                       /\ Len(objs[client].slots) = num /\ num' = num
    OBVIOUS
  <2>1. /\ client \in Objects /\ Len(objs[client].slots) = num /\ num # 0
    BY <1>0, RolesHaveHosts
  <2>2. Len(objs[o].slots) = 0
    BY <1>1 DEF NoObject
  <2>3. num = NumHosts[objs[client].addr] /\ objs[client].addr \in Servers
    BY <2>1 DEF Roles, Sized
  <2>. QED BY <1>1, <2>1, <2>2, <2>3 DEF Uniform
<1>. DEFINE slots == [j \in 1..num' |-> NewSlot]
            new == [addr |-> s, freed |-> FALSE, slots |-> slots]
<1>5. /\ \A j \in 1..num' : slots[j].thread = "none"
      /\ Len(slots) = num'
  BY <1>3 DEF NewSlot
<1>. HIDE DEF slots
<1>6. new.slots = slots /\ new.freed = FALSE
  OBVIOUS
<1>. HIDE DEF new
<1>7. objs' = [objs EXCEPT ![o] = new]
  BY <1>1 DEF new, slots
<1>8. objs'[o] = new /\ \A p \in Objects : p # o => objs'[p] = objs[p]
  BY <1>7 DEF Types
<1>9. Owned'
  <2>. SUFFICES ASSUME NEW p \in Objects, objs'[p] # NoObject
                PROVE  /\ objs'[p].freed = FALSE
                       /\ Len(objs'[p].slots) = num'
                       /\ p \in {client', built', dying'}
    BY DEF Owned
  <2>1. CASE p = o
    BY <1>1, <1>5, <1>6, <1>8, <2>1
  <2>2. CASE p # o
    <3>1. objs'[p] = objs[p]
      BY <1>8, <2>2
    <3>2. /\ objs[p].freed = FALSE /\ Len(objs[p].slots) = num
          /\ p \in {client, built, dying} /\ p # 0
      BY <1>0, <3>1 DEF Owned, Objects
    <3>3. p = client
      BY <1>2, <3>2
    <3>. QED BY <1>1, <1>4, <3>1, <3>2, <3>3
  <2>. QED BY <2>1, <2>2
<1>10. Complete'
  BY <1>0, <1>1, <1>4, <1>8 DEF Complete, Serves
<1>11. UnderConstruction'
  <2>1. \A j \in 1..num' : objs'[o].slots[j].thread = "none" /\ ~(j < 1)
    BY <1>3, <1>5, <1>6, <1>8
  <2>. QED BY <1>1, <1>3, <2>1 DEF UnderConstruction
<1>12. UnderDestruction'
  BY <1>1, <1>2 DEF UnderDestruction
<1>. QED BY <1>9, <1>10, <1>11, <1>12

(* The thread is outside of constructors and destructors and stays there.  *)
LEMMA QuietKeepsLives ==
    ASSUME Lives, Types, Roles,
           UNCHANGED <<num, objs, client, i, built, dying>>,
           pc' = pc \/ (pc \in Outside \ {"dead"} /\ pc' \in Outside)
    PROVE  Owned' /\ Complete' /\ UnderConstruction' /\ UnderDestruction'
<1>1. Owned' /\ Complete'
  BY DEF Lives, Owned, Complete, Serves
<1>2. pc \in Outside \ {"dead"} => built = 0 /\ dying = 0
  BY DEF Roles, Building, Destroying, Outside
<1>3. UnderConstruction' /\ UnderDestruction'
  BY <1>2 DEF Lives, UnderConstruction, UnderDestruction, Serves, Gone
<1>. QED BY <1>1, <1>3

(* kv_client = nullptr.                                                    *)
LEMMA ReleaseKeepsLives ==
    ASSUME Lives, Types, Roles, pc = "idle", client # 0, Release
    PROVE  Owned' /\ Complete' /\ UnderConstruction' /\ UnderDestruction'
<1>1. /\ client' = 0 /\ pc' = "shut" /\ i' = 1 /\ dying' = client
      /\ UNCHANGED <<num, objs, built>> /\ built = 0 /\ dying = 0
      /\ num \in Nat
  BY DEF Release, Roles, Building, Destroying, Types
<1>2. Owned'
  BY <1>1 DEF Lives, Owned
<1>3. \A j \in 1..num : ~(j < 1)
  OBVIOUS
<1>4. UnderDestruction'
  BY <1>1, <1>3 DEF Lives, Complete, UnderDestruction, Serves
<1>. QED BY <1>1, <1>2, <1>4 DEF Complete, UnderConstruction
-----------------------------------------------------------------------------
(* Every step keeps the objects in order.                                  *)
LEMMA NextKeepsLives ==
    ASSUME Uniform, Inv, Lives, Next
    PROVE  Owned' /\ Complete' /\ UnderConstruction' /\ UnderDestruction'
<1>. DEFINE Goal == Owned /\ Complete /\ UnderConstruction /\ UnderDestruction
<1>0. Types /\ Roles /\ ApiTypes /\ Control
  BY DEF Inv
<1>1. ASSUME UNCHANGED rpc PROVE Goal'
  BY <1>0, <1>1, QuietKeepsLives
<1>2. ASSUME NEW l \in Outside, Goto(l), pc \in Outside \ {"dead"} PROVE Goal'
  BY <1>0, <1>2, QuietKeepsLives DEF Goto
<1>3. {"idle", "pick", "dead", "send", "wait"} \subseteq Outside
  BY DEF Outside
<1>4. CASE ClientStep
  <2>1. CASE Lifetime
    BY <1>0, <2>1, ConstructorKeepsLives, DestructorKeepsLives DEF Lifetime
  <2>2. CASE PickServer
    <3>1. ServerList[pos] \in Servers
      BY <1>0, <2>2, KVAssumption DEF PickServer, Control
    <3>2. PICK s \in Servers : s = ServerList[pos]
      BY <3>1
    <3>3. pc = "pick" /\ StartBuild(s, "ask")
      BY <2>2, <3>2 DEF PickServer
    <3>. QED BY <1>0, <3>3, BuildKeepsLives
  <2>3. CASE FollowRedirect
    <3>1. reply.to \in Servers
      BY <1>0, <2>3 DEF FollowRedirect, ApiTypes, Replies, NoReply
    <3>2. PICK s \in Servers : s = reply.to
      BY <3>1
    <3>3. pc = "wait" /\ StartBuild(s, "retry")
      BY <2>3, <3>2 DEF FollowRedirect
    <3>. QED BY <1>0, <3>3, BuildKeepsLives
  <2>4. CASE \/ LeaderFound \/ NotLeader \/ InitFails \/ SendRequest
             \/ Receive \/ RequestFails \/ GetRedirected \/ Retry
    <3>1. /\ pc \in Outside \ {"dead"}
          /\ Goto("idle") \/ Goto("pick") \/ Goto("wait") \/ Goto("send")
      BY <2>4 DEF LeaderFound, NotLeader, InitFails, SendRequest, Receive,
                  RequestFails, GetRedirected, Retry, Finish, Outside
    <3>. QED BY <3>1, <1>2, <1>3
  <2>. QED BY <1>4, <2>1, <2>2, <2>3, <2>4 DEF ClientStep
<1>5. CASE Application
  <2>1. CASE Shutdown
    BY <1>0, <2>1, ReleaseKeepsLives DEF Shutdown
  <2>2. CASE \E c \in Async, j \in SlotIds : SendAsync(c, j)
    BY <1>0, <2>2, QuietKeepsLives DEF SendAsync
  <2>3. CASE \/ CallInit \/ ShutdownNothing \/ ShutdownFails \/ NullCall
             \/ NullArgument
             \/ \E s \in Servers, code \in {-1, 0} : Die(s, code)
             \/ \E k \in Keys : Get(k) \/ \E v \in Values : Put(k, v)
    <3>1. /\ pc = "idle"
          /\ Goto("pick") \/ Goto("idle") \/ Goto("dead") \/ Goto("send")
      BY <2>3 DEF CallInit, ShutdownNothing, ShutdownFails, NullCall,
                  NullArgument, Die, Get, Put, Begin
    <3>2. pc \in Outside \ {"dead"}
      BY <3>1 DEF Outside
    <3>. QED BY <3>1, <3>2, <1>2, <1>3
  <2>. QED BY <1>5, <2>1, <2>2, <2>3 DEF Application
<1>6. CASE \E o \in Objects, j \in SlotIds : CompletionThread(o, j)
  BY <1>0, <1>6, CompletionKeepsLives DEF CompletionThread
<1>7. CASE \E c \in Async, st \in {"ok", "failed"} : AsyncAnswer(c, st)
  BY <1>0, <1>7, QuietKeepsLives DEF AsyncAnswer, CompleteAsync
<1>8. CASE \E r \in net :
              Execute(r) \/ Lose(r) \/ \E s \in Servers : Redirect(r, s)
  BY <1>8, <1>1 DEF Execute, Lose, Redirect, Deliver
<1>9. CASE Change
  BY <1>9, <1>1 DEF Change
<1>. QED BY <1>4, <1>5, <1>6, <1>7, <1>8, <1>9 DEF Next


(* The process dies of nothing but a call on a null kv_client, which is    *)
(* null only while no init protects it.                                    *)
LEMMA NextKeepsProtected ==
    ASSUME Inv, Lives, Next
    PROVE  Protected'
<1>0. Types /\ Roles /\ Protected
  BY DEF Inv, Lives
<1>1. \/ Lifetime /\ ready' = ready
      \/ Shutdown
      \/ NullCall /\ ready' = ready
      \/ LeaderFound
      \/ /\ client' = client /\ ready' = ready
         /\ pc' # "dead" \/ (pc' = pc /\ dying' = dying)
  <2>1. CASE ClientStep
    BY <2>1 DEF ClientStep, PickServer, NotLeader, InitFails, SendRequest,
       Receive, RequestFails, FollowRedirect, Retry, GetRedirected, Finish,
       Goto, StartBuild
  <2>2. CASE Application
    BY <2>2 DEF Application, CallInit, ShutdownNothing, ShutdownFails,
       NullCall, NullArgument, Die, Get, Put, Begin, SendAsync, Finish, Goto
  <2>3. CASE \E o \in Objects, j \in SlotIds : CompletionThread(o, j)
    BY <2>3 DEF CompletionThread, Completion, EnterNext, LeaveLoop,
       TakeEvent, Thread
  <2>4. CASE \E r \in net :
                Execute(r) \/ Lose(r) \/ \E s \in Servers : Redirect(r, s)
    BY <2>4 DEF Execute, Lose, Redirect, Deliver
  <2>5. CASE \/ \E c \in Async, st \in {"ok", "failed"} : AsyncAnswer(c, st)
             \/ Change
    BY <2>5 DEF AsyncAnswer, CompleteAsync, Change
  <2>. QED BY <2>1, <2>2, <2>3, <2>4, <2>5 DEF Next
<1>2. CASE Lifetime /\ ready' = ready
  <2>1. CASE ShutQueue \/ JoinThread \/ DeleteStub \/ FreeArrays
    <3>1. pc' # "dead"
      BY <1>0, <2>1, DestructorKeepsLives
    <3>2. client' = client
      BY <2>1 DEF ShutQueue, JoinThread, DeleteStub, FreeArrays
    <3>. QED BY <1>0, <1>2, <3>1, <3>2 DEF Protected
  <2>2. CASE MakeStub \/ StartThread \/ Assign
    <3>1. /\ pc' # "dead" /\ (client' = client \/ client' = built)
          /\ pc \in Building
      BY <1>0, <2>2 DEF MakeStub, StartThread, Assign, StartDestroy, Types,
                        Building
    <3>2. built # 0
      BY <1>0, <3>1 DEF Roles
    <3>. QED BY <1>0, <1>2, <3>1, <3>2 DEF Protected
  <2>. QED BY <1>2, <2>1, <2>2 DEF Lifetime
<1>3. CASE Shutdown
  <2>1. pc' = "shut" /\ ready' = FALSE
    BY <1>3 DEF Shutdown, Release
  <2>2. ~(ready' = TRUE)
    BY <2>1, Zenon
  <2>. QED BY <2>1, <2>2 DEF Protected
<1>4. CASE NullCall /\ ready' = ready
  <2>1. pc = "idle" /\ client = 0 /\ dying' = dying /\ dying = 0
    BY <1>0, <1>4 DEF NullCall, Goto, Roles, Destroying
  <2>. QED BY <1>0, <1>4, <2>1 DEF Protected
<1>5. CASE LeaderFound
  <2>1. pc = "ask" /\ pc' = "idle" /\ client' = client
    BY <1>5 DEF LeaderFound, Goto
  <2>2. client # 0
    BY <1>0, <2>1 DEF Roles, Calling
  <2>. QED BY <2>1, <2>2 DEF Protected
<1>6. CASE /\ client' = client /\ ready' = ready
           /\ pc' # "dead" \/ (pc' = pc /\ dying' = dying)
  BY <1>0, <1>6 DEF Protected
<1>. QED BY <1>1, <1>2, <1>3, <1>4, <1>5, <1>6

(* With the same number of hosts in every address, the objects are in      *)
(* order in every behaviour.                                               *)
THEOREM LifetimeInvariance == Uniform /\ Spec => []Lives
<1>1. Init => Lives
  <2>. SUFFICES ASSUME Init PROVE Lives
    OBVIOUS
  <2>1. /\ objs = [o \in Objects |-> NoObject] /\ client = 0 /\ built = 0
        /\ dying = 0 /\ pc = "idle"
    BY DEF Init, RPCInit
  <2>2. ready = FALSE
    BY DEF Init
  <2>3. ~(ready = TRUE)
    BY <2>2, Zenon
  <2>. QED BY <2>1, <2>3 DEF Lives, Owned, Complete, UnderConstruction,
                             UnderDestruction, Protected
<1>2. Uniform /\ Inv /\ Lives /\ [Next]_vars => Lives'
  <2>. SUFFICES ASSUME Uniform, Inv, Lives, [Next]_vars PROVE Lives'
    OBVIOUS
  <2>1. CASE Next
    BY <2>1, NextKeepsLives, NextKeepsProtected DEF Lives
  <2>2. CASE UNCHANGED vars
    <3>1. UNCHANGED <<num, objs, client, i, built, dying, pc, ready>>
      BY <2>2
    <3>. QED BY <3>1, QuietKeepsLives DEF Inv, Lives, Protected
  <2>. QED BY <2>1, <2>2
<1>3. CASE Uniform
  BY <1>1, <1>2, <1>3, Invariance, PTL DEF Spec
<1>. QED BY <1>3
-----------------------------------------------------------------------------
(* With the same number of hosts in every address a completion thread that *)
(* looks up its stub (kvclientimpl.cpp:43) finds it, however many objects  *)
(* the calls of the application construct and destroy beside it.           *)
THEOREM StubAlwaysFound == Uniform /\ Spec => []StubFound
<1>1. Inv /\ Lives => StubFound
  <2>. SUFFICES ASSUME Inv, Lives, NEW o \in Objects,
                       NEW j \in DOMAIN objs[o].slots,
                       objs[o].slots[j].thread = "loop"
                PROVE  objs[o].slots[j].stub = "live" /\ ~objs[o].freed
    BY DEF StubFound
  <2>0. Types /\ Roles
    BY DEF Inv
  <2>1. j \in 1..Len(objs[o].slots)
    BY <2>0 DEF Types, Object
  <2>2. objs[o] # NoObject
    BY <2>1 DEF NoObject
  <2>3. /\ objs[o].freed = FALSE /\ j \in 1..num /\ num \in Nat
        /\ o \in {client, built, dying} /\ o # 0
    BY <2>0, <2>1, <2>2 DEF Lives, Owned, Objects, Types
  <2>4. ~objs[o].freed
    BY <2>3, Zenon
  <2>5. CASE o = client
    BY <2>3, <2>5 DEF Lives, Complete, Serves
  <2>6. CASE o = built
    BY <2>3, <2>6 DEF Lives, UnderConstruction, Serves
  <2>7. CASE o = dying
    BY <2>3, <2>7 DEF Lives, UnderDestruction, Serves, Gone
  <2>. QED BY <2>3, <2>4, <2>5, <2>6, <2>7
<1>2. CASE Uniform
  BY <1>1, <1>2, Invariance, LifetimeInvariance, PTL
<1>. QED BY <1>2

(* With the same number of hosts in every address, no object outlives the  *)
(* call that replaced it: between calls only the one kv_client points to   *)
(* holds stubs and threads (kvclientimpl.cpp:109-120).                     *)
THEOREM ObjectsReleased == Uniform /\ Spec => []OneObject
<1>1. Inv /\ Lives => OneObject
  <2>. SUFFICES ASSUME Inv, Lives, pc = "idle", NEW o \in Objects,
                       objs[o] # NoObject
                PROVE  o = client
    BY DEF OneObject
  <2>1. built = 0 /\ dying = 0
    BY DEF Inv, Roles, Building, Destroying
  <2>2. o \in {client, built, dying} /\ o # 0
    BY DEF Lives, Owned, Objects
  <2>. QED BY <2>1, <2>2
<1>2. CASE Uniform
  BY <1>1, <1>2, Invariance, LifetimeInvariance, PTL
<1>. QED BY <1>2

(* With the same number of hosts in every address, after an init that      *)
(* returned 0 no call reaches a null kv_client or a freed array until a    *)
(* shutdown returned 0.                                                    *)
THEOREM InitAlwaysProtects == Uniform /\ Spec => []InitProtects
<1>1. Inv /\ Lives => InitProtects
  <2>. SUFFICES ASSUME Inv, Lives, ready PROVE pc # "dead"
    BY DEF InitProtects
  <2>1. ready \in BOOLEAN
    BY DEF Inv
  <2>2. ready = TRUE
    BY <2>1, Zenon
  <2>. QED BY <2>2 DEF Lives, Protected
<1>2. CASE Uniform
  BY <1>1, <1>2, Invariance, LifetimeInvariance, PTL
<1>. QED BY <1>2
=============================================================================
