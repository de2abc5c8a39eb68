------------------------------ MODULE RPCClient ------------------------------
(***************************************************************************)
(* kvclientimpl.cpp: KvstoreRPCClient objects, which own for each host a   *)
(* stub with a completion queue and a thread that serves the queue.  The   *)
(* client's own thread (pc) runs constructors and destructors one          *)
(* statement at a time beside the completion threads.                      *)
(*                                                                         *)
(* The number of hosts is one global, g_num_servers, that each constructor *)
(* sets: the destructor of an object runs after the constructor of its     *)
(* successor and takes the successor's number for its own.                 *)
(***************************************************************************)
EXTENDS Naturals, Sequences, FiniteSets

CONSTANTS Servers,    \* addresses an object can be constructed from
          NumHosts,   \* hosts in an address (they are separated by ';')
          MaxObjects, MaxAsync   \* bounds: objects at a time, async calls

ASSUME RPCAssumption ==
    /\ NumHosts \in [Servers -> Nat \ {0}]
    /\ MaxObjects \in Nat /\ MaxAsync \in Nat

Objects  == 1..MaxObjects
Async    == 1..MaxAsync
SlotIds  == UNION {1..NumHosts[s] : s \in Servers}
NoObject == [addr |-> <<>>, freed |-> FALSE, slots |-> <<>>]

VARIABLES
    num,            \* g_num_servers
    objs,           \* the objects, each with its address and its hosts
    client,         \* kv_client: an object, or 0 for nullptr
    pc, i,          \* the client's thread and its loop counter
    built, dying,   \* object under construction, object in its destructor
    after,          \* where the thread goes on after both
    async           \* AsyncClientCalls

rpc == <<num, objs, client, pc, i, built, dying, after, async>>

Slot == [stub : {"unset", "live", "deleted"}, shut : BOOLEAN,
         thread : {"none", "loop", "wait", "ended"}]
NewSlot == [stub |-> "unset", shut |-> FALSE, thread |-> "none"]
Call == [st : {"unused", "open", "ok", "failed", "freed", "leaked"},
         obj : 0..MaxObjects, slot : Nat]

RPCInit ==
    /\ num = 0 /\ objs = [o \in Objects |-> NoObject]
    /\ client = 0 /\ pc = "idle" /\ i = 0 /\ built = 0 /\ dying = 0
    /\ after = "idle"
    /\ async = [c \in Async |-> [st |-> "unused", obj |-> 0, slot |-> 0]]
-----------------------------------------------------------------------------
(* make_shared<KvstoreRPCClient>(s): first the host list is split and      *)
(* counted.                                                                *)
StartBuild(s, then) ==
    \E o \in Objects :
        /\ objs[o] = NoObject /\ \A x \in 1..o - 1 : objs[x] # NoObject
        /\ num' = NumHosts[s] /\ built' = o /\ i' = 1
        /\ objs' = [objs EXCEPT ![o] = [addr |-> s, freed |-> FALSE,
                       slots |-> [j \in 1..NumHosts[s] |-> NewSlot]]]
        /\ pc' = "stub" /\ after' = then
        /\ UNCHANGED <<client, dying, async>>

MakeStub ==
    /\ pc = "stub" /\ i <= Len(objs[built].slots)
    /\ objs' = [objs EXCEPT ![built].slots[i].stub = "live"]
    /\ pc' = "spawn"
    /\ UNCHANGED <<num, client, i, built, dying, after, async>>

StartThread ==
    /\ pc = "spawn"
    /\ objs' = [objs EXCEPT ![built].slots[i].thread = "loop"]
    /\ pc' = "stub" /\ i' = i + 1
    /\ UNCHANGED <<num, client, built, dying, after, async>>

(* The destructor of object o starts, if there is one.                     *)
StartDestroy(o) ==
    IF o = 0 THEN pc' = after /\ after' = "idle" /\ i' = 0 /\ UNCHANGED dying
    ELSE pc' = "shut" /\ i' = 1 /\ dying' = o /\ UNCHANGED after

(* kv_client = ...: the old object, owned by nobody else, is destroyed.    *)
Assign ==
    /\ pc = "stub" /\ i > Len(objs[built].slots)
    /\ client' = built /\ built' = 0
    /\ StartDestroy(client)
    /\ UNCHANGED <<num, objs, async>>

(* One round of the destructor's loop, i < g_num_servers.  Past the end of *)
(* _servers the behaviour is undefined; the process dies.                  *)
ShutQueue ==
    /\ pc = "shut" /\ i <= num
    /\ IF i <= Len(objs[dying].slots)
       THEN /\ objs' = [objs EXCEPT ![dying].slots[i].shut = TRUE]
            /\ pc' = "join"
       ELSE pc' = "dead" /\ UNCHANGED objs
    /\ UNCHANGED <<num, client, i, built, dying, after, async>>

(* Mutant: the thread is not waited for.                                   *)
JoinNot ==
    /\ pc = "join" /\ pc' = "delete"
    /\ UNCHANGED <<num, objs, client, i, built, dying, after, async>>

JoinThread ==
    /\ pc = "join" /\ objs[dying].slots[i].thread = "ended"
    /\ pc' = "delete"
    /\ UNCHANGED <<num, objs, client, i, built, dying, after, async>>

DeleteStub ==
    /\ pc = "delete"
    /\ objs' = [objs EXCEPT ![dying].slots[i].stub = "deleted"]
    /\ pc' = "shut" /\ i' = i + 1
    /\ UNCHANGED <<num, client, built, dying, after, async>>

(* Mutant: the loop runs one round less than there are hosts.              *)
FreeEarly ==
    /\ pc = "shut" /\ i >= num
    /\ objs' = [objs EXCEPT ![dying] =
                  IF \A j \in DOMAIN @.slots : @.slots[j].stub = "deleted"
                  THEN NoObject ELSE [@ EXCEPT !.freed = TRUE]]
    /\ pc' = after /\ after' = "idle" /\ i' = 0 /\ dying' = 0
    /\ UNCHANGED <<num, client, built, async>>

(* The arrays and the object are freed; what the loop did not reach stays. *)
FreeArrays ==
    /\ pc = "shut" /\ i > num
    /\ objs' = [objs EXCEPT ![dying] =
                  IF \A j \in DOMAIN @.slots : @.slots[j].stub = "deleted"
                  THEN NoObject ELSE [@ EXCEPT !.freed = TRUE]]
    /\ pc' = after /\ after' = "idle" /\ i' = 0 /\ dying' = 0
    /\ UNCHANGED <<num, client, built, async>>
-----------------------------------------------------------------------------
(* AsyncCompleteRpc, the thread of slot j of object o.                     *)

Thread(o, j, here, there) ==
    /\ j \in DOMAIN objs[o].slots /\ objs[o].slots[j].thread = here
    /\ objs' = [objs EXCEPT ![o].slots[j].thread = there]
    /\ UNCHANGED <<num, client, pc, i, built, dying, after>>

(* s->_servers[node_id]->cq_ is looked up; Next() blocks.                  *)
EnterNext(o, j) == Thread(o, j, "loop", "wait") /\ UNCHANGED async

(* Next() yields a call.  A failed one is skipped, and never deleted.      *)
TakeEvent(o, j, c) ==
    /\ async[c].obj = o /\ async[c].slot = j
    /\ async[c].st \in {"ok", "failed"}
    /\ Thread(o, j, "wait", "loop")
    /\ async' = [async EXCEPT ![c].st = IF @ = "ok" THEN "freed" ELSE "leaked"]

(* Next() yields false: the queue is shut down and drained.                *)
LeaveLoop(o, j) ==
    /\ j \in DOMAIN objs[o].slots /\ objs[o].slots[j].shut
    /\ \A c \in Async : async[c].obj = o /\ async[c].slot = j =>
                            async[c].st \in {"freed", "leaked"}
    /\ Thread(o, j, "wait", "ended") /\ UNCHANGED async

(* sendRequestAsync.  The deadline is set on another context than the one  *)
(* the call is made with, so the call has none.                            *)
SendAsync(c, j) ==
    /\ pc = "idle" /\ client # 0 /\ j \in DOMAIN objs[client].slots
    /\ async[c].st = "unused"
    /\ async' = [async EXCEPT ![c] =
                    [st |-> "open", obj |-> client, slot |-> j]]
    /\ UNCHANGED <<num, objs, client, pc, i, built, dying, after>>

(* gRPC completes the call.                                                *)
CompleteAsync(c, st) ==
    /\ async[c].st = "open" /\ async' = [async EXCEPT ![c].st = st]
    /\ UNCHANGED <<num, objs, client, pc, i, built, dying, after>>

Lifetime ==
    \/ MakeStub \/ StartThread \/ Assign \/ ShutQueue \/ JoinThread
    \/ DeleteStub \/ FreeArrays

Completion(o, j) ==
    EnterNext(o, j) \/ LeaveLoop(o, j) \/ \E c \in Async : TakeEvent(o, j, c)
-----------------------------------------------------------------------------
(* The part of the type invariant about the variables declared here.       *)
RPCTypeOK ==
    /\ num \in Nat /\ client \in 0..MaxObjects
    /\ \A o \in Objects : /\ objs[o].freed \in BOOLEAN
                          /\ objs[o].slots \in Seq(Slot)
    /\ async \in [Async -> Call]
    /\ built \in 0..MaxObjects /\ dying \in 0..MaxObjects /\ i \in Nat

(* A completion thread that is about to look up its stub                   *)
(* (kvclientimpl.cpp:43) finds it: the constructor has stored it before    *)
(* the thread started and no destructor has deleted it or the array,       *)
(* whatever asynchronous calls complete meanwhile.                         *)
StubFound ==
    \A o \in Objects : \A j \in DOMAIN objs[o].slots :
        objs[o].slots[j].thread = "loop" =>
            objs[o].slots[j].stub = "live" /\ ~objs[o].freed

(* Between calls the only object that holds stubs and threads is the one   *)
(* kv_client points to: every redirect, second init and shutdown releases  *)
(* the object before it completely, as the destructor's log line says      *)
(* ("resources cleaned up", kvclientimpl.cpp:119), also while asynchronous *)
(* calls are under way.  The loop of line 110 counts with the number of    *)
(* hosts of the newest object, so this takes addresses with equally many.  *)
OneObject ==
    pc = "idle" => \A o \in Objects : objs[o] # NoObject => o = client
=============================================================================
