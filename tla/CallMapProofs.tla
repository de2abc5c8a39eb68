---------------------------- MODULE CallMapProofs ----------------------------
(***************************************************************************)
(* Proof that the client's gets and puts do what CallMap promises, for any *)
(* servers, keys, values and number of calls, and however many hosts the   *)
(* addresses have: Spec => Implements.                                     *)
(***************************************************************************)
EXTENDS KVClientProofs

(* The requests on their way are of different calls.  One of the call that *)
(* runs is there only while its thread waits and has no reply: a put that  *)
(* is redirected leaves none behind when it is sent again.                 *)
Requests ==
    /\ \A r, q \in net : r.call.id = q.call.id => r = q
    /\ call # NoCall => call.id = count
    /\ \A r \in net : call # NoCall /\ r.call.id = call.id =>
          r.call = call /\ pc = "wait" /\ reply = NoReply

USE RPCAssumption DEF rpc, api, cluster, vars
-----------------------------------------------------------------------------
(* Requests and answers go, and the thread stays or does not wait.         *)
LEMMA FewerRequests ==
    ASSUME Requests, \A r \in net' : r \in net, count' = count,
           \/ call' = NoCall
           \/ /\ call' = call
              /\ \A r \in net' : call # NoCall /\ r.call.id = call.id =>
                    pc' = "wait" /\ reply' = NoReply
    PROVE  Requests'
<1>1. \A r, q \in net' : r.call.id = q.call.id => r = q
  BY DEF Requests
<1>2. call' # NoCall => call'.id = count'
  BY DEF Requests
<1>3. \A r \in net' : call' # NoCall /\ r.call.id = call'.id =>
         r.call = call' /\ pc' = "wait" /\ reply' = NoReply
  BY DEF Requests
<1>. QED BY <1>1, <1>2, <1>3 DEF Requests

(* A server or the network takes a request.                                *)
LEMMA DeliverKeepsRequests ==
    ASSUME Requests, NEW r \in net, NEW answer, Deliver(r, answer)
    PROVE  Requests'
<1>1. /\ net' = net \ {r} /\ reply' = IF Waiting(r) THEN answer ELSE reply
      /\ UNCHANGED <<pc, call, count>>
  BY DEF Deliver
<1>2. \A q \in net' : call # NoCall /\ q.call.id = call.id =>
         pc' = "wait" /\ reply' = NoReply
  <2>. SUFFICES ASSUME NEW q \in net, q # r, call # NoCall,
                       q.call.id = call.id
                PROVE  pc' = "wait" /\ reply' = NoReply
    BY <1>1
  <2>1. q.call = call /\ pc = "wait" /\ reply = NoReply
    BY DEF Requests
  <2>2. r.call # call
    BY <2>1 DEF Requests
  <2>. QED BY <1>1, <2>1, <2>2 DEF Waiting
<1>. QED BY <1>1, <1>2, FewerRequests

(* Every step keeps Requests.                                              *)
LEMMA NextKeepsRequests ==
    ASSUME Inv, Requests, Next
    PROVE  Requests'
<1>0. Types /\ Roles /\ ApiTypes /\ Control
  BY DEF Inv
<1>1. ASSUME UNCHANGED <<call, count, net>>,
             call = NoCall \/ UNCHANGED <<pc, reply>>
      PROVE  Requests'
  BY <1>1, FewerRequests DEF Requests
<1>2. ASSUME UNCHANGED <<call, count, net>>,
             ~(pc = "wait" /\ reply = NoReply)
      PROVE  Requests'
  BY <1>2, FewerRequests DEF Requests
<1>3. ASSUME NEW code, NEW val, Finish(code, val), \A r \in net' : r \in net
      PROVE  Requests'
  BY <1>3, FewerRequests DEF Finish
<1>4. CASE ClientStep
  <2>1. CASE Lifetime /\ UNCHANGED <<api, cluster>>
    <3>1. pc # "wait"
      BY <2>1 DEF Lifetime, MakeStub, StartThread, Assign, ShutQueue,
                  JoinThread, DeleteStub, FreeArrays
    <3>. QED BY <1>2, <2>1, <3>1
  <2>2. CASE PickServer \/ LeaderFound \/ NotLeader \/ InitFails
    BY <1>2, <2>2 DEF PickServer, LeaderFound, NotLeader, InitFails
  <2>3. CASE SendRequest
    <3>1. /\ pc = "send" /\ pc' = "wait" /\ UNCHANGED <<call, count, reply>>
          /\ net' = net \cup {[call |-> call, to |-> Address]}
      BY <2>3 DEF SendRequest, Goto
    <3>2. call # NoCall /\ reply = NoReply
      BY <1>0, <3>1 DEF Control
    <3>3. \A r \in net : r.call.id # call.id
      BY <3>1, <3>2 DEF Requests
    <3>4. PICK new : new = [call |-> call, to |-> Address]
      OBVIOUS
    <3>5. net' = net \cup {new} /\ new.call = call
      BY <3>1, <3>4
    <3>6. \A r, q \in net' : r.call.id = q.call.id => r = q
      BY <3>3, <3>5 DEF Requests
    <3>7. \A r \in net' : r.call.id = call'.id => r.call = call'
      BY <3>1, <3>3, <3>5
    <3>. QED BY <3>1, <3>2, <3>6, <3>7 DEF Requests
  <2>4. CASE Receive \/ RequestFails \/ GetRedirected
    BY <1>3, <2>4 DEF Receive, RequestFails, GetRedirected
  <2>5. CASE FollowRedirect
    BY <1>2, <2>5 DEF FollowRedirect, NoReply
  <2>6. CASE Retry
    <3>1. CASE tries > 0
      BY <1>2, <2>6, <3>1 DEF Retry
    <3>2. CASE ~(tries > 0)
      BY <1>3, <2>6, <3>2 DEF Retry
    <3>. QED BY <3>1, <3>2
  <2>. QED BY <1>4, <2>1, <2>2, <2>3, <2>4, <2>5, <2>6 DEF ClientStep
<1>5. CASE Application
  <2>1. CASE \/ CallInit \/ ShutdownNothing \/ Shutdown \/ ShutdownFails
             \/ NullCall \/ NullArgument
             \/ \E s \in Servers, code \in {-1, 0} : Die(s, code)
    <3>1. pc = "idle" /\ UNCHANGED <<call, count, net>>
      BY <2>1 DEF CallInit, ShutdownNothing, Shutdown, ShutdownFails,
                  NullCall, NullArgument, Die
    <3>. QED BY <1>2, <3>1
  <2>2. CASE \E c \in Async, j \in SlotIds :
                SendAsync(c, j) /\ UNCHANGED <<api, cluster>>
    BY <1>1, <2>2 DEF SendAsync
  <2>3. CASE \E k \in Keys : Get(k) \/ \E v \in Values : Put(k, v)
    <3>1. /\ call'.id = count + 1 /\ count' = count + 1
          /\ UNCHANGED net
      BY <2>3 DEF Get, Put, Begin
    <3>2. count \in Nat
      BY <1>0, KVAssumption DEF ApiTypes
    <3>3. \A r \in net : r.call.id # count + 1
      <4>. SUFFICES ASSUME NEW r \in net PROVE r.call.id # count + 1
        OBVIOUS
      <4>1. r.call \in CallRecord /\ r.call.id <= count
        BY <1>0 DEF ApiTypes
      <4>2. r.call.id \in 1..MaxCalls
        BY <4>1 DEF CallRecord
      <4>. QED BY <3>2, <4>1, <4>2, KVAssumption
    <3>. QED BY <3>1, <3>3 DEF Requests
  <2>. QED BY <1>5, <2>1, <2>2, <2>3 DEF Application
<1>6. CASE \E o \in Objects, j \in SlotIds : CompletionThread(o, j)
  BY <1>1, <1>6 DEF CompletionThread, Completion, EnterNext, LeaveLoop,
                    TakeEvent, Thread
<1>7. CASE \E c \in Async, st \in {"ok", "failed"} : AsyncAnswer(c, st)
  BY <1>1, <1>7 DEF AsyncAnswer, CompleteAsync
<1>8. ASSUME NEW r \in net,
             Execute(r) \/ Lose(r) \/ \E s \in Servers : Redirect(r, s)
      PROVE  Requests'
  <2>1. \E answer : Deliver(r, answer)
    BY <1>8 DEF Execute, Lose, Redirect
  <2>. QED BY <2>1, DeliverKeepsRequests
<1>9. CASE Change
  BY <1>1, <1>9 DEF Change
<1>. QED BY <1>4, <1>5, <1>6, <1>7, <1>8, <1>9 DEF Next

(* The requests on their way are in order in every behaviour.              *)
THEOREM RequestInvariance == Spec => []Requests
<1>1. Init => Requests
  BY DEF Init, Requests
<1>2. Inv /\ Requests /\ [Next]_vars => Requests'
  <2>. SUFFICES ASSUME Inv, Requests, [Next]_vars PROVE Requests'
    OBVIOUS
  <2>1. CASE UNCHANGED vars
    BY <2>1 DEF Requests
  <2>. QED BY <2>1, NextKeepsRequests
<1>. QED BY <1>1, <1>2, Invariance, PTL DEF Spec
-----------------------------------------------------------------------------
(* The refinement mapping: what CallMap's open and answer are here.        *)
Open  == Puts \cup Undone
Found == IF reply.kind = "done" THEN [got |-> TRUE, val |-> reply.val]
         ELSE [got |-> FALSE]

(* What has no part in gets and puts changes nothing of the map.           *)
LEMMA StutterMap ==
    ASSUME UNCHANGED <<call, reply, net>>
    PROVE  Open' = Open /\ Found' = Found
BY DEF Open, Found, Puts, Undone

(* A request that is executed, redirected or lost leaves the puts on their *)
(* way, and no other request of its call does.                             *)
LEMMA PutsWithout ==
    ASSUME Requests, NEW r \in net, net' = net \ {r}
    PROVE  /\ r.call.op = "put" => Puts' = Puts \ {r.call}
           /\ r.call.op # "put" => Puts' = Puts
<1>1. \A q \in net : q.call = r.call => q = r
  BY DEF Requests
<1>2. CASE r.call.op = "put"
  <2>1. \A c : c \in Puts' <=> c \in Puts /\ c # r.call
    BY <1>1 DEF Puts
  <2>. QED BY <1>2, <2>1
<1>3. CASE r.call.op # "put"
  <2>1. \A c : c \in Puts' <=> c \in Puts
    BY <1>3 DEF Puts
  <2>. QED BY <1>3, <2>1
<1>. QED BY <1>2, <1>3

(* A request is of the call that runs exactly if its answer is awaited.    *)
LEMMA AwaitedIsRunning ==
    ASSUME Inv, Requests, NEW r \in net
    PROVE  /\ Waiting(r) <=> r.call = call
           /\ Waiting(r) => call # NoCall /\ reply = NoReply
<1>1. r.call \in CallRecord
  BY DEF Inv, ApiTypes
<1>2. r.call # NoCall
  BY <1>1 DEF CallRecord, NoCall
<1>3. r.call = call => Waiting(r)
  BY <1>2 DEF Requests, Waiting
<1>. QED BY <1>2, <1>3 DEF Waiting

(* A call fails: a put whose request is on its way stays open.             *)
LEMMA FinishIsFail ==
    ASSUME Inv, pc \in {"wait", "retry"}, Finish(-1, NoValue), Puts' = Puts
    PROVE  Map!Fail
<1>1. /\ call' = NoCall /\ reply' = NoReply
      /\ result' = [code |-> -1, val |-> NoValue]
      /\ UNCHANGED <<store, count>>
  BY DEF Finish, Return
<1>2. call # NoCall
  BY DEF Inv, Control, Retrying
<1>3. Found' = [got |-> FALSE]
  BY <1>1 DEF Found, NoReply
<1>4. Open' = Puts
  BY <1>1 DEF Open, Undone
<1>5. Undone = {} \/ Undone = {call}
  BY DEF Undone
<1>6. Open' = Open \/ Open' = Open \ {call}
  <2>1. CASE Undone = {} \/ call \in Puts
    <3>1. Open = Puts
      BY <1>5, <2>1 DEF Open
    <3>. QED BY <1>4, <3>1
  <2>2. CASE Undone = {call} /\ call \notin Puts
    <3>1. Open \ {call} = Puts
      BY <2>2 DEF Open
    <3>. QED BY <1>4, <3>1
  <2>. QED BY <1>5, <2>1, <2>2
<1>7. Map!End
  BY <1>1, <1>2, <1>3 DEF Map!End, Map!NoCall, Map!NoAnswer, NoCall, Found
<1>. QED BY <1>1, <1>6, <1>7 DEF Map!Fail, Open

(* A call that is no get or put returns.                                   *)
LEMMA ReturnIsOther ==
    ASSUME call = NoCall, NEW code \in {-1, 0},
           result' = [code |-> code, val |-> NoValue],
           UNCHANGED <<call, count, store, net, reply>>
    PROVE  Map!OtherCall
<1>1. Open' = Open /\ Found' = Found
  BY StutterMap
<1>2. Map!NoCall = NoCall
  BY DEF Map!NoCall, NoCall
<1>3. result' \in {[code |-> n, val |-> NoValue] : n \in {-1, 0}}
  OBVIOUS
<1>. QED BY <1>1, <1>2, <1>3 DEF Map!OtherCall, Open, Found

(* What the caller's buffer takes of a value.                              *)
LEMMA CopiedFits ==
    ASSUME NEW v \in Values
    PROVE  Copied(v) = Map!Fit(v)
<1>1. v = [name |-> v.name, len |-> v.len] /\ v.len \in Nat
  BY KVAssumption
<1>2. PICK n, l : v = [name |-> n, len |-> l] /\ l \in Nat
  BY <1>1
<1>3. v.len = l
  BY <1>2
<1>4. CASE l < 2048
  <2>1. ~(l > 2047)
    BY <1>2, <1>4
  <2>2. [v EXCEPT !.len = l] = v
    BY <1>2
  <2>. QED BY <1>3, <1>4, <2>1, <2>2
           DEF Copied, Map!Fit, BufferLen, Map!BufferSize
<1>5. CASE ~(l < 2048)
  <2>1. l > 2047 /\ 2048 - 1 = 2047
    BY <1>2, <1>5
  <2>. QED BY <1>3, <1>5, <2>1
           DEF Copied, Map!Fit, BufferLen, Map!BufferSize
<1>. QED BY <1>4, <1>5

(* A get or a put that is answered.                                        *)
LEMMA ReceiveIsSucceed ==
    ASSUME Inv, Receive
    PROVE  Map!Succeed
<1>1. /\ pc = "wait" /\ reply.kind = "done" /\ net' = net
      /\ IF reply.found THEN Finish(0, Copied(reply.val))
         ELSE Finish(1, NoValue)
  BY DEF Receive
<1>2. call # NoCall
  BY <1>1 DEF Inv, Control
<1>3. /\ reply.found <=> reply.val # NoValue
      /\ reply.val \in Values \cup {NoValue}
  BY <1>1 DEF Inv, ApiTypes, Replies, NoReply
<1>4. /\ call' = NoCall /\ reply' = NoReply /\ UNCHANGED <<store, count>>
  BY <1>1 DEF Finish
<1>5. /\ Found = [got |-> TRUE, val |-> reply.val]
      /\ Found' = [got |-> FALSE]
  BY <1>1, <1>4 DEF Found, NoReply
<1>6. Found # [got |-> FALSE] /\ Found.val = reply.val
  <2>1. Found.got = TRUE
    BY <1>5
  <2>2. [got |-> FALSE].got = FALSE
    OBVIOUS
  <2>3. Found # [got |-> FALSE]
    BY <2>1, <2>2, Zenon
  <2>. QED BY <1>5, <2>3
<1>7. Open' = Open
  <2>1. Undone = {} /\ Undone' = {}
    BY <1>1, <1>4 DEF Undone
  <2>2. Puts' = Puts
    BY <1>1 DEF Puts
  <2>. QED BY <2>1, <2>2 DEF Open
<1>8. result' = IF Found.val = NoValue THEN [code |-> 1, val |-> NoValue]
                ELSE [code |-> 0, val |-> Map!Fit(Found.val)]
  <2>1. CASE reply.found
    <3>1. reply.val \in Values /\ reply.val # NoValue
      BY <1>3, <2>1
    <3>2. result' = [code |-> 0, val |-> Copied(reply.val)]
      BY <1>1, <2>1 DEF Finish, Return
    <3>. QED BY <1>6, <3>1, <3>2, CopiedFits
  <2>2. CASE ~reply.found
    BY <1>1, <1>3, <1>6, <2>2 DEF Finish, Return
  <2>. QED BY <2>1, <2>2
<1>9. Map!End
  BY <1>2, <1>4, <1>5 DEF Map!End, Map!NoCall, Map!NoAnswer, NoCall, Found
<1>. QED BY <1>4, <1>6, <1>7, <1>8, <1>9
         DEF Map!Succeed, Map!NoAnswer, Found, Open

(* A get or a put begins.                                                  *)
LEMMA BeginIsBegin ==
    ASSUME Inv, NEW op \in {"get", "put"}, NEW k \in Keys, NEW v, NEW n,
           Begin(op, k, v, n),
           NEW c, c = [id |-> count + 1, op |-> op, key |-> k, val |-> v]
    PROVE  /\ Map!Begin(c)
           /\ op = "get" => Open' = Open
           /\ op = "put" => Open' = Open \cup {c}
<1>1. /\ pc = "idle" /\ count < MaxCalls /\ call' = c
      /\ count' = count + 1 /\ result' = NoResult
      /\ UNCHANGED <<store, net, reply>>
  BY DEF Begin
<1>2. call = NoCall /\ reply = NoReply
  BY <1>1 DEF Inv, Control
<1>3. c.id = count + 1 /\ c.op = op /\ c # NoCall
  <2>1. c.id = count + 1 /\ c.op = op
    OBVIOUS
  <2>2. count + 1 # 0
    BY KVAssumption DEF Inv, ApiTypes
  <2>3. NoCall.id = 0
    BY DEF NoCall
  <2>. QED BY <2>1, <2>2, <2>3
<1>4. Found' = Found
  BY <1>1 DEF Found
<1>5. Puts' = Puts
  BY <1>1 DEF Puts
<1>6. Undone = {}
  BY <1>2 DEF Undone
<1>7. Undone' = IF op = "put" THEN {c} ELSE {}
  BY <1>1, <1>2, <1>3 DEF Undone, NoReply
<1>8. Map!NoCall = NoCall /\ Map!NoResult = NoResult
  BY DEF Map!NoCall, NoCall, Map!NoResult, NoResult
<1>9. Map!Begin(c)
  BY <1>1, <1>2, <1>3, <1>4, <1>8 DEF Map!Begin, Found
<1>. QED BY <1>5, <1>6, <1>7, <1>9 DEF Open

(* A request that is executed.                                             *)
LEMMA ExecuteMaps ==
    ASSUME Inv, Requests, NEW r \in net, Execute(r)
    PROVE  Map!Next \/ UNCHANGED Map!vars
<1>. DEFINE c == r.call
            old == store[r.call.key]
            done == [kind |-> "done", found |-> old # NoValue, val |-> old]
<1>0. c \in CallRecord /\ c.op \in {"get", "put"}
  BY DEF Inv, ApiTypes, CallRecord
<1>1. /\ net' = net \ {r} /\ reply' = IF Waiting(r) THEN done ELSE reply
      /\ UNCHANGED <<call, result, count>>
      /\ store' = IF c.op = "put"
                  THEN [store EXCEPT ![c.key] = c.val] ELSE store
  BY DEF Execute, Deliver
<1>2. /\ Waiting(r) <=> c = call
      /\ Waiting(r) => call # NoCall /\ reply = NoReply
  BY AwaitedIsRunning
<1>3. Found' = IF c = call THEN [got |-> TRUE, val |-> old] ELSE Found
  <2>1. done.kind = "done" /\ done.val = old
    OBVIOUS
  <2>. HIDE DEF done, old, c
  <2>. QED BY <1>1, <1>2, <2>1 DEF Found
<1>4. Undone' = Undone \ {c}
  <2>1. done.kind = "done"
    OBVIOUS
  <2>. HIDE DEF done
  <2>2. CASE c = call
    <3>1. Undone' = {}
      BY <1>1, <1>2, <2>1, <2>2 DEF Undone
    <3>2. Undone = {} \/ Undone = {c}
      BY <2>2 DEF Undone
    <3>. QED BY <3>1, <3>2
  <2>3. CASE c # call
    <3>1. Undone' = Undone
      BY <1>1, <1>2, <2>3 DEF Undone
    <3>2. c \notin Undone
      BY <2>3 DEF Undone
    <3>. QED BY <3>1, <3>2
  <2>. QED BY <2>2, <2>3
<1>5. CASE c.op = "put"
  <2>1. Puts' = Puts \ {c}
    BY <1>1, <1>5, PutsWithout
  <2>2. Open' = Open \ {c}
    BY <1>4, <2>1 DEF Open
  <2>3. c \in Open
    BY <1>5 DEF Open, Puts
  <2>4. store' = [store EXCEPT ![c.key] = c.val]
    BY <1>1, <1>5
  <2>5. Map!Effect(c)
    <3>. HIDE DEF c
    <3>. QED BY <1>1, <1>3, <2>2, <2>4
             DEF Map!Effect, Map!Answer, Found, Open, c
  <2>. QED BY <2>3, <2>5 DEF Map!Next, Open
<1>6. CASE c.op = "get"
  <2>1. Puts' = Puts
    BY <1>1, <1>6, PutsWithout
  <2>2. c \notin Undone
    BY <1>6 DEF Undone
  <2>3. Open' = Open
    BY <1>4, <2>1, <2>2 DEF Open
  <2>4. store' = store
    BY <1>1, <1>6
  <2>5. CASE c = call
    <3>1. Map!Look
      BY <1>1, <1>2, <1>3, <1>6, <2>3, <2>4, <2>5
         DEF Map!Look, Map!Answer, Map!NoCall, NoCall, Found, Open
    <3>. QED BY <3>1 DEF Map!Next
  <2>6. CASE c # call
    BY <1>1, <1>3, <2>3, <2>4, <2>6 DEF Map!vars, Found, Open
  <2>. QED BY <2>5, <2>6
<1>. QED BY <1>0, <1>5, <1>6

(* A request that is redirected or lost: a put whose caller waits will be  *)
(* sent again or reported as failed, another one is never done.            *)
LEMMA DropMaps ==
    ASSUME Inv, Requests, NEW r \in net, NEW answer, Deliver(r, answer),
           answer.kind # "done", UNCHANGED store
    PROVE  Map!Next \/ UNCHANGED Map!vars
<1>. DEFINE c == r.call
<1>1. /\ net' = net \ {r} /\ reply' = IF Waiting(r) THEN answer ELSE reply
      /\ UNCHANGED <<call, result, count, store>>
  BY DEF Deliver
<1>2. /\ Waiting(r) <=> c = call
      /\ Waiting(r) => call # NoCall /\ reply = NoReply
  BY AwaitedIsRunning
<1>3. reply'.kind = "done" <=> reply.kind = "done"
  BY <1>1, <1>2 DEF NoReply
<1>4. Found' = Found
  BY <1>1, <1>2, <1>3 DEF Found, NoReply
<1>5. Undone' = Undone
  BY <1>1, <1>3 DEF Undone
<1>6. CASE c.op = "put" /\ c # call
  <2>1. Puts' = Puts \ {c}
    BY <1>1, <1>6, PutsWithout
  <2>2. c \notin Undone /\ c \in Puts
    BY <1>6 DEF Undone, Puts
  <2>3. Open' = Open \ {c} /\ c \in Open
    BY <1>5, <2>1, <2>2 DEF Open
  <2>4. Map!Drop(c)
    BY <1>1, <1>4, <2>3 DEF Map!Drop, Found, Open
  <2>. QED BY <2>3, <2>4 DEF Map!Next, Open
<1>7. CASE c.op = "put" /\ c = call
  <2>1. Puts' = Puts \ {c}
    BY <1>1, <1>7, PutsWithout
  <2>2. Undone = {c}
    BY <1>2, <1>7 DEF Undone, NoReply
  <2>3. Open' = Open
    BY <1>5, <2>1, <2>2 DEF Open
  <2>. QED BY <1>1, <1>4, <2>3 DEF Map!vars, Found, Open
<1>8. CASE c.op # "put"
  <2>1. Puts' = Puts
    BY <1>1, <1>8, PutsWithout
  <2>. QED BY <1>1, <1>4, <1>5, <2>1 DEF Map!vars, Found, Open
<1>. QED BY <1>6, <1>7, <1>8

(* Every step of the client, the servers and the network is one of CallMap *)
(* or changes nothing there.                                               *)
LEMMA NextMaps ==
    ASSUME Inv, Requests, Next
    PROVE  Map!Next \/ UNCHANGED Map!vars
<1>0. Types /\ Roles /\ ApiTypes /\ Control
  BY DEF Inv
<1>1. ASSUME UNCHANGED <<call, count, result, store, net, reply>>
      PROVE  UNCHANGED Map!vars
  BY <1>1, StutterMap DEF Map!vars, Open, Found
<1>2. ASSUME call = NoCall, NEW code \in {-1, 0},
             result' = [code |-> code, val |-> NoValue],
             UNCHANGED <<call, count, store, net, reply>>
      PROVE  Map!Next
  BY <1>2, ReturnIsOther DEF Map!Next
<1>3. CASE ClientStep
  <2>1. CASE Lifetime /\ UNCHANGED <<api, cluster>>
    BY <1>1, <2>1
  <2>2. CASE PickServer
    BY <1>1, <2>2 DEF PickServer
  <2>3. CASE LeaderFound
    <3>1. call = NoCall
      BY <1>0, <2>3 DEF LeaderFound, Control, Asking
    <3>. QED BY <1>2, <2>3, <3>1 DEF LeaderFound, Return
  <2>4. CASE NotLeader
    BY <1>1, <2>4 DEF NotLeader
  <2>5. CASE InitFails
    <3>1. call = NoCall
      BY <1>0, <2>5 DEF InitFails, Control
    <3>. QED BY <1>2, <2>5, <3>1 DEF InitFails, Return
  <2>6. CASE SendRequest
    <3>1. /\ pc = "send" /\ net' = net \cup {[call |-> call, to |-> Address]}
          /\ UNCHANGED <<call, count, result, store, reply>>
      BY <2>6 DEF SendRequest
    <3>2. call # NoCall /\ reply = NoReply
      BY <1>0, <3>1 DEF Control
    <3>3. Found' = Found /\ Undone' = Undone
      BY <3>1 DEF Found, Undone
    <3>4. PICK new : new = [call |-> call, to |-> Address]
      OBVIOUS
    <3>5. net' = net \cup {new} /\ new.call = call
      BY <3>1, <3>4
    <3>6. Open' = Open
      <4>1. CASE call.op = "put"
        <5>1. \A c : c \in Puts' <=> c \in Puts \/ c = call
          BY <3>5, <4>1 DEF Puts
        <5>2. Undone = {call}
          BY <3>2, <4>1 DEF Undone, NoReply
        <5>. QED BY <3>3, <5>1, <5>2 DEF Open
      <4>2. CASE call.op # "put"
        <5>1. \A c : c \in Puts' <=> c \in Puts
          BY <3>5, <4>2 DEF Puts
        <5>. QED BY <3>3, <5>1 DEF Open
      <4>. QED BY <4>1, <4>2
    <3>. QED BY <3>1, <3>3, <3>6 DEF Map!vars, Found, Open
  <2>7. CASE Receive
    BY <2>7, ReceiveIsSucceed DEF Map!Next
  <2>8. CASE RequestFails
    <3>1. Puts' = Puts
      BY <2>8 DEF RequestFails, Puts
    <3>. QED BY <2>8, <3>1, FinishIsFail DEF RequestFails, Map!Next
  <2>9. CASE FollowRedirect
    <3>1. /\ reply.kind = "redirect" /\ reply' = NoReply
          /\ UNCHANGED <<call, count, result, store, net>>
      BY <2>9 DEF FollowRedirect
    <3>2. Found' = Found /\ Undone' = Undone /\ Puts' = Puts
      BY <3>1 DEF Found, Undone, Puts, NoReply
    <3>. QED BY <3>1, <3>2 DEF Map!vars, Found
  <2>10. CASE Retry
    <3>1. CASE tries > 0
      BY <1>1, <2>10, <3>1 DEF Retry
    <3>2. CASE ~(tries > 0)
      <4>1. pc = "retry" /\ Finish(-1, NoValue) /\ net' = net
        BY <2>10, <3>2 DEF Retry
      <4>2. Puts' = Puts
        BY <4>1 DEF Puts
      <4>. QED BY <4>1, <4>2, FinishIsFail DEF Map!Next
    <3>. QED BY <3>1, <3>2
  <2>11. CASE GetRedirected
    <3>1. Puts' = Puts
      BY <2>11 DEF GetRedirected, Puts
    <3>. QED BY <2>11, <3>1, FinishIsFail DEF GetRedirected, Map!Next
  <2>. QED BY <1>3, <2>1, <2>2, <2>3, <2>4, <2>5, <2>6, <2>7, <2>8, <2>9,
              <2>10, <2>11 DEF ClientStep
<1>4. CASE Application
  <2>0. pc = "idle" => call = NoCall
    BY <1>0 DEF Control
  <2>1. CASE CallInit
    BY <1>2, <2>0, <2>1 DEF CallInit, NoResult
  <2>2. CASE ShutdownNothing \/ Shutdown \/ ShutdownFails \/ NullArgument
    BY <1>2, <2>0, <2>2
       DEF ShutdownNothing, Shutdown, ShutdownFails, NullArgument, Return
  <2>3. CASE NullCall
    BY <1>1, <2>3 DEF NullCall
  <2>4. ASSUME NEW s \in Servers, NEW code \in {-1, 0}, Die(s, code)
        PROVE  Map!Next
    BY <1>2, <2>0, <2>4 DEF Die, Return
  <2>5. ASSUME NEW k \in Keys, Get(k) PROVE Map!Next
    <3>1. PICK c : c = [id |-> count + 1, op |-> "get", key |-> k,
                        val |-> NoValue]
      OBVIOUS
    <3>2. Map!Begin(c) /\ Open' = Open
      BY <2>5, <3>1, BeginIsBegin DEF Get
    <3>3. Map!BeginGet(k)
      BY <3>1, <3>2 DEF Map!BeginGet, Open
    <3>. QED BY <3>3 DEF Map!Next
  <2>6. ASSUME NEW k \in Keys, NEW v \in Values, Put(k, v) PROVE Map!Next
    <3>1. PICK c : c = [id |-> count + 1, op |-> "put", key |-> k, val |-> v]
      OBVIOUS
    <3>2. Map!Begin(c) /\ Open' = Open \cup {c}
      BY <2>6, <3>1, BeginIsBegin DEF Put
    <3>3. Map!BeginPut(k, v)
      BY <3>1, <3>2 DEF Map!BeginPut, Open
    <3>. QED BY <3>3 DEF Map!Next
  <2>7. CASE \E c \in Async, j \in SlotIds :
                SendAsync(c, j) /\ UNCHANGED <<api, cluster>>
    BY <1>1, <2>7
  <2>. QED BY <1>4, <2>1, <2>2, <2>3, <2>4, <2>5, <2>6, <2>7 DEF Application
<1>5. CASE \E o \in Objects, j \in SlotIds : CompletionThread(o, j)
  BY <1>1, <1>5 DEF CompletionThread
<1>6. CASE \E c \in Async, st \in {"ok", "failed"} : AsyncAnswer(c, st)
  BY <1>1, <1>6 DEF AsyncAnswer
<1>7. ASSUME NEW r \in net, Execute(r)
      PROVE  Map!Next \/ UNCHANGED Map!vars
  BY <1>7, ExecuteMaps
<1>8. ASSUME NEW r \in net, Lose(r)
      PROVE  Map!Next \/ UNCHANGED Map!vars
  BY <1>8, DropMaps DEF Lose, NoReply
<1>9. ASSUME NEW r \in net, NEW s \in Servers, Redirect(r, s)
      PROVE  Map!Next \/ UNCHANGED Map!vars
  <2>1. PICK answer : answer = [kind |-> "redirect", to |-> s]
    OBVIOUS
  <2>2. answer.kind # "done"
    BY <2>1
  <2>3. Deliver(r, answer) /\ UNCHANGED store
    BY <1>9, <2>1 DEF Redirect
  <2>. QED BY <2>2, <2>3, DropMaps
<1>10. CASE Change
  BY <1>1, <1>10 DEF Change
<1>. QED BY <1>3, <1>4, <1>5, <1>6, <1>7, <1>8, <1>9, <1>10 DEF Next

(* Gets and puts do what CallMap promises (kvclient.cpp's kv739_get and    *)
(* kv739_put): a put takes effect at most once however often it is         *)
(* redirected, what returns 0 or 1 was done during the call, and a put     *)
(* that returned -1 is done once later or never.                           *)
THEOREM Refinement == Spec => Implements
<1>1. Init => Map!Init
  <2>. SUFFICES ASSUME Init PROVE Map!Init
    OBVIOUS
  <2>1. /\ call = NoCall /\ result = NoResult /\ count = 0
        /\ store = [k \in Keys |-> NoValue] /\ net = {} /\ reply = NoReply
    BY DEF Init
  <2>2. Open = {} /\ Found = [got |-> FALSE]
    BY <2>1 DEF Open, Puts, Undone, Found, NoReply
  <2>3. store \in [Keys -> {NoValue}]
    BY <2>1
  <2>. QED BY <2>1, <2>2, <2>3
           DEF Map!Init, Map!NoCall, Map!NoAnswer, Map!NoResult, NoCall,
               NoResult, Open, Found
<1>2. Inv /\ Requests /\ [Next]_vars => [Map!Next]_(Map!vars)
  <2>. SUFFICES ASSUME Inv, Requests, [Next]_vars
                PROVE  Map!Next \/ UNCHANGED Map!vars
    OBVIOUS
  <2>1. CASE UNCHANGED vars
    BY <2>1, StutterMap DEF Map!vars, Open, Found
  <2>. QED BY <2>1, NextMaps
<1>. QED BY <1>1, <1>2, Invariance, RequestInvariance, PTL
         DEF Spec, Implements, Map!Spec
=============================================================================
