------------------------------- MODULE KVClient -------------------------------
(***************************************************************************)
(* kvclient.cpp: the five kv739 calls of one application thread, with the  *)
(* objects of RPCClient behind kv_client.  The servers are not part of the *)
(* client's sources.  They are modelled from how it uses them: a leader    *)
(* executes a request, any other server redirects the client or is silent, *)
(* requests and answers may be lost, leaders come and go.                  *)
(***************************************************************************)
EXTENDS Integers, RPCClient

CONSTANTS ServerList,   \* server_list, as read from the configuration file
          Keys, Values, \* a value is [name, len], len its length in bytes
          NoValue, NoServer, MaxCalls   \* bound: gets and puts of a behaviour

ASSUME KVAssumption ==
    /\ ServerList \in Seq(Servers) /\ MaxCalls \in Nat
    /\ \A v \in Values : /\ v = [name |-> v.name, len |-> v.len]
                         /\ v.len \in Nat
    /\ NoValue \notin Values /\ NoServer \notin Servers

BufferLen  == 2047
RetryCount == 3
NoCall     == [id |-> 0]
NoReply    == [kind |-> "none"]
NoResult   == [code |-> 0, val |-> NoValue]

VARIABLES
    pos,             \* kv739_init's place in server_list
    call, tries,     \* the get or put that runs, and its retry_count
    result,          \* what the last call returned
    count,           \* gets and puts so far
    ready,           \* history: an init returned 0, and no shutdown since
    leader,          \* the server that runs and leads, if there is one
    store,           \* the leader's key-value map
    net,             \* requests on their way
    reply            \* what the stub has for the call that waits

api     == <<pos, call, tries, result, count, ready>>
cluster == <<leader, store, net, reply>>
vars    == <<rpc, api, cluster>>

Init ==
    /\ RPCInit
    /\ pos = 0 /\ call = NoCall /\ tries = 0
    /\ result = NoResult /\ count = 0 /\ ready = FALSE
    /\ leader \in Servers
    /\ store = [k \in Keys |-> NoValue] /\ net = {} /\ reply = NoReply

(* The address kv_client was constructed from.                             *)
Address == objs[client].addr

(* At most BufferLen bytes are copied to the caller's buffer.              *)
Copied(v) == IF v.len > BufferLen THEN [v EXCEPT !.len = BufferLen] ELSE v

Goto(l) ==
    /\ pc' = l
    /\ UNCHANGED <<num, objs, client, i, built, dying, after, async>>

Return(code, val) == result' = [code |-> code, val |-> val]

(* A member function is called through kv_client: undefined on nullptr.    *)
NullCall ==
    /\ pc = "idle" /\ client = 0
    /\ Goto("dead") /\ UNCHANGED <<api, cluster>>
-----------------------------------------------------------------------------
(* kv739_init *)

CallInit ==
    /\ pc = "idle" /\ Goto("pick") /\ pos' = 1
    /\ result' = NoResult
    /\ UNCHANGED <<call, tries, count, ready, cluster>>

PickServer ==
    /\ pc = "pick" /\ pos <= Len(ServerList)
    /\ StartBuild(ServerList[pos], "ask")
    /\ UNCHANGED <<api, cluster>>

(* IsLeader says yes.                                                      *)
LeaderFound ==
    /\ pc = "ask" /\ Address = leader
    /\ Goto("idle") /\ Return(0, NoValue)
    /\ ready' = TRUE /\ pos' = 0
    /\ UNCHANGED <<call, tries, count, cluster>>

(* IsLeader says no, or throws: kv_client stays, the next server is tried. *)
NotLeader ==
    /\ pc = "ask" /\ Goto("pick") /\ pos' = pos + 1
    /\ UNCHANGED <<call, tries, result, count, ready, cluster>>

InitFails ==
    /\ pc = "pick" /\ pos > Len(ServerList)
    /\ Goto("idle") /\ Return(-1, NoValue) /\ pos' = 0
    /\ UNCHANGED <<call, tries, count, ready, cluster>>
-----------------------------------------------------------------------------
(* kv739_shutdown and kv739_die *)

(* kv_client = nullptr destroys the object.                                *)
Release ==
    /\ client' = 0 /\ pc' = "shut" /\ i' = 1 /\ dying' = client
    /\ after' = "idle"
    /\ UNCHANGED <<num, objs, built, async>>

ShutdownNothing ==
    /\ pc = "idle" /\ client = 0 /\ Goto("idle") /\ Return(0, NoValue)
    /\ UNCHANGED <<pos, call, tries, count, ready, cluster>>

Shutdown ==
    /\ pc = "idle" /\ client # 0 /\ Release /\ Return(0, NoValue)
    /\ ready' = FALSE
    /\ UNCHANGED <<pos, call, tries, count, cluster>>

(* Mutant: the object is released before its Shutdown() can throw.         *)
ReleaseThenThrow ==
    /\ pc = "idle" /\ client # 0 /\ Release /\ Return(-1, NoValue)
    /\ UNCHANGED <<pos, call, tries, count, ready, cluster>>

(* Shutdown() throws.                                                      *)
ShutdownFails ==
    /\ pc = "idle" /\ client # 0 /\ Goto("idle") /\ Return(-1, NoValue)
    /\ UNCHANGED <<pos, call, tries, count, ready, cluster>>

(* TerminateServer stops the server, or does not, and returns or throws.   *)
Die(s, code) ==
    /\ pc = "idle" /\ client # 0 /\ Goto("idle") /\ Return(code, NoValue)
    /\ leader' \in {leader, IF s = leader THEN NoServer ELSE leader}
    /\ UNCHANGED <<pos, call, tries, count, ready, store, net, reply>>
-----------------------------------------------------------------------------
(* kv739_get and kv739_put *)

Begin(op, k, v, n) ==
    /\ pc = "idle" /\ client # 0 /\ count < MaxCalls
    /\ call' = [id |-> count + 1, op |-> op, key |-> k, val |-> v]
    /\ count' = count + 1 /\ tries' = n /\ Goto("send")
    /\ result' = NoResult
    /\ UNCHANGED <<pos, ready, cluster>>

Get(k)    == Begin("get", k, NoValue, 0)
Put(k, v) == Begin("put", k, v, RetryCount)

(* A key or a buffer is NULL.                                              *)
NullArgument ==
    /\ pc = "idle" /\ Goto("idle") /\ Return(-1, NoValue)
    /\ UNCHANGED <<pos, call, tries, count, ready, cluster>>

(* sendRequest(request, response, 0): contactRemote with a deadline.       *)
SendRequest ==
    /\ pc = "send" /\ Goto("wait")
    /\ net' = net \cup {[call |-> call, to |-> Address]}
    /\ UNCHANGED <<api, leader, store, reply>>

Finish(code, val) ==
    /\ Goto("idle") /\ Return(code, val) /\ call' = NoCall /\ tries' = 0
    /\ reply' = NoReply
    /\ UNCHANGED <<pos, count, ready, leader, store>>

Receive ==
    /\ pc = "wait" /\ reply.kind = "done" /\ UNCHANGED net
    /\ IF reply.found THEN Finish(0, Copied(reply.val)) ELSE Finish(1, NoValue)

(* Mutant: a put whose request failed is sent again.                       *)
FailRetries ==
    /\ pc = "wait" /\ reply.kind # "redirect"
    /\ IF tries > 1
       THEN /\ Goto("send") /\ tries' = tries - 1 /\ reply' = NoReply
            /\ UNCHANGED <<pos, call, result, count, ready>>
            /\ UNCHANGED <<leader, store, net>>
       ELSE Finish(-1, NoValue) /\ UNCHANGED net

(* The deadline passes, or the stub reports another failure, even when the *)
(* request has been executed.  A get that nobody waits for is forgotten.   *)
RequestFails ==
    /\ pc = "wait" /\ reply.kind # "redirect"
    /\ Finish(-1, NoValue)
    /\ net' = {r \in net : r.call.op = "put"}

(* Mutant: retry_count is not decremented.                                 *)
FollowNoCount ==
    /\ pc = "wait" /\ reply.kind = "redirect" /\ call.op = "put"
    /\ StartBuild(reply.to, "retry")
    /\ reply' = NoReply
    /\ UNCHANGED <<pos, call, tries, result, count, ready>>
    /\ UNCHANGED <<leader, store, net>>

(* LeaderRedirectException in a put: current_leader takes the address and  *)
(* is read in the same step, nowhere else.                                 *)
FollowRedirect ==
    /\ pc = "wait" /\ reply.kind = "redirect" /\ call.op = "put"
    /\ StartBuild(reply.to, "retry")
    /\ tries' = tries - 1 /\ reply' = NoReply
    /\ UNCHANGED <<pos, call, result, count, ready>>
    /\ UNCHANGED <<leader, store, net>>

(* Mutant: the loop runs while retry_count >= 0.                           *)
RetryAtZero ==
    /\ pc = "retry"
    /\ IF tries >= 0 THEN Goto("send") /\ UNCHANGED <<api, cluster>>
       ELSE Finish(-1, NoValue) /\ UNCHANGED net

Retry ==
    /\ pc = "retry"
    /\ IF tries > 0 THEN Goto("send") /\ UNCHANGED <<api, cluster>>
       ELSE Finish(-1, NoValue) /\ UNCHANGED net

(* A get handles the redirection as any other exception.                   *)
GetRedirected ==
    /\ pc = "wait" /\ reply.kind = "redirect" /\ call.op = "get"
    /\ Finish(-1, NoValue) /\ UNCHANGED net
-----------------------------------------------------------------------------
(* External: the servers and the network.                                  *)

Waiting(r) == pc = "wait" /\ r.call = call /\ reply = NoReply

Deliver(r, answer) ==
    /\ net' = net \ {r} /\ reply' = IF Waiting(r) THEN answer ELSE reply
    /\ UNCHANGED <<rpc, api, leader>>

(* The leader executes a request and answers with the value it found.      *)
Execute(r) ==
    /\ r.to = leader
    /\ LET old == store[r.call.key] IN
       Deliver(r, [kind |-> "done", found |-> old # NoValue, val |-> old])
    /\ store' = IF r.call.op = "put"
                THEN [store EXCEPT ![r.call.key] = r.call.val] ELSE store

(* A server that does not lead names another, rightly or not.              *)
Redirect(r, s) ==
    /\ r.to # leader
    /\ Deliver(r, [kind |-> "redirect", to |-> s]) /\ UNCHANGED store

Lose(r) == Deliver(r, NoReply) /\ UNCHANGED store

(* Another server leads, or none: it stopped, or nobody is elected yet.    *)
Change ==
    /\ leader' \in Servers \cup {NoServer}
    /\ UNCHANGED <<rpc, api, store, net, reply>>
-----------------------------------------------------------------------------
ClientStep ==
    \/ Lifetime /\ UNCHANGED <<api, cluster>>
    \/ PickServer \/ LeaderFound \/ NotLeader \/ InitFails \/ SendRequest
    \/ Receive \/ RequestFails \/ FollowRedirect \/ Retry \/ GetRedirected

Application ==
    \/ CallInit \/ ShutdownNothing \/ Shutdown \/ ShutdownFails \/ NullCall
    \/ NullArgument
    \/ \E s \in Servers, code \in {-1, 0} : Die(s, code)
    \/ \E k \in Keys : Get(k) \/ \E v \in Values : Put(k, v)
    \/ \E c \in Async, j \in SlotIds :
           SendAsync(c, j) /\ UNCHANGED <<api, cluster>>

CompletionThread(o, j) == Completion(o, j) /\ UNCHANGED <<api, cluster>>

AsyncAnswer(c, st) == CompleteAsync(c, st) /\ UNCHANGED <<api, cluster>>

Next ==
    \/ ClientStep \/ Application
    \/ \E o \in Objects, j \in SlotIds : CompletionThread(o, j)
    \/ \E r \in net :
          Execute(r) \/ Lose(r) \/ \E s \in Servers : Redirect(r, s)
    \/ \E c \in Async, st \in {"ok", "failed"} : AsyncAnswer(c, st)
    \/ Change

Spec == Init /\ [][Next]_vars

(* The application's thread and the completion threads run.  A request     *)
(* ends by its deadline at the latest; IsLeader, Shutdown and              *)
(* TerminateServer are assumed to return.  An asynchronous call has no     *)
(* deadline, so nothing is assumed about its answer.                       *)
Fairness ==
    /\ WF_vars(ClientStep)
    /\ \A o \in Objects, j \in SlotIds : WF_vars(CompletionThread(o, j))

FairSpec == Spec /\ Fairness
-----------------------------------------------------------------------------
(* Every variable keeps its type.                                          *)
TypeOK ==
    /\ RPCTypeOK
    /\ pc \in {"idle", "stub", "spawn", "shut", "join", "delete", "pick",
               "ask", "send", "wait", "retry", "dead"}
    /\ pos \in 0..Len(ServerList) + 1 /\ tries \in 0..RetryCount
    /\ count \in 0..MaxCalls
    /\ result \in [code : {-1, 0, 1}, val : Values \cup {NoValue} \cup
                                           {Copied(v) : v \in Values}]
    /\ ready \in BOOLEAN /\ leader \in Servers \cup {NoServer}
    /\ store \in [Keys -> Values \cup {NoValue}]
    /\ \A r \in net : r.to \in Servers /\ r.call.id \in 1..count

(* After an init that returned 0 and until a shutdown that returned 0 no   *)
(* call reaches a null kv_client or a freed array (the process does not    *)
(* die): not after a shutdown that failed, nor after redirects to servers  *)
(* that are down, nor after a later init that returned -1.                 *)
InitProtects == ready => pc # "dead"

(* Every kv739 call returns, unless an asynchronous call is unanswered: a  *)
(* put follows at most three redirections, and the destructor's join ends  *)
(* because Shutdown() makes the completion thread's Next() return false.   *)
CallReturns ==
    []<>(pc \in {"idle", "dead"} \/ \E c \in Async : async[c].st = "open")

(* What CallMap's variables are here: a put may still take effect while    *)
(* its request is on its way, or it runs and has no answer yet.            *)
Puts   == {r.call : r \in {x \in net : x.call.op = "put"}}
Undone == IF call # NoCall /\ call.op = "put" /\ reply.kind # "done"
          THEN {call} ELSE {}
Map == INSTANCE CallMap WITH
           open <- Puts \cup Undone, running <- call,
           answer <- IF reply.kind = "done"
                     THEN [got |-> TRUE, val |-> reply.val]
                     ELSE [got |-> FALSE]

(* Gets and puts do what CallMap promises: a put takes effect at most once *)
(* however often it is redirected, a 0 or 1 is returned only for what was  *)
(* done during the call, and a put reported as failed (its deadline passed *)
(* or it was redirected three times) is done once later or never.          *)
Implements == Map!Spec
=============================================================================
