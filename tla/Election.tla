------------------------------- MODULE Election -------------------------------
(***************************************************************************)
(* The election side of one RaftNode with peers, one access to a field of  *)
(* RaftState or to the lock per step: scheduler threads in startElection   *)
(* (no lock), worker threads in requestVote (read lock, held during the    *)
(* call), and a gRPC thread in appendEntries (write lock).  All of them    *)
(* write currentTerm and currentRole.                                      *)
(*                                                                         *)
(* What the votes are good for does not appear: with peers the callback of *)
(* allOf joins futures of futures, the cast to Boolean throws, and         *)
(* becomeLeader is never reached.  RaftState.votedFor is never read and    *)
(* left out; votedFor is RaftNode's.  Storage is LeaderNode's and          *)
(* FollowerNode's subject.                                                 *)
(***************************************************************************)
EXTENDS Naturals, FiniteSets

CONSTANTS Electors,   \* scheduler threads
          Workers,    \* workerPool threads
          Peers, Handler, Self, None,
          MaxTerm     \* bound: terms

ASSUME ElectionAssumption ==
    /\ Peers # {} /\ MaxTerm \in Nat /\ None # Self
    /\ Electors \cap Workers = {} /\ Handler \notin Electors \cup Workers

Threads == Electors \cup Workers \cup {Handler}
Terms   == 0..MaxTerm

VARIABLES
    role, currentTerm, votedFor,
    timer,             \* electionTimer is armed
    tasks,             \* requestVote tasks the workers have not begun
    readers, writer,   \* rwLock: threads that read, is the Handler inside?
    pc, num,           \* each thread's place and the term it works with
    raced              \* history: an election changed the term during the
                       \* appendEntries that runs

fields == <<role, currentTerm, votedFor>>
lock   == <<readers, writer>>
vars   == <<fields, timer, tasks, lock, pc, num, raced>>

Init ==
    /\ role = "FOLLOWER" /\ currentTerm = 0 /\ votedFor = None
    /\ timer = FALSE /\ tasks = [p \in Peers |-> 0]
    /\ readers = {} /\ writer = FALSE
    /\ pc = [t \in Threads |-> "idle"] /\ num = [t \in Threads |-> 0]
    /\ raced = FALSE

Step(t, here, there) == pc[t] = here /\ pc' = [pc EXCEPT ![t] = there]
Keep(t, v) == num' = [num EXCEPT ![t] = v]
-----------------------------------------------------------------------------
(* startElection on a scheduler thread.                                    *)

(* leaderElectionTask, every 150 ms.                                       *)
ElectionTask(e) ==
    /\ role # "LEADER" /\ Step(e, "idle", "role")
    /\ UNCHANGED <<fields, timer, tasks, lock, num, raced>>

TimerFires(e) ==
    /\ timer /\ timer' = FALSE /\ Step(e, "idle", "role")
    /\ UNCHANGED <<fields, tasks, lock, num, raced>>

(* becomeCandidate: the role, then currentTerm++ as a read and a write.    *)
SetCandidate(e) ==
    /\ Step(e, "role", "read") /\ role' = "CANDIDATE"
    /\ UNCHANGED <<currentTerm, votedFor, timer, tasks, lock, num, raced>>

ReadOwnTerm(e) ==
    /\ currentTerm < MaxTerm
    /\ Step(e, "read", "write") /\ Keep(e, currentTerm)
    /\ UNCHANGED <<fields, timer, tasks, lock, raced>>

WriteOwnTerm(e) ==
    /\ Step(e, "write", "vote") /\ currentTerm' = num[e] + 1 /\ Keep(e, 0)
    /\ raced' = writer
    /\ UNCHANGED <<role, votedFor, timer, tasks, lock>>

(* votedFor = nodeId, and a task for each peer.                            *)
AskPeers(e) ==
    /\ Step(e, "vote", "idle") /\ votedFor' = Self
    /\ tasks' = [p \in Peers |-> tasks[p] + 1]
    /\ UNCHANGED <<role, currentTerm, timer, lock, num, raced>>
-----------------------------------------------------------------------------
(* requestVote on a worker thread.                                         *)

TakeTask(w, p) ==
    /\ tasks[p] > 0 /\ Step(w, "idle", "lock")
    /\ tasks' = [tasks EXCEPT ![p] = @ - 1]
    /\ UNCHANGED <<fields, timer, lock, num, raced>>

(* Mutant: no lock.                                                        *)
LockNothing(w) ==
    /\ Step(w, "lock", "ask")
    /\ UNCHANGED <<fields, timer, tasks, lock, num, raced>>

(* A waiting writer keeps new readers out.                                 *)
LockRead(w) ==
    /\ ~writer /\ pc[Handler] # "lock"
    /\ Step(w, "lock", "ask") /\ readers' = readers \cup {w}
    /\ UNCHANGED <<fields, timer, tasks, writer, num, raced>>

(* The request carries the term of now, not that of the election.          *)
SendRequest(w) ==
    /\ Step(w, "ask", "call") /\ Keep(w, currentTerm)
    /\ UNCHANGED <<fields, timer, tasks, lock, raced>>

(* External: the peer answers with its term.                               *)
PeerAnswers(w, term) ==
    /\ Step(w, "call", "compare") /\ Keep(w, term)
    /\ UNCHANGED <<fields, timer, tasks, lock, raced>>

Unlock(w, here) ==
    /\ Step(w, here, "idle") /\ Keep(w, 0) /\ readers' = readers \ {w}
    /\ UNCHANGED <<role, currentTerm, timer, tasks, writer, raced>>

(* Mutant: unlock() is not in a finally block.                             *)
FailLocked(w) ==
    /\ Step(w, "call", "idle") /\ Keep(w, 0)
    /\ UNCHANGED <<fields, timer, tasks, lock, raced>>

(* The call throws; the exception is logged.                               *)
CallFails(w) == Unlock(w, "call") /\ UNCHANGED votedFor

NotOutdated(w) ==
    /\ num[w] <= currentTerm /\ Unlock(w, "compare") /\ UNCHANGED votedFor

Outdated(w) ==
    /\ num[w] > currentTerm /\ Step(w, "compare", "adopt")
    /\ UNCHANGED <<fields, timer, tasks, lock, num, raced>>
-----------------------------------------------------------------------------
(* setCurrentTerm(term), then becomeFollower(term): role, and term again.  *)

Adopt(t, here, there) ==
    /\ Step(t, here, there) /\ currentTerm' = num[t]
    /\ UNCHANGED <<role, votedFor, timer, tasks, lock, num, raced>>

SetFollower(t) ==
    /\ Step(t, "follow", "again") /\ role' = "FOLLOWER"
    /\ UNCHANGED <<currentTerm, votedFor, timer, tasks, lock, num, raced>>

StepDown(t) ==
    \/ Adopt(t, "adopt", "follow") \/ SetFollower(t)
    \/ Adopt(t, "again", "forget")

(* votedFor = null; return false.                                          *)
ForgetVote(w) == Unlock(w, "forget") /\ votedFor' = None
-----------------------------------------------------------------------------
(* appendEntries.                                                          *)

Receive(term) ==
    /\ Step(Handler, "idle", "lock") /\ Keep(Handler, term)
    /\ UNCHANGED <<fields, timer, tasks, lock, raced>>

LockWrite ==
    /\ readers = {} /\ Step(Handler, "lock", "stale") /\ writer' = TRUE
    /\ UNCHANGED <<fields, timer, tasks, readers, num, raced>>

Leave(here) ==
    /\ Step(Handler, here, "idle") /\ Keep(Handler, 0)
    /\ writer' = FALSE /\ raced' = FALSE
    /\ UNCHANGED <<fields, timer, tasks, readers>>

(* term < currentTerm: return false.                                       *)
RefuseStale == num[Handler] < currentTerm /\ Leave("stale")

CheckNewer ==
    /\ num[Handler] >= currentTerm /\ Step(Handler, "stale", "newer")
    /\ UNCHANGED <<fields, timer, tasks, lock, num, raced>>

(* term > currentTerm, with the field read again.                          *)
CompareNewer ==
    /\ Step(Handler, "newer",
            IF num[Handler] > currentTerm THEN "adopt" ELSE "timer")
    /\ UNCHANGED <<fields, timer, tasks, lock, num, raced>>

HandlerForgets ==
    /\ Step(Handler, "forget", "timer") /\ votedFor' = None
    /\ UNCHANGED <<role, currentTerm, timer, tasks, lock, num, raced>>

ResetElectionTimer ==
    /\ Step(Handler, "timer", "log") /\ timer' = TRUE
    /\ UNCHANGED <<fields, tasks, lock, num, raced>>

(* The work on the log, which FollowerNode has in full, and the return.    *)
WriteLog == Leave("log")
-----------------------------------------------------------------------------
Elect(e) ==
    \/ ElectionTask(e) \/ TimerFires(e) \/ SetCandidate(e) \/ ReadOwnTerm(e)
    \/ WriteOwnTerm(e) \/ AskPeers(e)

Vote(w) ==
    \/ \E p \in Peers : TakeTask(w, p)
    \/ LockRead(w) \/ SendRequest(w) \/ CallFails(w)
    \/ \E term \in Terms : PeerAnswers(w, term)
    \/ NotOutdated(w) \/ Outdated(w) \/ StepDown(w) \/ ForgetVote(w)

Handle ==
    \/ LockWrite \/ RefuseStale \/ CheckNewer \/ CompareNewer
    \/ StepDown(Handler) \/ HandlerForgets \/ ResetElectionTimer \/ WriteLog

Next ==
    \/ \E e \in Electors : Elect(e)
    \/ \E w \in Workers : Vote(w)
    \/ Handle
    \/ \E term \in Terms : Receive(term)

Spec == Init /\ [][Next]_vars

(* Worker and gRPC threads run, and every call of a peer ends: it has no   *)
(* deadline, so this is an assumption on the peers and the network.        *)
Fairness == WF_vars(Handle) /\ \A w \in Workers : WF_vars(Vote(w))

FairSpec == Spec /\ Fairness
-----------------------------------------------------------------------------
(* Every variable keeps its type.                                          *)
TypeOK ==
    /\ role \in {"FOLLOWER", "CANDIDATE"} /\ currentTerm \in Terms
    /\ votedFor \in {None, Self} /\ timer \in BOOLEAN
    /\ tasks \in [Peers -> Nat] /\ readers \subseteq Workers
    /\ writer \in BOOLEAN /\ raced \in BOOLEAN /\ num \in [Threads -> Terms]

(* When the handler turns to the log the node is in the term of the        *)
(* request, unless an election of its own has come in between: answers to  *)
(* vote requests, however late, do not move the term under the write lock  *)
(* (RaftNode.java:185-197).                                                *)
AcceptedInTerm ==
    pc[Handler] = "log" => currentTerm = num[Handler] \/ raced

(* An AppendEntries request is answered: vote requests that hold the read  *)
(* lock during their calls delay it, but no path of requestVote or         *)
(* appendEntries keeps a lock and no stream of elections starves it.       *)
HandlerReturns == pc[Handler] = "lock" ~> pc[Handler] = "idle"
=============================================================================
