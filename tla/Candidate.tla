------------------------------ MODULE Candidate ------------------------------
(***************************************************************************)
(* The elections that run in a RaftNode beside everything else, as far as  *)
(* LeaderNode and FollowerNode, which extend this module, meet them: the   *)
(* unlocked currentTerm++ of scheduler threads, and the requestVote tasks  *)
(* that hold rwLock's read lock during a call and may adopt a term after   *)
(* it.  Election has the same code one field access per step, with         *)
(* votedFor.                                                               *)
(*                                                                         *)
(* Accesses that nothing can tell apart are merged here.  The test of the  *)
(* role, becoming CANDIDATE and the read of ++ are one step: no code asks  *)
(* whether a node is FOLLOWER or CANDIDATE, and only a harness could make  *)
(* it LEADER in between, since a node without peers has no two elections   *)
(* at once (its timer is never armed).  The write of ++ is one step with   *)
(* the submission of the tasks, and so are the two writes of an adopted    *)
(* term.                                                                   *)
(***************************************************************************)
EXTENDS RaftLog

CONSTANTS Peers,      \* ids of the other nodes (ServerConfig.getPeers)
          Electors,   \* scheduler threads
          Voters,     \* workerPool threads that run vote requests
          MaxTerm, MaxTasks   \* bounds: no elections from term MaxTerm on
                              \* (peers may be one term ahead), tasks

ASSUME CandidateAssumption ==
    /\ IsFiniteSet(Peers) /\ MaxTerm \in Nat /\ MaxTasks \in Nat

VARIABLES
    role, currentTerm,   \* RaftState
    timer,               \* electionTimer is armed
    ballot,              \* the term a scheduler thread will write, or 0
    tasks,               \* vote requests submitted and not begun
    voter, heard         \* worker in requestVote: place, term to adopt

elections == <<ballot, tasks, voter, heard>>

NoElections ==
    /\ ballot = [e \in Electors |-> 0] /\ tasks = 0
    /\ voter = [w \in Voters |-> "idle"] /\ heard = [w \in Voters |-> 0]

(* The threads of a dead process and their tasks are gone.                 *)
DropElections ==
    /\ ballot' = [e \in Electors |-> 0] /\ tasks' = 0
    /\ voter' = [w \in Voters |-> "idle"] /\ heard' = [w \in Voters |-> 0]

(* A worker is inside the read lock: the write lock is not to be had.      *)
ReadLocked == \E w \in Voters : voter[w] # "idle"
-----------------------------------------------------------------------------
(* startElection on a scheduler thread, without a lock.                    *)

BecomeCandidate(e) ==
    /\ ballot[e] = 0 /\ currentTerm < MaxTerm
    /\ role' = "CANDIDATE"
    /\ ballot' = [ballot EXCEPT ![e] = currentTerm + 1]
    /\ UNCHANGED <<currentTerm, tasks, voter, heard>>

(* leaderElectionTask, every 150 ms: it asks for the role only.            *)
ElectionTask(e) == role # "LEADER" /\ BecomeCandidate(e) /\ UNCHANGED timer

(* electionTimer expires: startElection without a look at the role.        *)
TimerFires(e) == timer /\ timer' = FALSE /\ BecomeCandidate(e)

WriteTerm(e) ==
    /\ ballot[e] > 0
    /\ currentTerm' = ballot[e]
    /\ ballot' = [ballot EXCEPT ![e] = 0]
    /\ UNCHANGED <<timer, voter, heard>>

(* Without peers the callback of allOf runs at once, finds one vote > 0    *)
(* and calls becomeLeader.  With peers it never gets there: the elements   *)
(* it joins are the inner futures requestVote returned, and the cast to    *)
(* Boolean throws inside the discarded thenAccept stage.                   *)
Campaign(e) ==
    /\ WriteTerm(e)
    /\ tasks' = tasks + Cardinality(Peers) /\ tasks' <= MaxTasks
    /\ role' = IF Peers = {} THEN "LEADER" ELSE role

(* getLastLogIndex or getLastLogTerm throws: nobody is asked.              *)
CampaignFails(e) == WriteTerm(e) /\ UNCHANGED <<role, tasks>>
-----------------------------------------------------------------------------
(* requestVote on a worker thread; its component says when the read lock   *)
(* is free.                                                                *)

TakeTask(w) ==
    /\ tasks > 0 /\ tasks' = tasks - 1
    /\ voter[w] = "idle" /\ voter' = [voter EXCEPT ![w] = "call"]
    /\ UNCHANGED <<role, currentTerm, timer, ballot, heard>>

(* External: the peer answers with a higher term.                          *)
PeerAnswers(w, term) ==
    /\ term > currentTerm
    /\ voter[w] = "call" /\ voter' = [voter EXCEPT ![w] = "adopt"]
    /\ heard' = [heard EXCEPT ![w] = term]
    /\ UNCHANGED <<role, currentTerm, timer, ballot, tasks>>

(* Mutant: unlock() is not in a finally block, and the call throws.        *)
CallEndsLocked(w) ==
    /\ voter[w] = "call" /\ voter' = [voter EXCEPT ![w] = "locked"]
    /\ UNCHANGED <<role, currentTerm, timer, ballot, tasks, heard>>

(* The call throws, or the peer's term is no higher: unlock.               *)
CallEnds(w) ==
    /\ voter[w] = "call" /\ voter' = [voter EXCEPT ![w] = "idle"]
    /\ UNCHANGED <<role, currentTerm, timer, ballot, tasks, heard>>

(* setCurrentTerm, becomeFollower, unlock.                                 *)
AdoptTerm(w) ==
    /\ voter[w] = "adopt" /\ voter' = [voter EXCEPT ![w] = "idle"]
    /\ currentTerm' = heard[w] /\ role' = "FOLLOWER"
    /\ heard' = [heard EXCEPT ![w] = 0]
    /\ UNCHANGED <<timer, ballot, tasks>>

RequestVote(w) ==
    \/ \E term \in 1..MaxTerm + 1 : PeerAnswers(w, term)
    \/ CallEnds(w) \/ AdoptTerm(w)

ElectionsOK ==
    /\ ballot \in [Electors -> 0..MaxTerm] /\ tasks \in 0..MaxTasks
    /\ voter \in [Voters -> {"idle", "call", "adopt"}]
    /\ heard \in [Voters -> 0..MaxTerm + 1]
=============================================================================
