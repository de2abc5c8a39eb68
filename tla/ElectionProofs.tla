--------------------------- MODULE ElectionProofs ---------------------------
(***************************************************************************)
(* Proofs about Election for any number of scheduler and worker threads,   *)
(* any set of peers and any bound on the term.                             *)
(*                                                                         *)
(* AcceptedInTerm is not inductive: the handler compares the term with     *)
(* currentTerm several steps before it reaches the log.  Inv adds what it  *)
(* knows at each of these steps, and that a worker between the peer's      *)
(* answer and unlock() is a reader, so that none is there while the        *)
(* handler is inside.                                                      *)
(***************************************************************************)
EXTENDS Election, TLAPS

Inside == {"stale", "newer", "adopt", "follow", "again", "forget", "timer",
           "log"}
Locked == {"ask", "call", "compare", "adopt", "follow", "again", "forget"}

Labels == {"idle", "role", "read", "write", "vote", "lock", "ask", "call",
           "compare"} \cup Inside

(* Where the threads of each pool can be.                                  *)
Places ==
    /\ pc \in [Threads -> Labels]
    /\ \A e \in Electors : pc[e] \in {"idle", "role", "read", "write", "vote"}
    /\ \A w \in Workers : pc[w] \in {"idle", "lock"} \cup Locked
    /\ pc[Handler] \in {"idle", "lock"} \cup Inside

(* rwLock: who is inside, and that readers and the writer exclude each     *)
(* other.                                                                  *)
LockInv ==
    /\ \A w \in Workers : pc[w] \in Locked => w \in readers
    /\ pc[Handler] \in Inside => writer /\ readers = {}

(* An elector that is about to write has read a term below the bound.      *)
BelowBound == \A e \in Electors : pc[e] = "write" => num[e] < MaxTerm

(* What the handler knows of the term while it holds the lock.             *)
HandlerKnows ==
    /\ pc[Handler] = "newer" => num[Handler] >= currentTerm \/ raced
    /\ pc[Handler] \in {"follow", "again", "forget", "timer", "log"}
         => currentTerm = num[Handler] \/ raced

Inv == TypeOK /\ Places /\ LockInv /\ BelowBound /\ HandlerKnows

USE ElectionAssumption DEF fields, lock, vars, Inside, Locked, Labels
-----------------------------------------------------------------------------
(* The initial state satisfies the invariant.                              *)
LEMMA InitInv == Init => Inv
<1> SUFFICES ASSUME Init PROVE Inv
  OBVIOUS
<1>0. Handler \in Threads
  BY DEF Threads
<1>1. TypeOK
  <2>1. currentTerm \in Terms /\ tasks \in [Peers -> Nat]
            /\ num \in [Threads -> Terms]
    BY DEF Init, Terms
  <2>. QED BY <2>1, Zenon DEF Init, TypeOK
<1>2. Places
  BY <1>0 DEF Init, Places, Threads
<1>3. LockInv
  BY <1>0 DEF Init, LockInv, Threads
<1>4. BelowBound /\ HandlerKnows
  BY <1>0 DEF Init, BelowBound, HandlerKnows, Threads
<1>. QED BY <1>1, <1>2, <1>3, <1>4 DEF Inv

(* A scheduler thread keeps the invariant.                                 *)
LEMMA ElectKeepsInv ==
    ASSUME Inv, NEW e \in Electors, Elect(e)
    PROVE  Inv'
<1>. USE DEF Inv, Step, Keep
<1>1. CASE ElectionTask(e)
  <2>1. TypeOK'
    BY <1>1 DEF TypeOK, BelowBound, Threads, Terms, ElectionTask
  <2>2. Places'
    BY <1>1 DEF Places, Threads, ElectionTask
  <2>3. LockInv'
    BY <1>1 DEF LockInv, Places, TypeOK, Threads, ElectionTask
  <2>4. BelowBound'
    BY <1>1 DEF BelowBound, TypeOK, Places, Threads, Terms, ElectionTask
  <2>5. HandlerKnows'
    BY <1>1 DEF HandlerKnows, LockInv, TypeOK, Places, Threads, Terms,
                ElectionTask
  <2>. QED BY <2>1, <2>2, <2>3, <2>4, <2>5
<1>2. CASE TimerFires(e)
  <2>1. TypeOK'
    BY <1>2 DEF TypeOK, BelowBound, Threads, Terms, TimerFires
  <2>2. Places'
    BY <1>2 DEF Places, Threads, TimerFires
  <2>3. LockInv'
    BY <1>2 DEF LockInv, Places, TypeOK, Threads, TimerFires
  <2>4. BelowBound'
    BY <1>2 DEF BelowBound, TypeOK, Places, Threads, Terms, TimerFires
  <2>5. HandlerKnows'
    BY <1>2 DEF HandlerKnows, LockInv, TypeOK, Places, Threads, Terms,
                TimerFires
  <2>. QED BY <2>1, <2>2, <2>3, <2>4, <2>5
<1>3. CASE SetCandidate(e)
  <2>1. TypeOK'
    BY <1>3 DEF TypeOK, BelowBound, Threads, Terms, SetCandidate
  <2>2. Places'
    BY <1>3 DEF Places, Threads, SetCandidate
  <2>3. LockInv'
    BY <1>3 DEF LockInv, Places, TypeOK, Threads, SetCandidate
  <2>4. BelowBound'
    BY <1>3 DEF BelowBound, TypeOK, Places, Threads, Terms, SetCandidate
  <2>5. HandlerKnows'
    BY <1>3 DEF HandlerKnows, LockInv, TypeOK, Places, Threads, Terms,
                SetCandidate
  <2>. QED BY <2>1, <2>2, <2>3, <2>4, <2>5
<1>4. CASE ReadOwnTerm(e)
  <2>1. TypeOK'
    BY <1>4 DEF TypeOK, BelowBound, Threads, Terms, ReadOwnTerm
  <2>2. Places'
    BY <1>4 DEF Places, Threads, ReadOwnTerm
  <2>3. LockInv'
    BY <1>4 DEF LockInv, Places, TypeOK, Threads, ReadOwnTerm
  <2>4. BelowBound'
    BY <1>4 DEF BelowBound, TypeOK, Places, Threads, Terms, ReadOwnTerm
  <2>5. HandlerKnows'
    BY <1>4 DEF HandlerKnows, LockInv, TypeOK, Places, Threads, Terms,
                ReadOwnTerm
  <2>. QED BY <2>1, <2>2, <2>3, <2>4, <2>5
<1>5. CASE WriteOwnTerm(e)
  <2>1. TypeOK'
    BY <1>5 DEF TypeOK, BelowBound, Threads, Terms, WriteOwnTerm
  <2>2. Places'
    BY <1>5 DEF Places, Threads, WriteOwnTerm
  <2>3. LockInv'
    BY <1>5 DEF LockInv, Places, TypeOK, Threads, WriteOwnTerm
  <2>4. BelowBound'
    BY <1>5 DEF BelowBound, TypeOK, Places, Threads, Terms, WriteOwnTerm
  <2>5. HandlerKnows'
    BY <1>5 DEF HandlerKnows, LockInv, TypeOK, Places, Threads, Terms,
                WriteOwnTerm
  <2>. QED BY <2>1, <2>2, <2>3, <2>4, <2>5
<1>6. CASE AskPeers(e)
  <2>1. TypeOK'
    BY <1>6 DEF TypeOK, BelowBound, Threads, Terms, AskPeers
  <2>2. Places'
    BY <1>6 DEF Places, Threads, AskPeers
  <2>3. LockInv'
    BY <1>6 DEF LockInv, Places, TypeOK, Threads, AskPeers
  <2>4. BelowBound'
    BY <1>6 DEF BelowBound, TypeOK, Places, Threads, Terms, AskPeers
  <2>5. HandlerKnows'
    BY <1>6 DEF HandlerKnows, LockInv, TypeOK, Places, Threads, Terms, AskPeers
  <2>. QED BY <2>1, <2>2, <2>3, <2>4, <2>5
<1>. QED BY <1>1, <1>2, <1>3, <1>4, <1>5, <1>6 DEF Elect

(* A worker thread keeps the invariant.                                    *)
LEMMA VoteKeepsInv ==
    ASSUME Inv, NEW w \in Workers, Vote(w)
    PROVE  Inv'
<1>. USE DEF Inv, Step, Keep
<1>1. CASE \E p \in Peers : TakeTask(w, p)
  <2>1. TypeOK'
    BY <1>1 DEF TypeOK, BelowBound, Threads, Terms, TakeTask
  <2>2. Places'
    BY <1>1 DEF Places, Threads, TakeTask
  <2>3. LockInv'
    BY <1>1 DEF LockInv, Places, TypeOK, Threads, TakeTask
  <2>4. BelowBound'
    BY <1>1 DEF BelowBound, TypeOK, Places, Threads, Terms, TakeTask
  <2>5. HandlerKnows'
    BY <1>1 DEF HandlerKnows, LockInv, TypeOK, Places, Threads, Terms, TakeTask
  <2>. QED BY <2>1, <2>2, <2>3, <2>4, <2>5
<1>2. CASE LockRead(w)
  <2>1. TypeOK'
    BY <1>2 DEF TypeOK, BelowBound, Threads, Terms, LockRead
  <2>2. Places'
    BY <1>2 DEF Places, Threads, LockRead
  <2>3. LockInv'
    BY <1>2 DEF LockInv, Places, TypeOK, Threads, LockRead
  <2>4. BelowBound'
    BY <1>2 DEF BelowBound, TypeOK, Places, Threads, Terms, LockRead
  <2>5. HandlerKnows'
    BY <1>2 DEF HandlerKnows, LockInv, TypeOK, Places, Threads, Terms, LockRead
  <2>. QED BY <2>1, <2>2, <2>3, <2>4, <2>5
<1>3. CASE SendRequest(w)
  <2>1. TypeOK'
    BY <1>3 DEF TypeOK, BelowBound, Threads, Terms, SendRequest
  <2>2. Places'
    BY <1>3 DEF Places, Threads, SendRequest
  <2>3. LockInv'
    BY <1>3 DEF LockInv, Places, TypeOK, Threads, SendRequest
  <2>4. BelowBound'
    BY <1>3 DEF BelowBound, TypeOK, Places, Threads, Terms, SendRequest
  <2>5. HandlerKnows'
    BY <1>3 DEF HandlerKnows, LockInv, TypeOK, Places, Threads, Terms,
                SendRequest
  <2>. QED BY <2>1, <2>2, <2>3, <2>4, <2>5
<1>4. CASE CallFails(w)
  <2>1. TypeOK'
    BY <1>4 DEF TypeOK, BelowBound, Threads, Terms, CallFails, Unlock
  <2>2. Places'
    BY <1>4 DEF Places, Threads, CallFails, Unlock
  <2>3. LockInv'
    BY <1>4 DEF LockInv, Places, TypeOK, Threads, CallFails, Unlock
  <2>4. BelowBound'
    BY <1>4 DEF BelowBound, TypeOK, Places, Threads, Terms, CallFails, Unlock
  <2>5. HandlerKnows'
    BY <1>4 DEF HandlerKnows, LockInv, TypeOK, Places, Threads, Terms,
                CallFails, Unlock
  <2>. QED BY <2>1, <2>2, <2>3, <2>4, <2>5
<1>5. CASE \E term \in Terms : PeerAnswers(w, term)
  <2>1. TypeOK'
    BY <1>5 DEF TypeOK, BelowBound, Threads, Terms, PeerAnswers
  <2>2. Places'
    BY <1>5 DEF Places, Threads, PeerAnswers
  <2>3. LockInv'
    BY <1>5 DEF LockInv, Places, TypeOK, Threads, PeerAnswers
  <2>4. BelowBound'
    BY <1>5 DEF BelowBound, TypeOK, Places, Threads, Terms, PeerAnswers
  <2>5. HandlerKnows'
    BY <1>5 DEF HandlerKnows, LockInv, TypeOK, Places, Threads, Terms,
                PeerAnswers
  <2>. QED BY <2>1, <2>2, <2>3, <2>4, <2>5
<1>6. CASE NotOutdated(w)
  <2>1. TypeOK'
    BY <1>6 DEF TypeOK, BelowBound, Threads, Terms, NotOutdated, Unlock
  <2>2. Places'
    BY <1>6 DEF Places, Threads, NotOutdated, Unlock
  <2>3. LockInv'
    BY <1>6 DEF LockInv, Places, TypeOK, Threads, NotOutdated, Unlock
  <2>4. BelowBound'
    BY <1>6 DEF BelowBound, TypeOK, Places, Threads, Terms, NotOutdated, Unlock
  <2>5. HandlerKnows'
    BY <1>6 DEF HandlerKnows, LockInv, TypeOK, Places, Threads, Terms,
                NotOutdated, Unlock
  <2>. QED BY <2>1, <2>2, <2>3, <2>4, <2>5
<1>7. CASE Outdated(w)
  <2>1. TypeOK'
    BY <1>7 DEF TypeOK, BelowBound, Threads, Terms, Outdated
  <2>2. Places'
    BY <1>7 DEF Places, Threads, Outdated
  <2>3. LockInv'
    BY <1>7 DEF LockInv, Places, TypeOK, Threads, Outdated
  <2>4. BelowBound'
    BY <1>7 DEF BelowBound, TypeOK, Places, Threads, Terms, Outdated
  <2>5. HandlerKnows'
    BY <1>7 DEF HandlerKnows, LockInv, TypeOK, Places, Threads, Terms, Outdated
  <2>. QED BY <2>1, <2>2, <2>3, <2>4, <2>5
<1>8. CASE StepDown(w)
  <2>1. TypeOK'
    BY <1>8 DEF TypeOK, BelowBound, Threads, Terms, StepDown, Adopt,
                SetFollower
  <2>2. Places'
    BY <1>8 DEF Places, Threads, StepDown, Adopt, SetFollower
  <2>3. LockInv'
    BY <1>8 DEF LockInv, Places, TypeOK, Threads, StepDown, Adopt, SetFollower
  <2>4. BelowBound'
    BY <1>8 DEF BelowBound, TypeOK, Places, Threads, Terms, StepDown, Adopt,
                SetFollower
  <2>5. HandlerKnows'
    BY <1>8 DEF HandlerKnows, LockInv, TypeOK, Places, Threads, Terms,
                StepDown, Adopt, SetFollower
  <2>. QED BY <2>1, <2>2, <2>3, <2>4, <2>5
<1>9. CASE ForgetVote(w)
  <2>1. TypeOK'
    BY <1>9 DEF TypeOK, BelowBound, Threads, Terms, ForgetVote, Unlock
  <2>2. Places'
    BY <1>9 DEF Places, Threads, ForgetVote, Unlock
  <2>3. LockInv'
    BY <1>9 DEF LockInv, Places, TypeOK, Threads, ForgetVote, Unlock
  <2>4. BelowBound'
    BY <1>9 DEF BelowBound, TypeOK, Places, Threads, Terms, ForgetVote, Unlock
  <2>5. HandlerKnows'
    BY <1>9 DEF HandlerKnows, LockInv, TypeOK, Places, Threads, Terms,
                ForgetVote, Unlock
  <2>. QED BY <2>1, <2>2, <2>3, <2>4, <2>5
<1>. QED BY <1>1, <1>2, <1>3, <1>4, <1>5, <1>6, <1>7, <1>8, <1>9 DEF Vote

(* The handler keeps the invariant.                                        *)
LEMMA HandleKeepsInv ==
    ASSUME Inv, Handle
    PROVE  Inv'
<1>. USE DEF Inv, Step, Keep
<1>1. CASE LockWrite
  <2>1. TypeOK'
    BY <1>1 DEF TypeOK, BelowBound, Threads, Terms, LockWrite
  <2>2. Places'
    BY <1>1 DEF Places, Threads, LockWrite
  <2>3. LockInv'
    BY <1>1 DEF LockInv, Places, TypeOK, Threads, LockWrite
  <2>4. BelowBound'
    BY <1>1 DEF BelowBound, TypeOK, Places, Threads, Terms, LockWrite
  <2>5. HandlerKnows'
    BY <1>1 DEF HandlerKnows, LockInv, TypeOK, Places, Threads, Terms,
                LockWrite
  <2>. QED BY <2>1, <2>2, <2>3, <2>4, <2>5
<1>2. CASE RefuseStale
  <2>1. TypeOK'
    <3>1. num' \in [Threads -> Terms]
      BY <1>2 DEF TypeOK, Threads, Terms, RefuseStale, Leave
    <3>. QED BY <1>2, <3>1, Zenon DEF TypeOK, Terms, RefuseStale, Leave
  <2>2. Places'
    BY <1>2 DEF Places, Threads, RefuseStale, Leave
  <2>3. LockInv'
    BY <1>2 DEF LockInv, Places, TypeOK, Threads, RefuseStale, Leave
  <2>4. BelowBound'
    BY <1>2 DEF BelowBound, TypeOK, Places, Threads, Terms, RefuseStale, Leave
  <2>5. HandlerKnows'
    BY <1>2 DEF HandlerKnows, LockInv, TypeOK, Places, Threads, Terms,
                RefuseStale, Leave
  <2>. QED BY <2>1, <2>2, <2>3, <2>4, <2>5
<1>3. CASE CheckNewer
  <2>1. TypeOK'
    BY <1>3 DEF TypeOK, BelowBound, Threads, Terms, CheckNewer
  <2>2. Places'
    BY <1>3 DEF Places, Threads, CheckNewer
  <2>3. LockInv'
    BY <1>3 DEF LockInv, Places, TypeOK, Threads, CheckNewer
  <2>4. BelowBound'
    BY <1>3 DEF BelowBound, TypeOK, Places, Threads, Terms, CheckNewer
  <2>5. HandlerKnows'
    BY <1>3 DEF HandlerKnows, LockInv, TypeOK, Places, Threads, Terms,
                CheckNewer
  <2>. QED BY <2>1, <2>2, <2>3, <2>4, <2>5
<1>4. CASE CompareNewer
  <2>1. TypeOK'
    BY <1>4 DEF TypeOK, BelowBound, Threads, Terms, CompareNewer
  <2>2. Places'
    BY <1>4 DEF Places, Threads, CompareNewer
  <2>3. LockInv'
    BY <1>4 DEF LockInv, Places, TypeOK, Threads, CompareNewer
  <2>4. BelowBound'
    BY <1>4 DEF BelowBound, TypeOK, Places, Threads, Terms, CompareNewer
  <2>5. HandlerKnows'
    BY <1>4 DEF HandlerKnows, LockInv, TypeOK, Places, Threads, Terms,
                CompareNewer
  <2>. QED BY <2>1, <2>2, <2>3, <2>4, <2>5
<1>5. CASE StepDown(Handler)
  <2>1. TypeOK'
    BY <1>5 DEF TypeOK, BelowBound, Threads, Terms, StepDown, Adopt,
                SetFollower
  <2>2. Places'
    BY <1>5 DEF Places, Threads, StepDown, Adopt, SetFollower
  <2>3. LockInv'
    BY <1>5 DEF LockInv, Places, TypeOK, Threads, StepDown, Adopt, SetFollower
  <2>4. BelowBound'
    BY <1>5 DEF BelowBound, TypeOK, Places, Threads, Terms, StepDown, Adopt,
                SetFollower
  <2>5. HandlerKnows'
    BY <1>5 DEF HandlerKnows, LockInv, TypeOK, Places, Threads, Terms,
                StepDown, Adopt, SetFollower
  <2>. QED BY <2>1, <2>2, <2>3, <2>4, <2>5
<1>6. CASE HandlerForgets
  <2>1. TypeOK'
    BY <1>6 DEF TypeOK, BelowBound, Threads, Terms, HandlerForgets
  <2>2. Places'
    BY <1>6 DEF Places, Threads, HandlerForgets
  <2>3. LockInv'
    BY <1>6 DEF LockInv, Places, TypeOK, Threads, HandlerForgets
  <2>4. BelowBound'
    BY <1>6 DEF BelowBound, TypeOK, Places, Threads, Terms, HandlerForgets
  <2>5. HandlerKnows'
    BY <1>6 DEF HandlerKnows, LockInv, TypeOK, Places, Threads, Terms,
                HandlerForgets
  <2>. QED BY <2>1, <2>2, <2>3, <2>4, <2>5
<1>7. CASE ResetElectionTimer
  <2>1. TypeOK'
    BY <1>7 DEF TypeOK, BelowBound, Threads, Terms, ResetElectionTimer
  <2>2. Places'
    BY <1>7 DEF Places, Threads, ResetElectionTimer
  <2>3. LockInv'
    BY <1>7 DEF LockInv, Places, TypeOK, Threads, ResetElectionTimer
  <2>4. BelowBound'
    BY <1>7 DEF BelowBound, TypeOK, Places, Threads, Terms, ResetElectionTimer
  <2>5. HandlerKnows'
    BY <1>7 DEF HandlerKnows, LockInv, TypeOK, Places, Threads, Terms,
                ResetElectionTimer
  <2>. QED BY <2>1, <2>2, <2>3, <2>4, <2>5
<1>8. CASE WriteLog
  <2>1. TypeOK'
    <3>1. num' \in [Threads -> Terms]
      BY <1>8 DEF TypeOK, Threads, Terms, WriteLog, Leave
    <3>. QED BY <1>8, <3>1, Zenon DEF TypeOK, Terms, WriteLog, Leave
  <2>2. Places'
    BY <1>8 DEF Places, Threads, WriteLog, Leave
  <2>3. LockInv'
    BY <1>8 DEF LockInv, Places, TypeOK, Threads, WriteLog, Leave
  <2>4. BelowBound'
    BY <1>8 DEF BelowBound, TypeOK, Places, Threads, Terms, WriteLog, Leave
  <2>5. HandlerKnows'
    BY <1>8 DEF HandlerKnows, LockInv, TypeOK, Places, Threads, Terms,
                WriteLog, Leave
  <2>. QED BY <2>1, <2>2, <2>3, <2>4, <2>5
<1>. QED BY <1>1, <1>2, <1>3, <1>4, <1>5, <1>6, <1>7, <1>8 DEF Handle

(* A request that arrives keeps the invariant.                             *)
LEMMA ReceiveKeepsInv ==
    ASSUME Inv, NEW term \in Terms, Receive(term)
    PROVE  Inv'
<1>. USE DEF Inv, Receive, Step, Keep
<1>1. TypeOK'
  BY DEF TypeOK, Threads, Terms
<1>2. Places'
  BY DEF Places, Threads
<1>3. LockInv'
  BY DEF LockInv, Places, TypeOK, Threads
<1>4. BelowBound'
  BY DEF BelowBound, TypeOK, Places, Threads, Terms
<1>5. HandlerKnows'
  BY DEF HandlerKnows, TypeOK, Places, Threads
<1>. QED BY <1>1, <1>2, <1>3, <1>4, <1>5
-----------------------------------------------------------------------------
(* The invariant holds of every reachable state.                           *)
THEOREM Invariance == Spec => []Inv
<1>1. Inv /\ [Next]_vars => Inv'
  <2>. SUFFICES ASSUME Inv, [Next]_vars PROVE Inv'
    OBVIOUS
  <2>1. CASE UNCHANGED vars
    BY <2>1 DEF Inv, TypeOK, Places, LockInv, BelowBound, HandlerKnows
  <2>2. CASE Next
    BY <2>2, ElectKeepsInv, VoteKeepsInv, HandleKeepsInv, ReceiveKeepsInv
       DEF Next
  <2>. QED BY <2>1, <2>2
<1>. QED BY InitInv, <1>1, PTL DEF Spec

(* Every variable of the election side keeps its type: the tasks that the  *)
(* workers take were submitted, and no term passes the bound.              *)
THEOREM TypeCorrect == Spec => []TypeOK
<1>1. Inv => TypeOK
  BY DEF Inv
<1>. QED BY Invariance, <1>1, PTL

(* When appendEntries turns to the log, the node is in the term of the     *)
(* request, or an election of its own has intervened, whatever number of   *)
(* vote requests is answered meanwhile (RaftNode.java:185-197).            *)
THEOREM TermAccepted == Spec => []AcceptedInTerm
<1>1. Inv => AcceptedInTerm
  BY DEF Inv, HandlerKnows, AcceptedInTerm
<1>. QED BY Invariance, <1>1, PTL
=============================================================================
