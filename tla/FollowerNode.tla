---------------------------- MODULE FollowerNode ----------------------------
(***************************************************************************)
(* One server that follows: RaftNode.appendEntries as the handler of the   *)
(* AppendEntries call of raft.proto, one SQL statement or access to        *)
(* RaftState per step, with the elections of the same node (Candidate)     *)
(* running beside it and crashes between any two statements.  The handler  *)
(* holds the write lock, so there is one at a time.                        *)
(*                                                                         *)
(* The rest of the cluster is an environment that keeps Raft's promises:   *)
(* one leader per term, leaders that only append, a new leader whose log   *)
(* starts with everything chosen.  (It takes quorums that overlap for      *)
(* granted; the thresholds of RaftNode.java:96 and 175 give them only when *)
(* the number of peers is even.)  A request is any slice of a leader's log *)
(* that sendAppendEntries could have read at some time, so requests are    *)
(* lost, duplicated and reordered freely.                                  *)
(***************************************************************************)
EXTENDS Candidate

CONSTANTS Keys, Values, NoValue,
          SplitSend,     \* entries and commit index are read at two times
          DeleteMayFail, \* may deleteLogEntriesFrom swallow an exception?
          CallsMayFail,  \* may the other storage calls fail?
          TermMayFall,   \* may an unlocked write set currentTerm back?
          MaxLen, MaxCrashes   \* bounds

ASSUME FollowerAssumption ==
    /\ SplitSend \in BOOLEAN /\ DeleteMayFail \in BOOLEAN
    /\ CallsMayFail \in BOOLEAN /\ TermMayFall \in BOOLEAN
    /\ NoValue \notin Values /\ Peers # {}
    /\ MaxLen \in Nat /\ MaxCrashes \in Nat

VARIABLES
    leaders, chosen,     \* environment: the log of each term's leader, the
    floors,              \* entries the cluster has committed, and how many
                         \* there were when each leader was elected
    log, commitIndex, lastApplied, kv,   \* tables logs, state and kv_store
    pc, req, i,          \* handler: control point, request, loop counter
    la, upto,            \* applyCommittedEntries: lastApplied, commitIndex
    before,              \* history: the log when the loop began
    crashes

cluster   == <<leaders, chosen, floors>>
store     == <<log, commitIndex, lastApplied, kv>>
raftState == <<role, currentTerm, timer, elections>>
handler   == <<pc, req, i, la, upto, before>>
vars == <<cluster, store, raftState, handler, crashes>>

Entry == [term : 1..MaxTerm, key : Keys, value : Values]
NoRequest == [term |-> 0, prev |-> 0, prevTerm |-> 0, entries |-> <<>>,
              commit |-> 0]

(* No handler runs in the node.                                            *)
Idle == pc' = "idle" /\ req' = NoRequest /\ i' = 0 /\ la' = 0 /\ upto' = 0
            /\ before' = <<>>

Init ==
    /\ leaders = <<>> /\ chosen = <<>> /\ floors = <<>>
    /\ log = <<>> /\ commitIndex = 0 /\ lastApplied = 0
    /\ kv = [k \in Keys |-> NoValue]
    /\ role = "FOLLOWER" /\ currentTerm = 0 /\ timer = FALSE /\ NoElections
    /\ pc = "idle" /\ req = NoRequest /\ i = 0 /\ la = 0 /\ upto = 0
    /\ before = <<>> /\ crashes = 0

(* getCommitIndex and getLastApplied print an SQLException and return 0;   *)
(* the methods that write to state and kv_store print it and return.       *)
Reads(v) == {v} \cup IF CallsMayFail THEN {0} ELSE {}
Writes(old, new) == {new} \cup IF CallsMayFail THEN {old} ELSE {}
-----------------------------------------------------------------------------
(* The environment.                                                        *)

Prefix(s, m) == SubSeq(s, 1, m)
Agree(s, r, m) == m <= Len(s) /\ m <= Len(r) /\ Prefix(s, m) = Prefix(r, m)

(* The next term gets a leader: its log is a prefix of an earlier leader's *)
(* and holds what is chosen.                                               *)
Elect(old, m) ==
    /\ Len(leaders) < MaxTerm
    /\ m <= Len(old) /\ Agree(chosen, Prefix(old, m), Len(chosen))
    /\ leaders' = Append(leaders, Prefix(old, m))
    /\ floors' = Append(floors, Len(chosen))
    /\ UNCHANGED <<chosen, store, raftState, handler, crashes>>

LeaderAppends(t, k, v) ==
    /\ Len(leaders[t]) < MaxLen
    /\ leaders' = [leaders EXCEPT ![t] =
                      Append(@, [term |-> t, key |-> k, value |-> v])]
    /\ UNCHANGED <<chosen, floors, store, raftState, handler, crashes>>

(* The newest leader finds an entry of its own term on a majority.         *)
Choose(m) ==
    LET t == Len(leaders) IN
    /\ t > 0 /\ m \in Len(chosen) + 1..Len(leaders[t])
    /\ leaders[t][m].term = t
    /\ chosen' = Prefix(leaders[t], m)
    /\ UNCHANGED <<leaders, floors, store, raftState, handler, crashes>>

(* The most a leader can know to be committed: a deposed one learns        *)
(* nothing new.                                                            *)
Known(t) == IF t = Len(leaders) THEN Len(chosen) ELSE floors[t + 1]

(* The last indices the leader of term t has seen: what it was elected     *)
(* with, and every one since.                                              *)
Lengths(t) ==
    {l \in 0..Len(leaders[t]) :
        \A j \in l + 1..Len(leaders[t]) : leaders[t][j].term = t}

(* What sendAppendEntries of the leader of term t builds from the rows     *)
(* p+1..l of its log, l being the last index at the time, and a commit     *)
(* index read after the rows: only when no put falls between the two reads *)
(* is it sure to be at most l.                                             *)
Request(t, p, l, c) ==
    [term |-> t, prev |-> p, prevTerm |-> TermAt(leaders[t], p),
     entries |-> SubSeq(leaders[t], p + 1, l), commit |-> c]
-----------------------------------------------------------------------------
(* appendEntries: the lock, the term, the role, the timer and the          *)
(* consistency check.                                                      *)

(* Mutant: no term check.                                                  *)
ReceiveStale(r) ==
    /\ pc = "idle" /\ ~ReadLocked
    /\ pc' = "term" /\ req' = r
    /\ UNCHANGED <<cluster, store, raftState, i, la, upto, before, crashes>>

(* A request of an older term is refused and changes nothing.              *)
Receive(r) ==
    /\ pc = "idle" /\ ~ReadLocked
    /\ r.term >= currentTerm
    /\ pc' = "term" /\ req' = r
    /\ UNCHANGED <<cluster, store, raftState, i, la, upto, before, crashes>>

(* term > currentTerm, with the field read again.                          *)
SeeNewer ==
    /\ pc = "term" /\ req.term > currentTerm
    /\ pc' = "adopt"
    /\ UNCHANGED <<cluster, store, raftState, req, i, la, upto, before,
                   crashes>>

Adopt ==
    /\ pc = "adopt" /\ pc' = "check"
    /\ TermMayFall \/ currentTerm <= req.term
    /\ currentTerm' = req.term /\ role' = "FOLLOWER"
    /\ UNCHANGED <<cluster, store, timer, elections, req, i, la, upto, before,
                   crashes>>

(* resetElectionTimer; then prevLogIndex and prevLogTerm.  The methods on  *)
(* the logs table throw when they fail, and the handler is left.           *)
CheckPrev ==
    /\ pc = "check" \/ (pc = "term" /\ req.term <= currentTerm)
    /\ timer' = TRUE
    /\ \/ /\ PrevMatches(log, req.prev, req.prevTerm)
          /\ pc' = "loop" /\ i' = 1 /\ before' = log
          /\ UNCHANGED <<req, la, upto>>
       \/ /\ CallsMayFail \/ ~PrevMatches(log, req.prev, req.prevTerm)
          /\ Idle
    /\ UNCHANGED <<cluster, store, role, currentTerm, elections, crashes>>
-----------------------------------------------------------------------------
(* The loop over the entries.                                              *)

Index == req.prev + i

(* Mutant: an entry that is there already is taken for the last one, and   *)
(* all that follow are deleted.                                            *)
SkipAndTruncate ==
    /\ pc = "loop" /\ i <= Len(req.entries)
    /\ Len(log) >= Index /\ log[Index].term = req.entries[i].term
    /\ i' = i + 1 /\ log' = Prefix(log, Index)
    /\ UNCHANGED <<cluster, commitIndex, lastApplied, kv, raftState, pc, req,
                   la, upto, before, crashes>>

SkipEntry ==
    /\ pc = "loop" /\ i <= Len(req.entries)
    /\ Len(log) >= Index /\ log[Index].term = req.entries[i].term
    /\ i' = i + 1
    /\ UNCHANGED <<cluster, store, raftState, pc, req, la, upto, before,
                   crashes>>

(* Mutants: nothing is deleted; the conflicting row itself is kept.        *)
KeepConflict ==
    /\ pc = "loop" /\ i <= Len(req.entries)
    /\ Len(log) >= Index /\ log[Index].term # req.entries[i].term
    /\ pc' = "append"
    /\ UNCHANGED <<cluster, store, raftState, req, i, la, upto, before,
                   crashes>>

DeleteAfterConflict ==
    /\ pc = "loop" /\ i <= Len(req.entries)
    /\ Len(log) >= Index /\ log[Index].term # req.entries[i].term
    /\ pc' = "append" /\ log' = Prefix(log, Index)
    /\ UNCHANGED <<cluster, commitIndex, lastApplied, kv, raftState, req, i,
                   la, upto, before, crashes>>

DeleteConflict ==
    /\ pc = "loop" /\ i <= Len(req.entries)
    /\ Len(log) >= Index /\ log[Index].term # req.entries[i].term
    /\ pc' = "append"
    /\ log' \in {Prefix(log, Index - 1)} \cup
               IF DeleteMayFail /\ Len(log) < MaxLen THEN {log} ELSE {}
    /\ UNCHANGED <<cluster, commitIndex, lastApplied, kv, raftState, req, i,
                   la, upto, before, crashes>>

(* The next thing the loop does is to append entry i.                      *)
Appending ==
    \/ pc = "append"
    \/ pc = "loop" /\ i <= Len(req.entries) /\ Len(log) < Index

AppendEntry ==
    /\ Appending
    /\ pc' = "loop" /\ i' = i + 1
    /\ log' = Append(log, req.entries[i])
    /\ UNCHANGED <<cluster, commitIndex, lastApplied, kv, raftState, req, la,
                   upto, before, crashes>>

(* A method on the logs table throws and the handler is left: before the   *)
(* statement, or, in appendLogEntry, when the row is stored already and    *)
(* its generated key cannot be had.  A row to apply that does not exist is *)
(* null, which throws in applyToStateMachine.                              *)
Abort ==
    /\ ~CallsMayFail => pc = "apply" /\ la >= Len(log)
    /\ \/ /\ \/ pc = "append" \/ pc = "set"
             \/ pc = "loop" /\ i <= Len(req.entries)
             \/ pc = "apply" /\ la < upto
          /\ log' = log
       \/ Appending /\ log' = Append(log, req.entries[i])
    /\ Idle
    /\ UNCHANGED <<cluster, commitIndex, lastApplied, kv, raftState, crashes>>
-----------------------------------------------------------------------------
(* The commit index and applyCommittedEntries.                             *)

(* leaderCommit > getCommitIndex() ?  If not, return true.                 *)
TestCommit ==
    /\ pc = "loop" /\ i > Len(req.entries)
    /\ \E c \in Reads(commitIndex) :
          IF req.commit > c
          THEN pc' = "set" /\ UNCHANGED <<req, i, la, upto, before>>
          ELSE Idle
    /\ UNCHANGED <<cluster, store, raftState, crashes>>

SetCommit ==
    /\ pc = "set" /\ pc' = "applied"
    /\ commitIndex' \in Writes(commitIndex, Smaller(req.commit, Len(log)))
    /\ UNCHANGED <<cluster, log, lastApplied, kv, raftState, req, i, la, upto,
                   before, crashes>>

(* Mutant: the entry after lastApplied is taken as applied.                *)
ReadAppliedSkips ==
    /\ pc = "applied" /\ pc' = "target"
    /\ la' = lastApplied + 1
    /\ UNCHANGED <<cluster, store, raftState, req, i, upto, before, crashes>>

ReadApplied ==
    /\ pc = "applied" /\ pc' = "target"
    /\ la' \in Reads(lastApplied)
    /\ UNCHANGED <<cluster, store, raftState, req, i, upto, before, crashes>>

(* Mutant: lastApplied is set before the entries are applied.              *)
ReadTargetSetsApplied ==
    /\ pc = "target" /\ pc' = "apply"
    /\ upto' = commitIndex /\ lastApplied' = commitIndex
    /\ UNCHANGED <<cluster, log, commitIndex, kv, raftState, req, i, la,
                   before, crashes>>

(* The commit index as the database has it now, whatever became of the     *)
(* write above.                                                            *)
ReadTarget ==
    /\ pc = "target" /\ pc' = "apply"
    /\ upto' \in Reads(commitIndex)
    /\ UNCHANGED <<cluster, store, raftState, req, i, la, before, crashes>>

ApplyEntry ==
    /\ pc = "apply" /\ la < upto /\ la + 1 <= Len(log)
    /\ la' = la + 1
    /\ kv' \in Writes(kv, [kv EXCEPT ![log[la + 1].key] = log[la + 1].value])
    /\ UNCHANGED <<cluster, log, commitIndex, lastApplied, raftState, pc, req,
                   i, upto, before, crashes>>

(* setLastApplied and return true.                                         *)
ApplyDone ==
    /\ pc = "apply" /\ la >= upto
    /\ lastApplied' \in Writes(lastApplied, la)
    /\ Idle
    /\ UNCHANGED <<cluster, log, commitIndex, kv, raftState, crashes>>
-----------------------------------------------------------------------------
(* The other threads of the node, and its death.                           *)

(* Scheduler threads and workers: currentTerm is written where nobody      *)
(* holds the write lock.  With TermMayFall the write of an older value     *)
(* than the field has by then is one of the steps.                         *)
Elections ==
    /\ \/ \E e \in Electors : \/ ElectionTask(e) \/ TimerFires(e)
                              \/ Campaign(e)
                              \/ CallsMayFail /\ CampaignFails(e)
       \/ \E w \in Voters : (pc = "idle" /\ TakeTask(w)) \/ RequestVote(w)
    /\ TermMayFall \/ currentTerm' >= currentTerm
    /\ UNCHANGED <<cluster, store, handler, crashes>>

(* The tables stay; term, role and vote are only in the RaftNode object.   *)
Crash ==
    /\ crashes < MaxCrashes /\ crashes' = crashes + 1
    /\ role' = "FOLLOWER" /\ currentTerm' = 0 /\ timer' = FALSE
    /\ DropElections /\ Idle
    /\ UNCHANGED <<cluster, store>>
-----------------------------------------------------------------------------
Handle ==
    \/ SeeNewer \/ Adopt \/ CheckPrev
    \/ SkipEntry \/ DeleteConflict \/ AppendEntry \/ Abort
    \/ TestCommit \/ SetCommit \/ ReadApplied \/ ReadTarget
    \/ ApplyEntry \/ ApplyDone

Next ==
    \/ \E t \in DOMAIN leaders, m \in 0..MaxLen : Elect(leaders[t], m)
    \/ leaders = <<>> /\ Elect(<<>>, 0)
    \/ \E t \in DOMAIN leaders, k \in Keys, v \in Values :
          LeaderAppends(t, k, v)
    \/ \E m \in 1..MaxLen : Choose(m)
    \/ \E t \in DOMAIN leaders :
          \E l \in Lengths(t), c \in 0..Known(t) : \E p \in 0..l :
             (SplitSend \/ c <= l) /\ Receive(Request(t, p, l, c))
    \/ Handle
    \/ Elections \/ Crash

Spec == Init /\ [][Next]_vars
-----------------------------------------------------------------------------
Labels == {"idle", "term", "adopt", "check", "loop", "append", "set",
           "applied", "target", "apply"}

(* Every variable keeps its type.                                          *)
TypeOK ==
    /\ log \in Seq(Entry) /\ Len(log) <= MaxLen
    /\ commitIndex \in 0..MaxLen /\ lastApplied \in 0..MaxLen
    /\ kv \in [Keys -> Values \cup {NoValue}]
    /\ role \in {"FOLLOWER", "CANDIDATE"} /\ currentTerm \in 0..MaxTerm + 1
    /\ timer \in BOOLEAN /\ ElectionsOK /\ pc \in Labels
    /\ i \in 0..MaxLen + 1 /\ la \in 0..MaxLen /\ upto \in 0..MaxLen

(* The statements of the loop, interrupted by elections of the same node,  *)
(* leave in the table what MergeEntries says, also after an earlier        *)
(* request was left half way: this is the step LeaderNode takes for the    *)
(* whole loop (RaftNode.java:204-215).  In the words of line 208, it has   *)
(* deleted "conflicting entries and all that follow".                      *)
LoopMerges ==
    pc = "loop" /\ i > Len(req.entries) =>
        log = MergeEntries(before, req.prev, req.entries)

(* The row the handler is about to apply exists, so getLogEntry            *)
(* (RaftNode.java:233) never yields null here.  Line 230 reads the commit  *)
(* index again: after a setCommitIndex that failed in silence it is an     *)
(* older value, perhaps beyond what this request has brought, and after    *)
(* failed reads the loop starts from 0.                                    *)
RowsPresent == pc = "apply" /\ la < upto => la + 1 <= Len(log)

(* What this node regards as committed is what the cluster has chosen: the *)
(* rows up to commitIndex are present and agree with the chosen entries,   *)
(* whichever old, repeated or overtaken requests have arrived and          *)
(* whichever storage calls have failed.                                    *)
CommittedAgrees == Agree(log, chosen, commitIndex)

(* Outside a handler the kv_store table of a node that has not crashed     *)
(* holds, for every key, the value of the youngest chosen entry up to      *)
(* lastApplied, and nothing else.                                          *)
StoreAgrees ==
    pc = "idle" /\ crashes = 0 =>
        /\ lastApplied <= Len(chosen)
        /\ \A k \in Keys :
              LET at == {j \in 1..lastApplied : chosen[j].key = k}
              IN  kv[k] = IF at = {} THEN NoValue
                          ELSE chosen[CHOOSE j \in at :
                                        \A x \in at : x <= j].value

(* At any time, also after crashes in the middle of applyCommittedEntries  *)
(* and while it applies entries again, the table has for every key the     *)
(* value of a chosen entry, never of one that lastApplied says has been    *)
(* overwritten; and a key that lastApplied covers has a value.             *)
StoreChosen ==
    /\ lastApplied <= Len(chosen)
    /\ \A k \in Keys :
          \/ kv[k] = NoValue /\ \A x \in 1..lastApplied : chosen[x].key # k
          \/ \E j \in 1..Len(chosen) :
                /\ chosen[j].key = k /\ chosen[j].value = kv[k]
                /\ \A x \in j + 1..lastApplied : chosen[x].key # k
=============================================================================
