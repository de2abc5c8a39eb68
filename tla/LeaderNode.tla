----------------------------- MODULE LeaderNode -----------------------------
(***************************************************************************)
(* One server that leads: the put path of KVStoreServiceImpl, RaftNode and *)
(* SQLiteStorage, one access to shared state (a SQL statement, a map       *)
(* access, a field of RaftState, the lock) per step.                       *)
(*                                                                         *)
(* Putters are gRPC handler threads running put -> proposeEntry ->         *)
(* replicateEntry; Beaters are workerPool threads running the              *)
(* sendAppendEntries tasks heartbeatTask submits.  Both run                *)
(* sendAppendEntries, whose "RPC" is a call of the node's OWN appendEntries*)
(* under the write lock, and updateCommitIndex and applyCommittedEntries,  *)
(* which take no lock at all.                                              *)
(*                                                                         *)
(* A process crash loses the RaftNode object and keeps the database.  Rows *)
(* of the logs table never change once written here (LogAppendOnly), so a  *)
(* row is read in the step that uses it.  Two groups of accesses are one   *)
(* step each: the part of appendEntries from the lock to the end of its    *)
(* loop (FollowerNode has it statement by statement), and the tally over   *)
(* matchIndex in updateCommitIndex.  The node's elections are those of     *)
(* Candidate: they move term and role under a request, and their read lock *)
(* keeps appendEntries out.                                                *)
(*                                                                         *)
(* A storage call may fail (StorageFails), as it does for every thread     *)
(* that still runs after KVStoreServer.stop has closed the database.       *)
(***************************************************************************)
EXTENDS Candidate

CONSTANTS Putters,     \* gRPC handler threads
          Beaters,     \* workerPool threads that run heartbeat tasks
          Keys, Values,
          NoValue,     \* no row for the key
          None,        \* no thread, no peer
          Promotable,  \* does a harness call getState().becomeLeader() ?
          StorageFails, \* may a storage call raise SQLException ?
          MaxLog, MaxFaults   \* bounds

Threads == Putters \cup Beaters

ASSUME LeaderAssumption ==
    /\ Putters \cap Beaters = {}
    /\ None \notin Threads \cup Peers
    /\ NoValue \notin Values
    /\ Promotable \in BOOLEAN /\ StorageFails \in BOOLEAN
    /\ MaxLog \in Nat /\ MaxFaults \in Nat

VARIABLES
    log, commitIndex, lastApplied, kv,  \* tables logs, state and kv_store
    nextIndex, matchIndex,              \* RaftNode's maps
    writer,                             \* the thread in rwLock's write lock
    pc,
    entry,            \* proposeEntry: the entry being built
    todo, dst, req,   \* peers left, current peer, request to appendEntries
    from, last, n,    \* updateCommitIndex: return point, bounds of the loop
    la, upto,         \* applyCommittedEntries: lastApplied, commitIndex
    src, idx, acked,  \* history: index kv[k] was written from; index the
                      \* thread's latest put got; indices acknowledged with
                      \* success = true
    faults            \* crashes and failed storage calls so far

store     == <<log, commitIndex, lastApplied, kv, src>>
raftState == <<role, currentTerm, elections>>
indexMaps == <<nextIndex, matchIndex>>
locks     == <<writer, timer>>
shared    == <<store, raftState, indexMaps, locks>>
proposal  == <<entry, idx, acked>>
sending   == <<todo, dst, req>>
scanning  == <<from, last, n>>
applying  == <<la, upto>>
vars == <<shared, pc, proposal, sending, scanning, applying, faults>>

Entry == [term : Nat, key : Keys, value : Values]
MakeEntry(term, k, v) == [term |-> term, key |-> k, value |-> v]
NoEntry == MakeEntry(0, None, NoValue)
MakeRequest(term, prev, prevTerm, entries, commit) ==
    [term |-> term, prev |-> prev, prevTerm |-> prevTerm, entries |-> entries,
     commit |-> commit]
NoRequest == MakeRequest(0, 0, 0, <<>>, 0)
Request == [term : Nat, prev : Nat, prevTerm : Nat, entries : Seq(Entry),
            commit : Nat]

All(v) == [t \in Threads |-> v]

Init ==
    /\ log = <<>> /\ commitIndex = 0 /\ lastApplied = 0
    /\ kv = [k \in Keys |-> NoValue] /\ src = [k \in Keys |-> 0]
    /\ role = "FOLLOWER" /\ currentTerm = 0
    /\ nextIndex = [p \in Peers |-> 1] /\ matchIndex = [p \in Peers |-> 0]
    /\ writer = None /\ timer = FALSE /\ NoElections
    /\ pc = All("idle") /\ entry = All(NoEntry) /\ idx = All(0)
    /\ todo = All({}) /\ dst = All(None) /\ req = All(NoRequest)
    /\ from = All("send") /\ last = All(0) /\ n = All(0)
    /\ la = All(0) /\ upto = All(0)
    /\ acked = {} /\ faults = 0

(* A RaftNode as its constructor leaves it: follower, term 0, empty maps   *)
(* (getOrDefault reads nextIndex as 1; a missing matchIndex counts for no  *)
(* index), no thread inside it.                                            *)
NewNode ==
    /\ role' = "FOLLOWER" /\ currentTerm' = 0
    /\ nextIndex' = [p \in Peers |-> 1] /\ matchIndex' = [p \in Peers |-> 0]
    /\ writer' = None /\ timer' = FALSE /\ DropElections
    /\ pc' = All("idle") /\ entry' = All(NoEntry) /\ idx' = All(0)
    /\ todo' = All({}) /\ dst' = All(None) /\ req' = All(NoRequest)
    /\ from' = All("send") /\ last' = All(0) /\ n' = All(0)
    /\ la' = All(0) /\ upto' = All(0)

Step(t, here, there) == pc[t] = here /\ pc' = [pc EXCEPT ![t] = there]
-----------------------------------------------------------------------------
(* Roles.                                                                  *)

Fault == StorageFails /\ faults < MaxFaults /\ faults' = faults + 1

(* Scheduler threads, which take no lock, and vote requests.               *)
Elect(e) ==
    /\ \/ (ElectionTask(e) \/ TimerFires(e) \/ Campaign(e))
          /\ UNCHANGED faults
       \/ Fault /\ CampaignFails(e)
    /\ UNCHANGED <<store, indexMaps, writer, pc, proposal, sending, scanning,
                   applying>>

Vote(w) ==
    /\ (writer = None /\ TakeTask(w)) \/ RequestVote(w)
    /\ UNCHANGED <<store, indexMaps, writer, pc, proposal, sending, scanning,
                   applying, faults>>

(* getState().becomeLeader(), the way RaftNodeTest makes a node lead.      *)
Promote ==
    /\ Promotable /\ role # "LEADER"
    /\ role' = "LEADER"
    /\ UNCHANGED <<store, currentTerm, elections, indexMaps, locks, pc,
                   proposal, sending, scanning, applying, faults>>

(* The process dies and is started again on the same database.             *)
Crash ==
    /\ faults < MaxFaults /\ faults' = faults + 1
    /\ NewNode
    /\ UNCHANGED <<store, acked>>
-----------------------------------------------------------------------------
(* put, proposeEntry and replicateEntry.  On a node that does not lead     *)
(* proposeEntry completes with false and changes nothing.                  *)

Propose(t, k, v) ==
    /\ role = "LEADER" /\ Len(log) < MaxLog
    /\ Step(t, "idle", "stamp")
    /\ entry' = [entry EXCEPT ![t] = MakeEntry(0, k, v)]
    /\ idx' = [idx EXCEPT ![t] = 0]
    /\ UNCHANGED <<shared, acked, sending, scanning, applying, faults>>

StampTerm(t) ==
    /\ Step(t, "stamp", "insert")
    /\ entry' = [entry EXCEPT ![t] =
                    MakeEntry(currentTerm, entry[t].key, entry[t].value)]
    /\ UNCHANGED <<shared, idx, acked, sending, scanning, applying, faults>>

AppendLogEntry(t) ==
    /\ Step(t, "insert", "peers")
    /\ log' = Append(log, entry[t])
    /\ idx' = [idx EXCEPT ![t] = Len(log) + 1]
    /\ entry' = [entry EXCEPT ![t] = NoEntry]
    /\ todo' = [todo EXCEPT ![t] = Peers]
    /\ UNCHANGED <<commitIndex, lastApplied, kv, src, raftState, indexMaps,
                   locks, acked, dst, req, scanning, applying, faults>>

(* The loop over the peers, in the map's order.                            *)
NextPeer(t, p) ==
    /\ p \in todo[t]
    /\ Step(t, "peers", "prepare")
    /\ todo' = [todo EXCEPT ![t] = @ \ {p}]
    /\ dst' = [dst EXCEPT ![t] = p]
    /\ UNCHANGED <<shared, proposal, req, scanning, applying, faults>>

PeersDone(t) ==
    /\ todo[t] = {}
    /\ IF t \in Putters
       THEN Step(t, "peers", "last") /\ from' = [from EXCEPT ![t] = "final"]
       ELSE Step(t, "peers", "idle") /\ UNCHANGED from
    /\ UNCHANGED <<shared, proposal, sending, last, n, applying, faults>>

(* heartbeatTask submits sendAppendEntries(p) to the worker pool.          *)
Heartbeat(t, p) ==
    /\ role = "LEADER"
    /\ Step(t, "idle", "prepare")
    /\ dst' = [dst EXCEPT ![t] = p]
    /\ UNCHANGED <<shared, proposal, todo, req, scanning, applying, faults>>
-----------------------------------------------------------------------------
(* sendAppendEntries and the appendEntries it calls on this same object.   *)

(* nextIndex.getOrDefault(follower, 1)                                     *)
ReadNext(t) ==
    /\ Step(t, "prepare", "gather")
    /\ req' = [req EXCEPT ![t] =
                  MakeRequest(0, nextIndex[dst[t]] - 1, 0, <<>>, 0)]
    /\ UNCHANGED <<shared, proposal, todo, dst, scanning, applying, faults>>

(* The rows of the request.                                                *)
Gather(t) ==
    /\ Step(t, "gather", "term")
    /\ req' = [req EXCEPT ![t] =
                  MakeRequest(0, req[t].prev, TermAt(log, req[t].prev),
                              EntriesFrom(log, req[t].prev + 1), 0)]
    /\ UNCHANGED <<shared, proposal, todo, dst, scanning, applying, faults>>

(* Two arguments of the call that are read later: state.getCurrentTerm()   *)
(* and, as the last one, storage.getCommitIndex().                         *)
ReadTerm(t) ==
    /\ Step(t, "term", "commit")
    /\ req' = [req EXCEPT ![t] =
                  MakeRequest(currentTerm, req[t].prev, req[t].prevTerm,
                              req[t].entries, 0)]
    /\ UNCHANGED <<shared, proposal, todo, dst, scanning, applying, faults>>

ReadLeaderCommit(t) ==
    /\ Step(t, "commit", "lock")
    /\ req' = [req EXCEPT ![t] =
                  MakeRequest(req[t].term, req[t].prev, req[t].prevTerm,
                              req[t].entries, commitIndex)]
    /\ UNCHANGED <<shared, proposal, todo, dst, scanning, applying, faults>>

Accepts(r) == r.term >= currentTerm /\ PrevMatches(log, r.prev, r.prevTerm)

(* rwLock's write lock is free.                                            *)
CanWrite == writer = None /\ ~ReadLocked

(* What a request does to term, role and timer before the log is looked at. *)
Hear(r) ==
    /\ currentTerm' = IF r.term > currentTerm THEN r.term ELSE currentTerm
    /\ role' = IF r.term > currentTerm THEN "FOLLOWER" ELSE role
    /\ timer' = (timer \/ r.term >= currentTerm)
    /\ UNCHANGED elections

(* return false: a stale term, or (after resetElectionTimer) a gap.        *)
AppendRefused(t) ==
    /\ CanWrite
    /\ ~Accepts(req[t])
    /\ Step(t, "lock", "refused")
    /\ Hear(req[t])
    /\ UNCHANGED <<store, indexMaps, writer, proposal, sending, scanning,
                   applying, faults>>

AppendAccepted(t) ==
    /\ CanWrite /\ writer' = t
    /\ Accepts(req[t])
    /\ Step(t, "lock", "test")
    /\ Hear(req[t])
    /\ log' = MergeEntries(log, req[t].prev, req[t].entries)
    /\ UNCHANGED <<commitIndex, lastApplied, kv, src, indexMaps, proposal,
                   sending, scanning, applying, faults>>

(* leaderCommit > storage.getCommitIndex() ?                               *)
TestCommit(t) ==
    /\ IF req[t].commit > commitIndex
       THEN Step(t, "test", "follow") /\ UNCHANGED writer
       ELSE Step(t, "test", "next") /\ writer' = None
    /\ UNCHANGED <<store, raftState, indexMaps, timer, proposal, sending,
                   scanning, applying, faults>>

FollowCommit(t) ==
    /\ Step(t, "follow", "applied")
    /\ commitIndex' = Smaller(req[t].commit, Len(log))
    /\ from' = [from EXCEPT ![t] = "append"]
    /\ UNCHANGED <<log, lastApplied, kv, src, raftState, indexMaps, locks,
                   proposal, sending, last, n, applying, faults>>

(* success: nextIndex.put(follower, getLastLogIndex() + 1), then           *)
(* matchIndex.put(follower, getLastLogIndex()), each a read and a put.     *)
ReadForNext(t) ==
    /\ Step(t, "next", "putnext")
    /\ last' = [last EXCEPT ![t] = Len(log)]
    /\ req' = [req EXCEPT ![t] = NoRequest]
    /\ UNCHANGED <<shared, proposal, todo, dst, from, n, applying, faults>>

(* Mutant: one past the next free index.                                   *)
PutNextIndexPast(t) ==
    /\ Step(t, "putnext", "match")
    /\ nextIndex' = [nextIndex EXCEPT ![dst[t]] = last[t] + 2]
    /\ UNCHANGED <<store, raftState, matchIndex, locks, proposal, sending,
                   scanning, applying, faults>>

PutNextIndex(t) ==
    /\ Step(t, "putnext", "match")
    /\ nextIndex' = [nextIndex EXCEPT ![dst[t]] = last[t] + 1]
    /\ UNCHANGED <<store, raftState, matchIndex, locks, proposal, sending,
                   scanning, applying, faults>>

ReadForMatch(t) ==
    /\ Step(t, "match", "putmatch")
    /\ last' = [last EXCEPT ![t] = Len(log)]
    /\ UNCHANGED <<shared, proposal, sending, from, n, applying, faults>>

PutMatchIndex(t) ==
    /\ Step(t, "putmatch", "last")
    /\ matchIndex' = [matchIndex EXCEPT ![dst[t]] = last[t]]
    /\ last' = [last EXCEPT ![t] = 0]
    /\ dst' = [dst EXCEPT ![t] = None]
    /\ from' = [from EXCEPT ![t] = "send"]
    /\ UNCHANGED <<store, raftState, nextIndex, locks, proposal, todo, req, n,
                   applying, faults>>

(* failure: nextIndex.put(follower, Math.max(1, nextIndex - 1)), again a   *)
(* read and a put.                                                         *)
ReadForBackOff(t) ==
    /\ Step(t, "refused", "back")
    /\ last' = [last EXCEPT ![t] = nextIndex[dst[t]] - 1]
    /\ req' = [req EXCEPT ![t] = NoRequest]
    /\ UNCHANGED <<shared, proposal, todo, dst, from, n, applying, faults>>

(* Mutant: no Math.max.                                                    *)
BackOffBelowOne(t) ==
    /\ Step(t, "back", "peers")
    /\ nextIndex' = [nextIndex EXCEPT ![dst[t]] = last[t]]
    /\ last' = [last EXCEPT ![t] = 0]
    /\ dst' = [dst EXCEPT ![t] = None]
    /\ UNCHANGED <<store, raftState, matchIndex, locks, proposal, todo, req,
                   from, n, applying, faults>>

BackOff(t) ==
    /\ Step(t, "back", "peers")
    /\ nextIndex' = [nextIndex EXCEPT ![dst[t]] =
                        IF last[t] > 1 THEN last[t] ELSE 1]
    /\ last' = [last EXCEPT ![t] = 0]
    /\ dst' = [dst EXCEPT ![t] = None]
    /\ UNCHANGED <<store, raftState, matchIndex, locks, proposal, todo, req,
                   from, n, applying, faults>>
-----------------------------------------------------------------------------
(* updateCommitIndex, without a lock.                                      *)

(* Mutant: the loop ends before the last index.                            *)
ReadLastExclusive(t) ==
    /\ Step(t, "last", "base")
    /\ last' = [last EXCEPT ![t] = IF log = <<>> THEN 0 ELSE Len(log) - 1]
    /\ UNCHANGED <<shared, proposal, sending, from, n, applying, faults>>

ReadLast(t) ==
    /\ Step(t, "last", "base")
    /\ last' = [last EXCEPT ![t] = Len(log)]
    /\ UNCHANGED <<shared, proposal, sending, from, n, applying, faults>>

(* Mutant: the loop starts one index late.                                 *)
ReadBaseLate(t) ==
    /\ Step(t, "base", "scan")
    /\ n' = [n EXCEPT ![t] = commitIndex + 2]
    /\ UNCHANGED <<shared, proposal, sending, from, last, applying, faults>>

ReadBase(t) ==
    /\ Step(t, "base", "scan")
    /\ n' = [n EXCEPT ![t] = commitIndex + 1]
    /\ UNCHANGED <<shared, proposal, sending, from, last, applying, faults>>

(* The entry is of the current term and counted on enough nodes.           *)
Committable(i) ==
    /\ log[i].term = currentTerm
    /\ Reached(1 + Cardinality({p \in Peers : matchIndex[p] >= i}), Peers)

ScanEntry(t) ==
    /\ pc[t] = "scan" /\ n[t] <= last[t]
    /\ IF Committable(n[t])
       THEN Step(t, "scan", "mark") /\ UNCHANGED n
       ELSE Step(t, "scan", "scan") /\ n' = [n EXCEPT ![t] = @ + 1]
    /\ UNCHANGED <<shared, proposal, sending, from, last, applying, faults>>

MarkCommitted(t) ==
    /\ Step(t, "mark", "applied")
    /\ commitIndex' = n[t]
    /\ UNCHANGED <<log, lastApplied, kv, src, raftState, indexMaps, locks,
                   proposal, sending, scanning, applying, faults>>

(* The loop ends.  After the last call of replicateEntry the future is     *)
(* completed with true, whatever was committed, and put answers success.   *)
ScanDone(t) ==
    /\ n[t] > last[t]
    /\ IF from[t] = "final"
       THEN /\ Step(t, "scan", "idle")
            /\ acked' = acked \cup {idx[t]}
       ELSE Step(t, "scan", "peers") /\ UNCHANGED acked
    /\ last' = [last EXCEPT ![t] = 0] /\ n' = [n EXCEPT ![t] = 0]
    /\ from' = [from EXCEPT ![t] = "send"]
    /\ UNCHANGED <<shared, entry, idx, sending, applying, faults>>
-----------------------------------------------------------------------------
(* applyCommittedEntries, without a lock of its own.                       *)

(* Mutant: lastApplied is not read back from the database.                 *)
ReadAppliedAsZero(t) ==
    /\ Step(t, "applied", "target")
    /\ la' = [la EXCEPT ![t] = 0]
    /\ UNCHANGED <<shared, proposal, sending, scanning, upto, faults>>

ReadApplied(t) ==
    /\ Step(t, "applied", "target")
    /\ la' = [la EXCEPT ![t] = lastApplied]
    /\ UNCHANGED <<shared, proposal, sending, scanning, upto, faults>>

ReadTarget(t) ==
    /\ Step(t, "target", "apply")
    /\ upto' = [upto EXCEPT ![t] = commitIndex]
    /\ UNCHANGED <<shared, proposal, sending, scanning, la, faults>>

ApplyEntry(t) ==
    LET i == la[t] + 1 IN
    /\ la[t] < upto[t]
    /\ Step(t, "apply", "apply")
    /\ kv' = [kv EXCEPT ![log[i].key] = log[i].value]
    /\ src' = [src EXCEPT ![log[i].key] = i]
    /\ la' = [la EXCEPT ![t] = i]
    /\ UNCHANGED <<log, commitIndex, lastApplied, raftState, indexMaps, locks,
                   proposal, sending, scanning, upto, faults>>

(* setLastApplied, and back to appendEntries (which releases the lock and  *)
(* returns true) or to the loop of updateCommitIndex.                      *)
ApplyDone(t) ==
    /\ la[t] >= upto[t]
    /\ lastApplied' = la[t]
    /\ la' = [la EXCEPT ![t] = 0] /\ upto' = [upto EXCEPT ![t] = 0]
    /\ IF from[t] = "append"
       THEN Step(t, "apply", "next") /\ writer' = None /\ UNCHANGED n
       ELSE /\ Step(t, "apply", "scan")
            /\ n' = [n EXCEPT ![t] = @ + 1] /\ UNCHANGED writer
    /\ UNCHANGED <<log, commitIndex, kv, src, raftState, indexMaps, timer,
                   proposal, sending, from, last, faults>>
-----------------------------------------------------------------------------
(* Storage calls that fail.                                                *)

(* getCommitIndex and getLastApplied swallow the exception and return 0.   *)
ReadFails(t) ==
    /\ Fault
    /\ \/ Step(t, "commit", "lock") /\ UNCHANGED <<writer, n, la, upto>>
       \/ /\ IF req[t].commit > 0
             THEN Step(t, "test", "follow") /\ UNCHANGED writer
             ELSE Step(t, "test", "next") /\ writer' = None
          /\ UNCHANGED <<n, la, upto>>
       \/ /\ Step(t, "base", "scan") /\ n' = [n EXCEPT ![t] = 1]
          /\ UNCHANGED <<writer, la, upto>>
       \/ /\ Step(t, "applied", "target") /\ la' = [la EXCEPT ![t] = 0]
          /\ UNCHANGED <<writer, n, upto>>
       \/ /\ Step(t, "target", "apply") /\ upto' = [upto EXCEPT ![t] = 0]
          /\ UNCHANGED <<writer, n, la>>
    /\ UNCHANGED <<store, raftState, indexMaps, timer, proposal, sending, from,
                   last>>

(* setCommitIndex, updateKeyValue and setLastApplied swallow it and store  *)
(* nothing.                                                                *)
WriteFails(t) ==
    /\ Fault
    /\ \/ /\ Step(t, "mark", "applied")
          /\ UNCHANGED <<writer, from, n, la, upto>>
       \/ /\ Step(t, "follow", "applied")
          /\ from' = [from EXCEPT ![t] = "append"]
          /\ UNCHANGED <<writer, n, la, upto>>
       \/ /\ la[t] < upto[t] /\ Step(t, "apply", "apply")
          /\ la' = [la EXCEPT ![t] = @ + 1]
          /\ UNCHANGED <<writer, from, n, upto>>
       \/ /\ la[t] >= upto[t]
          /\ la' = [la EXCEPT ![t] = 0] /\ upto' = [upto EXCEPT ![t] = 0]
          /\ IF from[t] = "append"
             THEN Step(t, "apply", "next") /\ writer' = None /\ UNCHANGED n
             ELSE /\ Step(t, "apply", "scan")
                  /\ n' = [n EXCEPT ![t] = @ + 1] /\ UNCHANGED writer
          /\ UNCHANGED from
    /\ UNCHANGED <<store, raftState, indexMaps, timer, proposal, sending,
                   last>>

(* An exception ends the put or the heartbeat task without an answer; the  *)
(* finally block of appendEntries releases the lock.                       *)
LeaveNode(t) ==
    /\ writer' = IF writer = t THEN None ELSE writer
    /\ pc' = [pc EXCEPT ![t] = "idle"]
    /\ entry' = [entry EXCEPT ![t] = NoEntry] /\ idx' = [idx EXCEPT ![t] = 0]
    /\ todo' = [todo EXCEPT ![t] = {}] /\ dst' = [dst EXCEPT ![t] = None]
    /\ req' = [req EXCEPT ![t] = NoRequest]
    /\ from' = [from EXCEPT ![t] = "send"] /\ last' = [last EXCEPT ![t] = 0]
    /\ n' = [n EXCEPT ![t] = 0] /\ la' = [la EXCEPT ![t] = 0]
    /\ upto' = [upto EXCEPT ![t] = 0]
    /\ UNCHANGED <<indexMaps, acked>>

(* The methods on the logs table throw.  In appendEntries term, role and   *)
(* timer have moved already.                                               *)
Abort(t) ==
    /\ Fault
    /\ \/ /\ pc[t] = "lock" /\ CanWrite /\ req[t].term >= currentTerm
          /\ Hear(req[t])
       \/ /\ \/ pc[t] \in {"insert", "gather", "follow", "next", "match",
                           "last"}
             \/ pc[t] = "scan" /\ n[t] <= last[t]
             \/ pc[t] = "apply" /\ la[t] < upto[t]
          /\ UNCHANGED <<raftState, timer>>
    /\ LeaveNode(t)
    /\ UNCHANGED store

(* appendLogEntry has stored its row when the generated key cannot be had  *)
(* and it throws all the same.                                             *)
InsertThrows(t) ==
    /\ Fault
    /\ pc[t] = "insert"
    /\ log' = Append(log, entry[t])
    /\ LeaveNode(t)
    /\ UNCHANGED <<commitIndex, lastApplied, kv, src, raftState, timer>>
-----------------------------------------------------------------------------
Call(t) ==
    \/ StampTerm(t) \/ AppendLogEntry(t) \/ PeersDone(t) \/ ReadNext(t)
    \/ Gather(t) \/ ReadTerm(t) \/ ReadLeaderCommit(t)
    \/ AppendRefused(t) \/ AppendAccepted(t) \/ TestCommit(t)
    \/ FollowCommit(t) \/ ReadForNext(t) \/ PutNextIndex(t) \/ ReadForMatch(t)
    \/ PutMatchIndex(t) \/ ReadForBackOff(t) \/ BackOff(t)
    \/ ReadLast(t) \/ ReadBase(t) \/ ScanEntry(t) \/ MarkCommitted(t)
    \/ ScanDone(t) \/ ReadApplied(t) \/ ReadTarget(t) \/ ApplyEntry(t)
    \/ ApplyDone(t) \/ ReadFails(t) \/ WriteFails(t) \/ Abort(t)
    \/ InsertThrows(t)
    \/ \E p \in Peers : NextPeer(t, p)

Next ==
    \/ \E e \in Electors : Elect(e)
    \/ \E w \in Voters : Vote(w)
    \/ Promote \/ Crash
    \/ \E t \in Putters, k \in Keys, v \in Values : Propose(t, k, v)
    \/ \E t \in Beaters, p \in Peers : Heartbeat(t, p)
    \/ \E t \in Threads : Call(t)

Spec == Init /\ [][Next]_vars

(* Every runnable thread keeps running, and every call of a peer ends: it  *)
(* is made inside the read lock and has no deadline (RaftNode.java:127),   *)
(* so this is an assumption on the peers and the network.  The client need *)
(* not send puts, nobody has to crash and no call has to fail.             *)
Fairness ==
    /\ \A t \in Threads : WF_vars(Call(t))
    /\ \A w \in Voters : WF_vars(Vote(w))

(* heartbeatTask runs every 50 ms and the harness does promote the node.   *)
BeatFairness ==
    /\ \A t \in Beaters, p \in Peers : WF_vars(Heartbeat(t, p))
    /\ WF_vars(Promote)

FairSpec == Spec /\ Fairness
BeatSpec == Spec /\ Fairness /\ BeatFairness
-----------------------------------------------------------------------------
Labels == {"idle", "stamp", "insert", "peers", "prepare", "gather", "term",
           "commit", "lock", "refused", "back", "test", "follow", "next",
           "putnext", "match",
           "putmatch", "last", "base", "scan", "mark", "applied", "target",
           "apply"}

(* Every variable keeps its type.                                          *)
TypeOK ==
    /\ log \in Seq(Entry) /\ commitIndex \in Nat /\ lastApplied \in Nat
    /\ kv \in [Keys -> Values \cup {NoValue}] /\ src \in [Keys -> Nat]
    /\ role \in {"FOLLOWER", "CANDIDATE", "LEADER"} /\ currentTerm \in Nat
    /\ nextIndex \in [Peers -> Nat \ {0}] /\ matchIndex \in [Peers -> Nat]
    /\ writer \in Threads \cup {None} /\ timer \in BOOLEAN /\ ElectionsOK
    /\ pc \in [Threads -> Labels]
    /\ entry \in [Threads -> Entry \cup {NoEntry}]
    /\ idx \in [Threads -> Nat] /\ acked \subseteq Nat
    /\ todo \in [Threads -> SUBSET Peers]
    /\ dst \in [Threads -> Peers \cup {None}]
    /\ req \in [Threads -> Request]
    /\ from \in [Threads -> {"send", "final", "append"}]
    /\ last \in [Threads -> Nat] /\ n \in [Threads -> Nat]
    /\ la \in [Threads -> Nat] /\ upto \in [Threads -> Nat]
    /\ faults \in Nat

(* No row the code dereferences is missing: prevLogIndex of a request to   *)
(* be built (RaftNode.java:152), n in updateCommitIndex (168) and          *)
(* lastApplied in applyCommittedEntries (233) are keys of the logs table,  *)
(* however the threads interleave, so getLogEntry never returns the null   *)
(* that would throw in the middle of a put or a heartbeat.                 *)
NoMissingRow ==
    \A t \in Threads :
        /\ pc[t] = "gather" => req[t].prev <= Len(log)
        /\ pc[t] = "scan" /\ n[t] <= last[t] => n[t] \in 1..Len(log)
        /\ pc[t] = "apply" /\ la[t] < upto[t] => la[t] + 1 <= Len(log)

(* A leader never loses or rewrites a row of its log: the appendEntries    *)
(* calls that sendAppendEntries makes on the node itself, with a request   *)
(* read some steps earlier, find nothing to delete even when puts have     *)
(* appended rows in the meantime.                                          *)
LogAppendOnly ==
    [][ /\ Len(log) <= Len(log')
        /\ \A i \in 1..Len(log) : log'[i] = log[i] ]_log

(* A put that was answered with success is visible to every get from then  *)
(* on (KVStoreServiceImpl.java:21): kv_store has the value of that entry   *)
(* or of a later one, also while a restarted node applies entries again.   *)
AckedReadable == \A i \in acked : src[log[i].key] >= i

(* A put that was answered with success is committed and applied in the    *)
(* database, and stays so across crashes.                                  *)
AckedApplied ==
    \A i \in acked : i <= commitIndex /\ i <= lastApplied

(* When no thread is inside the node, every key that has been put has the  *)
(* value of the youngest log entry for it.                                 *)
QuiescentStore ==
    (\A t \in Threads : pc[t] = "idle") =>
        \A i \in acked :
            (\A j \in i+1..Len(log) : log[j].key # log[i].key)
                => kv[log[i].key] = log[i].value

(* Every put that passed the role check is answered with success, however  *)
(* long vote requests hold the lock it waits for (RaftNode.java:117, 185)  *)
(* and whatever the other threads do, unless a crash or a failing storage  *)
(* call has come after it began; and then too its thread leaves the node.  *)
PutAnswered ==
    \A t \in Putters, f \in 0..MaxFaults :
        (pc[t] = "stamp" /\ faults = f)
            ~> (pc[t] = "idle" /\ (idx[t] \in acked \/ faults > f))

(* The commit index can fall back when two threads run updateCommitIndex   *)
(* at once; as long as the node leads in one term, its heartbeats bring it *)
(* back, and once the puts stop it reaches the end of the log for good.    *)
CommitCatchesUp == <>[](commitIndex = Len(log))
=============================================================================
