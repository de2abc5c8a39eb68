-------------------------- MODULE LeaderNodeProofs --------------------------
(***************************************************************************)
(* Proofs about LeaderNode for any set of peers and threads and any bound. *)
(*                                                                         *)
(* NoMissingRow and LogAppendOnly are not inductive: whether a thread can  *)
(* dereference a missing row depends on indices it read earlier, and       *)
(* whether appendEntries deletes a row depends on a request it built       *)
(* earlier.  Inv adds that every index in the node's maps, tables and      *)
(* thread locals lies inside the log, and that a request that is built but *)
(* not yet handled still is a slice of the log.  Both survive because the  *)
(* log only grows, which in turn follows from the second.                  *)
(*                                                                         *)
(* What put acknowledges is applied only on a node that nothing else       *)
(* commits on (leader_lost shows what two threads do to each other), so    *)
(* AckedIsApplied and AckedIsReadable suppose Alone.                       *)
(***************************************************************************)
EXTENDS LeaderNode, FiniteSetTheorems, TLAPS

(* The shared indices point into the log.                                  *)
IndexesInLog ==
    /\ commitIndex <= Len(log) /\ lastApplied <= Len(log)
    /\ \A p \in Peers : nextIndex[p] <= Len(log) + 1

(* A request is a slice of the log.                                        *)
Slice(r) ==
    /\ r.prev + Len(r.entries) <= Len(log)
    /\ \A i \in 1..Len(r.entries) : log[r.prev + i] = r.entries[i]

(* What thread t holds at its control point agrees with the log.           *)
InLog(t) ==
    /\ last[t] <= Len(log) /\ la[t] <= Len(log) /\ upto[t] <= Len(log)
    /\ pc[t] \in {"stamp", "insert"} => entry[t] \in Entry
    /\ pc[t] \in {"prepare", "gather", "term", "commit", "lock", "refused"}
         => dst[t] \in Peers
    /\ pc[t] = "gather" => req[t].prev <= Len(log)
    /\ pc[t] \in {"term", "commit", "lock"} => Slice(req[t])
    /\ pc[t] \in {"scan", "mark"} => n[t] >= 1
    /\ pc[t] = "mark" => n[t] <= Len(log)

Inv == TypeOK /\ IndexesInLog /\ \A t \in Threads : InLog(t)

(* A step leaves the log alone or appends one entry to it.                 *)
LogGrows == log' = log \/ \E e \in Entry : log' = Append(log, e)

(* What InLog says of thread u rests on these.                             *)
LocalsSame(u) ==
    /\ pc'[u] = pc[u] /\ entry'[u] = entry[u] /\ dst'[u] = dst[u]
    /\ req'[u] = req[u] /\ last'[u] = last[u] /\ n'[u] = n[u]
    /\ la'[u] = la[u] /\ upto'[u] = upto[u]

USE DEF store, elections, raftState, indexMaps, locks, shared, proposal,
        sending, scanning, applying, vars, ElectionsOK
-----------------------------------------------------------------------------
(* Facts about the operators of RaftLog.                                   *)

(* The term of a row of the log is a number.                               *)
LEMMA TermAtType ==
    ASSUME NEW s \in Seq(Entry), NEW i \in Nat, i <= Len(s)
    PROVE  TermAt(s, i) \in Nat
<1>1. CASE i > 0
  <2>1. s[i] \in Entry
    BY <1>1
  <2>. QED BY <1>1, <2>1 DEF TermAt, Entry
<1>. QED BY <1>1 DEF TermAt

(* The rows after index i are a sequence of entries, as many as follow i,  *)
(* each found in the log i places further on.                              *)
LEMMA EntriesFromSlice ==
    ASSUME NEW s \in Seq(Entry), NEW i \in Nat, i <= Len(s)
    PROVE  /\ EntriesFrom(s, i + 1) \in Seq(Entry)
           /\ i + Len(EntriesFrom(s, i + 1)) <= Len(s)
           /\ \A j \in 1..Len(EntriesFrom(s, i + 1)) :
                 s[i + j] = EntriesFrom(s, i + 1)[j]
BY DEF EntriesFrom

(* A request that is a slice of the log changes nothing.                   *)
LEMMA MergeSlice ==
    ASSUME NEW s \in Seq(Entry), NEW p \in Nat, NEW es \in Seq(Entry),
           p + Len(es) <= Len(s),
           \A i \in 1..Len(es) : s[p + i] = es[i]
    PROVE  MergeEntries(s, p, es) = s
<1>1. Clashes(s, p, es) = {}
  BY DEF Clashes
<1>. QED BY <1>1 DEF MergeEntries
-----------------------------------------------------------------------------
(* One step of a thread.                                                   *)

(* The request a thread hands to appendEntries deletes and appends nothing *)
(* in the node's own log.                                                  *)
LEMMA AcceptedUnchanged ==
    ASSUME Inv, NEW t \in Threads, AppendAccepted(t)
    PROVE  log' = log
<1>1. /\ log \in Seq(Entry) /\ req[t] \in Request
      /\ Slice(req[t])
  BY DEF Inv, TypeOK, InLog, AppendAccepted, Step
<1>2. req[t].prev \in Nat /\ req[t].entries \in Seq(Entry)
  BY <1>1 DEF Request
<1>. QED BY <1>1, <1>2, MergeSlice DEF AppendAccepted, Slice

(* Types are kept.                                                         *)
LEMMA CallTyped ==
    ASSUME Inv, NEW t \in Threads, Call(t)
    PROVE  TypeOK'
<1>1. CASE StampTerm(t)
  <2>1. entry[t] \in Entry
    BY <1>1 DEF Inv, InLog, StampTerm, Step
  <2>2. entry' \in [Threads -> Entry \cup {NoEntry}]
    BY <1>1, <2>1 DEF Inv, TypeOK, StampTerm, Entry, MakeEntry
  <2>. QED BY <1>1, <2>1, <2>2 DEF StampTerm, Inv, TypeOK, Step, Labels
<1>2. CASE AppendLogEntry(t)
  <2>1. entry[t] \in Entry
    BY <1>2 DEF Inv, InLog, AppendLogEntry, Step
  <2>2. log' \in Seq(Entry)
    BY <1>2, <2>1 DEF Inv, TypeOK, AppendLogEntry
  <2>3. entry' \in [Threads -> Entry \cup {NoEntry}]
    BY <1>2 DEF Inv, TypeOK, AppendLogEntry
  <2>4. idx' \in [Threads -> Nat] /\ todo' \in [Threads -> SUBSET Peers]
    BY <1>2, SMTT(30) DEF Inv, TypeOK, AppendLogEntry
  <2>. QED BY <1>2, <2>1, <2>2, <2>3, <2>4
           DEF AppendLogEntry, Inv, TypeOK, Step, Labels
<1>3. CASE PeersDone(t)
  BY <1>3, ZenonT(30) DEF PeersDone, Inv, TypeOK, Step, Labels
<1>4. CASE ReadNext(t)
  <2>1. nextIndex[dst[t]] - 1 \in Nat
    <3>1. dst[t] \in Peers
      BY <1>4 DEF Inv, InLog, ReadNext, Step
    <3>. QED BY <3>1 DEF Inv, TypeOK
  <2>2. MakeRequest(0, nextIndex[dst[t]] - 1, 0, <<>>, 0) \in Request
    BY <2>1, <<>> \in Seq(Entry) DEF MakeRequest, Request
  <2>3. req' \in [Threads -> Request]
    BY <1>4, <2>2 DEF Inv, TypeOK, ReadNext
  <2>. QED BY <1>4, <2>1, <2>2, <2>3 DEF ReadNext, Inv, TypeOK, Step, Labels
<1>5. CASE Gather(t)
  <2>1. req[t] \in Request /\ req[t].prev <= Len(log) /\ log \in Seq(Entry)
    BY <1>5 DEF Inv, TypeOK, InLog, Gather, Step
  <2>2. /\ TermAt(log, req[t].prev) \in Nat
        /\ EntriesFrom(log, req[t].prev + 1) \in Seq(Entry)
    BY <2>1, TermAtType, EntriesFromSlice DEF Request
  <2>3. MakeRequest(0, req[t].prev, TermAt(log, req[t].prev),
                    EntriesFrom(log, req[t].prev + 1), 0) \in Request
    BY <2>1, <2>2 DEF Inv, TypeOK, MakeRequest, Request
  <2>4. req' \in [Threads -> Request]
    BY <1>5, <2>3 DEF Inv, TypeOK, Gather
  <2>. QED BY <1>5, <2>1, <2>2, <2>3, <2>4
           DEF Gather, Inv, TypeOK, Step, Labels
<1>6. CASE ReadLeaderCommit(t)
  <2>1. MakeRequest(req[t].term, req[t].prev, req[t].prevTerm,
                    req[t].entries, commitIndex) \in Request
    BY DEF Inv, TypeOK, MakeRequest, Request
  <2>2. req' \in [Threads -> Request]
    BY <1>6, <2>1 DEF Inv, TypeOK, ReadLeaderCommit
  <2>. QED BY <1>6, <2>1, <2>2
           DEF ReadLeaderCommit, Inv, TypeOK, Step, Labels
<1>7. CASE AppendRefused(t)
  <2>1. req[t].term \in Nat
    BY DEF Inv, TypeOK, Request
  <2>2. /\ role' \in {"FOLLOWER", "CANDIDATE", "LEADER"}
        /\ currentTerm' \in Nat
    BY <1>7, <2>1 DEF Inv, TypeOK, AppendRefused, Hear
  <2>3. timer' \in BOOLEAN
    BY <1>7 DEF Inv, TypeOK, AppendRefused, Hear
  <2>4. ElectionsOK'
    BY <1>7 DEF Inv, TypeOK, AppendRefused, Hear
  <2>. QED BY <1>7, <2>1, <2>2, <2>3, <2>4
           DEF AppendRefused, Inv, TypeOK, Step, Labels
<1>8. CASE AppendAccepted(t)
  <2>1. req[t].term \in Nat
    BY DEF Inv, TypeOK, Request
  <2>2. /\ role' \in {"FOLLOWER", "CANDIDATE", "LEADER"}
        /\ currentTerm' \in Nat
    BY <1>8, <2>1 DEF Inv, TypeOK, AppendAccepted, Hear
  <2>3. timer' \in BOOLEAN
    BY <1>8 DEF Inv, TypeOK, AppendAccepted, Hear
  <2>4. log' = log
    BY <1>8, AcceptedUnchanged
  <2>5. ElectionsOK'
    BY <1>8 DEF Inv, TypeOK, AppendAccepted, Hear
  <2>. QED BY <1>8, <2>1, <2>2, <2>3, <2>4, <2>5
           DEF AppendAccepted, Inv, TypeOK, Step, Labels
<1>9. CASE TestCommit(t)
  BY <1>9 DEF TestCommit, Inv, TypeOK, Step, Labels
<1>10. CASE FollowCommit(t)
  <2>1. commitIndex' \in Nat
    BY <1>10 DEF Inv, TypeOK, FollowCommit, Smaller, Request
  <2>. QED BY <1>10, <2>1 DEF FollowCommit, Inv, TypeOK, Step, Labels
<1>11. CASE ReadForNext(t)
  <2>1. NoRequest \in Request
    BY <<>> \in Seq(Entry) DEF NoRequest, MakeRequest, Request
  <2>2. req' \in [Threads -> Request]
    BY <1>11, <2>1 DEF Inv, TypeOK, ReadForNext
  <2>3. last' \in [Threads -> Nat]
    BY <1>11 DEF Inv, TypeOK, ReadForNext
  <2>. QED BY <1>11, <2>1, <2>2, <2>3
           DEF ReadForNext, Inv, TypeOK, Step, Labels
<1>12. CASE PutNextIndex(t)
  <2>1. last[t] + 1 \in Nat \ {0}
    BY DEF Inv, TypeOK
  <2>2. nextIndex' \in [Peers -> Nat \ {0}]
    BY <1>12, <2>1 DEF Inv, TypeOK, PutNextIndex
  <2>. QED BY <1>12, <2>1, <2>2 DEF PutNextIndex, Inv, TypeOK, Step, Labels
<1>13. CASE ReadForMatch(t)
  <2>1. last' \in [Threads -> Nat]
    BY <1>13 DEF Inv, TypeOK, ReadForMatch
  <2>. QED BY <1>13, <2>1 DEF ReadForMatch, Inv, TypeOK, Step, Labels
<1>14. CASE PutMatchIndex(t)
  BY <1>14 DEF PutMatchIndex, Inv, TypeOK, Step, Labels
<1>15. CASE BackOff(t)
  <2>1. (IF last[t] > 1 THEN last[t] ELSE 1) \in Nat \ {0}
    BY DEF Inv, TypeOK
  <2>2. nextIndex' \in [Peers -> Nat \ {0}]
    BY <1>15, <2>1 DEF Inv, TypeOK, BackOff
  <2>3. last' \in [Threads -> Nat]
    BY <1>15 DEF Inv, TypeOK, BackOff
  <2>. QED BY <1>15, <2>2, <2>3 DEF BackOff, Inv, TypeOK, Step, Labels
<1>16. CASE ReadLast(t)
  <2>1. last' \in [Threads -> Nat]
    BY <1>16 DEF Inv, TypeOK, ReadLast
  <2>. QED BY <1>16, <2>1 DEF ReadLast, Inv, TypeOK, Step, Labels
<1>17. CASE ReadBase(t)
  <2>1. n' \in [Threads -> Nat]
    BY <1>17 DEF Inv, TypeOK, ReadBase
  <2>. QED BY <1>17, <2>1 DEF ReadBase, Inv, TypeOK, Step, Labels
<1>18. CASE ScanEntry(t)
  <2>1. n' = n \/ n' = [n EXCEPT ![t] = n[t] + 1]
    BY <1>18 DEF ScanEntry
  <2>2. n \in [Threads -> Nat]
    BY DEF Inv, TypeOK
  <2>3. n' \in [Threads -> Nat]
    BY <2>1, <2>2
  <2>4. pc' \in [Threads -> Labels]
    BY <1>18, ZenonT(30) DEF Inv, TypeOK, ScanEntry, Step, Labels
  <2>. QED BY <1>18, <2>1, <2>2, <2>3, <2>4
           DEF ScanEntry, Inv, TypeOK, Step, Labels
<1>19. CASE MarkCommitted(t)
  BY <1>19 DEF MarkCommitted, Inv, TypeOK, Step, Labels
<1>20. CASE ScanDone(t)
  <2>1. /\ pc \in [Threads -> Labels] /\ idx \in [Threads -> Nat]
        /\ acked \subseteq Nat
    BY DEF Inv, TypeOK
  <2>2. \/ /\ pc' = [pc EXCEPT ![t] = "idle"]
           /\ acked' = acked \cup {idx[t]}
        \/ pc' = [pc EXCEPT ![t] = "peers"] /\ UNCHANGED acked
    BY <1>20 DEF ScanDone, Step
  <2>3. pc' \in [Threads -> Labels]
    BY <2>1, <2>2 DEF Labels
  <2>5. acked' \subseteq Nat
    BY <2>1, <2>2, ZenonT(30)
  <2>6. /\ last' \in [Threads -> Nat] /\ n' \in [Threads -> Nat]
        /\ from' \in [Threads -> {"send", "final", "append"}]
    BY <1>20 DEF Inv, TypeOK, ScanDone
  <2>. QED BY <1>20, <2>1, <2>2, <2>3, <2>5, <2>6
           DEF ScanDone, Inv, TypeOK, Step, Labels
<1>21. CASE ReadApplied(t)
  BY <1>21 DEF ReadApplied, Inv, TypeOK, Step, Labels
<1>22. CASE ReadTarget(t)
  BY <1>22 DEF ReadTarget, Inv, TypeOK, Step, Labels
<1>23. CASE ApplyEntry(t)
  <2>1. log[la[t] + 1] \in Entry
    BY <1>23 DEF Inv, TypeOK, InLog, ApplyEntry
  <2>2. kv' \in [Keys -> Values \cup {NoValue}]
    BY <1>23, <2>1 DEF Inv, TypeOK, ApplyEntry, Entry
  <2>3. la[t] + 1 \in Nat /\ src \in [Keys -> Nat]
    BY DEF Inv, TypeOK
  <2>4. src' \in [Keys -> Nat]
    BY <1>23, <2>3 DEF ApplyEntry
  <2>5. la' \in [Threads -> Nat]
    BY <1>23 DEF Inv, TypeOK, ApplyEntry
  <2>. QED BY <1>23, <2>1, <2>2, <2>3, <2>4, <2>5
           DEF ApplyEntry, Inv, TypeOK, Step, Labels
<1>24. CASE ApplyDone(t)
  <2>1. n' = n \/ n' = [n EXCEPT ![t] = n[t] + 1]
    BY <1>24 DEF ApplyDone
  <2>2. n \in [Threads -> Nat]
    BY DEF Inv, TypeOK
  <2>3. n' \in [Threads -> Nat]
    BY <2>1, <2>2
  <2>4. pc' \in [Threads -> Labels]
    BY <1>24, ZenonT(30) DEF Inv, TypeOK, ApplyDone, Step, Labels
  <2>5. /\ la' \in [Threads -> Nat] /\ upto' \in [Threads -> Nat]
        /\ writer' \in Threads \cup {None}
    BY <1>24 DEF Inv, TypeOK, ApplyDone
  <2>. QED BY <1>24, <2>1, <2>2, <2>3, <2>4, <2>5
           DEF ApplyDone, Inv, TypeOK, Step, Labels
<1>25. CASE \E p \in Peers : NextPeer(t, p)
  <2>. PICK p \in Peers : NextPeer(t, p)
    BY <1>25
  <2>1. todo' \in [Threads -> SUBSET Peers]
    BY DEF Inv, TypeOK, NextPeer
  <2>. QED BY <2>1 DEF Inv, TypeOK, NextPeer, Step, Labels
<1>26. CASE ReadTerm(t)
  <2>1. MakeRequest(currentTerm, req[t].prev, req[t].prevTerm,
                    req[t].entries, 0) \in Request
    BY DEF Inv, TypeOK, MakeRequest, Request
  <2>2. req' \in [Threads -> Request]
    BY <1>26, <2>1 DEF Inv, TypeOK, ReadTerm
  <2>. QED BY <1>26, <2>1, <2>2 DEF ReadTerm, Inv, TypeOK, Step, Labels
<1>27. CASE ReadForBackOff(t)
  <2>1. NoRequest \in Request
    BY <<>> \in Seq(Entry) DEF NoRequest, MakeRequest, Request
  <2>2. req' \in [Threads -> Request]
    BY <1>27, <2>1 DEF Inv, TypeOK, ReadForBackOff
  <2>3. dst[t] \in Peers
    BY <1>27 DEF Inv, InLog, ReadForBackOff, Step
  <2>4. last' \in [Threads -> Nat]
    BY <1>27, <2>3, SMTT(30) DEF Inv, TypeOK, ReadForBackOff
  <2>. QED BY <1>27, <2>2, <2>4 DEF ReadForBackOff, Inv, TypeOK, Step, Labels
<1>28. CASE ReadFails(t)
  <2>1. /\ n \in [Threads -> Nat] /\ la \in [Threads -> Nat]
        /\ upto \in [Threads -> Nat] /\ faults \in Nat
        /\ writer \in Threads \cup {None} /\ pc \in [Threads -> Labels]
    BY DEF Inv, TypeOK
  <2>2. /\ n' = n \/ n' = [n EXCEPT ![t] = 1]
        /\ la' = la \/ la' = [la EXCEPT ![t] = 0]
        /\ upto' = upto \/ upto' = [upto EXCEPT ![t] = 0]
        /\ faults' = faults + 1 /\ writer' \in {writer, None}
        /\ \E l \in Labels : pc' = [pc EXCEPT ![t] = l]
    BY <1>28 DEF ReadFails, Fault, Step, Labels
  <2>3. n' \in [Threads -> Nat]
    BY <2>1, <2>2
  <2>4. la' \in [Threads -> Nat]
    BY <2>1, <2>2
  <2>5. upto' \in [Threads -> Nat]
    BY <2>1, <2>2
  <2>6. /\ pc' \in [Threads -> Labels] /\ faults' \in Nat
        /\ writer' \in Threads \cup {None}
    BY <2>1, <2>2
  <2>. QED BY <1>28, <2>3, <2>4, <2>5, <2>6 DEF ReadFails, Inv, TypeOK
<1>29. CASE WriteFails(t)
  <2>1. /\ n \in [Threads -> Nat] /\ la \in [Threads -> Nat]
        /\ upto \in [Threads -> Nat] /\ faults \in Nat
        /\ writer \in Threads \cup {None} /\ pc \in [Threads -> Labels]
        /\ from \in [Threads -> {"send", "final", "append"}]
    BY DEF Inv, TypeOK
  <2>2. /\ n' = n \/ n' = [n EXCEPT ![t] = n[t] + 1]
        /\ \/ la' = la \/ la' = [la EXCEPT ![t] = la[t] + 1]
           \/ la' = [la EXCEPT ![t] = 0]
        /\ upto' = upto \/ upto' = [upto EXCEPT ![t] = 0]
        /\ from' = from \/ from' = [from EXCEPT ![t] = "append"]
        /\ faults' = faults + 1 /\ writer' \in {writer, None}
        /\ \E l \in Labels : pc' = [pc EXCEPT ![t] = l]
    BY <1>29 DEF WriteFails, Fault, Step, Labels
  <2>3. n' \in [Threads -> Nat]
    BY <2>1, <2>2
  <2>4. la' \in [Threads -> Nat]
    BY <2>1, <2>2
  <2>5. upto' \in [Threads -> Nat]
    BY <2>1, <2>2
  <2>6. from' \in [Threads -> {"send", "final", "append"}]
    BY <2>1, <2>2
  <2>7. /\ pc' \in [Threads -> Labels] /\ faults' \in Nat
        /\ writer' \in Threads \cup {None}
    BY <2>1, <2>2
  <2>. QED BY <1>29, <2>3, <2>4, <2>5, <2>6, <2>7 DEF WriteFails, Inv, TypeOK
<1>30. CASE Abort(t)
  <2>1. req[t].term \in Nat
    BY DEF Inv, TypeOK, Request
  <2>2. /\ role' \in {"FOLLOWER", "CANDIDATE", "LEADER"}
        /\ currentTerm' \in Nat
    BY <1>30, <2>1 DEF Inv, TypeOK, Abort, Hear
  <2>3. timer' \in BOOLEAN
    <3>1. CASE Hear(req[t])
      BY <3>1 DEF Hear
    <3>2. CASE UNCHANGED <<raftState, timer>>
      BY <3>2 DEF Inv, TypeOK
    <3>. QED BY <1>30, <3>1, <3>2 DEF Abort
  <2>4. NoRequest \in Request
    BY <<>> \in Seq(Entry) DEF NoRequest, MakeRequest, Request
  <2>5. /\ req' \in [Threads -> Request]
        /\ todo' \in [Threads -> SUBSET Peers]
        /\ dst' \in [Threads -> Peers \cup {None}]
        /\ entry' \in [Threads -> Entry \cup {NoEntry}]
    BY <1>30, <2>4 DEF Inv, TypeOK, Abort, LeaveNode
  <2>6. /\ idx' \in [Threads -> Nat] /\ last' \in [Threads -> Nat]
        /\ n' \in [Threads -> Nat] /\ la' \in [Threads -> Nat]
        /\ upto' \in [Threads -> Nat] /\ faults' \in Nat
    BY <1>30 DEF Inv, TypeOK, Abort, LeaveNode, Fault
  <2>7. /\ pc' \in [Threads -> Labels] /\ writer' \in Threads \cup {None}
        /\ from' \in [Threads -> {"send", "final", "append"}]
    BY <1>30 DEF Inv, TypeOK, Abort, LeaveNode, Labels
  <2>8. ElectionsOK'
    BY <1>30 DEF Inv, TypeOK, Abort, Hear
  <2>. QED BY <1>30, <2>2, <2>3, <2>5, <2>6, <2>7, <2>8
           DEF Abort, LeaveNode, Inv, TypeOK
<1>31. CASE InsertThrows(t)
  <2>1. entry[t] \in Entry
    BY <1>31 DEF Inv, InLog, InsertThrows
  <2>2. log' \in Seq(Entry)
    BY <1>31, <2>1 DEF Inv, TypeOK, InsertThrows
  <2>3. NoRequest \in Request
    BY <<>> \in Seq(Entry) DEF NoRequest, MakeRequest, Request
  <2>4. /\ req' \in [Threads -> Request]
        /\ todo' \in [Threads -> SUBSET Peers]
        /\ dst' \in [Threads -> Peers \cup {None}]
        /\ entry' \in [Threads -> Entry \cup {NoEntry}]
    BY <1>31, <2>3 DEF Inv, TypeOK, InsertThrows, LeaveNode
  <2>5. /\ idx' \in [Threads -> Nat] /\ last' \in [Threads -> Nat]
        /\ n' \in [Threads -> Nat] /\ la' \in [Threads -> Nat]
        /\ upto' \in [Threads -> Nat] /\ faults' \in Nat
    BY <1>31 DEF Inv, TypeOK, InsertThrows, LeaveNode, Fault
  <2>6. /\ pc' \in [Threads -> Labels] /\ writer' \in Threads \cup {None}
        /\ from' \in [Threads -> {"send", "final", "append"}]
    BY <1>31 DEF Inv, TypeOK, InsertThrows, LeaveNode, Labels
  <2>. QED BY <1>31, <2>2, <2>4, <2>5, <2>6
           DEF InsertThrows, LeaveNode, Inv, TypeOK
<1>. QED BY <1>1, <1>2, <1>3, <1>4, <1>5, <1>6, <1>7, <1>8, <1>9, <1>10,
       <1>11, <1>12, <1>13, <1>14, <1>15, <1>16, <1>17, <1>18, <1>19, <1>20,
       <1>21, <1>22, <1>23, <1>24, <1>25, <1>26, <1>27, <1>28,
       <1>29, <1>30, <1>31 DEF Call

(* The log grows.                                                          *)
LEMMA CallLogGrows ==
    ASSUME Inv, NEW t \in Threads, Call(t)
    PROVE  LogGrows
<1>1. CASE StampTerm(t)
  BY <1>1 DEF StampTerm, LogGrows
<1>2. CASE AppendLogEntry(t)
  BY <1>2 DEF AppendLogEntry, LogGrows, Inv, InLog, Step
<1>3. CASE PeersDone(t)
  BY <1>3 DEF PeersDone, LogGrows
<1>4. CASE ReadNext(t)
  BY <1>4 DEF ReadNext, LogGrows
<1>5. CASE Gather(t)
  BY <1>5 DEF Gather, LogGrows
<1>6. CASE ReadLeaderCommit(t)
  BY <1>6 DEF ReadLeaderCommit, LogGrows
<1>7. CASE AppendRefused(t)
  BY <1>7 DEF AppendRefused, LogGrows
<1>8. CASE AppendAccepted(t)
  BY <1>8, AcceptedUnchanged DEF LogGrows
<1>9. CASE TestCommit(t)
  BY <1>9 DEF TestCommit, LogGrows
<1>10. CASE FollowCommit(t)
  BY <1>10 DEF FollowCommit, LogGrows
<1>11. CASE ReadForNext(t)
  BY <1>11 DEF ReadForNext, LogGrows
<1>12. CASE PutNextIndex(t)
  BY <1>12 DEF PutNextIndex, LogGrows
<1>13. CASE ReadForMatch(t)
  BY <1>13 DEF ReadForMatch, LogGrows
<1>14. CASE PutMatchIndex(t)
  BY <1>14 DEF PutMatchIndex, LogGrows
<1>15. CASE BackOff(t)
  BY <1>15 DEF BackOff, LogGrows
<1>16. CASE ReadLast(t)
  BY <1>16 DEF ReadLast, LogGrows
<1>17. CASE ReadBase(t)
  BY <1>17 DEF ReadBase, LogGrows
<1>18. CASE ScanEntry(t)
  BY <1>18 DEF ScanEntry, LogGrows
<1>19. CASE MarkCommitted(t)
  BY <1>19 DEF MarkCommitted, LogGrows
<1>20. CASE ScanDone(t)
  BY <1>20 DEF ScanDone, LogGrows
<1>21. CASE ReadApplied(t)
  BY <1>21 DEF ReadApplied, LogGrows
<1>22. CASE ReadTarget(t)
  BY <1>22 DEF ReadTarget, LogGrows
<1>23. CASE ApplyEntry(t)
  BY <1>23 DEF ApplyEntry, LogGrows
<1>24. CASE ApplyDone(t)
  BY <1>24 DEF ApplyDone, LogGrows
<1>25. CASE \E p \in Peers : NextPeer(t, p)
  BY <1>25 DEF NextPeer, LogGrows
<1>26. CASE ReadTerm(t)
  BY <1>26 DEF ReadTerm, LogGrows
<1>27. CASE ReadForBackOff(t)
  BY <1>27 DEF ReadForBackOff, LogGrows
<1>28. CASE ReadFails(t)
  BY <1>28 DEF ReadFails, LogGrows
<1>29. CASE WriteFails(t)
  BY <1>29 DEF WriteFails, LogGrows
<1>30. CASE Abort(t)
  BY <1>30 DEF Abort, LogGrows
<1>31. CASE InsertThrows(t)
  BY <1>31 DEF InsertThrows, LogGrows, Inv, InLog
<1>. QED BY <1>1, <1>2, <1>3, <1>4, <1>5, <1>6, <1>7, <1>8, <1>9, <1>10,
       <1>11, <1>12, <1>13, <1>14, <1>15, <1>16, <1>17, <1>18, <1>19, <1>20,
       <1>21, <1>22, <1>23, <1>24, <1>25, <1>26, <1>27, <1>28,
       <1>29, <1>30, <1>31 DEF Call

(* A thread does not touch what another one holds.                         *)
LEMMA CallOthers ==
    ASSUME TypeOK, NEW t \in Threads, Call(t), NEW u \in Threads, u # t
    PROVE  LocalsSame(u)
<1>1. CASE StampTerm(t)
  BY <1>1 DEF StampTerm, LocalsSame, TypeOK, Step
<1>2. CASE AppendLogEntry(t)
  BY <1>2 DEF AppendLogEntry, LocalsSame, TypeOK, Step
<1>3. CASE PeersDone(t)
  BY <1>3 DEF PeersDone, LocalsSame, TypeOK, Step
<1>4. CASE ReadNext(t)
  BY <1>4 DEF ReadNext, LocalsSame, TypeOK, Step
<1>5. CASE Gather(t)
  BY <1>5 DEF Gather, LocalsSame, TypeOK, Step
<1>6. CASE ReadLeaderCommit(t)
  BY <1>6 DEF ReadLeaderCommit, LocalsSame, TypeOK, Step
<1>7. CASE AppendRefused(t)
  BY <1>7 DEF AppendRefused, LocalsSame, TypeOK, Step
<1>8. CASE AppendAccepted(t)
  BY <1>8 DEF AppendAccepted, LocalsSame, TypeOK, Step
<1>9. CASE TestCommit(t)
  BY <1>9 DEF TestCommit, LocalsSame, TypeOK, Step
<1>10. CASE FollowCommit(t)
  BY <1>10 DEF FollowCommit, LocalsSame, TypeOK, Step
<1>11. CASE ReadForNext(t)
  BY <1>11 DEF ReadForNext, LocalsSame, TypeOK, Step
<1>12. CASE PutNextIndex(t)
  BY <1>12 DEF PutNextIndex, LocalsSame, TypeOK, Step
<1>13. CASE ReadForMatch(t)
  BY <1>13 DEF ReadForMatch, LocalsSame, TypeOK, Step
<1>14. CASE PutMatchIndex(t)
  BY <1>14 DEF PutMatchIndex, LocalsSame, TypeOK, Step
<1>15. CASE BackOff(t)
  BY <1>15 DEF BackOff, LocalsSame, TypeOK, Step
<1>16. CASE ReadLast(t)
  BY <1>16 DEF ReadLast, LocalsSame, TypeOK, Step
<1>17. CASE ReadBase(t)
  BY <1>17 DEF ReadBase, LocalsSame, TypeOK, Step
<1>18. CASE ScanEntry(t)
  BY <1>18 DEF ScanEntry, LocalsSame, TypeOK, Step
<1>19. CASE MarkCommitted(t)
  BY <1>19 DEF MarkCommitted, LocalsSame, TypeOK, Step
<1>20. CASE ScanDone(t)
  BY <1>20 DEF ScanDone, LocalsSame, TypeOK, Step
<1>21. CASE ReadApplied(t)
  BY <1>21 DEF ReadApplied, LocalsSame, TypeOK, Step
<1>22. CASE ReadTarget(t)
  BY <1>22 DEF ReadTarget, LocalsSame, TypeOK, Step
<1>23. CASE ApplyEntry(t)
  BY <1>23 DEF ApplyEntry, LocalsSame, TypeOK, Step
<1>24. CASE ApplyDone(t)
  BY <1>24 DEF ApplyDone, LocalsSame, TypeOK, Step
<1>25. CASE \E p \in Peers : NextPeer(t, p)
  BY <1>25 DEF NextPeer, LocalsSame, TypeOK, Step
<1>26. CASE ReadTerm(t)
  BY <1>26 DEF ReadTerm, LocalsSame, TypeOK, Step
<1>27. CASE ReadForBackOff(t)
  BY <1>27 DEF ReadForBackOff, LocalsSame, TypeOK, Step
<1>28. CASE ReadFails(t)
  BY <1>28 DEF ReadFails, LocalsSame, TypeOK, Step
<1>29. CASE WriteFails(t)
  BY <1>29 DEF WriteFails, LocalsSame, TypeOK, Step
<1>30. CASE Abort(t)
  BY <1>30 DEF Abort, LeaveNode, LocalsSame, TypeOK
<1>31. CASE InsertThrows(t)
  BY <1>31 DEF InsertThrows, LeaveNode, LocalsSame, TypeOK
<1>. QED BY <1>1, <1>2, <1>3, <1>4, <1>5, <1>6, <1>7, <1>8, <1>9, <1>10,
       <1>11, <1>12, <1>13, <1>14, <1>15, <1>16, <1>17, <1>18, <1>19, <1>20,
       <1>21, <1>22, <1>23, <1>24, <1>25, <1>26, <1>27, <1>28,
       <1>29, <1>30, <1>31 DEF Call

(* What a thread holds stays in agreement with the log while it waits.     *)
LEMMA Waits ==
    ASSUME TypeOK, LogGrows, NEW u \in Threads, InLog(u), LocalsSame(u)
    PROVE  InLog(u)'
<1>1. log \in Seq(Entry) /\ req[u] \in Request
  BY DEF TypeOK
<1>2. Len(log) <= Len(log') /\ \A i \in 1..Len(log) : log'[i] = log[i]
  BY <1>1 DEF LogGrows
<1>3. Len(log) \in Nat /\ Len(log') \in Nat
  BY <1>1 DEF LogGrows
<1>4. ASSUME Slice(req[u]) PROVE Slice(req[u])'
  <2>1. req[u].prev \in Nat /\ req[u].entries \in Seq(Entry)
    BY <1>1 DEF Request
  <2>2. req'[u] = req[u]
    BY DEF LocalsSame
  <2>3. \A i \in 1..Len(req[u].entries) : req[u].prev + i \in 1..Len(log)
    BY <1>1, <1>4, <2>1 DEF Slice
  <2>4. req[u].prev + Len(req[u].entries) <= Len(log')
    BY <1>1, <1>2, <1>4, <1>3, <2>1 DEF Slice
  <2>5. \A i \in 1..Len(req[u].entries) :
           log'[req[u].prev + i] = req[u].entries[i]
    BY <1>2, <1>4, <2>3 DEF Slice
  <2>. QED BY <2>2, <2>4, <2>5 DEF Slice
<1>5. /\ last[u] \in Nat /\ la[u] \in Nat /\ upto[u] \in Nat /\ n[u] \in Nat
      /\ req[u].prev \in Nat
  BY <1>1 DEF TypeOK, Request
<1>. QED BY <1>2, <1>3, <1>4, <1>5 DEF InLog, LocalsSame

(* The thread that takes the step.                                         *)
LEMMA CallOwn ==
    ASSUME Inv, NEW t \in Threads, Call(t)
    PROVE  InLog(t)'
<1>1. CASE StampTerm(t)
  <2>1. entry[t] \in Entry
    BY <1>1 DEF Inv, InLog, StampTerm, Step
  <2>2. entry'[t] \in Entry
    BY <1>1, <2>1 DEF Inv, TypeOK, StampTerm, Entry, MakeEntry
  <2>. QED BY <1>1, <2>1, <2>2 DEF StampTerm, Inv, InLog, TypeOK, Step
<1>2. CASE AppendLogEntry(t)
  <2>1. Len(log') = Len(log) + 1
    BY <1>2 DEF Inv, TypeOK, AppendLogEntry
  <2>. QED BY <1>2, <2>1 DEF AppendLogEntry, Inv, InLog, TypeOK, Step
<1>3. CASE PeersDone(t)
  BY <1>3 DEF PeersDone, Inv, InLog, TypeOK, Step
<1>4. CASE ReadNext(t)
  <2>1. dst[t] \in Peers
    BY <1>4 DEF Inv, InLog, ReadNext, Step
  <2>2. nextIndex[dst[t]] - 1 <= Len(log)
    BY <2>1 DEF Inv, IndexesInLog, TypeOK
  <2>3. req'[t].prev <= Len(log')
    BY <1>4, <2>2 DEF ReadNext, MakeRequest, Inv, TypeOK
  <2>. QED BY <1>4, <2>1, <2>2, <2>3 DEF ReadNext, Inv, InLog, TypeOK, Step
<1>5. CASE Gather(t)
  <2>1. /\ log \in Seq(Entry) /\ req[t].prev \in Nat
        /\ req[t].prev <= Len(log)
    BY <1>5 DEF Inv, TypeOK, InLog, Gather, Step, Request
  <2>2. Slice(req'[t])
    <3>. DEFINE es == EntriesFrom(log, req[t].prev + 1)
    <3>1. req'[t].prev = req[t].prev /\ req'[t].entries = es
      BY <1>5 DEF Gather, MakeRequest, Inv, TypeOK
    <3>2. /\ req[t].prev + Len(es) <= Len(log)
          /\ \A j \in 1..Len(es) : log[req[t].prev + j] = es[j]
      BY <2>1, EntriesFromSlice
    <3>. HIDE DEF es
    <3>. QED BY <3>1, <3>2, Zenon DEF Slice
  <2>3. Slice(req[t])'
    BY <1>5, <2>2 DEF Slice, Gather
  <2>. QED BY <1>5, <2>1, <2>2, <2>3 DEF Gather, Inv, InLog, TypeOK, Step
<1>6. CASE ReadLeaderCommit(t)
  <2>1. Slice(req[t])
    BY <1>6 DEF Inv, InLog, ReadLeaderCommit, Step
  <2>2. req'[t].prev = req[t].prev /\ req'[t].entries = req[t].entries
    BY <1>6 DEF Inv, TypeOK, ReadLeaderCommit, MakeRequest
  <2>3. Slice(req[t])'
    BY <1>6, <2>1, <2>2 DEF Slice, ReadLeaderCommit
  <2>. QED BY <1>6, <2>1, <2>2, <2>3
           DEF ReadLeaderCommit, Inv, InLog, TypeOK, Step
<1>7. CASE AppendRefused(t)
  BY <1>7 DEF AppendRefused, Inv, InLog, TypeOK, Step
<1>8. CASE AppendAccepted(t)
  <2>1. log' = log
    BY <1>8, AcceptedUnchanged
  <2>. QED BY <1>8, <2>1 DEF AppendAccepted, Inv, InLog, TypeOK, Step
<1>9. CASE TestCommit(t)
  BY <1>9 DEF TestCommit, Inv, InLog, TypeOK, Step
<1>10. CASE FollowCommit(t)
  BY <1>10 DEF FollowCommit, Inv, InLog, TypeOK, Step
<1>11. CASE ReadForNext(t)
  BY <1>11 DEF ReadForNext, Inv, InLog, TypeOK, Step
<1>12. CASE PutNextIndex(t)
  BY <1>12 DEF PutNextIndex, Inv, InLog, TypeOK, Step
<1>13. CASE ReadForMatch(t)
  BY <1>13 DEF ReadForMatch, Inv, InLog, TypeOK, Step
<1>14. CASE PutMatchIndex(t)
  BY <1>14 DEF PutMatchIndex, Inv, InLog, TypeOK, Step
<1>15. CASE BackOff(t)
  BY <1>15 DEF BackOff, Inv, InLog, TypeOK, Step
<1>16. CASE ReadLast(t)
  BY <1>16 DEF ReadLast, Inv, InLog, TypeOK, Step
<1>17. CASE ReadBase(t)
  BY <1>17 DEF ReadBase, Inv, InLog, TypeOK, Step
<1>18. CASE ScanEntry(t)
  BY <1>18, SMTT(30) DEF ScanEntry, Inv, InLog, TypeOK, Step
<1>19. CASE MarkCommitted(t)
  BY <1>19 DEF MarkCommitted, Inv, InLog, TypeOK, Step
<1>20. CASE ScanDone(t)
  BY <1>20, SMTT(30) DEF ScanDone, Inv, InLog, TypeOK, Step
<1>21. CASE ReadApplied(t)
  BY <1>21 DEF ReadApplied, Inv, IndexesInLog, InLog, TypeOK, Step
<1>22. CASE ReadTarget(t)
  BY <1>22 DEF ReadTarget, Inv, IndexesInLog, InLog, TypeOK, Step
<1>23. CASE ApplyEntry(t)
  BY <1>23 DEF ApplyEntry, Inv, InLog, TypeOK, Step
<1>24. CASE ApplyDone(t)
  BY <1>24, SMTT(30) DEF ApplyDone, Inv, InLog, TypeOK, Step
<1>25. CASE \E p \in Peers : NextPeer(t, p)
  BY <1>25 DEF NextPeer, Inv, InLog, TypeOK, Step
<1>26. CASE ReadTerm(t)
  <2>1. Slice(req[t])
    BY <1>26 DEF Inv, InLog, ReadTerm, Step
  <2>2. req'[t].prev = req[t].prev /\ req'[t].entries = req[t].entries
    BY <1>26 DEF Inv, TypeOK, ReadTerm, MakeRequest
  <2>3. Slice(req[t])'
    BY <1>26, <2>1, <2>2 DEF Slice, ReadTerm
  <2>. QED BY <1>26, <2>3 DEF ReadTerm, Inv, InLog, TypeOK, Step
<1>27. CASE ReadForBackOff(t)
  <2>1. dst[t] \in Peers
    BY <1>27 DEF Inv, InLog, ReadForBackOff, Step
  <2>2. nextIndex[dst[t]] - 1 <= Len(log)
    BY <2>1 DEF Inv, IndexesInLog, TypeOK
  <2>3. last'[t] <= Len(log')
    BY <1>27, <2>2 DEF ReadForBackOff, Inv, TypeOK
  <2>. QED BY <1>27, <2>3 DEF ReadForBackOff, Inv, InLog, TypeOK, Step
<1>28. CASE ReadFails(t)
  <2>1. /\ log' = log /\ last' = last /\ dst' = dst /\ req' = req
        /\ Slice(req[t])' = Slice(req[t])
    BY <1>28 DEF ReadFails, Slice
  <2>2. /\ \/ pc[t] = "commit" /\ pc'[t] = "lock"
           \/ pc'[t] \in {"follow", "next", "target", "apply"}
           \/ pc'[t] = "scan" /\ n'[t] = 1
        /\ la'[t] \in {0, la[t]} /\ upto'[t] \in {0, upto[t]}
    BY <1>28 DEF ReadFails, Inv, TypeOK, Step
  <2>3. /\ InLog(t) /\ Len(log) \in Nat /\ la[t] \in Nat /\ upto[t] \in Nat
    BY DEF Inv, TypeOK
  <2>4. /\ last'[t] <= Len(log') /\ la'[t] <= Len(log')
        /\ upto'[t] <= Len(log')
    BY <2>1, <2>2, <2>3 DEF InLog
  <2>5. CASE pc[t] = "commit" /\ pc'[t] = "lock"
    BY <2>1, <2>3, <2>4, <2>5 DEF InLog
  <2>6. CASE pc'[t] \in {"follow", "next", "target", "apply"}
    BY <2>4, <2>6 DEF InLog
  <2>7. CASE pc'[t] = "scan" /\ n'[t] = 1
    BY <2>4, <2>7 DEF InLog
  <2>. QED BY <2>2, <2>5, <2>6, <2>7
<1>29. CASE WriteFails(t)
  <2>1. /\ \/ pc'[t] \in {"applied", "apply", "next"}
           \/ pc'[t] = "scan" /\ n'[t] = n[t] + 1
        /\ upto'[t] \in {0, upto[t]}
        /\ \/ la'[t] \in {0, la[t]}
           \/ la'[t] = la[t] + 1 /\ la[t] < upto[t]
    BY <1>29 DEF WriteFails, Inv, TypeOK, Step
  <2>. QED BY <1>29, <2>1, SMTT(30) DEF WriteFails, Inv, InLog, TypeOK
<1>30. CASE Abort(t)
  BY <1>30 DEF Abort, LeaveNode, Inv, InLog, TypeOK
<1>31. CASE InsertThrows(t)
  <2>1. Len(log') = Len(log) + 1
    BY <1>31 DEF Inv, TypeOK, InsertThrows
  <2>. QED BY <1>31, <2>1 DEF InsertThrows, LeaveNode, Inv, InLog, TypeOK
<1>. QED BY <1>1, <1>2, <1>3, <1>4, <1>5, <1>6, <1>7, <1>8, <1>9, <1>10,
       <1>11, <1>12, <1>13, <1>14, <1>15, <1>16, <1>17, <1>18, <1>19, <1>20,
       <1>21, <1>22, <1>23, <1>24, <1>25, <1>26, <1>27, <1>28,
       <1>29, <1>30, <1>31 DEF Call

(* The shared indices stay inside the log.                                 *)
LEMMA CallIndexes ==
    ASSUME Inv, NEW t \in Threads, Call(t)
    PROVE  IndexesInLog'
<1>1. CASE StampTerm(t)
  BY <1>1 DEF StampTerm, Inv, IndexesInLog, TypeOK
<1>2. CASE AppendLogEntry(t)
  <2>1. Len(log') = Len(log) + 1
    BY <1>2 DEF Inv, TypeOK, AppendLogEntry
  <2>. QED BY <1>2, <2>1, SMTT(30)
              DEF AppendLogEntry, Inv, IndexesInLog, TypeOK
<1>3. CASE PeersDone(t)
  BY <1>3 DEF PeersDone, Inv, IndexesInLog, TypeOK
<1>4. CASE ReadNext(t)
  BY <1>4 DEF ReadNext, Inv, IndexesInLog, TypeOK
<1>5. CASE Gather(t)
  BY <1>5 DEF Gather, Inv, IndexesInLog, TypeOK
<1>6. CASE ReadLeaderCommit(t)
  BY <1>6 DEF ReadLeaderCommit, Inv, IndexesInLog, TypeOK
<1>7. CASE AppendRefused(t)
  BY <1>7 DEF AppendRefused, Inv, IndexesInLog, TypeOK
<1>8. CASE AppendAccepted(t)
  <2>1. log' = log
    BY <1>8, AcceptedUnchanged
  <2>. QED BY <1>8, <2>1 DEF AppendAccepted, Inv, IndexesInLog, TypeOK
<1>9. CASE TestCommit(t)
  BY <1>9 DEF TestCommit, Inv, IndexesInLog, TypeOK
<1>10. CASE FollowCommit(t)
  <2>1. req[t].commit \in Nat
    BY DEF Inv, TypeOK, Request
  <2>2. commitIndex' <= Len(log)
    BY <1>10, <2>1 DEF Inv, TypeOK, FollowCommit, Smaller
  <2>. QED BY <1>10, <2>1, <2>2 DEF FollowCommit, Inv, IndexesInLog, TypeOK
<1>11. CASE ReadForNext(t)
  BY <1>11 DEF ReadForNext, Inv, IndexesInLog, TypeOK
<1>12. CASE PutNextIndex(t)
  BY <1>12, SMTT(30) DEF PutNextIndex, Inv, IndexesInLog, InLog, TypeOK
<1>13. CASE ReadForMatch(t)
  BY <1>13 DEF ReadForMatch, Inv, IndexesInLog, TypeOK
<1>14. CASE PutMatchIndex(t)
  BY <1>14 DEF PutMatchIndex, Inv, IndexesInLog, TypeOK
<1>15. CASE BackOff(t)
  <2>1. (IF last[t] > 1 THEN last[t] ELSE 1) <= Len(log) + 1
    BY DEF Inv, InLog, TypeOK
  <2>. QED BY <1>15, <2>1 DEF BackOff, Inv, IndexesInLog, TypeOK
<1>16. CASE ReadLast(t)
  BY <1>16 DEF ReadLast, Inv, IndexesInLog, TypeOK
<1>17. CASE ReadBase(t)
  BY <1>17 DEF ReadBase, Inv, IndexesInLog, TypeOK
<1>18. CASE ScanEntry(t)
  BY <1>18 DEF ScanEntry, Inv, IndexesInLog, TypeOK
<1>19. CASE MarkCommitted(t)
  BY <1>19 DEF MarkCommitted, Inv, IndexesInLog, InLog, TypeOK, Step
<1>20. CASE ScanDone(t)
  BY <1>20 DEF ScanDone, Inv, IndexesInLog, TypeOK
<1>21. CASE ReadApplied(t)
  BY <1>21 DEF ReadApplied, Inv, IndexesInLog, TypeOK
<1>22. CASE ReadTarget(t)
  BY <1>22 DEF ReadTarget, Inv, IndexesInLog, TypeOK
<1>23. CASE ApplyEntry(t)
  BY <1>23 DEF ApplyEntry, Inv, IndexesInLog, TypeOK
<1>24. CASE ApplyDone(t)
  BY <1>24 DEF ApplyDone, Inv, IndexesInLog, InLog, TypeOK
<1>25. CASE \E p \in Peers : NextPeer(t, p)
  BY <1>25 DEF NextPeer, Inv, IndexesInLog, TypeOK
<1>26. CASE ReadTerm(t)
  BY <1>26 DEF ReadTerm, Inv, IndexesInLog, TypeOK
<1>27. CASE ReadForBackOff(t)
  BY <1>27 DEF ReadForBackOff, Inv, IndexesInLog, TypeOK
<1>28. CASE ReadFails(t)
  BY <1>28 DEF ReadFails, Inv, IndexesInLog, TypeOK
<1>29. CASE WriteFails(t)
  BY <1>29 DEF WriteFails, Inv, IndexesInLog, TypeOK
<1>30. CASE Abort(t)
  BY <1>30 DEF Abort, LeaveNode, Inv, IndexesInLog, TypeOK
<1>31. CASE InsertThrows(t)
  <2>1. Len(log') = Len(log) + 1
    BY <1>31 DEF Inv, TypeOK, InsertThrows
  <2>. QED BY <1>31, <2>1, SMTT(30)
           DEF InsertThrows, LeaveNode, Inv, IndexesInLog, TypeOK
<1>. QED BY <1>1, <1>2, <1>3, <1>4, <1>5, <1>6, <1>7, <1>8, <1>9, <1>10,
       <1>11, <1>12, <1>13, <1>14, <1>15, <1>16, <1>17, <1>18, <1>19, <1>20,
       <1>21, <1>22, <1>23, <1>24, <1>25, <1>26, <1>27, <1>28,
       <1>29, <1>30, <1>31 DEF Call
-----------------------------------------------------------------------------
(* The whole specification.                                                *)

(* The types of what elections move.                                      *)
ElectionTyped ==
    /\ role \in {"FOLLOWER", "CANDIDATE", "LEADER"} /\ currentTerm \in Nat
    /\ timer \in BOOLEAN /\ ElectionsOK

(* A scheduler thread takes a step of startElection.                       *)
LEMMA ElectTyped ==
    ASSUME ElectionTyped, NEW e \in Electors,
           \/ ElectionTask(e) \/ TimerFires(e) \/ Campaign(e)
           \/ CampaignFails(e)
    PROVE  ElectionTyped'
<1>1. MaxTerm \in Nat /\ MaxTasks \in Nat /\ Cardinality(Peers) \in Nat
  BY CandidateAssumption, FS_CardinalityType
<1>2. timer' \in BOOLEAN
  BY Zenon DEF ElectionTyped, ElectionTask, TimerFires, Campaign,
               CampaignFails, WriteTerm
<1>3. CASE ElectionTask(e) \/ TimerFires(e)
  <2>1. BecomeCandidate(e)
    BY <1>3 DEF ElectionTask, TimerFires
  <2>2. currentTerm + 1 \in 0..MaxTerm
    BY <1>1, <2>1 DEF BecomeCandidate, ElectionTyped
  <2>3. ballot' \in [Electors -> 0..MaxTerm]
    BY <2>1, <2>2 DEF BecomeCandidate, ElectionTyped
  <2>. QED BY <1>2, <2>1, <2>3 DEF BecomeCandidate, ElectionTyped
<1>4. CASE Campaign(e) \/ CampaignFails(e)
  <2>1. WriteTerm(e) /\ tasks' \in 0..MaxTasks
    BY <1>1, <1>4 DEF Campaign, CampaignFails, ElectionTyped
  <2>2. role' \in {"FOLLOWER", "CANDIDATE", "LEADER"}
    BY <1>4 DEF Campaign, CampaignFails, ElectionTyped
  <2>3. /\ ballot' \in [Electors -> 0..MaxTerm] /\ currentTerm' \in Nat
        /\ UNCHANGED <<voter, heard>>
    BY <1>1, <2>1 DEF WriteTerm, ElectionTyped
  <2>. QED BY <1>2, <2>1, <2>2, <2>3 DEF ElectionTyped
<1>. QED BY <1>3, <1>4

(* A worker takes a step of requestVote.                                   *)
LEMMA VoteTyped ==
    ASSUME ElectionTyped, NEW w \in Voters, TakeTask(w) \/ RequestVote(w)
    PROVE  ElectionTyped'
<1>1. MaxTerm \in Nat /\ MaxTasks \in Nat
  BY CandidateAssumption
<1>2. UNCHANGED <<timer, ballot>> /\ timer' \in BOOLEAN
  BY Zenon DEF ElectionTyped, TakeTask, RequestVote, PeerAnswers, CallEnds,
               AdoptTerm
<1>3. CASE TakeTask(w)
  BY <1>1, <1>2, <1>3 DEF TakeTask, ElectionTyped
<1>4. ASSUME NEW term \in 1..MaxTerm + 1, PeerAnswers(w, term)
      PROVE  ElectionTyped'
  BY <1>1, <1>2, <1>4 DEF PeerAnswers, ElectionTyped
<1>5. CASE CallEnds(w)
  BY <1>1, <1>2, <1>5 DEF CallEnds, ElectionTyped
<1>6. CASE AdoptTerm(w)
  BY <1>1, <1>2, <1>6 DEF AdoptTerm, ElectionTyped
<1>. QED BY <1>3, <1>4, <1>5, <1>6 DEF RequestVote

(* Elections, promotion and faults leave the log alone; a crash leaves no *)
(* thread inside the node.                                                 *)
LEMMA NodeSteps ==
    ASSUME Inv,
           \/ \E e \in Electors : Elect(e)
           \/ \E w \in Voters : Vote(w)
           \/ Promote \/ Crash
    PROVE  Inv' /\ LogGrows
<1>1. ASSUME NEW e \in Electors, Elect(e)
      PROVE  Inv' /\ LogGrows
  <2>1. /\ UNCHANGED <<store, indexMaps, writer, pc, proposal, sending,
                       scanning, applying>>
        /\ faults' \in Nat
    BY <1>1 DEF Elect, Fault, Inv, TypeOK
  <2>2. ElectionTyped'
    BY <1>1, ElectTyped DEF Elect, Inv, TypeOK, ElectionTyped
  <2>3. TypeOK'
    BY <2>1, <2>2 DEF Inv, TypeOK, ElectionTyped
  <2>4. IndexesInLog' /\ LogGrows /\ \A u \in Threads : LocalsSame(u)
    BY <2>1 DEF Inv, IndexesInLog, LogGrows, LocalsSame
  <2>. QED BY <2>3, <2>4, Waits DEF Inv
<1>2. ASSUME NEW w \in Voters, Vote(w)
      PROVE  Inv' /\ LogGrows
  <2>1. UNCHANGED <<store, indexMaps, writer, pc, proposal, sending,
                    scanning, applying, faults>>
    BY <1>2 DEF Vote
  <2>2. ElectionTyped'
    BY <1>2, VoteTyped DEF Vote, Inv, TypeOK, ElectionTyped
  <2>3. TypeOK'
    BY <2>1, <2>2 DEF Inv, TypeOK, ElectionTyped
  <2>4. IndexesInLog' /\ LogGrows /\ \A u \in Threads : LocalsSame(u)
    BY <2>1 DEF Inv, IndexesInLog, LogGrows, LocalsSame
  <2>. QED BY <2>3, <2>4, Waits DEF Inv
<1>3. CASE Promote
  <2>1. TypeOK' /\ IndexesInLog' /\ LogGrows
    BY <1>3 DEF Promote, Inv, TypeOK, IndexesInLog, LogGrows
  <2>2. \A u \in Threads : LocalsSame(u)
    BY <1>3 DEF Promote, LocalsSame
  <2>. QED BY <2>1, <2>2, Waits DEF Inv
<1>4. CASE Crash
  <2>1. NoRequest \in Request
    BY <<>> \in Seq(Entry) DEF NoRequest, MakeRequest, Request
  <2>2. TypeOK'
    <3>0. timer' \in BOOLEAN
      BY <1>4, Zenon DEF Crash, NewNode
    <3>1. /\ role' \in {"FOLLOWER", "CANDIDATE", "LEADER"}
          /\ currentTerm' \in Nat /\ faults' \in Nat
          /\ writer' \in Threads \cup {None}
      BY <1>4 DEF Crash, NewNode, Inv, TypeOK
    <3>2. nextIndex' \in [Peers -> Nat \ {0}] /\ matchIndex' \in [Peers -> Nat]
      BY <1>4 DEF Crash, NewNode
    <3>3. /\ pc' \in [Threads -> Labels]
          /\ entry' \in [Threads -> Entry \cup {NoEntry}]
          /\ from' \in [Threads -> {"send", "final", "append"}]
      BY <1>4 DEF Crash, NewNode, All, Labels
    <3>4. /\ todo' \in [Threads -> SUBSET Peers]
          /\ dst' \in [Threads -> Peers \cup {None}]
          /\ req' \in [Threads -> Request]
      BY <1>4, <2>1 DEF Crash, NewNode, All
    <3>5. /\ idx' \in [Threads -> Nat] /\ last' \in [Threads -> Nat]
          /\ n' \in [Threads -> Nat] /\ la' \in [Threads -> Nat]
          /\ upto' \in [Threads -> Nat]
      BY <1>4 DEF Crash, NewNode, All
    <3>6. ElectionsOK'
      BY <1>4, CandidateAssumption DEF Crash, NewNode, DropElections
    <3>. QED BY <1>4, <3>0, <3>1, <3>2, <3>3, <3>4, <3>5, <3>6
             DEF Crash, Inv, TypeOK
  <2>3. IndexesInLog' /\ LogGrows
    BY <1>4 DEF Crash, NewNode, Inv, TypeOK, IndexesInLog, LogGrows
  <2>4. \A u \in Threads : InLog(u)'
    BY <1>4 DEF Crash, NewNode, All, Inv, TypeOK, InLog
  <2>. QED BY <2>2, <2>3, <2>4 DEF Inv
<1>. QED BY <1>1, <1>2, <1>3, <1>4

(* A put or a heartbeat enters the node.                                   *)
LEMMA Entering ==
    ASSUME Inv, NEW t \in Threads,
           \/ \E k \in Keys, v \in Values : Propose(t, k, v)
           \/ \E p \in Peers : Heartbeat(t, p)
    PROVE  Inv' /\ LogGrows
<1>1. ASSUME NEW k \in Keys, NEW v \in Values, Propose(t, k, v)
      PROVE  Inv' /\ LogGrows
  <2>1. MakeEntry(0, k, v) \in Entry
    BY DEF MakeEntry, Entry
  <2>2. TypeOK'
    BY <1>1, <2>1 DEF Propose, Step, Labels, Inv, TypeOK
  <2>3. IndexesInLog' /\ LogGrows
    BY <1>1 DEF Propose, Inv, IndexesInLog, LogGrows
  <2>4. InLog(t)'
    BY <1>1, <2>1 DEF Propose, Step, Inv, TypeOK, InLog
  <2>5. \A u \in Threads : u # t => LocalsSame(u)
    BY <1>1 DEF Propose, Step, Inv, TypeOK, LocalsSame
  <2>. QED BY <2>2, <2>3, <2>4, <2>5, Waits DEF Inv
<1>2. ASSUME NEW p \in Peers, Heartbeat(t, p)
      PROVE  Inv' /\ LogGrows
  <2>1. TypeOK'
    BY <1>2 DEF Heartbeat, Step, Labels, Inv, TypeOK
  <2>2. IndexesInLog' /\ LogGrows
    BY <1>2 DEF Heartbeat, Inv, IndexesInLog, LogGrows
  <2>3. InLog(t)'
    BY <1>2 DEF Heartbeat, Step, Inv, TypeOK, InLog
  <2>4. \A u \in Threads : u # t => LocalsSame(u)
    BY <1>2 DEF Heartbeat, Step, Inv, TypeOK, LocalsSame
  <2>. QED BY <2>1, <2>2, <2>3, <2>4, Waits DEF Inv
<1>. QED BY <1>1, <1>2

(* Every step keeps the invariant and does not shrink the log.             *)
LEMMA NextStep ==
    ASSUME Inv, [Next]_vars
    PROVE  Inv' /\ LogGrows
<1>1. CASE UNCHANGED vars
  <2>1. TypeOK' /\ IndexesInLog' /\ LogGrows
    BY <1>1 DEF Inv, TypeOK, IndexesInLog, LogGrows
  <2>2. \A u \in Threads : LocalsSame(u)
    BY <1>1 DEF LocalsSame
  <2>. QED BY <2>1, <2>2, Waits DEF Inv
<1>2. ASSUME NEW t \in Threads, Call(t)
      PROVE  Inv' /\ LogGrows
  <2>1. TypeOK /\ TypeOK' /\ IndexesInLog' /\ LogGrows /\ InLog(t)'
    BY <1>2, CallTyped, CallIndexes, CallLogGrows, CallOwn DEF Inv
  <2>2. \A u \in Threads : u # t => LocalsSame(u)
    BY <1>2, <2>1, CallOthers
  <2>3. \A u \in Threads : u # t => InLog(u)'
    BY <2>1, <2>2, Waits DEF Inv
  <2>. QED BY <2>1, <2>3 DEF Inv
<1>3. CASE \/ \E e \in Electors : Elect(e)
           \/ \E w \in Voters : Vote(w)
           \/ Promote \/ Crash
  BY <1>3, NodeSteps
<1>4. CASE \/ \E t \in Putters, k \in Keys, v \in Values : Propose(t, k, v)
           \/ \E t \in Beaters, p \in Peers : Heartbeat(t, p)
  BY <1>4, Entering DEF Threads
<1>. QED BY <1>1, <1>2, <1>3, <1>4 DEF Next

(* The strengthened invariant holds in every reachable state, for any set  *)
(* of peers and of threads and any bound.                                  *)
THEOREM Invariance == Spec => []Inv
<1>1. Init => Inv
  <2>. SUFFICES ASSUME Init PROVE Inv
    OBVIOUS
  <2>1. NoRequest \in Request
    BY <<>> \in Seq(Entry) DEF NoRequest, MakeRequest, Request
  <2>2. TypeOK
    <3>1. /\ kv \in [Keys -> Values \cup {NoValue}] /\ src \in [Keys -> Nat]
          /\ nextIndex \in [Peers -> Nat \ {0}]
          /\ matchIndex \in [Peers -> Nat]
      BY DEF Init
    <3>2. /\ pc \in [Threads -> Labels]
          /\ entry \in [Threads -> Entry \cup {NoEntry}]
          /\ from \in [Threads -> {"send", "final", "append"}]
      BY DEF Init, All, Labels
    <3>3. /\ todo \in [Threads -> SUBSET Peers]
          /\ dst \in [Threads -> Peers \cup {None}]
          /\ req \in [Threads -> Request]
      BY <2>1 DEF Init, All
    <3>4. /\ idx \in [Threads -> Nat] /\ last \in [Threads -> Nat]
          /\ n \in [Threads -> Nat] /\ la \in [Threads -> Nat]
          /\ upto \in [Threads -> Nat]
      BY DEF Init, All
    <3>5. ElectionsOK
      BY CandidateAssumption DEF Init, NoElections
    <3>. QED BY <3>1, <3>2, <3>3, <3>4, <3>5, <<>> \in Seq(Entry)
             DEF Init, TypeOK
  <2>3. IndexesInLog
    BY DEF Init, IndexesInLog
  <2>4. \A u \in Threads : InLog(u)
    BY DEF Init, All, InLog
  <2>. QED BY <2>2, <2>3, <2>4 DEF Inv
<1>2. Inv /\ [Next]_vars => Inv'
  BY NextStep
<1>. QED BY <1>1, <1>2, PTL DEF Spec

(* Types are kept by every interleaving of puts, heartbeats, elections and *)
(* faults.                                                                *)
THEOREM TypeCorrect == Spec => []TypeOK
<1>1. Inv => TypeOK
  BY DEF Inv
<1>. QED BY <1>1, Invariance, PTL

(* sendAppendEntries, updateCommitIndex and applyCommittedEntries never    *)
(* ask the logs table for a row it does not have.                          *)
THEOREM RowsFound == Spec => []NoMissingRow
<1>1. Inv => NoMissingRow
  <2>. SUFFICES ASSUME Inv, NEW t \in Threads
                PROVE  /\ pc[t] = "gather" => req[t].prev <= Len(log)
                       /\ pc[t] = "scan" /\ n[t] <= last[t] =>
                             n[t] \in 1..Len(log)
                       /\ pc[t] = "apply" /\ la[t] < upto[t] =>
                             la[t] + 1 <= Len(log)
    BY DEF NoMissingRow
  <2>. QED BY DEF Inv, TypeOK, InLog
<1>. QED BY <1>1, Invariance, PTL

(* A node that leads never deletes or rewrites a row of its log, although  *)
(* it runs its own appendEntries with requests that other puts have        *)
(* overtaken.                                                              *)
THEOREM LeaderLogAppendOnly == Spec => LogAppendOnly
<1>1. Inv /\ [Next]_vars =>
          [/\ Len(log) <= Len(log')
           /\ \A i \in 1..Len(log) : log'[i] = log[i]]_log
  <2>. SUFFICES ASSUME Inv, [Next]_vars
                PROVE  /\ Len(log) <= Len(log')
                       /\ \A i \in 1..Len(log) : log'[i] = log[i]
    OBVIOUS
  <2>1. LogGrows /\ log \in Seq(Entry)
    BY NextStep DEF Inv, TypeOK
  <2>. QED BY <2>1 DEF LogGrows
<1>. QED BY <1>1, Invariance, PTL DEF Spec, LogAppendOnly
-----------------------------------------------------------------------------
(***************************************************************************)
(* A node that has no peers and serves one put at a time, on a database    *)
(* that does not fail: what put acknowledges is committed and applied, and *)
(* stays so however often the process crashes and in whatever term it      *)
(* leads again.  It wins its elections itself: they run in the periodic    *)
(* task, never two at once, and nothing arms its timer.                    *)
(***************************************************************************)
Alone ==
    /\ Peers = {} /\ StorageFails = FALSE /\ Promotable = FALSE
    /\ \A t, u \in Putters : t = u
    /\ \A d, e \in Electors : d = e

Replicating == {"last", "base", "scan", "mark", "applied", "target", "apply"}

(* Every entry up to index m has reached kv_store, or a later one for the  *)
(* same key has.                                                           *)
Stored(m) == \A i \in 1..m : src[log[i].key] >= i

(* The put that thread t runs.  Its entry is the last one of the log and   *)
(* of the term the node leads in, so that the loop of updateCommitIndex,   *)
(* which starts behind the commit index, cannot pass it by.                *)
PutState(t) ==
    /\ pc[t] \in {"idle", "stamp", "insert", "peers"} \cup Replicating
    /\ pc[t] # "idle" => role = "LEADER"
    /\ pc[t] = "insert" => entry[t].term = currentTerm
    /\ pc[t] \in {"peers"} \cup Replicating =>
          /\ idx[t] = Len(log) /\ Len(log) >= 1
          /\ log[Len(log)].term = currentTerm
    /\ pc[t] \in Replicating => from[t] = "final"
    /\ pc[t] \in Replicating \ {"last"} => last[t] = Len(log)
    /\ pc[t] \in {"peers", "last", "base"} => commitIndex < Len(log)
    /\ pc[t] \in {"scan", "mark"} => n[t] > commitIndex
    /\ pc[t] = "scan" /\ n[t] > Len(log) => lastApplied = Len(log)
    /\ pc[t] \in {"applied", "target", "apply"} => commitIndex = n[t]
    /\ pc[t] = "target" => la[t] = lastApplied
    /\ pc[t] = "apply" => /\ upto[t] = commitIndex
                          /\ lastApplied <= la[t] /\ la[t] <= upto[t]
                          /\ Stored(la[t])

(* No term will be written under a leader, and nobody is asked for a vote. *)
Settled ==
    /\ tasks = 0 /\ \A w \in Voters : voter[w] = "idle"
    /\ role = "LEADER" => \A e \in Electors : ballot[e] = 0

AloneInv ==
    /\ timer = FALSE /\ Settled
    /\ \A t \in Threads \ Putters : pc[t] = "idle"
    /\ \A t \in Putters : PutState(t)
    /\ lastApplied <= commitIndex
    /\ \A i \in acked : i \in 1..lastApplied
    /\ Stored(lastApplied)

(* Without peers the leader's own copy is enough.                          *)
LEMMA AloneCommits ==
    ASSUME Alone, NEW i, log[i].term = currentTerm
    PROVE  Committable(i)
<1>1. {p \in Peers : matchIndex[p] >= i} = {} /\ Peers = {}
  BY DEF Alone
<1>2. Cardinality({}) = 0
  BY FS_EmptySet
<1>3. 1 + 0 > 0 \div 2
  OBVIOUS
<1>. QED BY <1>1, <1>2, <1>3 DEF Committable, Reached

(* Of a thread's steps these are left.                                     *)
LEMMA AloneCalls ==
    ASSUME Alone, AloneInv, NEW t \in Threads, Call(t)
    PROVE  /\ t \in Putters
           /\ \/ StampTerm(t) \/ AppendLogEntry(t) \/ PeersDone(t)
              \/ ReadLast(t) \/ ReadBase(t) \/ ScanEntry(t)
              \/ MarkCommitted(t) \/ ScanDone(t) \/ ReadApplied(t)
              \/ ReadTarget(t) \/ ApplyEntry(t) \/ ApplyDone(t)
<1>1. ~Fault
  BY DEF Alone, Fault
<1>2. ~ReadFails(t) /\ ~WriteFails(t) /\ ~Abort(t) /\ ~InsertThrows(t)
  BY <1>1 DEF ReadFails, WriteFails, Abort, InsertThrows
<1>3. pc[t] # "idle"
  BY <1>2 DEF Call, StampTerm, AppendLogEntry, PeersDone, ReadNext, Gather,
       ReadTerm, ReadLeaderCommit, AppendRefused, AppendAccepted, TestCommit,
       FollowCommit, ReadForNext, PutNextIndex, ReadForMatch, PutMatchIndex,
       ReadForBackOff, BackOff, ReadLast, ReadBase, ScanEntry, MarkCommitted,
       ScanDone, ReadApplied, ReadTarget, ApplyEntry, ApplyDone, NextPeer,
       Step
<1>4. t \in Putters
  BY <1>3 DEF AloneInv
<1>5. pc[t] \in {"stamp", "insert", "peers"} \cup Replicating
  BY <1>3, <1>4 DEF AloneInv, PutState
<1>6. ~\E p \in Peers : NextPeer(t, p)
  BY DEF Alone
<1>7. /\ ~ReadNext(t) /\ ~Gather(t) /\ ~ReadTerm(t) /\ ~ReadLeaderCommit(t)
      /\ ~AppendRefused(t) /\ ~AppendAccepted(t) /\ ~TestCommit(t)
      /\ ~FollowCommit(t) /\ ~ReadForNext(t) /\ ~PutNextIndex(t)
      /\ ~ReadForMatch(t) /\ ~PutMatchIndex(t) /\ ~ReadForBackOff(t)
      /\ ~BackOff(t)
  BY <1>5 DEF Replicating, ReadNext, Gather, ReadTerm, ReadLeaderCommit,
       AppendRefused, AppendAccepted, TestCommit, FollowCommit, ReadForNext,
       PutNextIndex, ReadForMatch, PutMatchIndex, ReadForBackOff, BackOff,
       Step
<1>. QED BY <1>2, <1>4, <1>6, <1>7 DEF Call

(* A step of the one put.                                                  *)
LEMMA AloneCallKept ==
    ASSUME Alone, Inv, AloneInv, NEW t \in Threads, Call(t)
    PROVE  AloneInv'
<1>0. /\ t \in Putters /\ PutState(t) /\ timer = FALSE
      /\ lastApplied <= commitIndex /\ Stored(lastApplied)
      /\ \A i \in acked : i \in 1..lastApplied
  BY AloneCalls DEF AloneInv
<1>1. /\ log \in Seq(Entry) /\ commitIndex \in Nat /\ lastApplied \in Nat
      /\ pc \in [Threads -> Labels] /\ idx \in [Threads -> Nat]
      /\ entry \in [Threads -> Entry \cup {NoEntry}]
      /\ from \in [Threads -> {"send", "final", "append"}]
      /\ last \in [Threads -> Nat] /\ n \in [Threads -> Nat]
      /\ la \in [Threads -> Nat] /\ upto \in [Threads -> Nat]
      /\ src \in [Keys -> Nat] /\ currentTerm \in Nat
      /\ commitIndex <= Len(log) /\ InLog(t)
  BY DEF Inv, TypeOK, IndexesInLog
<1>2. ASSUME PutState(t)', timer' = timer, lastApplied' <= commitIndex',
             Stored(lastApplied)', \A i \in acked' : i \in 1..lastApplied',
             NEW l, pc' = [pc EXCEPT ![t] = l]
      PROVE  AloneInv'
  <2>1. \A u \in Threads \ Putters : pc'[u] = "idle"
    BY <1>0, <1>1, <1>2 DEF AloneInv
  <2>2. \A u \in Putters : u = t
    BY <1>0 DEF Alone
  <2>3. \A u \in Putters : PutState(u)'
    BY <1>2, <2>2
  <2>4. Settled'
    <3>1. Settled /\ UNCHANGED <<role, elections>>
      BY AloneCalls
         DEF AloneInv, StampTerm, AppendLogEntry, PeersDone, ReadLast,
             ReadBase, ScanEntry, MarkCommitted, ScanDone, ReadApplied,
             ReadTarget, ApplyEntry, ApplyDone
    <3>. QED BY <3>1 DEF Settled
  <2>. QED BY <1>0, <1>2, <2>1, <2>3, <2>4 DEF AloneInv
<1>3. ASSUME UNCHANGED <<log, lastApplied, commitIndex, src, acked, timer>>,
             PutState(t)', NEW l, pc' = [pc EXCEPT ![t] = l]
      PROVE  AloneInv'
  BY <1>0, <1>2, <1>3 DEF Stored
<1>4. CASE StampTerm(t)
  <2>1. /\ pc[t] = "stamp" /\ pc' = [pc EXCEPT ![t] = "insert"]
        /\ entry'[t] = MakeEntry(currentTerm, entry[t].key, entry[t].value)
        /\ UNCHANGED <<log, lastApplied, commitIndex, src, acked, timer>>
        /\ UNCHANGED <<role, currentTerm>>
    BY <1>1, <1>4 DEF StampTerm, Step
  <2>2. pc'[t] = "insert" /\ entry'[t].term = currentTerm
    BY <1>1, <2>1 DEF MakeEntry
  <2>3. PutState(t)'
    BY <1>0, <2>1, <2>2 DEF PutState, Replicating
  <2>. QED BY <1>3, <2>1, <2>3
<1>5. CASE AppendLogEntry(t)
  <2>1. /\ pc[t] = "insert" /\ pc' = [pc EXCEPT ![t] = "peers"]
        /\ log' = Append(log, entry[t]) /\ idx'[t] = Len(log) + 1
        /\ UNCHANGED <<lastApplied, commitIndex, src, acked, timer>>
        /\ UNCHANGED <<role, currentTerm>>
    BY <1>1, <1>5 DEF AppendLogEntry, Step
  <2>2. entry[t] \in Entry /\ entry[t].term = currentTerm
    BY <1>0, <1>1, <2>1 DEF InLog, PutState
  <2>3. /\ Len(log') = Len(log) + 1 /\ Len(log) \in Nat
        /\ log'[Len(log) + 1] = entry[t]
        /\ \A i \in 1..Len(log) : log'[i] = log[i]
    BY <1>1, <2>1, <2>2
  <2>4. pc'[t] = "peers"
    BY <1>1, <2>1
  <2>5. PutState(t)'
    BY <1>0, <1>1, <2>1, <2>2, <2>3, <2>4 DEF PutState, Replicating
  <2>6. Stored(lastApplied)'
    BY <1>0, <1>1, <2>1, <2>3 DEF Stored
  <2>. QED BY <1>0, <1>2, <2>1, <2>5, <2>6
<1>6. CASE PeersDone(t)
  <2>1. /\ pc[t] = "peers" /\ pc' = [pc EXCEPT ![t] = "last"]
        /\ from'[t] = "final"
        /\ UNCHANGED <<log, lastApplied, commitIndex, src, acked, timer>>
        /\ UNCHANGED <<role, currentTerm, idx>>
    BY <1>0, <1>1, <1>6 DEF PeersDone, Step
  <2>2. pc'[t] = "last"
    BY <1>1, <2>1
  <2>3. PutState(t)'
    BY <1>0, <2>1, <2>2 DEF PutState, Replicating
  <2>. QED BY <1>3, <2>1, <2>3
<1>7. CASE ReadLast(t)
  <2>1. /\ pc[t] = "last" /\ pc' = [pc EXCEPT ![t] = "base"]
        /\ last'[t] = Len(log)
        /\ UNCHANGED <<log, lastApplied, commitIndex, src, acked, timer>>
        /\ UNCHANGED <<role, currentTerm, idx, from>>
    BY <1>1, <1>7 DEF ReadLast, Step
  <2>2. pc'[t] = "base"
    BY <1>1, <2>1
  <2>3. PutState(t)'
    BY <1>0, <2>1, <2>2 DEF PutState, Replicating
  <2>. QED BY <1>3, <2>1, <2>3
<1>8. CASE ReadBase(t)
  <2>1. /\ pc[t] = "base" /\ pc' = [pc EXCEPT ![t] = "scan"]
        /\ n'[t] = commitIndex + 1
        /\ UNCHANGED <<log, lastApplied, commitIndex, src, acked, timer>>
        /\ UNCHANGED <<role, currentTerm, idx, from, last>>
    BY <1>1, <1>8 DEF ReadBase, Step
  <2>2. pc'[t] = "scan"
    BY <1>1, <2>1
  <2>3. n'[t] > commitIndex /\ ~(n'[t] > Len(log))
    BY <1>0, <1>1, <2>1 DEF PutState
  <2>4. PutState(t)'
    BY <1>0, <2>1, <2>2, <2>3 DEF PutState, Replicating
  <2>. QED BY <1>3, <2>1, <2>4
<1>9. CASE ScanEntry(t)
  <2>1. /\ pc[t] = "scan" /\ n[t] <= last[t]
        /\ UNCHANGED <<log, lastApplied, commitIndex, src, acked, timer>>
        /\ UNCHANGED <<role, currentTerm, idx, from, last>>
        /\ IF Committable(n[t])
           THEN Step(t, "scan", "mark") /\ UNCHANGED n
           ELSE Step(t, "scan", "scan") /\ n' = [n EXCEPT ![t] = @ + 1]
    BY <1>9 DEF ScanEntry
  <2>2. CASE Committable(n[t])
    <3>1. pc' = [pc EXCEPT ![t] = "mark"] /\ pc'[t] = "mark" /\ n' = n
      BY <1>1, <2>1, <2>2 DEF Step
    <3>2. PutState(t)'
      BY <1>0, <2>1, <3>1 DEF PutState, Replicating
    <3>. QED BY <1>3, <2>1, <3>1, <3>2
  <2>3. CASE ~Committable(n[t])
    <3>1. /\ pc' = [pc EXCEPT ![t] = "scan"] /\ pc'[t] = "scan"
          /\ n'[t] = n[t] + 1
      BY <1>1, <2>1, <2>3 DEF Step
    <3>2. n[t] # Len(log)
      BY <1>0, <2>1, <2>3, AloneCommits DEF PutState, Replicating
    <3>3. n[t] <= Len(log) /\ n[t] > commitIndex
      BY <1>0, <2>1 DEF PutState, Replicating
    <3>4. n'[t] > commitIndex /\ ~(n'[t] > Len(log))
      BY <1>1, <3>1, <3>2, <3>3
    <3>5. PutState(t)'
      BY <1>0, <2>1, <3>1, <3>4 DEF PutState, Replicating
    <3>. QED BY <1>3, <2>1, <3>1, <3>5
  <2>. QED BY <2>2, <2>3
<1>10. CASE MarkCommitted(t)
  <2>1. /\ pc[t] = "mark" /\ pc' = [pc EXCEPT ![t] = "applied"]
        /\ commitIndex' = n[t]
        /\ UNCHANGED <<log, lastApplied, src, acked, timer>>
        /\ UNCHANGED <<role, currentTerm, idx, from, last, n>>
    BY <1>10 DEF MarkCommitted, Step
  <2>2. pc'[t] = "applied"
    BY <1>1, <2>1
  <2>3. PutState(t)'
    BY <1>0, <2>1, <2>2 DEF PutState, Replicating
  <2>4. lastApplied' <= commitIndex'
    BY <1>0, <1>1, <2>1 DEF PutState
  <2>5. Stored(lastApplied)'
    BY <1>0, <2>1 DEF Stored
  <2>. QED BY <1>0, <1>2, <2>1, <2>3, <2>4, <2>5
<1>11. CASE ScanDone(t)
  <2>1. /\ pc[t] = "scan" /\ n[t] > last[t]
        /\ UNCHANGED <<log, lastApplied, commitIndex, src, timer>>
    BY <1>11 DEF ScanDone, Step
  <2>2. /\ from[t] = "final" /\ last[t] = Len(log) /\ idx[t] = Len(log)
        /\ Len(log) >= 1
    BY <1>0, <2>1 DEF PutState, Replicating
  <2>3. /\ pc' = [pc EXCEPT ![t] = "idle"] /\ acked' = acked \cup {idx[t]}
    BY <1>11, <2>2 DEF ScanDone, Step
  <2>4. lastApplied = Len(log)
    BY <1>0, <2>1, <2>2 DEF PutState
  <2>5. pc'[t] = "idle"
    BY <1>1, <2>3
  <2>6. PutState(t)'
    BY <2>5 DEF PutState, Replicating
  <2>7. \A i \in acked' : i \in 1..lastApplied'
    BY <1>0, <1>1, <2>1, <2>2, <2>3, <2>4
  <2>8. Stored(lastApplied)'
    BY <1>0, <2>1 DEF Stored
  <2>. QED BY <1>0, <1>2, <2>1, <2>3, <2>6, <2>7, <2>8
<1>12. CASE ReadApplied(t)
  <2>1. /\ pc[t] = "applied" /\ pc' = [pc EXCEPT ![t] = "target"]
        /\ la'[t] = lastApplied
        /\ UNCHANGED <<log, lastApplied, commitIndex, src, acked, timer>>
        /\ UNCHANGED <<role, currentTerm, idx, from, last, n>>
    BY <1>1, <1>12 DEF ReadApplied, Step
  <2>2. pc'[t] = "target"
    BY <1>1, <2>1
  <2>3. PutState(t)'
    BY <1>0, <2>1, <2>2 DEF PutState, Replicating
  <2>. QED BY <1>3, <2>1, <2>3
<1>13. CASE ReadTarget(t)
  <2>1. /\ pc[t] = "target" /\ pc' = [pc EXCEPT ![t] = "apply"]
        /\ upto'[t] = commitIndex
        /\ UNCHANGED <<log, lastApplied, commitIndex, src, acked, timer>>
        /\ UNCHANGED <<role, currentTerm, idx, from, last, n, la>>
    BY <1>1, <1>13 DEF ReadTarget, Step
  <2>2. pc'[t] = "apply" /\ la[t] = lastApplied
    BY <1>0, <1>1, <2>1 DEF PutState
  <2>3. Stored(la[t])'
    BY <1>0, <2>1, <2>2 DEF Stored
  <2>4. PutState(t)'
    BY <1>0, <1>1, <2>1, <2>2, <2>3 DEF PutState, Replicating
  <2>. QED BY <1>3, <2>1, <2>4
<1>14. CASE ApplyEntry(t)
  <2>. DEFINE j == la[t] + 1
  <2>1. /\ pc[t] = "apply" /\ pc' = [pc EXCEPT ![t] = "apply"]
        /\ la[t] < upto[t]
        /\ src' = [src EXCEPT ![log[j].key] = j]
        /\ la'[t] = j
        /\ UNCHANGED <<log, lastApplied, commitIndex, acked, timer>>
        /\ UNCHANGED <<role, currentTerm, idx, from, last, n, upto>>
    BY <1>1, <1>14 DEF ApplyEntry, Step
  <2>2. /\ pc'[t] = "apply" /\ upto[t] = commitIndex /\ Stored(la[t])
        /\ lastApplied <= la[t]
    BY <1>0, <1>1, <2>1 DEF PutState
  <2>3. j \in 1..Len(log) /\ j <= upto[t] /\ lastApplied <= j
    BY <1>1, <2>1, <2>2
  <2>4. \A i \in 1..Len(log) : log[i].key \in Keys
    <3>1. \A i \in 1..Len(log) : log[i] \in Entry
      BY <1>1
    <3>. QED BY <3>1 DEF Entry
  <2>5. \A i \in 1..Len(log) :
           src'[log[i].key] = IF log[i].key = log[j].key THEN j
                              ELSE src[log[i].key]
    BY <1>1, <2>1, <2>3, <2>4
  <2>6. \A i \in 1..j : src'[log[i].key] >= i
    <3>. SUFFICES ASSUME NEW i \in 1..j PROVE src'[log[i].key] >= i
      OBVIOUS
    <3>1. i \in 1..Len(log) /\ i <= j /\ (i = j \/ i \in 1..la[t])
      BY <1>1, <2>3
    <3>2. i # j => src[log[i].key] >= i
      BY <2>2, <3>1 DEF Stored
    <3>. QED BY <2>3, <2>5, <3>1, <3>2
  <2>. HIDE DEF j
  <2>7. Stored(la[t])'
    BY <2>1, <2>6 DEF Stored
  <2>8. Stored(lastApplied)'
    BY <1>1, <2>1, <2>3, <2>6 DEF Stored
  <2>9. PutState(t)'
    BY <1>0, <2>1, <2>2, <2>3, <2>7 DEF PutState, Replicating
  <2>. QED BY <1>0, <1>2, <2>1, <2>8, <2>9
<1>15. CASE ApplyDone(t)
  <2>1. /\ pc[t] = "apply" /\ la[t] >= upto[t] /\ lastApplied' = la[t]
        /\ UNCHANGED <<log, commitIndex, src, acked, timer>>
        /\ UNCHANGED <<role, currentTerm, idx, from, last>>
    BY <1>15 DEF ApplyDone, Step
  <2>2. /\ from[t] = "final" /\ upto[t] = commitIndex /\ commitIndex = n[t]
        /\ lastApplied <= la[t] /\ la[t] <= upto[t] /\ Stored(la[t])
    BY <1>0, <2>1 DEF PutState, Replicating
  <2>3. /\ pc' = [pc EXCEPT ![t] = "scan"] /\ n' = [n EXCEPT ![t] = @ + 1]
    BY <1>15, <2>2 DEF ApplyDone, Step
  <2>4. pc'[t] = "scan" /\ n'[t] = n[t] + 1 /\ la[t] = commitIndex
    BY <1>1, <2>1, <2>2, <2>3
  <2>5. /\ n'[t] > commitIndex
        /\ n'[t] > Len(log) => lastApplied' = Len(log)
        /\ lastApplied' <= commitIndex
    BY <1>1, <2>1, <2>2, <2>4
  <2>6. PutState(t)'
    BY <1>0, <2>1, <2>4, <2>5 DEF PutState, Replicating
  <2>7. Stored(lastApplied)'
    BY <2>1, <2>2 DEF Stored
  <2>8. \A i \in acked' : i \in 1..lastApplied'
    BY <1>0, <1>1, <2>1, <2>2
  <2>. QED BY <1>0, <1>2, <2>1, <2>3, <2>5, <2>6, <2>7, <2>8
<1>. QED BY <1>4, <1>5, <1>6, <1>7, <1>8, <1>9, <1>10, <1>11, <1>12, <1>13,
            <1>14, <1>15, AloneCalls

(* Every step keeps AloneInv.                                              *)
LEMMA AloneKept ==
    ASSUME Alone, Inv, AloneInv, Next
    PROVE  AloneInv'
<1>0. /\ timer = FALSE /\ lastApplied <= commitIndex /\ Stored(lastApplied)
      /\ Settled
      /\ \A t \in Threads \ Putters : pc[t] = "idle"
      /\ \A t \in Putters : PutState(t)
      /\ \A i \in acked : i \in 1..lastApplied
  BY DEF AloneInv
<1>1. pc \in [Threads -> Labels] /\ entry \in [Threads -> Entry \cup {NoEntry}]
  BY DEF Inv, TypeOK
<1>3. ballot \in [Electors -> 0..MaxTerm]
  BY DEF Inv, TypeOK
<1>2. ASSUME NEW e \in Electors, Elect(e)
      PROVE  AloneInv'
  <2>1. /\ ~Fault /\ ~TimerFires(e)
        /\ ElectionTask(e) \/ Campaign(e)
    BY <1>0, <1>2, Zenon DEF Elect, Alone, Fault, TimerFires
  <2>2. /\ UNCHANGED <<pc, timer, log, commitIndex, lastApplied, src, acked>>
        /\ voter' = voter
    BY <1>2, <2>1 DEF Elect, ElectionTask, BecomeCandidate, Campaign,
                      WriteTerm
  <2>3. role # "LEADER"
    BY <1>0, <2>1, <1>3 DEF ElectionTask, Campaign, WriteTerm, Settled
  <2>4. \A t \in Putters : pc[t] = "idle"
    BY <1>0, <2>3 DEF PutState
  <2>5. \A t \in Putters : PutState(t)'
    BY <2>2, <2>4 DEF PutState, Replicating
  <2>6. Settled'
    <3>1. CASE ElectionTask(e)
      BY <1>0, <3>1 DEF ElectionTask, BecomeCandidate, Settled
    <3>2. CASE Campaign(e)
      <4>1. tasks' = 0
        BY <1>0, <3>2, FS_EmptySet DEF Campaign, Alone, Settled
      <4>2. ballot'[e] = 0
        BY <1>3, <3>2 DEF Campaign, WriteTerm
      <4>3. \A d \in Electors : ballot'[d] = 0
        BY <4>2 DEF Alone
      <4>. QED BY <1>0, <2>2, <4>1, <4>3 DEF Settled
    <3>. QED BY <2>1, <3>1, <3>2
  <2>. QED BY <1>0, <2>2, <2>5, <2>6 DEF AloneInv, Stored
<1>4. ASSUME NEW w \in Voters, Vote(w)
      PROVE  FALSE
  BY <1>0, <1>4 DEF Vote, TakeTask, RequestVote, PeerAnswers, CallEnds,
                    AdoptTerm, Settled
<1>5. CASE Crash
  <2>1. /\ pc' = All("idle") /\ timer' = FALSE
        /\ UNCHANGED <<log, commitIndex, lastApplied, src, acked>>
    BY <1>5 DEF Crash, NewNode
  <2>2. \A t \in Threads : pc'[t] = "idle"
    BY <2>1 DEF All
  <2>3. \A t \in Putters : PutState(t)'
    BY <2>2 DEF PutState, Replicating, Threads
  <2>4. Settled'
    BY <1>5 DEF Crash, NewNode, DropElections, Settled
  <2>. QED BY <1>0, <2>1, <2>2, <2>3, <2>4 DEF AloneInv, Stored
<1>6. ASSUME NEW t \in Putters, NEW k \in Keys, NEW v \in Values,
             Propose(t, k, v)
      PROVE  AloneInv'
  <2>1. /\ role = "LEADER" /\ pc' = [pc EXCEPT ![t] = "stamp"]
        /\ UNCHANGED <<role, elections, timer, log, commitIndex, lastApplied,
                       src, acked>>
    BY <1>6 DEF Propose, Step
  <2>2. /\ t \in Threads /\ pc'[t] = "stamp"
        /\ \A u \in Threads \ Putters : pc'[u] = pc[u]
    BY <1>1, <2>1 DEF Threads
  <2>3. PutState(t)'
    BY <2>1, <2>2 DEF PutState, Replicating
  <2>4. \A u \in Putters : PutState(u)'
    BY <2>3 DEF Alone
  <2>5. Settled'
    BY <1>0, <2>1 DEF Settled
  <2>. QED BY <1>0, <2>1, <2>2, <2>4, <2>5 DEF AloneInv, Stored
<1>7. ASSUME NEW t \in Beaters, NEW p \in Peers, Heartbeat(t, p)
      PROVE  AloneInv'
  BY DEF Alone
<1>8. ~Promote
  BY DEF Alone, Promote
<1>. QED BY <1>2, <1>4, <1>5, <1>6, <1>7, <1>8, AloneCallKept DEF Next

(* AloneInv holds in every behaviour of such a node.                       *)
THEOREM AloneInvariance == Alone /\ Spec => []AloneInv
<1>1. Init => AloneInv
  <2>. SUFFICES ASSUME Init PROVE AloneInv
    OBVIOUS
  <2>1. /\ timer = FALSE /\ lastApplied = 0 /\ commitIndex = 0 /\ acked = {}
        /\ pc = All("idle")
    BY DEF Init
  <2>2. \A t \in Threads : pc[t] = "idle"
    BY <2>1 DEF All
  <2>3. \A t \in Putters : PutState(t)
    BY <2>2 DEF PutState, Replicating, Threads
  <2>4. Settled
    BY DEF Init, NoElections, Settled
  <2>. QED BY <2>1, <2>2, <2>3, <2>4 DEF AloneInv, Stored
<1>2. Alone /\ Inv /\ AloneInv /\ [Next]_vars => AloneInv'
  <2>. SUFFICES ASSUME Alone, Inv, AloneInv, [Next]_vars PROVE AloneInv'
    OBVIOUS
  <2>1. CASE UNCHANGED vars
    <3>1. \A t \in Putters : PutState(t)'
      BY <2>1 DEF AloneInv, PutState, Stored
    <3>. QED BY <2>1, <3>1 DEF AloneInv, Stored, Settled
  <2>. QED BY <2>1, AloneKept
<1>3. CASE Alone
  BY <1>1, <1>2, <1>3, Invariance, PTL DEF Spec
<1>. QED BY <1>3

(* On a node without peers and with one put at a time, what put            *)
(* acknowledges is committed and applied in the database and stays so      *)
(* across any number of crashes: the loop of updateCommitIndex             *)
(* (RaftNode.java:167) never passes by the entry just appended.            *)
THEOREM AckedIsApplied == Alone /\ Spec => []AckedApplied
<1>1. Inv /\ AloneInv => AckedApplied
  <2>. SUFFICES ASSUME Inv, AloneInv, NEW i \in acked
                PROVE  i <= commitIndex /\ i <= lastApplied
    BY DEF AckedApplied
  <2>1. i \in 1..lastApplied /\ lastApplied <= commitIndex
    BY DEF AloneInv
  <2>. QED BY <2>1 DEF Inv, TypeOK
<1>2. CASE Alone
  BY <1>1, <1>2, Invariance, AloneInvariance, PTL
<1>. QED BY <1>2

(* On such a node an acknowledged put is visible to every get from then    *)
(* on, also while a restarted node applies entries a second time           *)
(* (RaftNode.java:228-237): it starts behind the entries that are known to *)
(* be applied and takes no key back behind them.                           *)
THEOREM AckedIsReadable == Alone /\ Spec => []AckedReadable
<1>1. AloneInv => AckedReadable
  BY DEF AloneInv, AckedReadable, Stored
<1>2. CASE Alone
  BY <1>1, <1>2, AloneInvariance, PTL
<1>. QED BY <1>2
-----------------------------------------------------------------------------
(* The threshold of updateCommitIndex (RaftNode.java:175) and of the vote  *)
(* count (96) in a cluster with an even number of other nodes: any two     *)
(* sets of nodes that reach it, self counted, have a node in common.  With *)
(* an odd number they need not: of two nodes each reaches it by itself.    *)
THEOREM QuorumsMeet ==
    ASSUME NEW self, self \notin Peers, Cardinality(Peers) % 2 = 0,
           NEW A \in SUBSET (Peers \cup {self}),
           NEW B \in SUBSET (Peers \cup {self}),
           Reached(Cardinality(A), Peers), Reached(Cardinality(B), Peers)
    PROVE  A \cap B # {}
<1>. DEFINE nodes == Peers \cup {self}
<1>1. IsFiniteSet(Peers) /\ Cardinality(Peers) \in Nat
  BY CandidateAssumption, FS_CardinalityType
<1>2. IsFiniteSet(nodes) /\ Cardinality(nodes) = Cardinality(Peers) + 1
  BY <1>1, FS_AddElement
<1>3. IsFiniteSet(A) /\ IsFiniteSet(B)
  BY <1>2, FS_Subset
<1>4. /\ Cardinality(A \cup B) =
            Cardinality(A) + Cardinality(B) - Cardinality(A \cap B)
      /\ Cardinality(A) \in Nat /\ Cardinality(B) \in Nat
  BY <1>3, FS_Union, FS_CardinalityType
<1>5. Cardinality(A \cup B) <= Cardinality(nodes)
  BY <1>2, FS_Subset
<1>6. SUFFICES ASSUME A \cap B = {} PROVE FALSE
  OBVIOUS
<1>7. Cardinality(A \cap B) = 0
  BY <1>6, FS_EmptySet
<1>8. Cardinality(A) + Cardinality(B) <= Cardinality(Peers) + 1
  BY <1>2, <1>4, <1>5, <1>7
<1>. QED BY <1>1, <1>4, <1>8 DEF Reached
=============================================================================
