------------------------------- MODULE RaftLog -------------------------------
(***************************************************************************)
(* The pure part of the Raft code: what RaftNode.java computes from the    *)
(* rows of the logs table.  A log is a sequence of entries; its index is   *)
(* the INTEGER PRIMARY KEY of the table (SQLiteStorage.tla shows that the  *)
(* keys in use are always 1..MAX).                                         *)
(***************************************************************************)
EXTENDS Naturals, Sequences, FiniteSets

Smaller(a, b) == IF a <= b THEN a ELSE b

(* The rows getLogEntries(start, MAX) returns, in key order.               *)
EntriesFrom(log, start) == SubSeq(log, start, Len(log))

(* prevLogTerm of a request: 0 when there is no previous entry.            *)
TermAt(log, i) == IF i > 0 THEN log[i].term ELSE 0

(* The consistency check of appendEntries.                                 *)
PrevMatches(log, prev, prevTerm) ==
    prev <= Len(log) /\ (prev > 0 => log[prev].term = prevTerm)

(* The positions of a request whose entry is missing from the log or has   *)
(* another term there.                                                     *)
Clashes(log, prev, entries) ==
    {i \in 1..Len(entries) : \/ prev + i > Len(log)
                             \/ log[prev + i].term # entries[i].term}

(* Mutant: truncate whatever follows prev before appending.                *)
TruncatingMerge(log, prev, entries) == SubSeq(log, 1, prev) \o entries

(* What the loop of appendEntries leaves in the table: entries that agree  *)
(* are skipped; at the first clash everything from there on is deleted and *)
(* the rest of the request is appended.                                    *)
MergeEntries(log, prev, entries) ==
    IF Clashes(log, prev, entries) = {}
    THEN log
    ELSE LET j == CHOOSE i \in Clashes(log, prev, entries) :
                     \A k \in Clashes(log, prev, entries) : i <= k
         IN  SubSeq(log, 1, prev + j - 1) \o SubSeq(entries, j, Len(entries))

(* The threshold of both counting loops: the count (self included) against *)
(* half the number of OTHER nodes.                                         *)
Reached(count, peers) == count > Cardinality(peers) \div 2
=============================================================================
