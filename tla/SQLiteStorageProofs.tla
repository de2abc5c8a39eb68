------------------------ MODULE SQLiteStorageProofs -------------------------
(***************************************************************************)
(* Proofs about SQLiteStorage for any number of rows, starts, keys and     *)
(* values: the tables keep their shape, a late row of state lags behind    *)
(* the first, and the tables implement DurableStore.                       *)
(***************************************************************************)
EXTENDS SQLiteStorage, FiniteSetTheorems, SequenceTheorems, TLAPS

Inv == TypeOK /\ LateRowsLag

Row == [lastApplied : Nat, commitIndex : Nat]

USE StorageAssumption DEF tables, vars
-----------------------------------------------------------------------------
(* SELECT MAX finds the number of rows, and the log that callers see is    *)
(* the table.                                                              *)
LEMMA KeysAreInterval ==
    ASSUME NEW m \in Nat, logs \in [1..m -> Entry]
    PROVE  /\ LastLogIndex = m
           /\ Log = logs /\ Log \in Seq(Entry) /\ Len(Log) = m
<1>1. DOMAIN logs = 1..m
  OBVIOUS
<1>2. LastLogIndex = m
  <2>1. CASE m = 0
    BY <1>1, <2>1 DEF LastLogIndex
  <2>2. CASE m # 0
    <3>1. m \in 1..m /\ 1..m # {} /\ \A i \in 1..m : i <= m
      BY <2>2
    <3>2. \A x \in 1..m : (\A i \in 1..m : i <= x) => x = m
      BY <3>1
    <3>3. (CHOOSE x \in 1..m : \A i \in 1..m : i <= x) = m
      BY <3>1, <3>2, Zenon
    <3>. QED BY <1>1, <3>1, <3>3, Zenon DEF LastLogIndex
  <2>. QED BY <2>1, <2>2
<1>3. Log = logs
  BY <1>2 DEF Log
<1>. QED BY <1>2, <1>3

(* A function on 1..n is a sequence.                                       *)
LEMMA FunctionIsSeq ==
    ASSUME NEW S, NEW n \in Nat, NEW f \in [1..n -> S]
    PROVE  f \in Seq(S) /\ Len(f) = n
OBVIOUS

(* UPDATE without WHERE.                                                   *)
LEMMA UpdatesAllRows ==
    ASSUME Inv, NEW n \in Nat, NEW s,
           \/ s = [r \in DOMAIN state |-> [state[r] EXCEPT !.commitIndex = n]]
           \/ s = [r \in DOMAIN state |-> [state[r] EXCEPT !.lastApplied = n]]
    PROVE  /\ s \in Seq(Row) /\ Len(s) = Len(state)
           /\ state # <<>> => s # <<>>
           /\ \A r \in DOMAIN s :
                 /\ s[r].commitIndex \in {0, s[1].commitIndex}
                 /\ s[r].lastApplied \in {0, s[1].lastApplied}
<1>1. state \in Seq(Row) /\ DOMAIN state = 1..Len(state) /\ Len(state) \in Nat
  BY DEF Inv, TypeOK, Row
<1>2. s \in [DOMAIN state -> Row]
  <2>1. ASSUME NEW row \in Row
        PROVE  /\ [row EXCEPT !.commitIndex = n] \in Row
               /\ [row EXCEPT !.lastApplied = n] \in Row
    BY DEF Row
  <2>2. \A r \in DOMAIN state : state[r] \in Row
    BY <1>1
  <2>3. \A r \in DOMAIN state :
           /\ [state[r] EXCEPT !.commitIndex = n] \in Row
           /\ [state[r] EXCEPT !.lastApplied = n] \in Row
    BY <2>1, <2>2, Zenon
  <2>. QED BY <2>3
<1>3. s \in Seq(Row) /\ Len(s) = Len(state)
  BY <1>1, <1>2, FunctionIsSeq
<1>4. \A r \in DOMAIN state : 1 \in DOMAIN state
  BY <1>1
<1>5. ASSUME NEW r \in DOMAIN state
      PROVE  /\ s[r].commitIndex \in {0, s[1].commitIndex}
             /\ s[r].lastApplied \in {0, s[1].lastApplied}
  <2>1. /\ state[r].commitIndex \in {0, state[1].commitIndex}
        /\ state[r].lastApplied \in {0, state[1].lastApplied}
        /\ 1 \in DOMAIN state /\ state[r] \in Row /\ state[1] \in Row
    BY <1>1, <1>4 DEF Inv, LateRowsLag
  <2>2. CASE s = [x \in DOMAIN state |->
                     [state[x] EXCEPT !.commitIndex = n]]
    BY <2>1, <2>2 DEF Row
  <2>3. CASE s = [x \in DOMAIN state |->
                     [state[x] EXCEPT !.lastApplied = n]]
    BY <2>1, <2>3 DEF Row
  <2>. QED BY <2>2, <2>3
<1>. QED BY <1>1, <1>2, <1>3, <1>5

(* INSERT INTO logs adds the next row.                                     *)
LEMMA InsertsNext ==
    ASSUME NEW m \in Nat, logs \in [1..m -> Entry], NEW e \in Entry, NEW new,
           new = [i \in DOMAIN logs \cup {m + 1} |->
                     IF i = m + 1 THEN e ELSE logs[i]]
    PROVE  new \in [1..m + 1 -> Entry] /\ new = Append(logs, e)
<1>1. DOMAIN logs = 1..m /\ 1..m \cup {m + 1} = 1..m + 1
  OBVIOUS
<1>2. new = [i \in 1..m + 1 |-> IF i = m + 1 THEN e ELSE logs[i]]
  BY <1>1
<1>3. new \in [1..m + 1 -> Entry]
  BY <1>2
<1>4. /\ logs \in Seq(Entry) /\ Len(logs) = m
      /\ new \in Seq(Entry) /\ Len(new) = m + 1
  <2>1. m + 1 \in Nat
    OBVIOUS
  <2>. QED BY <2>1, <1>3, FunctionIsSeq, Zenon
<1>5. /\ Append(logs, e) \in Seq(Entry) /\ Len(Append(logs, e)) = m + 1
      /\ Append(logs, e)[m + 1] = e
      /\ \A i \in 1..m : Append(logs, e)[i] = logs[i]
  BY <1>4
<1>6. \A i \in 1..m + 1 : new[i] = Append(logs, e)[i]
  BY <1>2, <1>5
<1>7. new = Append(logs, e)
  <2>. DEFINE app == Append(logs, e)
  <2>1. /\ new \in Seq(Entry) /\ app \in Seq(Entry)
        /\ Len(new) = Len(app) /\ \A i \in 1..Len(new) : new[i] = app[i]
    BY <1>4, <1>5, <1>6, Zenon
  <2>. HIDE DEF app
  <2>2. new = app
    BY <2>1, SeqEqual
  <2>. QED BY <2>2 DEF app
<1>. QED BY <1>3, <1>7

(* DELETE of all rows from i on leaves a prefix.                           *)
LEMMA DeletesSuffix ==
    ASSUME NEW m \in Nat, logs \in [1..m -> Entry], NEW i \in Nat \ {0},
           NEW new, new = [j \in {x \in DOMAIN logs : x < i} |-> logs[j]]
    PROVE  /\ Smaller(i - 1, m) \in 0..m
           /\ new \in [1..Smaller(i - 1, m) -> Entry]
           /\ new = SubSeq(logs, 1, Smaller(i - 1, m))
<1>. DEFINE n == Smaller(i - 1, m)
<1>1. n \in 0..m /\ {x \in DOMAIN logs : x < i} = 1..n
  BY DEF Smaller
<1>. HIDE DEF n
<1>2. new = [j \in 1..n |-> logs[j]]
  BY <1>1
<1>3. new \in [1..n -> Entry]
  BY <1>1, <1>2
<1>4. logs \in Seq(Entry) /\ Len(logs) = m
  OBVIOUS
<1>5. /\ SubSeq(logs, 1, n) \in Seq(Entry) /\ Len(SubSeq(logs, 1, n)) = n
      /\ \A j \in 1..n : SubSeq(logs, 1, n)[j] = logs[j]
  BY <1>1, <1>4
<1>6. new \in Seq(Entry) /\ Len(new) = n
  <2>1. n \in Nat
    BY <1>1
  <2>. QED BY <2>1, <1>3, FunctionIsSeq, Zenon
<1>7. new = SubSeq(logs, 1, n)
  BY <1>2, <1>5, <1>6, SeqEqual
<1>. QED BY <1>1, <1>3, <1>7 DEF n
-----------------------------------------------------------------------------
(* A new database is empty.                                                *)
LEMMA InitInv == Init => Inv
<1>. SUFFICES ASSUME Init PROVE Inv
  OBVIOUS
<1>1. logs \in [1..0 -> Entry] /\ 0 \in 0..MaxRows
  BY DEF Init
<1>2. open \in BOOLEAN /\ (open => state # <<>>)
  BY Zenon DEF Init
<1>3. \E m \in 0..MaxRows : logs \in [1..m -> Entry]
  BY <1>1
<1>4. TypeOK
  BY <1>2, <1>3 DEF Init, TypeOK
<1>. QED BY <1>4 DEF Inv, LateRowsLag, Init

(* The steps that change no table and do not open.                         *)
LEMMA TablesKept ==
    ASSUME Inv, UNCHANGED tables, open' = open \/ open' = FALSE
    PROVE  Inv'
<1>1. logs' = logs /\ state' = state /\ kv' = kv
  OBVIOUS
<1>2. open' \in BOOLEAN /\ (open' => state' # <<>>)
  <2>1. CASE open' = open
    BY <1>1, <2>1, Zenon DEF Inv, TypeOK
  <2>2. CASE open' = FALSE
    BY <2>2, Zenon
  <2>. QED BY <2>1, <2>2, Zenon
<1>. QED BY <1>1, <1>2 DEF Inv, TypeOK, LateRowsLag

(* Every step.                                                             *)
LEMMA NextKeepsInv == Inv /\ [Next]_vars => Inv'
<1>. SUFFICES ASSUME Inv, [Next]_vars PROVE Inv'
  OBVIOUS
<1>1. PICK m \in 0..MaxRows : logs \in [1..m -> Entry]
  BY DEF Inv, TypeOK
<1>2. state \in Seq(Row) /\ Len(state) \in Nat
  BY DEF Inv, TypeOK, Row
<1>3. CASE UNCHANGED vars
  BY <1>3, TablesKept
<1>4. CASE Open \/ OpenFails
  <2>1. NewRow \in Row
    BY DEF NewRow, Row
  <2>2. /\ state' \in Seq(Row) /\ Len(state') = Len(state) + 1
        /\ state'[Len(state) + 1] = NewRow
        /\ \A r \in 1..Len(state) : state'[r] = state[r]
    BY <1>2, <1>4, <2>1 DEF Open, OpenFails
  <2>3. state' # <<>> /\ DOMAIN state' = 1..Len(state) + 1
    BY <1>2, <2>2
  <2>4. LateRowsLag'
    <3>. SUFFICES ASSUME NEW r \in 1..Len(state) + 1
                  PROVE  /\ state'[r].commitIndex
                              \in {0, state'[1].commitIndex}
                         /\ state'[r].lastApplied
                              \in {0, state'[1].lastApplied}
      BY <2>3 DEF LateRowsLag
    <3>1. CASE r = Len(state) + 1
      BY <3>1, <2>2 DEF NewRow
    <3>2. CASE r # Len(state) + 1
      <4>1. r \in 1..Len(state) /\ 1 \in 1..Len(state)
        BY <3>2, <1>2
      <4>2. DOMAIN state = 1..Len(state)
        BY <1>2
      <4>. QED BY <4>1, <4>2, <2>2 DEF Inv, LateRowsLag
    <3>. QED BY <3>1, <3>2
  <2>5. open' \in BOOLEAN /\ (open' => state' # <<>>)
    BY <1>4, <2>3, Zenon DEF Open, OpenFails, Inv, TypeOK
  <2>. QED BY <1>4, <2>2, <2>4, <2>5 DEF Open, OpenFails, Inv, TypeOK, Row
<1>5. CASE Close
  BY <1>5, TablesKept DEF Close
<1>6. ASSUME NEW e \in Entry, AppendLogEntry(e) PROVE Inv'
  <2>1. CASE UNCHANGED tables
    BY <1>6, <2>1, TablesKept DEF AppendLogEntry
  <2>2. CASE ~UNCHANGED tables
    <3>1. /\ open /\ LastLogIndex < MaxRows
          /\ logs' = [i \in DOMAIN logs \cup {LastLogIndex + 1} |->
                       IF i = LastLogIndex + 1 THEN e ELSE logs[i]]
          /\ state' = state /\ kv' = kv /\ open' = open
      BY <1>6, <2>2, Zenon DEF AppendLogEntry, Throw, Swallow
    <3>2. LastLogIndex = m
      BY <1>1, KeysAreInterval
    <3>3. logs' \in [1..m + 1 -> Entry] /\ m + 1 \in 0..MaxRows
      BY <1>1, <3>1, <3>2, InsertsNext
    <3>4. \E n \in 0..MaxRows : logs' \in [1..n -> Entry]
      BY <3>3
    <3>5. open' \in BOOLEAN /\ (open' => state' # <<>>)
      BY <3>1, Zenon DEF Inv, TypeOK
    <3>6. TypeOK'
      BY <3>1, <3>4, <3>5, Zenon DEF Inv, TypeOK
    <3>. QED BY <3>1, <3>6 DEF Inv, LateRowsLag
  <2>. QED BY <2>1, <2>2
<1>7. ASSUME NEW i \in Indices, DeleteLogEntriesFrom(i) PROVE Inv'
  <2>1. CASE UNCHANGED tables
    BY <1>7, <2>1, TablesKept DEF DeleteLogEntriesFrom
  <2>2. CASE ~UNCHANGED tables
    <3>1. /\ logs' = [j \in {x \in DOMAIN logs : x < i} |-> logs[j]]
          /\ state' = state /\ kv' = kv /\ open' = open
      BY <1>7, <2>2, Zenon DEF DeleteLogEntriesFrom, Swallow
    <3>2. /\ logs' \in [1..Smaller(i - 1, m) -> Entry]
          /\ Smaller(i - 1, m) \in 0..m
      <4>1. i \in Nat \ {0} /\ m \in Nat
        OBVIOUS
      <4>2. PICK new : new = logs'
        OBVIOUS
      <4>3. new = [j \in {x \in DOMAIN logs : x < i} |-> logs[j]]
        BY <3>1, <4>2
      <4>4. /\ new \in [1..Smaller(i - 1, m) -> Entry]
            /\ Smaller(i - 1, m) \in 0..m
        BY <4>1, <4>3, <1>1, DeletesSuffix
      <4>. QED BY <4>2, <4>4
    <3>3. \E n \in 0..MaxRows : logs' \in [1..n -> Entry]
      BY <3>2
    <3>4. open' \in BOOLEAN /\ (open' => state' # <<>>)
      BY <3>1, Zenon DEF Inv, TypeOK
    <3>5. TypeOK'
      BY <3>1, <3>3, <3>4, Zenon DEF Inv, TypeOK
    <3>. QED BY <3>1, <3>5 DEF Inv, LateRowsLag
  <2>. QED BY <2>1, <2>2
<1>8. ASSUME NEW i \in Indices, SetCommitIndex(i) \/ SetLastApplied(i)
      PROVE  Inv'
  <2>1. CASE UNCHANGED tables
    BY <1>8, <2>1, TablesKept DEF SetCommitIndex, SetLastApplied
  <2>2. CASE ~UNCHANGED tables
    <3>1. /\ \/ state' = [r \in DOMAIN state |->
                            [state[r] EXCEPT !.commitIndex = i]]
             \/ state' = [r \in DOMAIN state |->
                            [state[r] EXCEPT !.lastApplied = i]]
          /\ UNCHANGED <<logs, kv, open>>
      BY <1>8, <2>2, Zenon DEF SetCommitIndex, SetLastApplied, Swallow
    <3>2. /\ state' \in Seq(Row) /\ (state # <<>> => state' # <<>>)
          /\ LateRowsLag'
      BY <3>1, UpdatesAllRows DEF LateRowsLag
    <3>3. open' \in BOOLEAN /\ (open' => state' # <<>>)
      BY <3>1, <3>2, Zenon DEF Inv, TypeOK
    <3>. QED BY <3>1, <3>2, <3>3 DEF Inv, TypeOK, Row
  <2>. QED BY <2>1, <2>2
<1>9. ASSUME NEW k \in Keys, NEW v \in Values, UpdateKeyValue(k, v)
      PROVE  Inv'
  <2>1. CASE UNCHANGED tables
    BY <1>9, <2>1, TablesKept DEF UpdateKeyValue
  <2>2. CASE ~UNCHANGED tables
    <3>1. kv' = [kv EXCEPT ![k] = v] /\ UNCHANGED <<logs, state, open>>
      BY <1>9, <2>2, Zenon DEF UpdateKeyValue, Swallow
    <3>. QED BY <3>1 DEF Inv, TypeOK, LateRowsLag
  <2>. QED BY <2>1, <2>2
<1>10. CASE \/ \E i \in Indices : GetLogEntry(i)
            \/ \E i, j \in Indices : GetLogEntries(i, j)
            \/ \E k \in Keys : Get(k)
            \/ GetCommitIndex \/ GetLastApplied \/ GetLastLogIndex
            \/ GetLastLogTerm
  <2>1. UNCHANGED <<tables, open>>
    BY <1>10, Zenon DEF GetLogEntry, GetLogEntries, Get, GetCommitIndex,
       GetLastApplied, GetLastLogIndex, GetLastLogTerm, Query, Throw, Swallow
  <2>. QED BY <2>1, TablesKept
<1>. QED BY <1>3, <1>4, <1>5, <1>6, <1>7, <1>8, <1>9, <1>10, Zenon DEF Next

(* The invariant, with or without faults.                                  *)
THEOREM Invariance == Spec => []Inv
BY InitInv, NextKeepsInv, PTL DEF Spec

(* The rows of logs always have the keys 1..n, whatever is inserted and    *)
(* deleted (SQLiteStorage.java:41-59, 173-181), and the other tables their *)
(* types.                                                                  *)
THEOREM TypeCorrect == Spec => []TypeOK
<1>1. Inv => TypeOK
  BY DEF Inv
<1>. QED BY <1>1, Invariance, PTL

(* However often the server starts and whichever updates are lost, a row   *)
(* of state says what the first one says or zero.                          *)
THEOREM LateRowsAlwaysLag == Spec => []LateRowsLag
<1>1. Inv => LateRowsLag
  BY DEF Inv
<1>. QED BY <1>1, Invariance, PTL
-----------------------------------------------------------------------------
(* The tables implement DurableStore.                                      *)

(* The two numbers that callers see.                                       *)
Commit(s)  == IF s = <<>> THEN 0 ELSE s[1].commitIndex
Applied(s) == IF s = <<>> THEN 0 ELSE s[1].lastApplied

(* The log that callers see, in any state with the invariant.              *)
LEMMA LogIsTable ==
    Inv => /\ Log = logs /\ Log \in Seq(Entry) /\ Len(Log) = LastLogIndex
           /\ LastLogIndex \in Nat /\ logs \in [1..LastLogIndex -> Entry]
<1>. SUFFICES ASSUME Inv
              PROVE  /\ Log = logs /\ Log \in Seq(Entry)
                     /\ Len(Log) = LastLogIndex /\ LastLogIndex \in Nat
                     /\ logs \in [1..LastLogIndex -> Entry]
  OBVIOUS
<1>1. PICK m \in 0..MaxRows : logs \in [1..m -> Entry]
  BY DEF Inv, TypeOK
<1>. QED BY <1>1, KeysAreInterval

(* The rows that getLogEntries finds between i and j, in key order, are    *)
(* the slice of the log.                                                   *)
LEMMA RangeIsSlice ==
    ASSUME NEW m \in Nat, logs \in [1..m -> Entry], NEW i \in Nat \ {0},
           NEW j \in Nat
    PROVE  LET found == {x \in DOMAIN logs : i <= x /\ x <= j}
               Nth(c) == CHOOSE x \in found :
                            Cardinality({y \in found : y < x}) = c - 1
           IN  [c \in 1..Cardinality(found) |-> logs[Nth(c)]]
                 = SubSeq(logs, i, Smaller(j, m))
<1>. DEFINE h == Smaller(j, m)
            found == {x \in DOMAIN logs : i <= x /\ x <= j}
            Nth(c) == CHOOSE x \in found :
                         Cardinality({y \in found : y < x}) = c - 1
            rows == [c \in 1..Cardinality(found) |-> logs[Nth(c)]]
<1>1. h \in 0..m /\ found = i..h
  BY DEF Smaller
<1>. HIDE DEF h, found
<1>2. Cardinality(found) = IF i > h THEN 0 ELSE h - i + 1
  BY <1>1, FS_Interval
<1>3. CASE i > h
  <2>1. Cardinality(found) = 0
    BY <1>2, <1>3
  <2>. HIDE DEF Nth
  <2>2. rows = <<>>
    BY <2>1
  <2>3. SubSeq(logs, i, h) = <<>>
    BY <1>1, <1>3, SubSeqEmpty
  <2>. QED BY <2>2, <2>3 DEF h, found, Nth
<1>4. CASE i <= h
  <2>1. Cardinality(found) = h - i + 1 /\ h - i + 1 \in Nat
    BY <1>1, <1>2, <1>4
  <2>2. ASSUME NEW x \in i..h
        PROVE  Cardinality({y \in found : y < x}) = x - i
    <3>1. {y \in found : y < x} = i..x - 1
      BY <1>1
    <3>2. Cardinality(i..x - 1) = x - i
      <4>1. Cardinality(i..x - 1) = IF i > x - 1 THEN 0 ELSE (x - 1) - i + 1
        BY <1>1, FS_Interval
      <4>. QED BY <4>1, <1>1
    <3>. QED BY <3>1, <3>2, Zenon
  <2>3. ASSUME NEW c \in 1..h - i + 1 PROVE Nth(c) = i + c - 1
    <3>1. i + c - 1 \in i..h
      BY <1>1
    <3>2. /\ i + c - 1 \in found
          /\ Cardinality({y \in found : y < i + c - 1}) = c - 1
      BY <3>1, <2>2, <1>1
    <3>3. \A x \in found : Cardinality({y \in found : y < x}) = c - 1
                             => x = i + c - 1
      BY <2>2, <1>1
    <3>. QED BY <3>2, <3>3, Zenon
  <2>. HIDE DEF Nth
  <2>4. rows = [c \in 1..h - i + 1 |-> logs[i + c - 1]]
    BY <2>1, <2>3
  <2>. HIDE DEF rows
  <2>5. rows \in Seq(Entry) /\ Len(rows) = h - i + 1
    <3>1. rows \in [1..h - i + 1 -> Entry]
      BY <2>4, <1>1
    <3>. QED BY <3>1, <2>1, FunctionIsSeq
  <2>6. /\ SubSeq(logs, i, h) \in Seq(Entry)
        /\ Len(SubSeq(logs, i, h)) = h - i + 1
        /\ \A c \in 1..h - i + 1 : SubSeq(logs, i, h)[c] = logs[i + c - 1]
    <3>1. \A x \in i..h : logs[x] \in Entry
      BY <1>1
    <3>. QED BY <3>1, <1>1, <1>4, SubSeqProperties
  <2>7. rows = SubSeq(logs, i, h)
    <3>. DEFINE sub == SubSeq(logs, i, h)
    <3>1. /\ sub \in Seq(Entry) /\ Len(rows) = Len(sub)
          /\ \A c \in 1..Len(rows) : rows[c] = sub[c]
      BY <2>4, <2>5, <2>6
    <3>. HIDE DEF sub
    <3>2. rows = sub
      BY <2>5, <3>1, SeqEqual
    <3>. QED BY <3>2 DEF sub
  <2>. QED BY <2>7 DEF rows, found, Nth, h
<1>5. i > h \/ i <= h
  BY <1>1
<1>. QED BY <1>3, <1>4, <1>5 DEF h, found

(* A new database is an empty store.                                       *)
LEMMA InitImplements == Init => Abstract!Init
<1>. SUFFICES ASSUME Init PROVE Abstract!Init
  OBVIOUS
<1>1. Log = <<>>
  <2>1. logs = <<>> /\ logs \in [1..0 -> Entry]
    BY DEF Init
  <2>. QED BY <2>1, KeysAreInterval
<1>2. Commit(state) = 0 /\ Applied(state) = 0
  BY DEF Init, Commit, Applied
<1>. QED BY <1>1, <1>2, Zenon DEF Init, Abstract!Init, Commit, Applied

(* What callers see of a step that changes no table but may reply.         *)
LEMMA TablesSeen ==
    ASSUME Inv, UNCHANGED tables
    PROVE  UNCHANGED Abstract!data
<1>1. logs' = logs /\ state' = state /\ kv' = kv
  OBVIOUS
<1>. QED BY <1>1 DEF Abstract!data, Log, LastLogIndex

(* A statement that fails does what Fail says.                             *)
LEMMA FailureImplements ==
    ASSUME Inv, NEW op, NEW arg, NEW v, Swallow(op, arg, v),
           v = Abstract!Blank(op), faulty' = faulty
    PROVE  Abstract!Next
<1>1. faulty /\ reply' = [op |-> op, arg |-> arg, value |-> v]
          /\ UNCHANGED tables
  BY Zenon DEF Swallow, Replies
<1>2. UNCHANGED Abstract!data
  BY <1>1, TablesSeen
<1>3. reply'.op = op /\ reply'.value = v
  BY <1>1
<1>4. reply'.value = Abstract!Blank(reply'.op)
  BY <1>3, Zenon
<1>5. Abstract!Fail
  BY <1>1, <1>2, <1>4, Zenon DEF Abstract!Fail
<1>. QED BY <1>5, Zenon DEF Abstract!Next

(* A query that answers with what the store holds does what Read says.     *)
LEMMA QueryReturns ==
    ASSUME Inv, NEW op, NEW arg, NEW v, Query(op, arg, v)
    PROVE  /\ UNCHANGED Abstract!data /\ faulty' = faulty
           /\ Abstract!Returns(op, arg, v) /\ state # <<>>
<1>1. /\ reply' = [op |-> op, arg |-> arg, value |-> v] /\ faulty' = faulty
      /\ UNCHANGED tables /\ open
  BY Zenon DEF Query, Replies
<1>2. state # <<>>
  BY <1>1, Zenon DEF Inv, TypeOK
<1>3. reply'.op = op /\ reply'.arg = arg /\ reply'.value = v
  BY <1>1
<1>. QED BY <1>1, <1>2, <1>3, TablesSeen, Zenon DEF Abstract!Returns

(* The same log in the next state.                                         *)
LEMMA LogIsTableNext == Inv' => Log' = logs'
<1>. DEFINE Seen == Log = logs
<1>1. Inv => Seen
  BY LogIsTable
<1>. HIDE DEF Seen
<1>2. Inv' => Seen'
  BY <1>1, PTL
<1>. QED BY <1>2 DEF Seen

(* The INSERT of appendLogEntry.                                           *)
LEMMA AppendImplements ==
    ASSUME Inv, Inv', NEW e \in Entry, AppendLogEntry(e)
    PROVE  Abstract!Next
<1>1. CASE Throw("appendLogEntry", e)
  <2>1. Abstract!Blank("appendLogEntry") = Error
    BY DEF Abstract!Blank
  <2>. QED BY <1>1, <2>1, FailureImplements DEF AppendLogEntry, Throw
<1>2. CASE ~Throw("appendLogEntry", e)
  <2>1. /\ logs' = [i \in DOMAIN logs \cup {LastLogIndex + 1} |->
                       IF i = LastLogIndex + 1 THEN e ELSE logs[i]]
        /\ \/ reply' = [op |-> "appendLogEntry", arg |-> e,
                        value |-> LastLogIndex + 1]
           \/ /\ faulty
              /\ reply' = [op |-> "appendLogEntry", arg |-> e,
                           value |-> Error]
        /\ state' = state /\ kv' = kv /\ faulty' = faulty
    BY <1>2, Zenon DEF AppendLogEntry, Replies
  <2>2. PICK new : new = logs'
    OBVIOUS
  <2>3. new = Append(logs, e)
    BY <2>1, <2>2, LogIsTable, InsertsNext
  <2>4. Log' = Append(Log, e)
    BY <2>2, <2>3, LogIsTable, LogIsTableNext, Zenon
  <2>5. /\ reply'.op = "appendLogEntry" /\ reply'.arg = e
        /\ reply'.value = Len(Log) + 1 \/ (faulty /\ reply'.value = Error)
    BY <2>1, LogIsTable
  <2>6. Abstract!AppendLogEntry(e) \/ Abstract!AppendAndThrow(e)
    BY <2>1, <2>4, <2>5 DEF Abstract!AppendLogEntry, Abstract!AppendAndThrow,
                            Abstract!Returns
  <2>. QED BY <2>1, <2>6, Zenon DEF Abstract!Next
<1>. QED BY <1>1, <1>2

(* The DELETE of deleteLogEntriesFrom.                                     *)
LEMMA DeleteImplements ==
    ASSUME Inv, Inv', NEW i \in Indices, DeleteLogEntriesFrom(i)
    PROVE  Abstract!Next
<1>1. CASE Swallow("deleteLogEntriesFrom", i, 0)
  <2>1. Abstract!Blank("deleteLogEntriesFrom") = 0
    BY DEF Abstract!Blank
  <2>. QED BY <1>1, <2>1, FailureImplements DEF DeleteLogEntriesFrom
<1>2. CASE ~Swallow("deleteLogEntriesFrom", i, 0)
  <2>1. /\ logs' = [j \in {x \in DOMAIN logs : x < i} |-> logs[j]]
        /\ reply' = [op |-> "deleteLogEntriesFrom", arg |-> i, value |-> 0]
        /\ state' = state /\ kv' = kv /\ faulty' = faulty
    BY <1>2, Zenon DEF DeleteLogEntriesFrom, Replies
  <2>2. PICK new : new = logs'
    OBVIOUS
  <2>3. new = SubSeq(logs, 1, Smaller(i - 1, LastLogIndex))
    BY <2>1, <2>2, LogIsTable, DeletesSuffix
  <2>4. Log' = SubSeq(Log, 1, Smaller(i - 1, Len(Log)))
    BY <2>2, <2>3, LogIsTable, LogIsTableNext, Zenon
  <2>5. /\ reply'.op = "deleteLogEntriesFrom" /\ reply'.arg = i
        /\ reply'.value = 0
    BY <2>1
  <2>6. Abstract!DeleteLogEntriesFrom(i)
    BY <2>1, <2>4, <2>5
       DEF Abstract!DeleteLogEntriesFrom, Abstract!Returns, Abstract!Smaller,
           Smaller
  <2>. QED BY <2>1, <2>6, Zenon DEF Abstract!Next
<1>. QED BY <1>1, <1>2

(* The UPDATEs of the state table: they hit the first row among all.       *)
LEMMA UpdateImplements ==
    ASSUME Inv, NEW i \in Indices, SetCommitIndex(i) \/ SetLastApplied(i)
    PROVE  Abstract!Next
<1>1. CASE Swallow("setCommitIndex", i, 0) \/ Swallow("setLastApplied", i, 0)
  <2>1. /\ Abstract!Blank("setCommitIndex") = 0
        /\ Abstract!Blank("setLastApplied") = 0
    BY DEF Abstract!Blank
  <2>2. faulty' = faulty
    BY Zenon DEF SetCommitIndex, SetLastApplied
  <2>. QED BY <1>1, <2>1, <2>2, FailureImplements
<1>2. ASSUME ~Swallow("setCommitIndex", i, 0),
             ~Swallow("setLastApplied", i, 0)
      PROVE  Abstract!Next
  <2>1. state \in Seq(Row) /\ DOMAIN state = 1..Len(state)
    BY DEF Inv, TypeOK, Row
  <2>2. CASE SetCommitIndex(i)
    <3>1. /\ open /\ logs' = logs /\ kv' = kv /\ faulty' = faulty
          /\ state' = [r \in DOMAIN state |->
                          [state[r] EXCEPT !.commitIndex = i]]
          /\ reply' = [op |-> "setCommitIndex", arg |-> i, value |-> 0]
      BY <1>2, <2>2, Zenon DEF SetCommitIndex, Replies
    <3>2. state # <<>>
      BY <3>1, Zenon DEF Inv, TypeOK
    <3>3. 1 \in DOMAIN state /\ state[1] \in Row
      BY <2>1, <3>2
    <3>4. /\ state'[1] = [state[1] EXCEPT !.commitIndex = i]
          /\ state' # <<>>
      BY <3>1, <3>3
    <3>5. /\ state'[1].commitIndex = i
          /\ state'[1].lastApplied = state[1].lastApplied
      BY <3>3, <3>4 DEF Row
    <3>6. Log' = Log
      BY <3>1 DEF Log, LastLogIndex
    <3>7. reply'.op = "setCommitIndex" /\ reply'.arg = i /\ reply'.value = 0
      BY <3>1
    <3>8. Abstract!SetCommitIndex(i)
      BY <3>1, <3>2, <3>4, <3>5, <3>6, <3>7
         DEF Abstract!SetCommitIndex, Abstract!Returns
    <3>. QED BY <3>1, <3>8, Zenon DEF Abstract!Next
  <2>3. CASE SetLastApplied(i)
    <3>1. /\ open /\ logs' = logs /\ kv' = kv /\ faulty' = faulty
          /\ state' = [r \in DOMAIN state |->
                          [state[r] EXCEPT !.lastApplied = i]]
          /\ reply' = [op |-> "setLastApplied", arg |-> i, value |-> 0]
      BY <1>2, <2>3, Zenon DEF SetLastApplied, Replies
    <3>2. state # <<>>
      BY <3>1, Zenon DEF Inv, TypeOK
    <3>3. 1 \in DOMAIN state /\ state[1] \in Row
      BY <2>1, <3>2
    <3>4. /\ state'[1] = [state[1] EXCEPT !.lastApplied = i]
          /\ state' # <<>>
      BY <3>1, <3>3
    <3>5. /\ state'[1].lastApplied = i
          /\ state'[1].commitIndex = state[1].commitIndex
      BY <3>3, <3>4 DEF Row
    <3>6. Log' = Log
      BY <3>1 DEF Log, LastLogIndex
    <3>7. reply'.op = "setLastApplied" /\ reply'.arg = i /\ reply'.value = 0
      BY <3>1
    <3>8. Abstract!SetLastApplied(i)
      BY <3>1, <3>2, <3>4, <3>5, <3>6, <3>7
         DEF Abstract!SetLastApplied, Abstract!Returns
    <3>. QED BY <3>1, <3>8, Zenon DEF Abstract!Next
  <2>. QED BY <2>2, <2>3
<1>. QED BY <1>1, <1>2

(* The UPSERT of updateKeyValue.                                           *)
LEMMA UpsertImplements ==
    ASSUME Inv, NEW k \in Keys, NEW v \in Values, UpdateKeyValue(k, v)
    PROVE  Abstract!Next
<1>1. CASE Swallow("updateKeyValue", k, 0)
  <2>1. Abstract!Blank("updateKeyValue") = 0
    BY DEF Abstract!Blank
  <2>. QED BY <1>1, <2>1, FailureImplements DEF UpdateKeyValue
<1>2. CASE ~Swallow("updateKeyValue", k, 0)
  <2>1. /\ kv' = [kv EXCEPT ![k] = v] /\ logs' = logs /\ state' = state
        /\ reply' = [op |-> "updateKeyValue", arg |-> k, value |-> 0]
        /\ faulty' = faulty
    BY <1>2, Zenon DEF UpdateKeyValue, Replies
  <2>2. Log' = Log
    BY <2>1 DEF Log, LastLogIndex
  <2>3. reply'.op = "updateKeyValue" /\ reply'.arg = k /\ reply'.value = 0
    BY <2>1
  <2>4. Abstract!UpdateKeyValue(k, v)
    BY <2>1, <2>2, <2>3 DEF Abstract!UpdateKeyValue, Abstract!Returns
  <2>. QED BY <2>1, <2>4, Zenon DEF Abstract!Next
<1>. QED BY <1>1, <1>2

(* The queries.                                                            *)
LEMMA ReadImplements ==
    ASSUME Inv, \/ \E i \in Indices : GetLogEntry(i)
                \/ \E i, j \in Indices : GetLogEntries(i, j)
                \/ \E k \in Keys : Get(k)
                \/ GetCommitIndex \/ GetLastApplied \/ GetLastLogIndex
                \/ GetLastLogTerm
    PROVE  Abstract!Next
<1>1. /\ Abstract!Blank("getCommitIndex") = 0
      /\ Abstract!Blank("getLastApplied") = 0
      /\ Abstract!Blank("get") = NoValue
      /\ Abstract!Blank("getLastLogIndex") = Error
      /\ Abstract!Blank("getLastLogTerm") = Error
      /\ Abstract!Blank("getLogEntry") = Error
      /\ Abstract!Blank("getLogEntries") = Error
  BY DEF Abstract!Blank
<1>2. ASSUME Abstract!Read, faulty' = faulty PROVE Abstract!Next
  BY <1>2, Zenon DEF Abstract!Next
<1>3. CASE GetCommitIndex
  <2>1. CASE Query("getCommitIndex", 0, state[1].commitIndex)
    <3>1. /\ UNCHANGED Abstract!data /\ faulty' = faulty /\ state # <<>>
          /\ Abstract!Returns("getCommitIndex", 0, state[1].commitIndex)
      BY <2>1, QueryReturns
    <3>2. Abstract!Read
      BY <3>1 DEF Abstract!Read
    <3>. QED BY <1>2, <3>1, <3>2
  <2>2. CASE ~Query("getCommitIndex", 0, state[1].commitIndex)
    BY <1>1, <1>3, <2>2, FailureImplements DEF GetCommitIndex
  <2>. QED BY <2>1, <2>2
<1>4. CASE GetLastApplied
  <2>1. CASE Query("getLastApplied", 0, state[1].lastApplied)
    <3>1. /\ UNCHANGED Abstract!data /\ faulty' = faulty /\ state # <<>>
          /\ Abstract!Returns("getLastApplied", 0, state[1].lastApplied)
      BY <2>1, QueryReturns
    <3>2. Abstract!Read
      BY <3>1 DEF Abstract!Read
    <3>. QED BY <1>2, <3>1, <3>2
  <2>2. CASE ~Query("getLastApplied", 0, state[1].lastApplied)
    BY <1>1, <1>4, <2>2, FailureImplements DEF GetLastApplied
  <2>. QED BY <2>1, <2>2
<1>5. ASSUME NEW k \in Keys, Get(k) PROVE Abstract!Next
  <2>1. CASE Query("get", k, kv[k])
    <3>1. /\ UNCHANGED Abstract!data /\ faulty' = faulty
          /\ Abstract!Returns("get", k, kv[k])
      BY <2>1, QueryReturns
    <3>2. Abstract!Read
      BY <3>1, Zenon DEF Abstract!Read
    <3>. QED BY <1>2, <3>1, <3>2
  <2>2. CASE ~Query("get", k, kv[k])
    BY <1>1, <1>5, <2>2, FailureImplements DEF Get
  <2>. QED BY <2>1, <2>2
<1>6. CASE GetLastLogIndex
  <2>1. CASE Query("getLastLogIndex", 0, LastLogIndex)
    <3>1. /\ UNCHANGED Abstract!data /\ faulty' = faulty
          /\ Abstract!Returns("getLastLogIndex", 0, Len(Log))
      BY <2>1, QueryReturns, LogIsTable
    <3>2. Abstract!Read
      BY <3>1, Zenon DEF Abstract!Read
    <3>. QED BY <1>2, <3>1, <3>2
  <2>2. CASE ~Query("getLastLogIndex", 0, LastLogIndex)
    BY <1>1, <1>6, <2>2, FailureImplements DEF GetLastLogIndex, Throw
  <2>. QED BY <2>1, <2>2
<1>7. CASE GetLastLogTerm
  <2>1. CASE Query("getLastLogTerm", 0, LastLogTerm)
    <3>1. LastLogTerm = Abstract!TermAt(Log, Len(Log))
      BY LogIsTable DEF LastLogTerm, Abstract!TermAt
    <3>2. /\ UNCHANGED Abstract!data /\ faulty' = faulty
          /\ Abstract!Returns("getLastLogTerm", 0,
                              Abstract!TermAt(Log, Len(Log)))
      BY <2>1, <3>1, QueryReturns
    <3>3. Abstract!Read
      BY <3>2, Zenon DEF Abstract!Read
    <3>. QED BY <1>2, <3>2, <3>3
  <2>2. CASE ~Query("getLastLogTerm", 0, LastLogTerm)
    BY <1>1, <1>7, <2>2, FailureImplements DEF GetLastLogTerm, Throw
  <2>. QED BY <2>1, <2>2
<1>8. ASSUME NEW i \in Indices, GetLogEntry(i) PROVE Abstract!Next
  <2>. DEFINE row == IF i \in DOMAIN logs THEN logs[i] ELSE NoRow
  <2>1. CASE Query("getLogEntry", i, row)
    <3>1. row = IF i \in 1..Len(Log) THEN Log[i] ELSE NoRow
      BY LogIsTable
    <3>2. /\ UNCHANGED Abstract!data /\ faulty' = faulty
          /\ Abstract!Returns("getLogEntry", i, row)
      BY <2>1, QueryReturns
    <3>. HIDE DEF row
    <3>3. Abstract!Returns("getLogEntry", i,
                           IF i \in 1..Len(Log) THEN Log[i] ELSE NoRow)
      BY <3>1, <3>2, Zenon
    <3>4. Abstract!Read
      BY <3>2, <3>3, Zenon DEF Abstract!Read
    <3>. QED BY <1>2, <3>2, <3>4
  <2>2. CASE ~Query("getLogEntry", i, row)
    BY <1>1, <1>8, <2>2, FailureImplements DEF GetLogEntry, Throw
  <2>. QED BY <2>1, <2>2
<1>9. ASSUME NEW i \in Indices, NEW j \in Indices, GetLogEntries(i, j)
      PROVE  Abstract!Next
  <2>. DEFINE found == {m \in DOMAIN logs : i <= m /\ m <= j}
              Nth(c) == CHOOSE m \in found :
                           Cardinality({x \in found : x < m}) = c - 1
              rows == [c \in 1..Cardinality(found) |-> logs[Nth(c)]]
              sub == SubSeq(Log, i, Abstract!Smaller(j, Len(Log)))
  <2>1. rows = sub
    <3>1. /\ i \in Nat \ {0} /\ j \in Nat /\ LastLogIndex \in Nat
          /\ logs \in [1..LastLogIndex -> Entry]
      BY LogIsTable
    <3>2. rows = SubSeq(logs, i, Smaller(j, LastLogIndex))
      BY <3>1, RangeIsSlice, Zenon
    <3>3. sub = SubSeq(logs, i, Smaller(j, LastLogIndex))
      BY LogIsTable, Zenon DEF Smaller, Abstract!Smaller
    <3>. QED BY <3>2, <3>3, Zenon
  <2>2. \/ Query("getLogEntries", <<i, j>>, rows)
        \/ Throw("getLogEntries", <<i, j>>) /\ faulty' = faulty
    BY <1>9, Zenon DEF GetLogEntries
  <2>. HIDE DEF rows
  <2>3. CASE Query("getLogEntries", <<i, j>>, rows)
    <3>1. /\ UNCHANGED Abstract!data /\ faulty' = faulty
          /\ Abstract!Returns("getLogEntries", <<i, j>>, rows)
      BY <2>3, QueryReturns
    <3>2. Abstract!Returns("getLogEntries", <<i, j>>, sub)
      BY <3>1, <2>1, Zenon
    <3>3. Abstract!Read
      BY <3>1, <3>2, Zenon DEF Abstract!Read
    <3>. QED BY <1>2, <3>1, <3>3
  <2>4. CASE Throw("getLogEntries", <<i, j>>) /\ faulty' = faulty
    BY <1>1, <2>4, FailureImplements DEF Throw
  <2>. QED BY <2>2, <2>3, <2>4
<1>. QED BY <1>3, <1>4, <1>5, <1>6, <1>7, <1>8, <1>9

(* Opening and closing the database cannot be seen: the row that a start   *)
(* adds is the first one only where the numbers were zero anyway.          *)
LEMMA OpenUnseen ==
    ASSUME Inv, Open \/ OpenFails \/ Close \/ UNCHANGED vars
    PROVE  UNCHANGED Abstract!vars
<1>1. CASE Open \/ OpenFails
  <2>1. /\ state \in Seq(Row) /\ NewRow \in Row
        /\ state' = Append(state, NewRow)
        /\ logs' = logs /\ kv' = kv /\ reply' = reply /\ faulty' = faulty
    BY <1>1 DEF Open, OpenFails, Inv, TypeOK, Row, NewRow
  <2>2. state' # <<>> /\ state'[1] = IF state = <<>> THEN NewRow ELSE state[1]
    <3>1. CASE state = <<>>
      BY <3>1, <2>1
    <3>2. CASE state # <<>>
      <4>1. 1 \in 1..Len(state)
        BY <3>2, <2>1
      <4>. QED BY <4>1, <3>2, <2>1
    <3>. QED BY <3>1, <3>2
  <2>3. /\ Commit(state') = Commit(state)
        /\ Applied(state') = Applied(state)
    BY <2>2 DEF Commit, Applied, NewRow
  <2>4. Log' = Log
    BY <2>1 DEF Log, LastLogIndex
  <2>5. UNCHANGED Abstract!data
    BY <2>1, <2>3, <2>4 DEF Abstract!data, Commit, Applied
  <2>. QED BY <2>1, <2>5 DEF Abstract!vars
<1>2. CASE Close \/ UNCHANGED vars
  <2>1. UNCHANGED <<tables, reply, faulty>>
    BY <1>2 DEF Close
  <2>2. UNCHANGED Abstract!data
    BY <2>1, TablesSeen
  <2>. QED BY <2>1, <2>2 DEF Abstract!vars
<1>. QED BY <1>1, <1>2

(* SQLiteStorage implements the store that RaftNode and KVStoreServiceImpl *)
(* take it for: every method does to the log, the two numbers and the map  *)
(* what DurableStore says, answers from them, or fails without effect,     *)
(* except that appendLogEntry may throw with its row stored                *)
(* (SQLiteStorage.java:47-57); restarts cannot be seen.                    *)
THEOREM Refinement == Spec => Implements
<1>1. Inv /\ Inv' /\ [Next]_vars => [Abstract!Next]_(Abstract!vars)
  <2>. SUFFICES ASSUME Inv, Inv', [Next]_vars
                PROVE  Abstract!Next \/ UNCHANGED Abstract!vars
    BY Zenon
  <2>1. \/ Open \/ OpenFails \/ Close \/ UNCHANGED vars
        \/ \E e \in Entry : AppendLogEntry(e)
        \/ \E i \in Indices : \/ DeleteLogEntriesFrom(i)
                              \/ SetCommitIndex(i) \/ SetLastApplied(i)
        \/ \E k \in Keys, v \in Values : UpdateKeyValue(k, v)
        \/ \E i \in Indices : GetLogEntry(i)
        \/ \E i, j \in Indices : GetLogEntries(i, j)
        \/ \E k \in Keys : Get(k)
        \/ GetCommitIndex \/ GetLastApplied \/ GetLastLogIndex
        \/ GetLastLogTerm
    BY Zenon DEF Next
  <2>. QED BY <2>1, OpenUnseen, AppendImplements, DeleteImplements,
              UpdateImplements, UpsertImplements, ReadImplements
<1>. QED BY <1>1, InitImplements, Invariance, PTL
         DEF Spec, Implements, Abstract!Spec
=============================================================================
