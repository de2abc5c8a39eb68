---------------------------- MODULE SQLiteStorage ---------------------------
(***************************************************************************)
(* SQLiteStorage.java: one connection, three tables, one action per method.*)
(*   logs      a function from INTEGER PRIMARY KEY values to rows; INSERT  *)
(*             takes the key MAX + 1                                       *)
(*   state     a sequence of rows: the table has no unique column, so the  *)
(*             INSERT OR IGNORE of initializeDatabase ignores nothing and  *)
(*             every start of the server adds a row of zeros.  A SELECT    *)
(*             without ORDER BY yields the rows in insertion order and the *)
(*             getters take the first; UPDATE without WHERE hits them all  *)
(*   kv_store  a map                                                       *)
(* The columns currentTerm and votedFor are written once, with 0 and NULL, *)
(* and never read, so they are left out.                                   *)
(***************************************************************************)
EXTENDS RaftLog

CONSTANTS Entry, Keys, Values, NoValue, NoRow, Error,
          Indices,   \* arguments of the index methods
          MaxRows, MaxOpens   \* bounds: rows of logs, starts of the server

ASSUME StorageAssumption ==
    /\ \A e \in Entry : e.term \in Nat
    /\ Indices \subseteq Nat \ {0}
    /\ MaxRows \in Nat /\ MaxOpens \in Nat

VARIABLES logs, state, kv, open, reply,
          faulty     \* may statements of this behaviour raise SQLException?

tables == <<logs, state, kv>>
vars   == <<tables, open, reply, faulty>>

NewRow == [lastApplied |-> 0, commitIndex |-> 0]

(* SELECT MAX(index): NULL, which getLong reads as 0, for an empty table.  *)
LastLogIndex ==
    IF DOMAIN logs = {} THEN 0
    ELSE CHOOSE m \in DOMAIN logs : \A i \in DOMAIN logs : i <= m

LastLogTerm == IF LastLogIndex > 0 THEN logs[LastLogIndex].term ELSE 0

Init ==
    /\ logs = <<>> /\ state = <<>> /\ kv = [k \in Keys |-> NoValue]
    /\ open = FALSE /\ faulty \in BOOLEAN
    /\ reply = [op |-> "none", arg |-> 0, value |-> 0]

Replies(op, arg, v) == reply' = [op |-> op, arg |-> arg, value |-> v]

(* The constructor.                                                        *)
Open ==
    /\ ~open /\ open' = TRUE
    /\ Len(state) < MaxOpens
    /\ state' = Append(state, NewRow)
    /\ UNCHANGED <<logs, kv, reply, faulty>>

(* The constructor throws after its INSERT; a failure before it changes    *)
(* nothing.                                                                *)
OpenFails ==
    /\ ~open /\ faulty /\ Len(state) < MaxOpens
    /\ state' = Append(state, NewRow)
    /\ UNCHANGED <<logs, kv, open, reply, faulty>>

Close == open /\ open' = FALSE /\ UNCHANGED <<tables, reply, faulty>>

(* A method that catches SQLException and returns normally; also what a    *)
(* call on a closed connection comes to.                                   *)
Swallow(op, arg, v) ==
    faulty /\ state # <<>> /\ Replies(op, arg, v) /\ UNCHANGED tables

(* A method that turns it into a RuntimeException.                         *)
Throw(op, arg) == Swallow(op, arg, Error)

(* The row is stored (autocommit) before its generated key is asked for:   *)
(* the method can throw with the row in the table, or without it.          *)
AppendLogEntry(e) ==
    /\ UNCHANGED <<open, faulty>>
    /\ \/ /\ open /\ LastLogIndex < MaxRows
          /\ logs' = [i \in DOMAIN logs \cup {LastLogIndex + 1} |->
                       IF i = LastLogIndex + 1 THEN e ELSE logs[i]]
          /\ \/ Replies("appendLogEntry", e, LastLogIndex + 1)
             \/ faulty /\ Replies("appendLogEntry", e, Error)
          /\ UNCHANGED <<state, kv>>
       \/ Throw("appendLogEntry", e)

(* Mutant: WHERE index = ?                                                 *)
DeleteLogEntryAt(i) ==
    /\ open /\ logs' = [j \in DOMAIN logs \ {i} |-> logs[j]]
    /\ Replies("deleteLogEntriesFrom", i, 0)
    /\ UNCHANGED <<state, kv, open, faulty>>

DeleteLogEntriesFrom(i) ==
    /\ UNCHANGED <<open, faulty>>
    /\ \/ /\ open
          /\ logs' = [j \in {m \in DOMAIN logs : m < i} |-> logs[j]]
          /\ Replies("deleteLogEntriesFrom", i, 0)
          /\ UNCHANGED <<state, kv>>
       \/ Swallow("deleteLogEntriesFrom", i, 0)

(* Mutant: only the newest row is updated.                                 *)
SetNewestCommitIndex(i) ==
    /\ open /\ state' = [state EXCEPT ![Len(state)].commitIndex = i]
    /\ Replies("setCommitIndex", i, 0)
    /\ UNCHANGED <<logs, kv, open, faulty>>

SetCommitIndex(i) ==
    /\ UNCHANGED <<open, faulty>>
    /\ \/ /\ open
          /\ state' = [r \in DOMAIN state |->
                          [state[r] EXCEPT !.commitIndex = i]]
          /\ Replies("setCommitIndex", i, 0)
          /\ UNCHANGED <<logs, kv>>
       \/ Swallow("setCommitIndex", i, 0)

SetLastApplied(i) ==
    /\ UNCHANGED <<open, faulty>>
    /\ \/ /\ open
          /\ state' = [r \in DOMAIN state |->
                          [state[r] EXCEPT !.lastApplied = i]]
          /\ Replies("setLastApplied", i, 0)
          /\ UNCHANGED <<logs, kv>>
       \/ Swallow("setLastApplied", i, 0)

UpdateKeyValue(k, v) ==
    /\ UNCHANGED <<open, faulty>>
    /\ \/ /\ open
          /\ kv' = [kv EXCEPT ![k] = v]
          /\ Replies("updateKeyValue", k, 0)
          /\ UNCHANGED <<logs, state>>
       \/ Swallow("updateKeyValue", k, 0)

(* The queries.  The first four catch the exception and answer as if there *)
(* were no row; the log queries throw.                                     *)
Query(op, arg, v) ==
    open /\ Replies(op, arg, v) /\ UNCHANGED <<tables, open, faulty>>

(* Mutant: the newest row is read.                                         *)
GetNewestCommitIndex ==
    Query("getCommitIndex", 0, state[Len(state)].commitIndex)

GetCommitIndex ==
    \/ Query("getCommitIndex", 0, state[1].commitIndex)
    \/ Swallow("getCommitIndex", 0, 0) /\ UNCHANGED <<open, faulty>>

GetLastApplied ==
    \/ Query("getLastApplied", 0, state[1].lastApplied)
    \/ Swallow("getLastApplied", 0, 0) /\ UNCHANGED <<open, faulty>>

Get(k) ==
    \/ Query("get", k, kv[k])
    \/ Swallow("get", k, NoValue) /\ UNCHANGED <<open, faulty>>

GetLastLogIndex ==
    \/ Query("getLastLogIndex", 0, LastLogIndex)
    \/ Throw("getLastLogIndex", 0) /\ UNCHANGED <<open, faulty>>

GetLastLogTerm ==
    \/ Query("getLastLogTerm", 0, LastLogTerm)
    \/ Throw("getLastLogTerm", 0) /\ UNCHANGED <<open, faulty>>

GetLogEntry(i) ==
    \/ Query("getLogEntry", i, IF i \in DOMAIN logs THEN logs[i] ELSE NoRow)
    \/ Throw("getLogEntry", i) /\ UNCHANGED <<open, faulty>>

(* The rows with i <= index <= j, in key order: the c-th one has c - 1     *)
(* such rows below it.                                                     *)
GetLogEntries(i, j) ==
    LET found == {m \in DOMAIN logs : i <= m /\ m <= j}
        Nth(c) == CHOOSE m \in found :
                     Cardinality({x \in found : x < m}) = c - 1
    IN  \/ Query("getLogEntries", <<i, j>>,
                 [c \in 1..Cardinality(found) |-> logs[Nth(c)]])
        \/ Throw("getLogEntries", <<i, j>>) /\ UNCHANGED <<open, faulty>>

Next ==
    \/ Open \/ OpenFails \/ Close
    \/ \E e \in Entry : AppendLogEntry(e)
    \/ \E i \in Indices : \/ DeleteLogEntriesFrom(i) \/ SetCommitIndex(i)
                          \/ SetLastApplied(i) \/ GetLogEntry(i)
    \/ \E i, j \in Indices : GetLogEntries(i, j)
    \/ \E k \in Keys, v \in Values : UpdateKeyValue(k, v)
    \/ \E k \in Keys : Get(k)
    \/ GetCommitIndex \/ GetLastApplied \/ GetLastLogIndex \/ GetLastLogTerm

Spec == Init /\ [][Next]_vars
-----------------------------------------------------------------------------
(* Every variable keeps its type.                                          *)
TypeOK ==
    /\ \E m \in 0..MaxRows : logs \in [1..m -> Entry]
    /\ state \in Seq([lastApplied : Nat, commitIndex : Nat])
    /\ open \in BOOLEAN /\ (open => state # <<>>)
    /\ kv \in [Keys -> Values \cup {NoValue}]

(* A row that a later start added says what the first row says, or still   *)
(* zero: whichever row SELECT FROM state (SQLiteStorage.java:128,151)      *)
(* yields, the server never believes in a commit or apply it has not made, *)
(* even when updates are lost to swallowed exceptions.                     *)
LateRowsLag ==
    \A r \in DOMAIN state :
        /\ state[r].commitIndex \in {0, state[1].commitIndex}
        /\ state[r].lastApplied \in {0, state[1].lastApplied}

Log == [i \in 1..LastLogIndex |-> logs[i]]

Abstract == INSTANCE DurableStore WITH
    log         <- Log,
    commitIndex <- IF state = <<>> THEN 0 ELSE state[1].commitIndex,
    lastApplied <- IF state = <<>> THEN 0 ELSE state[1].lastApplied

(* The tables implement the durable log, numbers and map of DurableStore:  *)
(* keys that INSERT picks and suffix DELETEs leave are exactly 1..n,       *)
(* restarts that add zero rows to the state table change nothing a caller  *)
(* can read, and every query answers from the log so seen.  A statement    *)
(* that fails loses its whole effect and no other, with the answer that    *)
(* DurableStore calls Blank; only appendLogEntry may throw with its row    *)
(* stored (SQLiteStorage.java:47-57).                                      *)
Implements == Abstract!Spec
=============================================================================
