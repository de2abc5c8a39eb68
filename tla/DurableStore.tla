---------------------------- MODULE DurableStore ----------------------------
(***************************************************************************)
(* What RaftNode and KVStoreServiceImpl take SQLiteStorage for: a log that *)
(* is a sequence, two numbers and a map, all of them durable, and calls    *)
(* that take effect or, in a behaviour with faults, do nothing: the log    *)
(* methods but one then throw, the others return as if nothing were there. *)
(* A caller of appendLogEntry that sees it throw cannot know whether the   *)
(* entry is in the log.  Opening and closing the database is invisible.    *)
(***************************************************************************)
EXTENDS RaftLog

CONSTANTS Entry, Keys, Values, NoValue,
          Indices,   \* the log indices callers pass
          NoRow,     \* null
          Error      \* the call threw

VARIABLES log, commitIndex, lastApplied, kv,
          reply,     \* the latest call: method, argument, result
          faulty     \* may calls fail in this behaviour?

data == <<log, commitIndex, lastApplied, kv>>
vars == <<data, reply, faulty>>

Returns(op, arg, v) == reply'.op = op /\ reply'.arg = arg /\ reply'.value = v

Init ==
    /\ log = <<>> /\ commitIndex = 0 /\ lastApplied = 0
    /\ kv = [k \in Keys |-> NoValue]
    /\ reply = [op |-> "none", arg |-> 0, value |-> 0]
    /\ faulty \in BOOLEAN

AppendLogEntry(e) ==
    /\ log' = Append(log, e) /\ Returns("appendLogEntry", e, Len(log) + 1)
    /\ UNCHANGED <<commitIndex, lastApplied, kv>>

(* The entry is in the log, and the caller is told that it is not.         *)
AppendAndThrow(e) ==
    /\ faulty /\ log' = Append(log, e) /\ Returns("appendLogEntry", e, Error)
    /\ UNCHANGED <<commitIndex, lastApplied, kv>>

DeleteLogEntriesFrom(i) ==
    /\ log' = SubSeq(log, 1, Smaller(i - 1, Len(log)))
    /\ Returns("deleteLogEntriesFrom", i, 0)
    /\ UNCHANGED <<commitIndex, lastApplied, kv>>

SetCommitIndex(i) ==
    /\ commitIndex' = i /\ Returns("setCommitIndex", i, 0)
    /\ UNCHANGED <<log, lastApplied, kv>>

SetLastApplied(i) ==
    /\ lastApplied' = i /\ Returns("setLastApplied", i, 0)
    /\ UNCHANGED <<log, commitIndex, kv>>

UpdateKeyValue(k, v) ==
    /\ kv' = [kv EXCEPT ![k] = v] /\ Returns("updateKeyValue", k, 0)
    /\ UNCHANGED <<log, commitIndex, lastApplied>>

Read ==
    /\ UNCHANGED data
    /\ \/ Returns("getCommitIndex", 0, commitIndex)
       \/ Returns("getLastApplied", 0, lastApplied)
       \/ Returns("getLastLogIndex", 0, Len(log))
       \/ Returns("getLastLogTerm", 0, TermAt(log, Len(log)))
       \/ \E k \in Keys : Returns("get", k, kv[k])
       \/ \E i \in Indices :
             Returns("getLogEntry", i,
                     IF i \in 1..Len(log) THEN log[i] ELSE NoRow)
       \/ \E i, j \in Indices :
             Returns("getLogEntries", <<i, j>>,
                     SubSeq(log, i, Smaller(j, Len(log))))

(* What a method answers when its statement fails.                         *)
Blank(op) ==
    CASE op = "get" -> NoValue
      [] op \in {"appendLogEntry", "getLogEntry", "getLogEntries",
                 "getLastLogIndex", "getLastLogTerm"} -> Error
      [] OTHER -> 0

Fail == faulty /\ UNCHANGED data /\ reply'.value = Blank(reply'.op)

Next ==
    /\ \/ \E e \in Entry : AppendLogEntry(e) \/ AppendAndThrow(e)
       \/ \E i \in Indices : \/ DeleteLogEntriesFrom(i)
                             \/ SetCommitIndex(i) \/ SetLastApplied(i)
       \/ \E k \in Keys, v \in Values : UpdateKeyValue(k, v)
       \/ Read \/ Fail
    /\ UNCHANGED faulty

Spec == Init /\ [][Next]_vars
=============================================================================
