------------------------------- MODULE CallMap -------------------------------
(***************************************************************************)
(* What a caller of kv739_get and kv739_put may rely on.  A put takes      *)
(* effect at most once.  One that returns 0 or 1 took effect while it ran, *)
(* and what it returns is the value it replaced; one that returns -1 may   *)
(* take effect later, or never.  A get that returns 0 or 1 saw the value   *)
(* of some moment of its run.  Values come back cut to the caller's buffer.*)
(***************************************************************************)
EXTENDS Integers

CONSTANTS Keys, Values, NoValue, MaxCalls

BufferSize == 2048   \* of the caller's buffer, the final zero included
Fit(v) == [v EXCEPT !.len = IF @ < BufferSize THEN @ ELSE BufferSize - 1]

NoCall   == [id |-> 0]
NoAnswer == [got |-> FALSE]
NoResult == [code |-> 0, val |-> NoValue]
Answer(v) == [got |-> TRUE, val |-> v]

VARIABLES
    store,     \* the value of each key
    open,      \* puts that may still take effect
    running,   \* the call that runs, or NoCall
    answer,    \* what it found, or NoAnswer
    result,    \* what the last call returned, until the next
    count      \* calls made so far

vars == <<store, open, running, answer, result, count>>

Init ==
    /\ store \in [Keys -> {NoValue}] /\ open = {} /\ running = NoCall
    /\ answer = NoAnswer /\ result = NoResult /\ count = 0

Begin(c) ==
    /\ running = NoCall /\ count < MaxCalls
    /\ running' = c /\ count' = c.id
    /\ result' = NoResult
    /\ UNCHANGED <<store, answer>>

BeginGet(k) ==
    /\ Begin([id |-> count + 1, op |-> "get", key |-> k, val |-> NoValue])
    /\ UNCHANGED open

BeginPut(k, v) ==
    LET c == [id |-> count + 1, op |-> "put", key |-> k, val |-> v]
    IN  Begin(c) /\ open' = open \cup {c}

Effect(c) ==
    /\ open' = open \ {c} /\ store' = [store EXCEPT ![c.key] = c.val]
    /\ answer' = IF c = running THEN Answer(store[c.key]) ELSE answer
    /\ UNCHANGED <<running, result, count>>

Look ==
    /\ running # NoCall /\ running.op = "get"
    /\ answer' = Answer(store[running.key])
    /\ UNCHANGED <<store, open, running, result, count>>

Drop(c) ==
    /\ open' = open \ {c}
    /\ UNCHANGED <<store, running, answer, result, count>>

End == running # NoCall /\ running' = NoCall /\ answer' = NoAnswer

Succeed ==
    /\ answer # NoAnswer /\ End
    /\ result' = IF answer.val = NoValue THEN [code |-> 1, val |-> NoValue]
                 ELSE [code |-> 0, val |-> Fit(answer.val)]
    /\ UNCHANGED <<store, open, count>>

Fail ==
    /\ End /\ result' = [code |-> -1, val |-> NoValue]
    /\ open' \in {open, open \ {running}}
    /\ UNCHANGED <<store, count>>

(* Init, shutdown and die return a code and leave the map alone.           *)
OtherCall ==
    /\ running = NoCall
    /\ result' \in {[code |-> n, val |-> NoValue] : n \in {-1, 0}}
    /\ UNCHANGED <<store, open, running, answer, count>>

Next ==
    \/ \E k \in Keys : BeginGet(k) \/ \E v \in Values : BeginPut(k, v)
    \/ \E c \in open : Effect(c) \/ Drop(c)
    \/ Look \/ Succeed \/ Fail \/ OtherCall

Spec == Init /\ [][Next]_vars
=============================================================================
