------------------------ MODULE FollowerCommitProofs ------------------------
(***************************************************************************)
(* What a follower regards as committed is what the cluster has chosen,    *)
(* the rows it applies exist, and its kv_store table holds chosen entries: *)
(* for any number of terms, any length of the logs, any keys and values,   *)
(* and each under the conditions it needs.                                 *)
(*                                                                         *)
(* Aligned is what the handler keeps whatever becomes of the term: the log *)
(* obeys log matching, and the loop has brought it into line with the log  *)
(* of the leader whose request is handled.  It needs deletes that delete.  *)
(* Committing adds that this leader holds every entry that is committed    *)
(* here, so that the loop never deletes one: this needs a term that never  *)
(* falls.  Applying, what applyCommittedEntries keeps, builds on Aligned   *)
(* alone: a request that moves the commit index has just been brought into *)
(* line up to there.                                                       *)
(***************************************************************************)
EXTENDS FollowerNodeProofs

(* The commit index of a request does not run ahead of its entries,        *)
(* deleteLogEntriesFrom deletes, and the term never falls: no restart, no  *)
(* unlocked write of an older value.  TLC shows that CommittedAgrees needs *)
(* each of them.                                                           *)
Healthy == ~SplitSend /\ ~DeleteMayFail /\ ~TermMayFall /\ MaxCrashes = 0

(* As to requests and deletes the same, and the other storage calls do not *)
(* fail either; but the term may fall and the node may crash at any time.  *)
Reliable == ~SplitSend /\ ~DeleteMayFail /\ ~CallsMayFail

(* Some leader up to term T can know that the first c entries are chosen.  *)
KnownBy(T, c) ==
    c = 0 \/ \E u \in 1..Len(leaders) : u <= T /\ c <= Known(u)

(* Where the handler is before the loop, and where after it.               *)
Checking == {"term", "adopt", "check"}
Looped   == {"set", "applied", "target", "apply"}

Aligned ==
    /\ Matches(log, leaders)
    /\ pc \in Checking => req.prevTerm = TermAt(leaders[req.term], req.prev)
    /\ pc = "loop" => Same(log, leaders[req.term], req.prev + i - 1)
    /\ pc = "append" => /\ Len(log) = req.prev + i - 1
                        /\ Same(log, leaders[req.term], Len(log))
    /\ pc \in Looped =>
          Same(log, leaders[req.term], req.prev + Len(req.entries))

Committing ==
    /\ crashes = 0
    /\ KnownBy(currentTerm, commitIndex)
    /\ pc # "idle" => KnownBy(req.term, commitIndex)
    /\ pc \notin {"idle", "term", "adopt"} => req.term <= currentTerm
    /\ Same(log, chosen, commitIndex)
    /\ pc = "apply" => upto <= commitIndex

USE FollowerAssumption DEF cluster, store, elections, raftState, handler,
                           vars
-----------------------------------------------------------------------------
(* Sameness composes, and holds for shorter prefixes.                      *)
LEMMA SameTransitive ==
    ASSUME NEW s \in Seq(Entry), NEW r \in Seq(Entry), NEW q \in Seq(Entry),
           NEW m \in Nat, NEW n \in Nat, Same(s, r, m), Same(r, q, n)
    PROVE  /\ m <= n => Same(s, q, m)
           /\ n <= m => Same(s, q, n)
BY DEF Same

(* A prefix of a log that matches matches.                                 *)
LEMMA PrefixMatches ==
    ASSUME NEW s \in Seq(Entry), NEW ls \in Seq(Seq(Entry)), Matches(s, ls),
           NEW m \in 0..Len(s)
    PROVE  Matches(Prefix(s, m), ls)
<1>1. /\ Prefix(s, m) \in Seq(Entry) /\ Len(Prefix(s, m)) = m
      /\ \A x \in 1..m : Prefix(s, m)[x] = s[x]
  BY PrefixOf
<1>2. \A j \in 1..m : /\ s[j].term \in 1..Len(ls)
                      /\ Same(s, ls[s[j].term], j)
  BY DEF Matches
<1>3. ASSUME NEW j \in 1..m
      PROVE  /\ Prefix(s, m)[j].term \in 1..Len(ls)
             /\ Same(Prefix(s, m), ls[Prefix(s, m)[j].term], j)
  <2>1. Prefix(s, m)[j] = s[j] /\ j <= m
    BY <1>1
  <2>2. ls[s[j].term] \in Seq(Entry)
    BY <1>2
  <2>3. Same(Prefix(s, m), s, m)
    BY <1>1 DEF Same
  <2>4. Same(Prefix(s, m), ls[s[j].term], j)
    BY <2>2, <2>3, <1>1, <1>2, SameTransitive
  <2>. QED BY <2>1, <2>4, <1>2
<1>. QED BY <1>1, <1>3 DEF Matches

(* So does a log that a leader's next entry is appended to, when it is the *)
(* same as the leader's log up to there.                                   *)
LEMMA AppendMatches ==
    ASSUME NEW s \in Seq(Entry), NEW r \in Seq(Entry),
           NEW ls \in Seq(Seq(Entry)), Matches(s, ls), Matches(r, ls),
           Len(s) + 1 <= Len(r), Same(s, r, Len(s))
    PROVE  LET new == Append(s, r[Len(s) + 1])
           IN  Matches(new, ls) /\ Same(new, r, Len(s) + 1)
<1>. DEFINE n == Len(s) + 1
            new == Append(s, r[n])
<1>1. n \in 1..Len(r) /\ r[n] \in Entry /\ n \in Nat
  OBVIOUS
<1>2. /\ new \in Seq(Entry) /\ Len(new) = n /\ new[n] = r[n]
      /\ \A x \in 1..Len(s) : new[x] = s[x]
  BY <1>1
<1>. HIDE DEF new
<1>3. Same(new, r, n)
  <2>1. \A x \in 1..n : x \in 1..Len(s) \/ x = n
    OBVIOUS
  <2>2. \A x \in 1..Len(s) : s[x] = r[x]
    BY DEF Same
  <2>3. \A x \in 1..n : new[x] = r[x]
    BY <2>1, <2>2, <1>2
  <2>. QED BY <2>3, <1>1, <1>2 DEF Same
<1>. HIDE DEF n
<1>4. ASSUME NEW j \in 1..n
      PROVE  new[j].term \in 1..Len(ls) /\ Same(new, ls[new[j].term], j)
  <2>0. j \in 1..Len(r)
    BY <1>1
  <2>1. j \in 1..Len(r) /\ new[j] = r[j]
    BY <2>0, <1>3, Zenon DEF Same
  <2>2. r[j].term \in 1..Len(ls) /\ Same(r, ls[r[j].term], j)
    BY <2>1 DEF Matches
  <2>3. ls[r[j].term] \in Seq(Entry)
    BY <2>2
  <2>4. Same(new, ls[r[j].term], j)
    BY <2>2, <2>3, <1>1, <1>2, <1>3, SameTransitive
  <2>. QED BY <2>1, <2>2, <2>4
<1>5. Matches(new, ls)
  BY <1>2, <1>4 DEF Matches
<1>. QED BY <1>3, <1>5 DEF n, new

(* The leader of term t knows of every entry that is known up to its term  *)
(* and holds it.                                                           *)
LEMMA LeaderHolds ==
    ASSUME Cluster, NEW t \in 1..Len(leaders), NEW c \in Nat, KnownBy(t, c)
    PROVE  c <= Known(t) /\ Same(chosen, leaders[t], c)
<1>1. /\ Known(t) \in Nat /\ leaders[t] \in Seq(Entry) /\ chosen \in Seq(Entry)
      /\ Same(chosen, leaders[t], Known(t))
  BY ClusterTypes DEF Cluster
<1>2. c <= Known(t)
  <2>1. CASE c = 0
    BY <2>1, <1>1
  <2>2. ASSUME NEW u \in 1..Len(leaders), u <= t, c <= Known(u)
        PROVE  c <= Known(t)
    <3>1. Known(u) <= Known(t) /\ Known(u) \in Nat
      <4>1. u \in 1..t
        BY <2>2, ClusterTypes
      <4>. QED BY <4>1, ClusterTypes DEF Cluster
    <3>. QED BY <2>2, <3>1, <1>1
  <2>. QED BY <2>1, <2>2 DEF KnownBy
<1>. QED BY <1>1, <1>2 DEF Same
-----------------------------------------------------------------------------
(* The types of the log and of what it is compared with.                   *)
LEMMA LogTypes ==
    ASSUME Inv
    PROVE  /\ log \in Seq(Entry) /\ Len(log) \in Nat /\ commitIndex \in Nat
           /\ leaders \in Seq(Seq(Entry)) /\ chosen \in Seq(Entry)
           /\ Len(leaders) \in Nat /\ currentTerm \in Nat
           /\ Cluster
BY ClusterTypes DEF Inv, TypeOK

(* What the handler knows of the leader whose request it handles.          *)
LEMMA HandledLeader ==
    ASSUME Inv, pc # "idle"
    PROVE  /\ req.term \in 1..Len(leaders)
           /\ req.prev \in Nat /\ req.commit \in Nat
           /\ Len(req.entries) \in Nat
           /\ leaders[req.term] \in Seq(Entry)
           /\ Len(leaders[req.term]) \in Nat
           /\ Matches(leaders[req.term], leaders)
           /\ req.prev + Len(req.entries) <= Len(leaders[req.term])
           /\ \A j \in 1..Len(req.entries) :
                 req.entries[j] = leaders[req.term][req.prev + j]
<1>1. SliceOf(req) /\ Cluster
  BY DEF Inv, Running
<1>2. req.term \in 1..Len(leaders)
  BY <1>1 DEF SliceOf
<1>. QED BY <1>1, <1>2, ClusterTypes, SMTT(30) DEF SliceOf, Cluster

(* Where the leader has the j-th entry of its request.                     *)
LEMMA EntryOfLeader ==
    ASSUME Inv, pc # "idle", NEW j \in 1..Len(req.entries)
    PROVE  /\ req.prev + j \in 1..Len(leaders[req.term])
           /\ req.entries[j] = leaders[req.term][req.prev + j]
<1>1. req.entries[j] = leaders[req.term][req.prev + j]
  BY HandledLeader
<1>2. /\ req.prev \in Nat /\ Len(req.entries) \in Nat
      /\ Len(leaders[req.term]) \in Nat
      /\ req.prev + Len(req.entries) <= Len(leaders[req.term])
  BY HandledLeader
<1>3. req.prev + j \in 1..Len(leaders[req.term])
  BY <1>2, SMTT(30)
<1>. QED BY <1>1, <1>3

-----------------------------------------------------------------------------
(* The log and the leaders' logs.                                          *)

(* Initially the log is empty.                                             *)
LEMMA InitAligned == Init => Aligned
BY DEF Init, Aligned, Matches, Checking, Looped

(* What is the same as a leader's log stays so while that log grows.       *)
LEMMA SameGrows ==
    ASSUME Inv, Grows, NEW t \in 1..Len(leaders), NEW m \in Nat,
           Same(log, leaders[t], m)
    PROVE  Same(log, leaders'[t], m)
<1>1. Same(leaders[t], leaders'[t], Len(leaders[t]))
  BY DEF Grows
<1>2. leaders' \in Seq(Seq(Entry)) /\ Len(leaders) <= Len(leaders')
  BY DEF Grows
<1>3. /\ leaders[t] \in Seq(Entry) /\ leaders'[t] \in Seq(Entry)
      /\ Len(leaders[t]) \in Nat
  BY <1>2, LogTypes, SMTT(30)
<1>4. m <= Len(leaders[t])
  BY DEF Same
<1>. QED BY <1>1, <1>3, <1>4, LogTypes, SameTransitive

(* Elections, appends and choices elsewhere in the cluster.                *)
LEMMA ClusterStepAligned ==
    ASSUME Inv, Aligned, ClusterStep
    PROVE  Aligned'
<1>1. /\ Grows /\ Cluster
      /\ UNCHANGED <<store, raftState, handler, crashes>>
  BY ClusterKeeps DEF Inv
<1>2. Matches(log, leaders')
  BY <1>1, LogTypes, MatchesStays DEF Aligned
<1>3. pc \in Checking => req.prevTerm = TermAt(leaders'[req.term], req.prev)
  <2>. SUFFICES ASSUME pc \in Checking, req.prev > 0
                PROVE  /\ req.prev \in 1..Len(leaders[req.term])
                       /\ leaders'[req.term][req.prev] =
                             leaders[req.term][req.prev]
    BY <1>1 DEF Aligned, TermAt
  <2>1. pc # "idle"
    BY DEF Checking
  <2>2. req.prev \in 1..Len(leaders[req.term])
    BY <2>1, HandledLeader
  <2>3. Same(leaders[req.term], leaders'[req.term], Len(leaders[req.term]))
    BY <2>1, <1>1, HandledLeader DEF Grows
  <2>. QED BY <2>2, <2>3 DEF Same
<1>4. /\ pc = "loop" => Same(log, leaders'[req.term], req.prev + i - 1)
      /\ pc = "append" => Same(log, leaders'[req.term], Len(log))
      /\ pc \in Looped =>
            Same(log, leaders'[req.term], req.prev + Len(req.entries))
  <2>1. CASE pc = "loop"
    <3>1. req.prev + i - 1 \in Nat
      BY <2>1, HandledLeader DEF Inv, Running
    <3>. QED BY <2>1, <3>1, <1>1, SameGrows, HandledLeader DEF Aligned, Looped
  <2>2. CASE pc = "append"
    BY <2>2, <1>1, SameGrows, HandledLeader, LogTypes DEF Aligned, Looped
  <2>3. CASE pc \in Looped
    <3>1. pc # "idle" /\ pc # "loop" /\ pc # "append"
      BY <2>3 DEF Looped
    <3>2. req.prev + Len(req.entries) \in Nat /\ req.term \in 1..Len(leaders)
      BY <3>1, HandledLeader
    <3>. QED BY <2>3, <3>1, <3>2, <1>1, SameGrows DEF Aligned
  <2>. QED BY <2>1, <2>2, <2>3
<1>. QED BY <1>1, <1>2, <1>3, <1>4 DEF Aligned

(* A request arrives with the term its leader has at prevLogIndex.         *)
LEMMA ReceiveAligned ==
    ASSUME Inv, Aligned, NEW r, Arrives(r), Receive(r)
    PROVE  Aligned'
<1>1. UNCHANGED <<cluster, store>> /\ pc' = "term" /\ req' = r
  BY DEF Receive
<1>2. r.prevTerm = TermAt(leaders[r.term], r.prev)
  BY ArrivesSlice DEF Inv
<1>. QED BY <1>1, <1>2 DEF Aligned, Checking, Looped

(* The consistency check: by log matching the log is the same as the       *)
(* leader's up to prevLogIndex.                                            *)
LEMMA CheckAligned ==
    ASSUME Inv, Aligned, SeeNewer \/ Adopt \/ CheckPrev
    PROVE  Aligned'
<1>1. UNCHANGED <<cluster, store>> /\ pc \in Checking /\ pc # "idle"
  BY DEF SeeNewer, Adopt, CheckPrev, Checking
<1>2. CASE pc' \in {"adopt", "check"} /\ req' = req
  BY <1>1, <1>2 DEF Aligned, Checking, Looped
<1>3. CASE pc' = "idle"
  BY <1>1, <1>3 DEF Aligned, Checking, Looped
<1>4. CASE /\ pc' = "loop" /\ i' = 1 /\ req' = req
           /\ PrevMatches(log, req.prev, req.prevTerm)
  <2>1. /\ req.term \in 1..Len(leaders) /\ req.prev \in Nat
        /\ leaders[req.term] \in Seq(Entry)
        /\ Matches(leaders[req.term], leaders)
        /\ Len(leaders[req.term]) \in Nat
    BY <1>1, HandledLeader
  <2>2. req.prev <= Len(leaders[req.term])
    <3>1. /\ Len(req.entries) \in Nat
          /\ req.prev + Len(req.entries) <= Len(leaders[req.term])
      BY <1>1, HandledLeader
    <3>. QED BY <2>1, <3>1
  <2>3. Same(log, leaders[req.term], req.prev)
    <3>1. CASE req.prev = 0
      BY <2>1, <3>1, LogTypes DEF Same
    <3>2. CASE req.prev # 0
      <4>1. /\ req.prev \in 1..Len(log)
            /\ log[req.prev].term = leaders[req.term][req.prev].term
        BY <1>1, <1>4, <2>1, <3>2, LogTypes DEF Aligned, PrevMatches, TermAt
      <4>. QED BY <2>1, <2>2, <4>1, LogTypes, LogMatching DEF Aligned
    <3>. QED BY <3>1, <3>2
  <2>4. req.prev + i' - 1 = req.prev
    BY <1>4, <2>1
  <2>5. Same(log, leaders[req.term], req.prev + i - 1)'
    BY <1>1, <1>4, <2>3, <2>4
  <2>. QED BY <1>1, <1>4, <2>5 DEF Aligned, Checking, Looped
<1>. QED BY <1>2, <1>3, <1>4 DEF SeeNewer, Adopt, CheckPrev, Idle

(* An entry of the request's term at its place: log matching extends the   *)
(* agreement with the leader's log by one.                                 *)
LEMMA SkipAligned ==
    ASSUME Inv, Aligned, SkipEntry
    PROVE  Aligned'
<1>1. /\ pc = "loop" /\ UNCHANGED <<cluster, store, pc, req>>
      /\ i' = i + 1
      /\ i \in 1..Len(req.entries) /\ Len(log) >= req.prev + i
      /\ log[req.prev + i].term = req.entries[i].term
  BY DEF SkipEntry, Inv, Running, Index
<1>2. /\ req.prev + i \in 1..Len(log)
      /\ req.prev + i <= Len(leaders[req.term])
      /\ req.entries[i] = leaders[req.term][req.prev + i]
  <2>1. /\ req.prev + i \in 1..Len(leaders[req.term])
        /\ req.entries[i] = leaders[req.term][req.prev + i]
    BY <1>1, EntryOfLeader
  <2>. QED BY <2>1, <1>1, LogTypes
<1>3. Same(log, leaders[req.term], req.prev + i)
  BY <1>1, <1>2, HandledLeader, LogTypes, LogMatching DEF Aligned
<1>4. req.prev + i' - 1 = req.prev + i
  BY <1>1, HandledLeader
<1>5. Same(log, leaders[req.term], req.prev + i - 1)'
  BY <1>1, <1>3, <1>4
<1>. QED BY <1>1, <1>5 DEF Aligned, Checking, Looped

(* What a delete does: the log ends before the first row that differs from *)
(* the leader's.                                                           *)
LEMMA DeleteCuts ==
    ASSUME Inv, DeleteConflict, ~DeleteMayFail
    PROVE  /\ pc = "loop" /\ pc' = "append" /\ UNCHANGED <<req, i>>
           /\ req.prev + i \in 1..Len(log)
           /\ req.prev + i - 1 \in 0..Len(log)
           /\ log' = Prefix(log, req.prev + i - 1)
           /\ log' \in Seq(Entry) /\ Len(log') = req.prev + i - 1
           /\ Same(log', log, req.prev + i - 1)
           /\ log[req.prev + i].term # leaders[req.term][req.prev + i].term
<1>. DEFINE at == req.prev + i
<1>1. /\ pc = "loop" /\ pc' = "append" /\ UNCHANGED <<req, i>>
      /\ i \in 1..Len(req.entries) /\ Len(log) >= at
      /\ log[at].term # req.entries[i].term
  BY DEF DeleteConflict, Inv, Running, Index
<1>2. /\ at \in 1..Len(leaders[req.term])
      /\ req.entries[i] = leaders[req.term][at]
  BY <1>1, EntryOfLeader
<1>3. Index = at /\ req.prev + i - 1 = at - 1
  BY <1>1, HandledLeader DEF Index
<1>4. at \in 1..Len(log) /\ at - 1 \in 0..Len(log)
  BY <1>1, <1>2, LogTypes, SMTT(30)
<1>5. log' = Prefix(log, at - 1)
  <2>1. log' = Prefix(log, Index - 1)
    BY Zenon DEF DeleteConflict
  <2>. QED BY <2>1, <1>3, Zenon
<1>. HIDE DEF at
<1>6. /\ log' \in Seq(Entry) /\ Len(log') = at - 1
      /\ \A x \in 1..at - 1 : log'[x] = log[x]
  BY <1>4, <1>5, LogTypes, PrefixOf
<1>7. Same(log', log, at - 1)
  BY <1>4, <1>6, LogTypes DEF Same
<1>. QED BY <1>1, <1>2, <1>3, <1>4, <1>5, <1>6, <1>7 DEF at

(* A prefix of a log that matches still matches.                           *)
LEMMA DeleteAligned ==
    ASSUME Inv, Aligned, DeleteConflict, ~DeleteMayFail
    PROVE  Aligned'
<1>. DEFINE m == req.prev + i - 1
<1>1. /\ pc = "loop" /\ pc' = "append" /\ UNCHANGED <<req, i>>
      /\ m \in 0..Len(log) /\ log' = Prefix(log, m)
      /\ log' \in Seq(Entry) /\ Len(log') = m /\ Same(log', log, m)
  BY DeleteCuts
<1>2. UNCHANGED cluster
  BY DEF DeleteConflict
<1>3. Matches(log', leaders)
  BY <1>1, LogTypes, PrefixMatches DEF Aligned
<1>4. Same(log', leaders[req.term], m)
  <2>1. Same(log, leaders[req.term], m) /\ m \in Nat /\ m <= m
    BY <1>1, LogTypes DEF Aligned
  <2>2. leaders[req.term] \in Seq(Entry)
    BY <1>1, HandledLeader
  <2>. QED BY <2>1, <2>2, <1>1, LogTypes, SameTransitive
<1>. QED BY <1>1, <1>2, <1>3, <1>4 DEF Aligned, Checking, Looped

(* An entry is only ever appended where the leader has it.                 *)
LEMMA AppendedAligned ==
    ASSUME Inv, Aligned, Appending
    PROVE  LET new == Append(log, req.entries[i])
           IN  /\ Matches(new, leaders) /\ new \in Seq(Entry)
               /\ Same(new, leaders[req.term], req.prev + i)
               /\ Same(log, new, Len(log))
<1>. DEFINE n == Len(log) + 1
            lead == leaders[req.term]
            new == Append(log, req.entries[i])
<1>1. /\ pc \in {"loop", "append"} /\ i \in 1..Len(req.entries)
      /\ pc = "loop" => Len(log) < req.prev + i
      /\ new \in Seq(Entry) /\ req.entries[i] \in Entry
  BY AppendingTypes DEF Appending, Index
<1>2. /\ req.prev \in Nat /\ lead \in Seq(Entry) /\ Len(lead) \in Nat
      /\ Matches(lead, leaders) /\ Len(req.entries) \in Nat
      /\ req.prev + i <= Len(lead) /\ req.entries[i] = lead[req.prev + i]
  <2>1. /\ req.prev + i \in 1..Len(leaders[req.term])
        /\ req.entries[i] = leaders[req.term][req.prev + i]
    BY <1>1, EntryOfLeader
  <2>2. /\ req.prev \in Nat /\ lead \in Seq(Entry) /\ Len(lead) \in Nat
        /\ Matches(lead, leaders) /\ Len(req.entries) \in Nat
    BY <1>1, HandledLeader
  <2>. QED BY <2>1, <2>2
<1>3. /\ Same(log, lead, Len(log)) /\ n = req.prev + i
  <2>1. CASE pc = "append"
    <3>1. Len(log) = req.prev + i - 1 /\ Same(log, lead, Len(log))
      BY <2>1 DEF Aligned
    <3>. QED BY <3>1, <1>1, <1>2, LogTypes, SMTT(30)
  <2>2. CASE pc = "loop"
    <3>1. Same(log, lead, req.prev + i - 1) /\ Len(log) < req.prev + i
      BY <2>2, <1>1 DEF Aligned
    <3>2. req.prev + i - 1 <= Len(log)
      BY <3>1 DEF Same
    <3>3. Len(log) \in Nat /\ req.prev \in Nat /\ i \in Nat
      BY <1>1, <1>2, LogTypes
    <3>4. req.prev + i - 1 = Len(log) /\ n = req.prev + i
      BY <3>1, <3>2, <3>3
    <3>. QED BY <3>1, <3>4
  <2>. QED BY <1>1, <2>1, <2>2
<1>4. new = Append(log, lead[n]) /\ n <= Len(lead)
  BY <1>1, <1>2, <1>3
<1>5. Matches(new, leaders) /\ Same(new, lead, n)
  BY <1>2, <1>3, <1>4, LogTypes, AppendMatches DEF Aligned
<1>6. Same(log, new, Len(log))
  BY <1>1, LogTypes DEF Same
<1>. QED BY <1>1, <1>3, <1>5, <1>6

(* The loop goes on behind the appended entry.                             *)
LEMMA AppendAligned ==
    ASSUME Inv, Aligned, AppendEntry
    PROVE  Aligned'
<1>1. /\ Appending /\ pc' = "loop" /\ i' = i + 1 /\ UNCHANGED <<cluster, req>>
      /\ log' = Append(log, req.entries[i])
  BY DEF AppendEntry
<1>2. Matches(log', leaders) /\ Same(log', leaders[req.term], req.prev + i)
  BY <1>1, AppendedAligned
<1>3. req.prev + i' - 1 = req.prev + i
  BY <1>1, HandledLeader, AppendingTypes
<1>. QED BY <1>1, <1>2, <1>3 DEF Aligned, Checking, Looped

(* The statements after the loop, and the ways out of the handler.         *)
LEMMA RestAligned ==
    ASSUME Inv, Aligned,
           \/ Abort \/ TestCommit \/ SetCommit \/ ReadApplied \/ ReadTarget
           \/ ApplyEntry \/ ApplyDone \/ Elections \/ Crash \/ UNCHANGED vars
    PROVE  Aligned'
<1>1. UNCHANGED cluster
  BY DEF Abort, TestCommit, SetCommit, ReadApplied, ReadTarget, ApplyEntry,
         ApplyDone, Elections, Crash
<1>2. CASE Abort
  <2>1. pc' = "idle" /\ (log' = log \/
           (Appending /\ log' = Append(log, req.entries[i])))
    BY <1>2 DEF Abort, Idle
  <2>2. Matches(log', leaders)
    BY <2>1, AppendedAligned DEF Aligned
  <2>. QED BY <1>1, <2>1, <2>2 DEF Aligned, Checking, Looped
<1>3. CASE TestCommit
  <2>1. CASE pc' = "set" /\ req' = req
    <3>1. i = Len(req.entries) + 1 /\ pc = "loop"
      BY <1>3, HandledLeader DEF TestCommit, Inv, Running
    <3>2. req.prev + i - 1 = req.prev + Len(req.entries)
      BY <3>1, HandledLeader
    <3>3. Same(log, leaders[req.term], req.prev + Len(req.entries))
      BY <3>1, <3>2 DEF Aligned
    <3>4. log' = log
      BY <1>3 DEF TestCommit
    <3>. QED BY <1>1, <2>1, <3>3, <3>4 DEF Aligned, Checking, Looped
  <2>2. CASE pc' = "idle"
    BY <1>1, <1>3, <2>2 DEF TestCommit, Aligned, Checking, Looped
  <2>. QED BY <1>3, <2>1, <2>2 DEF TestCommit, Idle
<1>4. CASE SetCommit \/ ReadApplied \/ ReadTarget \/ ApplyEntry
  <2>1. /\ pc \in Looped /\ pc' \in Looped /\ UNCHANGED <<log, req>>
    BY <1>4 DEF SetCommit, ReadApplied, ReadTarget, ApplyEntry, Looped
  <2>. QED BY <1>1, <2>1 DEF Aligned, Checking, Looped
<1>5. CASE ApplyDone \/ Crash
  <2>1. pc' = "idle" /\ log' = log
    BY <1>5 DEF ApplyDone, Crash, Idle
  <2>. QED BY <1>1, <2>1 DEF Aligned, Checking, Looped
<1>6. CASE Elections \/ UNCHANGED vars
  <2>1. UNCHANGED <<log, pc, req, i>>
    BY <1>6 DEF Elections
  <2>. QED BY <1>1, <2>1 DEF Aligned
<1>. QED BY <1>2, <1>3, <1>4, <1>5, <1>6

(* Every step, when deletes do not fail.                                   *)
LEMMA NextAligned ==
    ASSUME ~DeleteMayFail, Inv, Aligned, [Next]_vars
    PROVE  Aligned'
<1>1. CASE Handle
  BY <1>1, CheckAligned, SkipAligned, DeleteAligned, AppendAligned,
     RestAligned DEF Handle
<1>. QED BY <1>1, StepCases, ClusterStepAligned, ReceiveAligned, RestAligned
-----------------------------------------------------------------------------
(* The commit index, when the term does not fall.                          *)

(* Initially nothing is committed.                                         *)
LEMMA InitCommitting == Init => Committing
BY DEF Init, Committing, Same, KnownBy

(* A later term is no obstacle.                                            *)
LEMMA KnownLater ==
    ASSUME NEW T \in Nat, NEW U \in Nat, T <= U, NEW c, KnownBy(T, c),
           Len(leaders) \in Nat
    PROVE  KnownBy(U, c)
BY DEF KnownBy

(* What is known stays known.                                              *)
LEMMA KnownGrows ==
    ASSUME Inv, Cluster', Grows, NEW T \in Nat, NEW c \in Nat, KnownBy(T, c)
    PROVE  c = 0 \/ \E u \in 1..Len(leaders') : u <= T /\ c <= Known(u)'
<1>1. /\ leaders' \in Seq(Seq(Entry)) /\ chosen' \in Seq(Entry)
      /\ Len(leaders) <= Len(leaders') /\ Len(leaders') \in Nat
  BY DEF Cluster, Grows
<1>2. CASE c = 0
  BY <1>2
<1>3. ASSUME NEW u \in 1..Len(leaders), u <= T, c <= Known(u)
      PROVE  u \in 1..Len(leaders') /\ u <= T /\ c <= Known(u)'
  <2>1. u \in 1..Len(leaders')
    BY <1>1, LogTypes
  <2>2. Known(u) <= Known(u)' /\ Known(u) \in Nat
    BY <1>1, LogTypes, ClusterTypes DEF Grows
  <2>3. Known(u)' \in Nat
    <3>1. /\ floors' \in Seq(Nat) /\ Len(floors') = Len(leaders')
          /\ chosen' \in Seq(Entry)
      BY DEF Cluster
    <3>. QED BY <2>1, <3>1, <1>1, SMTT(30) DEF Known
  <2>. QED BY <1>3, <2>1, <2>2, <2>3
<1>. QED BY <1>2, <1>3 DEF KnownBy

(* Elections, appends and choices elsewhere in the cluster leave what this *)
(* node has committed chosen.                                              *)
LEMMA ClusterStepCommits ==
    ASSUME Inv, Committing, ClusterStep
    PROVE  Committing'
<1>1. /\ Cluster' /\ Grows
      /\ UNCHANGED <<store, raftState, handler, crashes>>
  BY ClusterKeeps DEF Inv
<1>2. Same(log, chosen', commitIndex)
  <2>1. Same(log, chosen, commitIndex) /\ Same(chosen, chosen', Len(chosen))
    BY <1>1 DEF Committing, Grows
  <2>2. commitIndex <= Len(chosen) /\ Len(chosen) \in Nat
    BY <2>1, LogTypes DEF Same
  <2>3. chosen' \in Seq(Entry)
    BY <1>1 DEF Cluster
  <2>. QED BY <2>1, <2>2, <2>3, LogTypes, SameTransitive
<1>3. KnownBy(currentTerm, commitIndex)'
  BY <1>1, KnownGrows, LogTypes DEF Committing, KnownBy
<1>4. pc # "idle" => KnownBy(req.term, commitIndex)'
  <2>. SUFFICES ASSUME pc # "idle" PROVE KnownBy(req.term, commitIndex)'
    OBVIOUS
  <2>1. req.term \in Nat /\ KnownBy(req.term, commitIndex)
    BY HandledLeader, LogTypes DEF Committing
  <2>. QED BY <1>1, <2>1, KnownGrows, LogTypes DEF KnownBy
<1>. QED BY <1>1, <1>2, <1>3, <1>4 DEF Committing

(* A step that leaves the cluster and the commit index alone, does not     *)
(* lower the term and keeps the committed rows.                            *)
LEMMA StillCommits ==
    ASSUME Inv, Committing, UNCHANGED <<cluster, commitIndex, crashes>>,
           currentTerm' \in Nat, currentTerm <= currentTerm',
           Same(log', chosen, commitIndex),
           \/ pc' = "idle"
           \/ /\ pc # "idle" /\ req' = req
              /\ pc' \notin {"term", "adopt"} => req.term <= currentTerm'
              /\ pc' = "apply" => upto' <= commitIndex
    PROVE  Committing'
<1>1. KnownBy(currentTerm', commitIndex)
  BY KnownLater, LogTypes DEF Committing
<1>2. KnownBy(currentTerm, commitIndex)' /\ Same(log, chosen, commitIndex)'
  BY <1>1 DEF KnownBy, Known
<1>3. CASE pc' = "idle"
  BY <1>2, <1>3 DEF Committing
<1>4. CASE /\ pc # "idle" /\ req' = req
           /\ pc' \notin {"term", "adopt"} => req.term <= currentTerm'
           /\ pc' = "apply" => upto' <= commitIndex
  <2>1. KnownBy(req.term, commitIndex)
    BY <1>4 DEF Committing
  <2>2. KnownBy(req.term, commitIndex)'
    BY <1>4, <2>1 DEF KnownBy, Known
  <2>. QED BY <1>2, <1>4, <2>2 DEF Committing
<1>. QED BY <1>3, <1>4

(* A request that is let in comes from a leader that knows what is         *)
(* committed here.                                                         *)
LEMMA ReceiveCommits ==
    ASSUME Inv, Committing, NEW r, Arrives(r), Receive(r)
    PROVE  Committing'
<1>1. /\ UNCHANGED <<cluster, store, currentTerm, crashes>>
      /\ pc' = "term" /\ req' = r /\ r.term >= currentTerm
  BY DEF Receive
<1>2. r.term \in Nat
  BY ArrivesSlice, LogTypes DEF Inv, SliceOf
<1>3. KnownBy(r.term, commitIndex)
  BY <1>1, <1>2, LogTypes, KnownLater DEF Committing
<1>. QED BY <1>1, <1>3 DEF Committing, KnownBy, Known

(* Up to the loop: the handler goes on in a term that is not below the     *)
(* request's.                                                              *)
LEMMA CheckCommits ==
    ASSUME Inv, Committing, ~TermMayFall, SeeNewer \/ Adopt \/ CheckPrev
    PROVE  Committing'
<1>1. UNCHANGED <<cluster, store, crashes>> /\ pc # "idle"
  BY DEF SeeNewer, Adopt, CheckPrev
<1>2. req.term \in Nat /\ currentTerm \in Nat
  BY <1>1, HandledLeader, LogTypes
<1>3. /\ currentTerm' \in Nat /\ currentTerm <= currentTerm'
      /\ pc' # "apply"
      /\ \/ pc' = "idle"
         \/ pc' = "adopt" /\ req' = req
         \/ req' = req /\ req.term <= currentTerm'
  <2>1. CASE SeeNewer
    BY <2>1, <1>2 DEF SeeNewer
  <2>2. CASE Adopt
    BY <2>2, <1>2 DEF Adopt
  <2>3. CASE CheckPrev
    <3>1. req.term <= currentTerm
      BY <2>3 DEF CheckPrev, Committing
    <3>. QED BY <2>3, <3>1, <1>2 DEF CheckPrev, Idle
  <2>. QED BY <2>1, <2>2, <2>3
<1>4. Same(log', chosen, commitIndex)
  BY <1>1 DEF Committing
<1>. QED BY <1>1, <1>3, <1>4, StillCommits

(* A row that is deleted lies above commitIndex: up to there the leader's  *)
(* log, the chosen entries and this log are the same.                      *)
LEMMA DeleteCommits ==
    ASSUME Inv, Committing, DeleteConflict, ~DeleteMayFail
    PROVE  Committing'
<1>. DEFINE at == req.prev + i
<1>1. /\ pc = "loop" /\ pc' = "append" /\ UNCHANGED <<req, i>>
      /\ at \in 1..Len(log) /\ at - 1 \in 0..Len(log)
      /\ log' \in Seq(Entry) /\ Same(log', log, at - 1)
      /\ log[at].term # leaders[req.term][at].term
  <2>1. pc = "loop" /\ i \in Nat /\ req.prev \in Nat
    BY DeleteCuts, HandledLeader DEF Inv, Running
  <2>2. at - 1 = req.prev + i - 1
    BY <2>1
  <2>. QED BY <2>2, DeleteCuts, Zenon
<1>. HIDE DEF at
<1>2. commitIndex < at
  <2>. SUFFICES ASSUME at <= commitIndex PROVE FALSE
    BY <1>1, LogTypes
  <2>1. Same(chosen, leaders[req.term], commitIndex)
    BY <1>1, HandledLeader, LeaderHolds, LogTypes DEF Committing
  <2>2. at \in 1..commitIndex
    BY <1>1, LogTypes
  <2>3. log[at] = chosen[at] /\ chosen[at] = leaders[req.term][at]
    BY <2>1, <2>2 DEF Committing, Same
  <2>. QED BY <2>3, <1>1
<1>3. at - 1 \in Nat /\ commitIndex <= at - 1
  BY <1>1, <1>2, LogTypes
<1>4. Same(log', chosen, commitIndex)
  BY <1>1, <1>3, LogTypes, SameTransitive DEF Committing
<1>5. /\ UNCHANGED <<cluster, commitIndex, crashes, currentTerm>>
      /\ currentTerm <= currentTerm
  BY LogTypes DEF DeleteConflict
<1>. QED BY <1>1, <1>4, <1>5, LogTypes, StillCommits DEF Committing

(* An entry that is there already is skipped, one that is missing is       *)
(* appended behind the committed rows, and an exception changes nothing    *)
(* else.                                                                   *)
LEMMA LoopCommits ==
    ASSUME Inv, Aligned, Committing, SkipEntry \/ AppendEntry \/ Abort
    PROVE  Committing'
<1>1. /\ UNCHANGED <<cluster, commitIndex, crashes, currentTerm>>
      /\ currentTerm <= currentTerm
  BY LogTypes DEF SkipEntry, AppendEntry, Abort
<1>2. log' = log \/ (Appending /\ log' = Append(log, req.entries[i]))
  BY DEF SkipEntry, AppendEntry, Abort
<1>3. Same(log', chosen, commitIndex)
  <2>1. CASE log' = log
    BY <2>1 DEF Committing
  <2>2. CASE Appending /\ log' = Append(log, req.entries[i])
    <3>1. Same(log, log', Len(log)) /\ log' \in Seq(Entry)
      BY <2>2, AppendedAligned
    <3>2. Same(log, chosen, commitIndex)
      BY DEF Committing
    <3>3. \A x \in 1..commitIndex : x \in 1..Len(log)
      BY <3>2, LogTypes DEF Same
    <3>. QED BY <3>1, <3>2, <3>3, LogTypes DEF Same
  <2>. QED BY <1>2, <2>1, <2>2
<1>4. \/ pc' = "idle"
      \/ pc \in {"loop", "append"} /\ pc' = "loop" /\ req' = req
  BY AppendingTypes DEF SkipEntry, AppendEntry, Abort, Idle
<1>. QED BY <1>1, <1>3, <1>4, LogTypes, StillCommits DEF Committing

(* The new commit index covers only entries of the request's leader that   *)
(* the loop has brought into line and that the leader knows to be chosen.  *)
LEMMA NewCommit ==
    ASSUME Inv, Aligned, SetCommit, ~SplitSend
    PROVE  /\ Smaller(req.commit, Len(log)) = req.commit
           /\ KnownBy(req.term, req.commit)
           /\ Same(log, chosen, req.commit)
<1>1. pc = "set" /\ pc # "idle"
  BY DEF SetCommit
<1>2. /\ req.commit \in Nat /\ req.commit <= Known(req.term)
      /\ req.commit <= req.prev + Len(req.entries)
  BY <1>1 DEF Inv, Running, SliceOf
<1>3. Same(log, leaders[req.term], req.prev + Len(req.entries))
  BY <1>1 DEF Aligned, Looped
<1>4. /\ req.term \in 1..Len(leaders) /\ req.term <= req.term
      /\ req.prev + Len(req.entries) \in Nat
      /\ leaders[req.term] \in Seq(Entry)
  BY <1>1, HandledLeader
<1>5. req.commit <= Len(log)
  BY <1>2, <1>3, <1>4, LogTypes DEF Same
<1>6. KnownBy(req.term, req.commit)
  BY <1>2, <1>4 DEF KnownBy
<1>7. Same(chosen, leaders[req.term], req.commit)
  BY <1>2, <1>4, <1>6, LeaderHolds, LogTypes
<1>8. Same(log, chosen, req.commit)
  <2>1. \A x \in 1..req.commit : x \in 1..req.prev + Len(req.entries)
    BY <1>2, <1>4
  <2>. QED BY <2>1, <1>2, <1>3, <1>5, <1>7 DEF Same
<1>. QED BY <1>5, <1>6, <1>8 DEF Smaller

(* setCommitIndex, whether it succeeds or not.                             *)
LEMMA SetCommitCommits ==
    ASSUME Inv, Aligned, Committing, SetCommit, ~SplitSend
    PROVE  Committing'
<1>1. /\ pc = "set" /\ pc' = "applied" /\ req' = req /\ log' = log
      /\ UNCHANGED <<cluster, currentTerm, crashes>>
      /\ req.term <= currentTerm /\ req.term \in Nat
  BY HandledLeader DEF SetCommit, Committing
<1>2. commitIndex' = commitIndex \/ commitIndex' = req.commit
  BY NewCommit DEF SetCommit, Writes
<1>3. CASE commitIndex' = commitIndex
  <2>1. currentTerm <= currentTerm
    BY LogTypes
  <2>. QED BY <1>1, <1>3, <2>1, LogTypes, StillCommits DEF Committing
<1>4. CASE commitIndex' = req.commit
  <2>1. KnownBy(req.term, req.commit) /\ KnownBy(currentTerm, req.commit)
    BY <1>1, NewCommit, KnownLater, LogTypes
  <2>2. /\ KnownBy(req.term, commitIndex)'
        /\ KnownBy(currentTerm, commitIndex)'
        /\ Same(log, chosen, commitIndex)'
    BY <1>1, <1>4, <2>1, NewCommit DEF KnownBy, Known
  <2>. QED BY <1>1, <2>2 DEF Committing
<1>. QED BY <1>2, <1>3, <1>4

(* The other steps touch neither the log nor the commit index.             *)
LEMMA RestCommits ==
    ASSUME Inv, Committing, ~TermMayFall, MaxCrashes = 0,
           \/ TestCommit \/ ReadApplied \/ ReadTarget \/ ApplyEntry
           \/ ApplyDone \/ Elections \/ Crash \/ UNCHANGED vars
    PROVE  Committing'
<1>1. ~Crash
  BY DEF Crash, Committing
<1>2. /\ UNCHANGED <<cluster, log, commitIndex, crashes>>
      /\ Same(log', chosen, commitIndex)
  BY <1>1 DEF TestCommit, ReadApplied, ReadTarget, ApplyEntry, ApplyDone,
              Elections, Committing
<1>3. currentTerm' \in Nat /\ currentTerm <= currentTerm'
  <2>1. CASE Elections
    BY <2>1, LogTypes, ElectionsTyped DEF Elections, Inv, TypeOK
  <2>2. CASE currentTerm' = currentTerm
    BY <2>2, LogTypes
  <2>. QED BY <1>1, <2>1, <2>2 DEF TestCommit, ReadApplied, ReadTarget,
                                 ApplyEntry, ApplyDone
<1>4. CASE Elections \/ UNCHANGED vars
  <2>1. UNCHANGED handler
    BY <1>4 DEF Elections
  <2>2. pc \notin {"idle", "term", "adopt"} => req.term <= currentTerm'
    <3>. SUFFICES ASSUME pc \notin {"idle", "term", "adopt"}
                  PROVE  req.term <= currentTerm'
      OBVIOUS
    <3>1. req.term <= currentTerm /\ req.term \in Nat
      BY HandledLeader, LogTypes DEF Committing
    <3>. QED BY <3>1, <1>3, LogTypes
  <2>. QED BY <1>2, <1>3, <2>1, <2>2, StillCommits DEF Committing
<1>5. CASE \/ TestCommit \/ ReadApplied \/ ReadTarget \/ ApplyEntry
           \/ ApplyDone
  <2>1. currentTerm' = currentTerm
    BY <1>5 DEF TestCommit, ReadApplied, ReadTarget, ApplyEntry, ApplyDone
  <2>2. \/ pc' = "idle"
        \/ /\ pc \in {"loop", "applied", "target", "apply"} /\ req' = req
           /\ pc' = "apply" => upto' <= commitIndex
    <3>1. CASE ReadTarget
      <4>1. upto' = commitIndex \/ upto' = 0
        BY <3>1 DEF ReadTarget, Reads
      <4>. QED BY <3>1, <4>1, LogTypes DEF ReadTarget
    <3>2. CASE ApplyEntry
      BY <3>2 DEF ApplyEntry, Committing
    <3>3. CASE TestCommit
      BY <3>3 DEF TestCommit, Idle
    <3>4. CASE ReadApplied \/ ApplyDone
      BY <3>4 DEF ReadApplied, ApplyDone, Idle
    <3>. QED BY <1>5, <3>1, <3>2, <3>3, <3>4
  <2>. QED BY <1>2, <1>3, <2>1, <2>2, StillCommits DEF Committing
<1>. QED BY <1>1, <1>4, <1>5

(* Every step, in a healthy node.                                          *)
LEMMA NextCommits ==
    ASSUME Healthy, Inv, Aligned, Committing, [Next]_vars
    PROVE  Committing'
<1>1. CASE ClusterStep
  BY <1>1, ClusterStepCommits
<1>2. CASE \E r : Arrives(r) /\ Receive(r)
  BY <1>2, ReceiveCommits
<1>3. CASE Handle
  BY <1>3, CheckCommits, DeleteCommits, LoopCommits, SetCommitCommits,
     RestCommits DEF Handle, Healthy
<1>4. CASE Elections \/ Crash \/ UNCHANGED vars
  BY <1>4, RestCommits DEF Healthy
<1>. QED BY <1>1, <1>2, <1>3, <1>4, StepCases

(* Whichever old, repeated or overtaken requests appendEntries handles and *)
(* whichever other storage calls fail, the rows up to commitIndex are      *)
(* there and are what the cluster chose: a follower never deletes a        *)
(* committed row and never commits another one, as long as its term does   *)
(* not fall, its deletes succeed and requests are read at one time.        *)
THEOREM CommittedIsChosen == Healthy /\ Spec => []CommittedAgrees
<1>1. Inv /\ Committing => CommittedAgrees
  BY LogTypes, AgreeIsSame DEF Committing, CommittedAgrees
<1>2. ASSUME Healthy PROVE Spec => []CommittedAgrees
  <2>1. /\ Inv /\ Aligned /\ [Next]_vars => Aligned'
        /\ Inv /\ Aligned /\ Committing /\ [Next]_vars => Committing'
    BY <1>2, NextAligned, NextCommits DEF Healthy
  <2>. QED BY <1>1, <2>1, Invariance, InitAligned, InitCommitting, PTL
           DEF Spec
<1>. QED BY <1>2

(* Under the same conditions no row that applyCommittedEntries asks for is *)
(* missing, although line 230 reads the commit index anew and the write of *)
(* line 218 may have been lost: an old commit index is one that an earlier *)
(* request brought the rows for, and they have not been deleted since.     *)
THEOREM RowsFound == Healthy /\ Spec => []RowsPresent
<1>1. Inv /\ Committing => RowsPresent
  <2>. SUFFICES ASSUME Inv, Committing, pc = "apply", la < upto
                PROVE  la + 1 <= Len(log)
    BY DEF RowsPresent
  <2>1. upto <= commitIndex /\ commitIndex <= Len(log)
    BY DEF Committing, Same
  <2>2. la \in Nat /\ upto \in Nat
    BY DEF Inv, TypeOK
  <2>. QED BY <2>1, <2>2, LogTypes
<1>2. ASSUME Healthy PROVE Spec => []RowsPresent
  <2>1. /\ Inv /\ Aligned /\ [Next]_vars => Aligned'
        /\ Inv /\ Aligned /\ Committing /\ [Next]_vars => Committing'
    BY <1>2, NextAligned, NextCommits DEF Healthy
  <2>. QED BY <1>1, <2>1, Invariance, InitAligned, InitCommitting, PTL
           DEF Spec
<1>. QED BY <1>2
-----------------------------------------------------------------------------
(* The kv_store table.                                                     *)

(* v is the value of the youngest of the first m entries of s with key k,  *)
(* or NoValue when there is none.                                          *)
Latest(s, m, k, v) ==
    \/ v = NoValue /\ \A j \in 1..m : s[j].key # k
    \/ \E j \in 1..m : /\ s[j].key = k /\ s[j].value = v
                       /\ \A x \in 1..m : s[x].key = k => x <= j

(* How many entries the table reflects: applyCommittedEntries writes       *)
(* lastApplied only when it is done.                                       *)
AppliedUpTo == IF pc = "apply" THEN la ELSE lastApplied

(* v is the value of an entry of s with key k that none up to the m-th has *)
(* overwritten; NoValue only when none of these has the key.               *)
Since(s, m, k, v) ==
    \/ v = NoValue /\ \A x \in 1..m : s[x].key # k
    \/ \E j \in 1..Len(s) : /\ s[j].key = k /\ s[j].value = v
                            /\ \A x \in j + 1..m : s[x].key # k

(* The table reflects the first m chosen entries, before the first crash   *)
(* exactly those; a crash makes it reflect more than lastApplied says.     *)
Table(m) ==
    /\ \A k \in Keys : Since(chosen, m, k, kv[k])
    /\ crashes = 0 => \A k \in Keys : Latest(chosen, m, k, kv[k])

(* Only chosen entries are ever committed, though a row may be lost again  *)
(* when the term falls; when applyCommittedEntries runs, the rows up to    *)
(* commitIndex have just been brought into line.                           *)
Applying ==
    /\ crashes \in Nat
    /\ lastApplied <= commitIndex /\ commitIndex <= Len(chosen)
    /\ pc = "set" => commitIndex < req.commit
    /\ pc \in {"applied", "target", "apply"} => Same(log, chosen, commitIndex)
    /\ pc = "target" => la = lastApplied
    /\ pc = "apply" => /\ lastApplied <= la /\ la <= upto
                       /\ upto = commitIndex
    /\ Table(AppliedUpTo)

(* Latest looks at the first m entries only.                               *)
LEMMA LatestSame ==
    ASSUME NEW s, NEW r, NEW m \in Nat, \A x \in 1..m : s[x] = r[x],
           NEW k, NEW v, Latest(s, m, k, v)
    PROVE  Latest(r, m, k, v)
BY Zenon DEF Latest

(* One more entry decides its own key and no other.                        *)
LEMMA LatestNext ==
    ASSUME NEW s, NEW m \in Nat, NEW k, NEW v
    PROVE  /\ s[m + 1].key = k => Latest(s, m + 1, k, s[m + 1].value)
           /\ s[m + 1].key # k /\ Latest(s, m, k, v) => Latest(s, m + 1, k, v)
<1>1. m + 1 \in 1..m + 1 /\ \A x \in 1..m + 1 : x <= m + 1
  OBVIOUS
<1>2. \A x \in 1..m + 1 : x \in 1..m \/ x = m + 1
  OBVIOUS
<1>3. \A x \in 1..m : x \in 1..m + 1
  OBVIOUS
<1>4. ASSUME s[m + 1].key = k PROVE Latest(s, m + 1, k, s[m + 1].value)
  BY <1>1, <1>4, Zenon DEF Latest
<1>5. ASSUME s[m + 1].key # k, Latest(s, m, k, v) PROVE Latest(s, m + 1, k, v)
  <2>1. CASE v = NoValue /\ \A j \in 1..m : s[j].key # k
    BY <2>1, <1>2, <1>5, Zenon DEF Latest
  <2>2. ASSUME NEW j \in 1..m, s[j].key = k, s[j].value = v,
               \A x \in 1..m : s[x].key = k => x <= j
        PROVE  Latest(s, m + 1, k, v)
    <3>1. \A x \in 1..m + 1 : s[x].key = k => x <= j
      BY <2>2, <1>2, <1>5, Zenon
    <3>. QED BY <2>2, <3>1, <1>3, Zenon DEF Latest
  <2>. QED BY <2>1, <2>2, <1>5, Zenon DEF Latest
<1>. QED BY <1>4, <1>5

(* The youngest entry is the one that StoreAgrees chooses.                 *)
LEMMA LatestChosen ==
    ASSUME NEW s, NEW m \in Nat, NEW k, NEW v, Latest(s, m, k, v)
    PROVE  LET at == {j \in 1..m : s[j].key = k}
           IN  v = IF at = {} THEN NoValue
                   ELSE s[CHOOSE j \in at : \A x \in at : x <= j].value
<1>. DEFINE at == {j \in 1..m : s[j].key = k}
<1>1. CASE v = NoValue /\ \A j \in 1..m : s[j].key # k
  <2>1. at = {}
    BY <1>1
  <2>. QED BY <1>1, <2>1
<1>2. ASSUME NEW j \in 1..m, s[j].key = k, s[j].value = v,
             \A x \in 1..m : s[x].key = k => x <= j
      PROVE  v = IF at = {} THEN NoValue
                 ELSE s[CHOOSE y \in at : \A x \in at : x <= y].value
  <2>1. j \in at /\ (\A x \in at : x <= j) /\ at \subseteq 1..m
    BY <1>2
  <2>. HIDE DEF at
  <2>2. \A y \in at : (\A x \in at : x <= y) => y = j
    BY <2>1
  <2>. DEFINE c == CHOOSE y \in at : \A x \in at : x <= y
  <2>3. c = j
    BY <2>1, <2>2, Zenon
  <2>. HIDE DEF c
  <2>4. at # {} /\ v = s[c].value
    BY <2>1, <2>3, <1>2
  <2>5. v = IF at = {} THEN NoValue ELSE s[c].value
    BY <2>4
  <2>. QED BY <2>5, Zenon DEF c
<1>. QED BY <1>1, <1>2, Zenon DEF Latest

(* Since goes on holding when the sequence grows.                          *)
LEMMA SinceSame ==
    ASSUME NEW s \in Seq(Entry), NEW r \in Seq(Entry), Same(s, r, Len(s)),
           NEW m \in 0..Len(s), NEW k, NEW v, Since(s, m, k, v)
    PROVE  Since(r, m, k, v)
<1>1. /\ \A x \in 1..Len(s) : x \in 1..Len(r) /\ s[x] = r[x]
      /\ \A x \in 1..m : x \in 1..Len(s)
      /\ \A j \in 1..Len(s) : \A x \in j + 1..m : x \in 1..Len(s)
  BY DEF Same
<1>2. CASE v = NoValue /\ \A x \in 1..m : s[x].key # k
  BY <1>1, <1>2 DEF Since
<1>3. ASSUME NEW j \in 1..Len(s), s[j].key = k, s[j].value = v,
             \A x \in j + 1..m : s[x].key # k
      PROVE  Since(r, m, k, v)
  <2>1. j \in 1..Len(r) /\ r[j].key = k /\ r[j].value = v
    BY <1>1, <1>3
  <2>2. \A x \in j + 1..m : r[x].key # k
    BY <1>1, <1>3
  <2>. QED BY <2>1, <2>2 DEF Since
<1>. QED BY <1>2, <1>3 DEF Since

(* It holds for a shorter prefix too.                                      *)
LEMMA SinceLess ==
    ASSUME NEW s, NEW m \in Nat, NEW n \in Nat, n <= m, Len(s) \in Nat,
           NEW k, NEW v, Since(s, m, k, v)
    PROVE  Since(s, n, k, v)
<1>1. /\ \A x \in 1..n : x \in 1..m
      /\ \A j \in 1..Len(s) : \A x \in j + 1..n : x \in j + 1..m
  OBVIOUS
<1>. QED BY <1>1, Zenon DEF Since

(* One more entry is applied.                                              *)
LEMMA SinceNext ==
    ASSUME NEW s, NEW m \in Nat, Len(s) \in Nat, m + 1 <= Len(s),
           NEW k, NEW v
    PROVE  /\ s[m + 1].key = k => Since(s, m + 1, k, s[m + 1].value)
           /\ s[m + 1].key # k /\ Since(s, m, k, v) => Since(s, m + 1, k, v)
<1>1. m + 1 \in 1..Len(s) /\ \A x \in (m + 1) + 1..m + 1 : FALSE
  OBVIOUS
<1>2. /\ \A x \in 1..m + 1 : x \in 1..m \/ x = m + 1
      /\ \A j \in 1..Len(s) :
            \A x \in j + 1..m + 1 : x \in j + 1..m \/ x = m + 1
  OBVIOUS
<1>3. ASSUME s[m + 1].key = k PROVE Since(s, m + 1, k, s[m + 1].value)
  BY <1>1, <1>3, Zenon DEF Since
<1>4. ASSUME s[m + 1].key # k, Since(s, m, k, v) PROVE Since(s, m + 1, k, v)
  BY <1>2, <1>4, Zenon DEF Since
<1>. QED BY <1>3, <1>4

(* The numbers of applyCommittedEntries.                                   *)
LEMMA AppliedTypes ==
    ASSUME Inv, Applying
    PROVE  /\ lastApplied \in Nat /\ la \in Nat /\ upto \in Nat
           /\ commitIndex \in Nat /\ Len(chosen) \in Nat
           /\ AppliedUpTo \in 0..Len(chosen) /\ lastApplied <= AppliedUpTo
<1>1. /\ lastApplied \in Nat /\ la \in Nat /\ upto \in Nat
      /\ commitIndex \in Nat /\ Len(chosen) \in Nat
  BY LogTypes DEF Inv, TypeOK
<1>. QED BY <1>1 DEF Applying, AppliedUpTo

(* A step that changes neither the table nor how much it reflects.         *)
LEMMA TableStays ==
    ASSUME Applying, UNCHANGED <<chosen, kv, crashes>>,
           AppliedUpTo' = AppliedUpTo
    PROVE  Table(AppliedUpTo)'
BY DEF Applying, Table

(* applyCommittedEntries writes the next chosen entry.                     *)
LEMMA ApplyEntryApplies ==
    ASSUME Reliable, Inv, Applying, ApplyEntry
    PROVE  Applying'
<1>1. /\ pc = "apply" /\ la < upto /\ la' = la + 1 /\ upto = commitIndex
      /\ UNCHANGED <<cluster, log, commitIndex, lastApplied, pc, upto>>
      /\ UNCHANGED crashes
      /\ lastApplied <= la /\ AppliedUpTo = la /\ AppliedUpTo' = la + 1
  BY DEF ApplyEntry, Applying, AppliedUpTo
<1>2. kv' = [kv EXCEPT ![log[la + 1].key] = log[la + 1].value]
  BY Zenon DEF ApplyEntry, Writes, Reliable
<1>3. /\ la + 1 \in 1..commitIndex /\ la + 1 <= upto /\ lastApplied <= la + 1
      /\ la + 1 <= Len(chosen) /\ la \in Nat /\ Len(chosen) \in Nat
  BY <1>1, AppliedTypes DEF Applying
<1>4. chosen[la + 1] = log[la + 1]
  BY <1>1, <1>3 DEF Applying, Same
<1>5. kv' = [kv EXCEPT ![chosen[la + 1].key] = chosen[la + 1].value]
  BY <1>2, <1>4
<1>6. ASSUME NEW k \in Keys
      PROVE  /\ Since(chosen, la + 1, k, kv'[k])
             /\ crashes = 0 => Latest(chosen, la + 1, k, kv'[k])
  <2>1. /\ Since(chosen, la, k, kv[k])
        /\ crashes = 0 => Latest(chosen, la, k, kv[k])
        /\ kv \in [Keys -> Values \cup {NoValue}]
    BY <1>1 DEF Applying, Table, Inv, TypeOK
  <2>2. CASE chosen[la + 1].key = k
    <3>1. kv'[k] = chosen[la + 1].value
      BY <2>1, <2>2, <1>5
    <3>. QED BY <3>1, <2>2, <1>3, LatestNext, SinceNext
  <2>3. CASE chosen[la + 1].key # k
    <3>1. kv'[k] = kv[k]
      BY <2>1, <2>3, <1>5
    <3>. QED BY <3>1, <2>1, <2>3, <1>3, LatestNext, SinceNext
  <2>. QED BY <2>2, <2>3
<1>7. Table(AppliedUpTo)'
  BY <1>1, <1>6, Zenon DEF Table
<1>8. Same(log, chosen, commitIndex)'
  BY <1>1 DEF Applying
<1>. QED BY <1>1, <1>3, <1>7, <1>8 DEF Applying

(* The other statements from setCommitIndex on.                            *)
LEMMA ApplyStepApplies ==
    ASSUME Reliable, Inv, Aligned, Applying,
           SetCommit \/ ReadApplied \/ ReadTarget \/ ApplyDone
    PROVE  Applying'
<1>1. UNCHANGED <<cluster, log, kv, crashes>>
  BY DEF SetCommit, ReadApplied, ReadTarget, ApplyDone
<1>2. CASE SetCommit
  <2>1. /\ pc = "set" /\ pc' = "applied"
        /\ UNCHANGED <<lastApplied, la, upto>>
        /\ commitIndex' = Smaller(req.commit, Len(log))
    BY <1>2, Zenon DEF SetCommit, Writes, Reliable
  <2>2. /\ Smaller(req.commit, Len(log)) = req.commit
        /\ Same(log, chosen, req.commit)
    BY <1>2, NewCommit DEF Reliable
  <2>3. req.commit \in Nat /\ commitIndex < req.commit
    BY <2>1, HandledLeader DEF Applying
  <2>4. AppliedUpTo' = AppliedUpTo
    BY <2>1 DEF AppliedUpTo
  <2>5. lastApplied <= req.commit /\ req.commit <= Len(chosen)
    BY <2>2, <2>3, AppliedTypes DEF Applying, Same
  <2>6. Table(AppliedUpTo)'
    BY <1>1, <2>4, TableStays
  <2>. QED BY <1>1, <2>1, <2>2, <2>5, <2>6 DEF Applying
<1>3. CASE ReadApplied
  <2>1. /\ pc = "applied" /\ pc' = "target" /\ la' = lastApplied
        /\ UNCHANGED <<lastApplied, commitIndex>>
    BY <1>3 DEF ReadApplied, Reads, Reliable
  <2>2. Table(AppliedUpTo)'
    BY <1>1, <2>1, TableStays DEF AppliedUpTo
  <2>. QED BY <1>1, <2>1, <2>2 DEF Applying
<1>4. CASE ReadTarget
  <2>1. /\ pc = "target" /\ pc' = "apply" /\ upto' = commitIndex /\ la' = la
        /\ UNCHANGED <<lastApplied, commitIndex>> /\ la = lastApplied
    BY <1>4 DEF ReadTarget, Reads, Reliable, Applying
  <2>2. Table(AppliedUpTo)'
    BY <1>1, <2>1, TableStays DEF AppliedUpTo
  <2>3. lastApplied <= lastApplied
    BY AppliedTypes
  <2>. QED BY <1>1, <2>1, <2>2, <2>3 DEF Applying
<1>5. CASE ApplyDone
  <2>1. /\ pc = "apply" /\ pc' = "idle" /\ lastApplied' = la
        /\ UNCHANGED commitIndex /\ la <= commitIndex
    BY <1>5 DEF ApplyDone, Idle, Writes, Reliable, Applying
  <2>2. Table(AppliedUpTo)'
    BY <1>1, <2>1, TableStays DEF AppliedUpTo
  <2>. QED BY <1>1, <2>1, <2>2 DEF Applying
<1>. QED BY <1>2, <1>3, <1>4, <1>5

(* What is chosen elsewhere comes behind what is applied here.             *)
LEMMA ClusterStepApplies ==
    ASSUME Inv, Applying, ClusterStep
    PROVE  Applying'
<1>1. UNCHANGED <<store, raftState, handler, crashes>> /\ Grows /\ Cluster'
  BY ClusterKeeps DEF Inv
<1>2. /\ chosen' \in Seq(Entry) /\ Same(chosen, chosen', Len(chosen))
      /\ Len(chosen) <= Len(chosen') /\ Len(chosen') \in Nat
  BY <1>1 DEF Cluster, Grows, Same
<1>3. AppliedUpTo' = AppliedUpTo /\ AppliedUpTo \in 0..Len(chosen)
  BY <1>1, AppliedTypes DEF AppliedUpTo
<1>4. \A k \in Keys : Since(chosen', AppliedUpTo, k, kv[k])
  BY <1>2, <1>3, LogTypes, SinceSame DEF Applying, Table
<1>5. \A x \in 1..AppliedUpTo : chosen[x] = chosen'[x]
  BY <1>2, <1>3, LogTypes, SMTT(30) DEF Same
<1>6. crashes = 0 => \A k \in Keys : Latest(chosen', AppliedUpTo, k, kv[k])
  BY <1>3, <1>5, AppliedTypes, LatestSame DEF Applying, Table
<1>7. Table(AppliedUpTo)'
  BY <1>1, <1>3, <1>4, <1>6, Zenon DEF Table
<1>8. commitIndex <= Len(chosen')
  BY <1>2, AppliedTypes DEF Applying
<1>9. pc \in {"applied", "target", "apply"} =>
         Same(log, chosen', commitIndex)
  BY <1>2, LogTypes, AppliedTypes, SameTransitive DEF Applying
<1>. QED BY <1>1, <1>7, <1>8, <1>9 DEF Applying

(* Everything else leaves tables and numbers alone, except that a crash    *)
(* forgets how far the entries were applied.                               *)
LEMMA RestApplies ==
    ASSUME Reliable, Inv, Applying,
           \/ \E r : Arrives(r) /\ Receive(r)
           \/ SeeNewer \/ Adopt \/ CheckPrev
           \/ SkipEntry \/ DeleteConflict \/ AppendEntry \/ Abort
           \/ TestCommit \/ Elections \/ Crash \/ UNCHANGED vars
    PROVE  Applying'
<1>1. ~Abort
  <2>. SUFFICES ASSUME Abort PROVE FALSE
    OBVIOUS
  <2>1. pc = "apply" /\ la >= Len(log) /\ la < upto
    BY AppendingTypes DEF Abort, Reliable
  <2>2. upto <= Len(log)
    BY <2>1 DEF Applying, Same
  <2>. QED BY <2>1, <2>2, AppliedTypes, LogTypes
<1>2. CASE Crash
  <2>1. /\ UNCHANGED <<chosen, kv, lastApplied, commitIndex>> /\ pc' = "idle"
        /\ AppliedUpTo' = lastApplied /\ crashes' = crashes + 1
    BY <1>2 DEF Crash, Idle, AppliedUpTo
  <2>2. \A k \in Keys : Since(chosen, lastApplied, k, kv[k])
    BY AppliedTypes, SinceLess DEF Applying, Table
  <2>3. crashes' # 0
    BY <2>1 DEF Applying
  <2>4. Table(AppliedUpTo)'
    BY <2>1, <2>2, <2>3, Zenon DEF Table
  <2>. QED BY <2>1, <2>4 DEF Applying
<1>3. CASE ~Crash
  <2>1. /\ UNCHANGED <<chosen, kv, lastApplied, commitIndex, crashes>>
        /\ \/ UNCHANGED <<pc, req, la, upto, log>>
           \/ /\ pc \notin {"applied", "target", "apply"}
              /\ pc' \notin {"applied", "target", "apply"}
              /\ pc' = "set" => commitIndex < req'.commit
    <3>1. CASE \E r : Arrives(r) /\ Receive(r)
      BY <3>1 DEF Receive
    <3>2. CASE SeeNewer \/ Adopt \/ CheckPrev
      BY <3>2 DEF SeeNewer, Adopt, CheckPrev, Idle
    <3>3. CASE SkipEntry \/ DeleteConflict \/ AppendEntry
      BY <3>3, AppendingTypes DEF SkipEntry, DeleteConflict, AppendEntry
    <3>4. CASE TestCommit
      <4>1. (req.commit > commitIndex /\ pc' = "set" /\ req' = req) \/ Idle
        BY <3>4 DEF TestCommit, Reads, Reliable
      <4>2. pc = "loop" /\ req.commit \in Nat
        BY <3>4, HandledLeader DEF TestCommit
      <4>. QED BY <3>4, <4>1, <4>2, AppliedTypes DEF TestCommit, Idle
    <3>5. CASE Elections \/ UNCHANGED vars
      BY <3>5 DEF Elections
    <3>. QED BY <1>1, <1>3, <3>1, <3>2, <3>3, <3>4, <3>5
  <2>2. Table(AppliedUpTo)'
    BY <2>1, TableStays DEF AppliedUpTo
  <2>. QED BY <2>1, <2>2 DEF Applying
<1>. QED BY <1>2, <1>3

(* Every step, when requests, deletes and the other calls are reliable.    *)
LEMMA NextApplies ==
    ASSUME Reliable, Inv, Aligned, Applying, [Next]_vars
    PROVE  Applying'
<1>1. CASE Handle
  BY <1>1, ApplyEntryApplies, ApplyStepApplies, RestApplies DEF Handle
<1>. QED BY <1>1, StepCases, ClusterStepApplies, RestApplies

(* Initially the table is empty.                                           *)
LEMMA InitApplying == Init => Applying
<1>. SUFFICES ASSUME Init PROVE Applying
  OBVIOUS
<1>1. /\ AppliedUpTo = 0 /\ commitIndex = 0 /\ lastApplied = 0
      /\ pc = "idle" /\ chosen = <<>> /\ crashes = 0
  BY DEF Init, AppliedUpTo
<1>2. \A k \in Keys : kv[k] = NoValue
  BY DEF Init
<1>3. \A k \in Keys : /\ Latest(chosen, 0, k, NoValue)
                      /\ Since(chosen, 0, k, NoValue)
  BY DEF Latest, Since
<1>4. Table(AppliedUpTo)
  BY <1>1, <1>2, <1>3 DEF Table
<1>. QED BY <1>1, <1>4 DEF Applying

(* With reliable calls Applying holds in every reachable state.            *)
LEMMA AlwaysApplying == Reliable /\ Spec => [](Inv /\ Applying)
<1>1. ASSUME Reliable PROVE Spec => [](Inv /\ Applying)
  <2>1. /\ Inv /\ Aligned /\ [Next]_vars => Aligned'
        /\ Inv /\ Aligned /\ Applying /\ [Next]_vars => Applying'
    BY <1>1, NextAligned, NextApplies DEF Reliable
  <2>. QED BY <2>1, Invariance, InitAligned, InitApplying, PTL DEF Spec
<1>. QED BY <1>1

(* Between requests the kv_store table of a node that has not crashed      *)
(* holds, for every key, the value of the youngest chosen entry up to      *)
(* lastApplied: applyCommittedEntries (RaftNode.java:228-242) applies      *)
(* every entry once, in order, and none that is not chosen.  The term may  *)
(* fall; requests must be read at one time and storage calls succeed.      *)
THEOREM StoreIsChosen == Reliable /\ Spec => []StoreAgrees
<1>1. Inv /\ Applying => StoreAgrees
  <2>. SUFFICES ASSUME Inv, Applying, pc = "idle", crashes = 0
                PROVE  StoreAgrees
    BY DEF StoreAgrees
  <2>1. AppliedUpTo = lastApplied
    BY DEF AppliedUpTo
  <2>2. lastApplied \in Nat /\ lastApplied <= Len(chosen)
    BY <2>1, AppliedTypes
  <2>3. \A k \in Keys : Latest(chosen, lastApplied, k, kv[k])
    BY <2>1 DEF Applying, Table
  <2>. QED BY <2>2, <2>3, LatestChosen, ZenonT(30) DEF StoreAgrees
<1>. QED BY <1>1, AlwaysApplying, PTL

(* Under the same conditions, and with any number of crashes between any   *)
(* two statements, no key ever goes back behind lastApplied: the table     *)
(* holds a chosen value that no chosen entry up to lastApplied overwrites. *)
THEOREM StoreStaysChosen == Reliable /\ Spec => []StoreChosen
<1>1. Inv /\ Applying => StoreChosen
  <2>. SUFFICES ASSUME Inv, Applying PROVE StoreChosen
    OBVIOUS
  <2>1. \A k \in Keys : Since(chosen, lastApplied, k, kv[k])
    BY AppliedTypes, SinceLess DEF Applying, Table
  <2>2. lastApplied <= Len(chosen)
    BY AppliedTypes DEF Applying
  <2>. QED BY <2>1, <2>2, Zenon DEF StoreChosen, Since
<1>. QED BY <1>1, AlwaysApplying, PTL
=============================================================================
