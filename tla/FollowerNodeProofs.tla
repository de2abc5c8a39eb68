------------------------- MODULE FollowerNodeProofs -------------------------
(***************************************************************************)
(* Proofs about FollowerNode for any number of terms, any length of the    *)
(* logs and any keys and values.                                           *)
(*                                                                         *)
(* Inv holds whatever fails. Besides the types it has the promises of the  *)
(* cluster (Cluster: log matching between the leaders' logs, and that each *)
(* leader holds what it can know to be chosen) and what the handler holds  *)
(* between its statements (Running).                                       *)
(*                                                                         *)
(* Merging is what the loop of appendEntries keeps when deletes do not     *)
(* fail: the request has not met a clash yet, has just cut the log at the  *)
(* first one, or is appending behind it. LoopMerges follows.               *)
(* FollowerCommitProofs builds on both.                                    *)
(***************************************************************************)
EXTENDS FollowerNode, SequenceTheorems, FiniteSetTheorems, TLAPS

(* The first m entries of s and r are the same.                            *)
Same(s, r, m) == m <= Len(s) /\ m <= Len(r) /\ \A x \in 1..m : s[x] = r[x]

(* Every entry of s, with all that lies before it, is in the log of the    *)
(* leader of the entry's term; ls are the leaders' logs.                   *)
Matches(s, ls) ==
    \A j \in 1..Len(s) : /\ s[j].term \in 1..Len(ls)
                         /\ Same(s, ls[s[j].term], j)

(* What the environment keeps: Raft's log matching, and that each leader   *)
(* holds what it can know to be chosen.                                    *)
Cluster ==
    /\ leaders \in Seq(Seq(Entry)) /\ Len(leaders) <= MaxTerm
    /\ floors \in Seq(Nat) /\ Len(floors) = Len(leaders)
    /\ chosen \in Seq(Entry)
    /\ \A t \in 1..Len(leaders) :
          /\ Len(leaders[t]) <= MaxLen /\ Matches(leaders[t], leaders)
          /\ Same(chosen, leaders[t], Known(t))
          /\ \A u \in 1..t : Known(u) <= Known(t)

(* Leaders' logs and what is known to be chosen only grow.                 *)
Grows ==
    /\ leaders' \in Seq(Seq(Entry)) /\ Len(leaders) <= Len(leaders')
    /\ \A t \in 1..Len(leaders) :
          /\ Same(leaders[t], leaders'[t], Len(leaders[t]))
          /\ Known(t) <= Known(t)'
    /\ Same(chosen, chosen', Len(chosen))

(* A request is a slice of its leader's log, with a commit index that the  *)
(* leader knows.                                                           *)
SliceOf(r) ==
    /\ r.term \in 1..Len(leaders) /\ r.prev \in Nat /\ r.commit \in Nat
    /\ r.entries \in Seq(Entry)
    /\ r.prev + Len(r.entries) <= Len(leaders[r.term])
    /\ \A j \in 1..Len(r.entries) :
          r.entries[j] = leaders[r.term][r.prev + j]
    /\ r.commit <= Known(r.term)
    /\ SplitSend \/ r.commit <= r.prev + Len(r.entries)

(* What the handler holds at its control points.                           *)
Running ==
    /\ pc # "idle" => SliceOf(req)
    /\ pc = "loop" => i \in 1..Len(req.entries) + 1
    /\ pc = "append" => i \in 1..Len(req.entries) /\ Len(log) < MaxLen

Inv == TypeOK /\ Cluster /\ Running

(* The steps of the environment, and those of the node.                    *)
ClusterStep ==
    \/ \E t \in DOMAIN leaders, m \in 0..MaxLen : Elect(leaders[t], m)
    \/ leaders = <<>> /\ Elect(<<>>, 0)
    \/ \E t \in DOMAIN leaders, k \in Keys, v \in Values :
          LeaderAppends(t, k, v)
    \/ \E m \in 1..MaxLen : Choose(m)

Arrives(r) ==
    \E t \in DOMAIN leaders :
        \E l \in Lengths(t), c \in 0..Known(t) : \E p \in 0..l :
            (SplitSend \/ c <= l) /\ r = Request(t, p, l, c)

USE FollowerAssumption DEF cluster, store, elections, raftState, handler,
                           vars
-----------------------------------------------------------------------------
(* A prefix, position by position.                                         *)
LEMMA PrefixOf ==
    ASSUME NEW S, NEW s \in Seq(S), NEW m \in 0..Len(s)
    PROVE  /\ Prefix(s, m) \in Seq(S) /\ Len(Prefix(s, m)) = m
           /\ \A x \in 1..m : Prefix(s, m)[x] = s[x]
BY DEF Prefix

(* Agree says that all positions are the same.                             *)
LEMMA AgreeIsSame ==
    ASSUME NEW S, NEW s \in Seq(S), NEW r \in Seq(S), NEW m \in Nat
    PROVE  Agree(s, r, m) <=> Same(s, r, m)
<1>1. ASSUME Agree(s, r, m) PROVE Same(s, r, m)
  <2>1. \A x \in 1..m : Prefix(s, m)[x] = s[x] /\ Prefix(r, m)[x] = r[x]
    BY <1>1, PrefixOf DEF Agree
  <2>. QED BY <1>1, <2>1 DEF Agree, Same
<1>2. ASSUME Same(s, r, m) PROVE Agree(s, r, m)
  <2>1. Prefix(s, m) = Prefix(r, m)
    BY <1>2 DEF Same, Prefix
  <2>. QED BY <1>2, <2>1 DEF Agree, Same
<1>. QED BY <1>1, <1>2

(* Logs that match and have entries of one term at a position are the same *)
(* up to there.                                                            *)
LEMMA LogMatching ==
    ASSUME NEW s \in Seq(Entry), NEW r \in Seq(Entry),
           Matches(s, leaders), Matches(r, leaders),
           NEW m \in 1..Len(s), m <= Len(r), s[m].term = r[m].term
    PROVE  Same(s, r, m)
<1>1. Same(s, leaders[s[m].term], m) /\ Same(r, leaders[s[m].term], m)
  BY DEF Matches
<1>. QED BY <1>1 DEF Same

(* What matches goes on matching while the leaders' logs grow.             *)
LEMMA MatchesStays ==
    ASSUME NEW s \in Seq(Entry), Matches(s, leaders), Cluster, Grows
    PROVE  Matches(s, leaders')
<1>. SUFFICES ASSUME NEW j \in 1..Len(s)
              PROVE  /\ s[j].term \in 1..Len(leaders')
                     /\ Same(s, leaders'[s[j].term], j)
  BY DEF Matches
<1>. DEFINE t == s[j].term
<1>1. t \in 1..Len(leaders) /\ Same(s, leaders[t], j)
  BY DEF Matches
<1>2. Same(leaders[t], leaders'[t], Len(leaders[t]))
  BY <1>1 DEF Grows
<1>3. leaders \in Seq(Seq(Entry)) /\ leaders' \in Seq(Seq(Entry))
  BY DEF Cluster, Grows
<1>4. t \in 1..Len(leaders')
  BY <1>1, <1>3 DEF Grows
<1>5. leaders[t] \in Seq(Entry) /\ leaders'[t] \in Seq(Entry)
  BY <1>1, <1>3, <1>4
<1>6. Same(s, leaders'[t], j)
  BY <1>1, <1>2, <1>5, SMTT(30) DEF Same
<1>. QED BY <1>4, <1>6
-----------------------------------------------------------------------------
(* The cluster keeps what the follower relies on.                          *)

(* The types of what the environment holds.                                *)
LEMMA ClusterTypes ==
    ASSUME Cluster
    PROVE  /\ leaders \in Seq(Seq(Entry)) /\ Len(leaders) \in Nat
           /\ \A t \in 1..Len(leaders) :
                 /\ leaders[t] \in Seq(Entry) /\ Len(leaders[t]) \in Nat
                 /\ Known(t) \in Nat /\ Known(t) <= Len(chosen)
                 /\ Known(t) <= Len(leaders[t])
           /\ chosen \in Seq(Entry) /\ Len(chosen) \in Nat
<1>1. /\ leaders \in Seq(Seq(Entry)) /\ floors \in Seq(Nat)
      /\ Len(floors) = Len(leaders) /\ chosen \in Seq(Entry)
  BY DEF Cluster
<1>2. ASSUME NEW t \in 1..Len(leaders)
      PROVE  /\ leaders[t] \in Seq(Entry) /\ Len(leaders[t]) \in Nat
             /\ Known(t) \in Nat
  BY <1>1 DEF Known
<1>3. \A t \in 1..Len(leaders) : Same(chosen, leaders[t], Known(t))
  BY DEF Cluster
<1>. QED BY <1>1, <1>2, <1>3 DEF Same

(* A new leader whose log is a prefix of an earlier one and holds what is  *)
(* chosen keeps the promises.                                              *)
LEMMA ElectKeeps ==
    ASSUME Cluster, NEW old \in Seq(Entry), Matches(old, leaders),
           Len(old) <= MaxLen, NEW m \in Nat, Elect(old, m)
    PROVE  Cluster' /\ Grows
<1>. DEFINE new == Prefix(old, m)
            T == Len(leaders) + 1
<1>1. /\ leaders \in Seq(Seq(Entry)) /\ floors \in Seq(Nat)
      /\ Len(floors) = Len(leaders) /\ chosen \in Seq(Entry)
  BY DEF Cluster
<1>2. new \in Seq(Entry) /\ Len(new) = m /\ \A x \in 1..m : new[x] = old[x]
  BY PrefixOf DEF Elect
<1>3. /\ leaders' \in Seq(Seq(Entry)) /\ Len(leaders') = T
      /\ leaders'[T] = new
      /\ \A t \in 1..Len(leaders) : leaders'[t] = leaders[t]
  BY <1>1, <1>2 DEF Elect
<1>4. /\ floors' \in Seq(Nat) /\ Len(floors') = T /\ floors'[T] = Len(chosen)
      /\ \A t \in 1..Len(leaders) : floors'[t] = floors[t]
      /\ chosen' = chosen
  BY <1>1 DEF Elect
<1>. HIDE DEF new, T
<1>5. \A t \in 1..T : IF t = T THEN Known(t)' = Len(chosen)
                               ELSE Known(t)' = Known(t)
  <2>. SUFFICES ASSUME NEW t \in 1..T
                PROVE  IF t = T THEN Known(t)' = Len(chosen)
                                ELSE Known(t)' = Known(t)
    OBVIOUS
  <2>1. CASE t = T
    BY <2>1, <1>3, <1>4 DEF Known
  <2>2. CASE t = Len(leaders)
    BY <2>2, <1>1, <1>3, <1>4 DEF Known, T
  <2>3. CASE t < Len(leaders)
    <3>1. t + 1 \in 1..Len(leaders) /\ t # T
      BY <2>3, <1>1 DEF T
    <3>. QED BY <2>3, <3>1, <1>1, <1>3, <1>4 DEF Known, T
  <2>. QED BY <2>1, <2>2, <2>3, <1>1 DEF T
<1>6. Grows
  <2>1. \A t \in 1..Len(leaders) : t \in 1..T /\ t # T
    BY <1>1 DEF T
  <2>2. \A t \in 1..Len(leaders) :
           /\ Same(leaders[t], leaders'[t], Len(leaders[t]))
           /\ Known(t) <= Known(t)'
    BY <2>1, <1>3, <1>5, ClusterTypes, SMTT(30) DEF Same
  <2>3. Same(chosen, chosen', Len(chosen)) /\ Len(leaders) <= Len(leaders')
    BY <1>1, <1>3, <1>4 DEF Same, T
  <2>. QED BY <2>2, <2>3, <1>3 DEF Grows
<1>7. Same(chosen, new, Len(chosen))
  BY <1>1, <1>2, AgreeIsSame DEF Elect, new
<1>8. Matches(new, leaders)
  <2>. SUFFICES ASSUME NEW j \in 1..m
                PROVE  /\ new[j].term \in 1..Len(leaders)
                       /\ Same(new, leaders[new[j].term], j)
    BY <1>2 DEF Matches
  <2>1. m <= Len(old)
    BY DEF Elect
  <2>2. /\ old[j].term \in 1..Len(leaders)
        /\ Same(old, leaders[old[j].term], j)
    BY <2>1 DEF Matches
  <2>. QED BY <1>2, <2>1, <2>2 DEF Same
<1>9. ASSUME NEW t \in 1..T
      PROVE  /\ Len(leaders'[t]) <= MaxLen /\ Matches(leaders'[t], leaders')
             /\ Same(chosen', leaders'[t], Known(t)')
             /\ \A u \in 1..t : Known(u)' <= Known(t)'
  <2>1. CASE t = T
    <3>1. Matches(new, leaders')
      BY <1>2, <1>6, <1>8, MatchesStays
    <3>2. Len(new) <= MaxLen
      BY <1>2 DEF Elect
    <3>3. \A u \in 1..t : Known(u)' <= Known(t)'
      <4>1. ASSUME NEW u \in 1..T, u # T PROVE Known(u)' <= Len(chosen)
        BY <4>1, <1>1, <1>5, ClusterTypes DEF T
      <4>2. Known(t)' = Len(chosen) /\ Len(chosen) <= Len(chosen)
        BY <2>1, <1>1, <1>5
      <4>. QED BY <2>1, <4>1, <4>2
    <3>4. Known(t)' = Len(chosen)
      BY <2>1, <1>5
    <3>. QED BY <2>1, <3>1, <3>2, <3>3, <3>4, <1>3, <1>4, <1>7
  <2>2. CASE t # T
    <3>0. t \in 1..Len(leaders) /\ \A u \in 1..t : u \in 1..T /\ u # T
      BY <2>2, <1>1, SMTT(30) DEF T
    <3>1. Matches(leaders[t], leaders')
      BY <3>0, <1>1, <1>6, MatchesStays, ClusterTypes DEF Cluster
    <3>3. \A u \in 1..t : Known(u)' = Known(u)
      BY <3>0, <1>5
    <3>4. /\ Len(leaders[t]) <= MaxLen /\ Same(chosen, leaders[t], Known(t))
          /\ \A u \in 1..t : Known(u) <= Known(t)
      BY <3>0 DEF Cluster
    <3>5. t \in 1..t
      BY <3>0
    <3>. QED BY <3>0, <3>1, <3>3, <3>4, <3>5, <1>3, <1>4
  <2>. QED BY <2>1, <2>2
<1>10. T <= MaxTerm
  BY CandidateAssumption, <1>1 DEF Elect, T
<1>. QED BY <1>3, <1>4, <1>6, <1>9, <1>10, <1>1 DEF Cluster

(* So does a leader that appends an entry of its own term.                 *)
LEMMA AppendKeeps ==
    ASSUME Cluster, NEW t \in 1..Len(leaders), NEW k \in Keys,
           NEW v \in Values, LeaderAppends(t, k, v)
    PROVE  Cluster' /\ Grows
<1>. DEFINE e == [term |-> t, key |-> k, value |-> v]
            new == Append(leaders[t], e)
<1>1. /\ leaders \in Seq(Seq(Entry)) /\ floors \in Seq(Nat)
      /\ Len(floors) = Len(leaders) /\ chosen \in Seq(Entry)
      /\ Len(leaders) <= MaxTerm
  BY DEF Cluster
<1>2. e \in Entry /\ e.term = t
  BY CandidateAssumption, <1>1 DEF Entry
<1>3. /\ new \in Seq(Entry) /\ Len(new) = Len(leaders[t]) + 1
      /\ new[Len(new)] = e
      /\ \A x \in 1..Len(leaders[t]) : new[x] = leaders[t][x]
  BY <1>1, <1>2
<1>. HIDE DEF e, new
<1>4. /\ leaders' \in Seq(Seq(Entry)) /\ Len(leaders') = Len(leaders)
      /\ leaders'[t] = new
      /\ \A u \in 1..Len(leaders) : u # t => leaders'[u] = leaders[u]
  BY <1>1, <1>3 DEF LeaderAppends, e, new
<1>5. floors' = floors /\ chosen' = chosen
  BY DEF LeaderAppends
<1>6. \A u \in 1..Len(leaders) : Known(u)' = Known(u)
  BY <1>4, <1>5 DEF Known
<1>7. \A u \in 1..Len(leaders) :
         Same(leaders[u], leaders'[u], Len(leaders[u]))
  <2>1. Same(leaders[t], new, Len(leaders[t]))
    BY <1>1, <1>3, SMTT(30) DEF Same
  <2>2. ASSUME NEW u \in 1..Len(leaders)
        PROVE  Same(leaders[u], leaders[u], Len(leaders[u]))
    BY <1>1 DEF Same
  <2>. QED BY <2>1, <2>2, <1>4
<1>8. Grows
  BY <1>1, <1>4, <1>5, <1>6, <1>7, ClusterTypes, SMTT(30) DEF Grows, Same
<1>9. Matches(new, leaders')
  <2>. SUFFICES ASSUME NEW j \in 1..Len(new)
                PROVE  /\ new[j].term \in 1..Len(leaders')
                       /\ Same(new, leaders'[new[j].term], j)
    BY DEF Matches
  <2>1. CASE j = Len(new)
    <3>1. new[j].term = t
      BY <2>1, <1>2, <1>3
    <3>2. new[j].term \in 1..Len(leaders') /\ leaders'[new[j].term] = new
      BY <3>1, <1>4
    <3>3. Same(new, new, j)
      BY <2>1, <1>3 DEF Same
    <3>. QED BY <3>2, <3>3
  <2>2. CASE j # Len(new)
    <3>1. j \in 1..Len(leaders[t]) /\ new[j] = leaders[t][j]
      BY <2>2, <1>1, <1>3
    <3>2. Matches(leaders[t], leaders')
      BY <1>1, <1>8, MatchesStays DEF Cluster
    <3>3. /\ new[j].term \in 1..Len(leaders')
          /\ Same(leaders[t], leaders'[new[j].term], j)
      BY <3>1, <3>2 DEF Matches
    <3>. QED BY <3>1, <3>3, <1>1, <1>3 DEF Same
  <2>. QED BY <2>1, <2>2
<1>10. ASSUME NEW u \in 1..Len(leaders)
       PROVE  /\ Len(leaders'[u]) <= MaxLen /\ Matches(leaders'[u], leaders')
              /\ Same(chosen', leaders'[u], Known(u)')
              /\ \A w \in 1..u : Known(w)' <= Known(u)'
  <2>1. Len(leaders'[u]) <= MaxLen
    BY <1>1, <1>3, <1>4 DEF LeaderAppends, Cluster
  <2>2. Matches(leaders'[u], leaders')
    <3>1. CASE u = t
      BY <3>1, <1>4, <1>9
    <3>2. CASE u # t
      <4>1. leaders[u] \in Seq(Entry) /\ Matches(leaders[u], leaders)
        BY ClusterTypes DEF Cluster
      <4>. QED BY <3>2, <4>1, <1>4, <1>8, MatchesStays
    <3>. QED BY <3>1, <3>2
  <2>3. Same(chosen', leaders'[u], Known(u)')
    <3>1. /\ Same(chosen, leaders[u], Known(u))
          /\ Same(leaders[u], leaders'[u], Len(leaders[u]))
          /\ Known(u)' = Known(u)
      BY <1>6, <1>7 DEF Cluster
    <3>2. leaders'[u] \in Seq(Entry) /\ leaders[u] \in Seq(Entry)
      BY <1>1, <1>4, SMTT(30)
    <3>3. Same(chosen, leaders'[u], Known(u))
      BY <3>1, <3>2, <1>1, ClusterTypes, SMTT(30) DEF Same
    <3>. QED BY <3>1, <3>3, <1>5
  <2>4. \A w \in 1..u : w \in 1..Len(leaders) /\ Known(w) <= Known(u)
    BY <1>1 DEF Cluster
  <2>. QED BY <2>1, <2>2, <2>3, <2>4, <1>6
<1>. QED BY <1>1, <1>4, <1>5, <1>8, <1>10 DEF Cluster

(* So does the newest leader when it finds one of its entries on a         *)
(* majority.                                                               *)
LEMMA ChooseKeeps ==
    ASSUME Cluster, NEW m \in Nat, Choose(m)
    PROVE  Cluster' /\ Grows
<1>. DEFINE T == Len(leaders)
<1>1. /\ leaders \in Seq(Seq(Entry)) /\ floors \in Seq(Nat)
      /\ Len(floors) = T /\ chosen \in Seq(Entry) /\ T \in Nat
  BY DEF Cluster
<1>2. /\ T \in 1..Len(leaders) /\ leaders[T] \in Seq(Entry)
      /\ Len(chosen) < m /\ m <= Len(leaders[T])
      /\ leaders' = leaders /\ floors' = floors
  BY <1>1 DEF Choose
<1>3. /\ chosen' \in Seq(Entry) /\ Len(chosen') = m
      /\ \A x \in 1..m : chosen'[x] = leaders[T][x]
  BY <1>2, PrefixOf DEF Choose
<1>4. Same(chosen, leaders[T], Len(chosen))
  <2>1. Known(T) = Len(chosen)
    BY DEF Known
  <2>. QED BY <1>2, <2>1 DEF Cluster
<1>5. Same(chosen, chosen', Len(chosen))
  <2>1. \A x \in 1..Len(chosen) : x \in 1..m /\ chosen[x] = leaders[T][x]
    BY <1>1, <1>2, <1>4 DEF Same
  <2>. QED BY <2>1, <1>1, <1>2, <1>3 DEF Same
<1>6. \A t \in 1..T : /\ t = T => Known(t) = Len(chosen) /\ Known(t)' = m
                      /\ t # T => Known(t)' = Known(t)
  BY <1>2, <1>3 DEF Known
<1>. HIDE DEF T
<1>7. \A t \in 1..T : Known(t) <= Known(t)'
  BY <1>1, <1>2, <1>6, ClusterTypes DEF T
<1>8. Grows
  <2>1. \A t \in 1..T : Same(leaders[t], leaders'[t], Len(leaders[t]))
    BY <1>1, <1>2 DEF Same, T
  <2>. QED BY <2>1, <1>1, <1>2, <1>5, <1>7 DEF Grows, T
<1>9. ASSUME NEW t \in 1..T
      PROVE  /\ Same(chosen', leaders[t], Known(t)')
             /\ \A u \in 1..t : Known(u)' <= Known(t)'
  <2>1. CASE t = T
    <3>1. Same(chosen', leaders[t], m)
      BY <2>1, <1>2, <1>3 DEF Same
    <3>2. ASSUME NEW u \in 1..T PROVE Known(u)' <= m
      <4>1. CASE u = T
        BY <4>1, <1>6
      <4>2. CASE u # T
        BY <4>2, <1>1, <1>2, <1>6, ClusterTypes DEF T
      <4>. QED BY <4>1, <4>2
    <3>. QED BY <2>1, <3>1, <3>2, <1>6
  <2>2. CASE t # T
    <3>1. /\ Same(chosen, leaders[t], Known(t))
          /\ \A u \in 1..t : Known(u) <= Known(t)
      BY DEF Cluster, T
    <3>2. \A u \in 1..t : u \in 1..T /\ u # T
      BY <2>2, <1>1
    <3>3. Same(chosen', leaders[t], Known(t))
      <4>1. Known(t) \in Nat /\ Known(t) <= Len(chosen)
        BY ClusterTypes DEF T
      <4>2. \A x \in 1..Known(t) : x \in 1..Len(chosen)
        BY <4>1, <1>1
      <4>. QED BY <3>1, <4>1, <4>2, <1>1, <1>2, <1>3, <1>5, SMTT(30) DEF Same
    <3>. QED BY <2>2, <3>1, <3>2, <3>3, <1>6
  <2>. QED BY <2>1, <2>2
<1>. QED BY <1>1, <1>2, <1>3, <1>8, <1>9 DEF Cluster, T

(* A step of the environment keeps the cluster's promises and leaves the   *)
(* node alone.                                                             *)
LEMMA ClusterKeeps ==
    ASSUME Cluster, ClusterStep
    PROVE  /\ Cluster' /\ Grows
           /\ UNCHANGED <<store, raftState, handler, crashes>>
<1>0. leaders \in Seq(Seq(Entry)) /\ DOMAIN leaders = 1..Len(leaders)
  BY DEF Cluster
<1>1. CASE \E t \in DOMAIN leaders, m \in 0..MaxLen : Elect(leaders[t], m)
  <2>1. PICK t \in DOMAIN leaders, m \in 0..MaxLen : Elect(leaders[t], m)
    BY <1>1
  <2>2. leaders[t] \in Seq(Entry) /\ Len(leaders[t]) <= MaxLen
            /\ Matches(leaders[t], leaders)
    BY <1>0 DEF Cluster
  <2>. QED BY <2>1, <2>2, ElectKeeps DEF Elect
<1>2. CASE leaders = <<>> /\ Elect(<<>>, 0)
  <2>1. <<>> \in Seq(Entry) /\ Len(<<>>) <= MaxLen /\ Matches(<<>>, leaders)
    BY DEF Matches
  <2>. QED BY <1>2, <2>1, ElectKeeps DEF Elect
<1>3. CASE \E t \in DOMAIN leaders, k \in Keys, v \in Values :
              LeaderAppends(t, k, v)
  BY <1>0, <1>3, AppendKeeps DEF LeaderAppends
<1>4. CASE \E m \in 1..MaxLen : Choose(m)
  BY <1>4, ChooseKeeps DEF Choose
<1>. QED BY <1>1, <1>2, <1>3, <1>4 DEF ClusterStep
-----------------------------------------------------------------------------
(* Requests.                                                               *)

(* A request that arrives is a slice of the log of its leader.             *)
LEMMA ArrivesSlice ==
    ASSUME Cluster, NEW r, Arrives(r)
    PROVE  /\ SliceOf(r) /\ r.prevTerm = TermAt(leaders[r.term], r.prev)
           /\ r.prev <= Len(leaders[r.term])
<1>1. PICK t \in DOMAIN leaders :
         \E l \in Lengths(t), c \in 0..Known(t) : \E p \in 0..l :
            (SplitSend \/ c <= l) /\ r = Request(t, p, l, c)
  BY DEF Arrives
<1>2. PICK l \in Lengths(t), c \in 0..Known(t) : \E p \in 0..l :
            (SplitSend \/ c <= l) /\ r = Request(t, p, l, c)
  BY <1>1
<1>3. PICK p \in 0..l : (SplitSend \/ c <= l) /\ r = Request(t, p, l, c)
  BY <1>2
<1>4. /\ t \in 1..Len(leaders) /\ leaders[t] \in Seq(Entry)
      /\ Known(t) \in Nat /\ Len(leaders[t]) \in Nat
  BY ClusterTypes
<1>5. l \in 0..Len(leaders[t]) /\ p \in Nat /\ p <= l /\ c \in Nat
        /\ c <= Known(t)
  BY <1>4 DEF Lengths
<1>6. /\ r.term = t /\ r.prev = p /\ r.commit = c
      /\ r.prevTerm = TermAt(leaders[t], p)
      /\ r.entries = SubSeq(leaders[t], p + 1, l)
  BY <1>3 DEF Request
<1>7. /\ SubSeq(leaders[t], p + 1, l) \in Seq(Entry)
      /\ Len(SubSeq(leaders[t], p + 1, l)) = l - p
      /\ \A j \in 1..l - p :
            SubSeq(leaders[t], p + 1, l)[j] = leaders[t][p + j]
  BY <1>4, <1>5
<1>. QED BY <1>3, <1>4, <1>5, <1>6, <1>7 DEF SliceOf

(* It stays one while the leaders' logs grow.                              *)
LEMMA SliceStays ==
    ASSUME Cluster, Cluster', Grows, SliceOf(req), req' = req
    PROVE  SliceOf(req)'
<1>1. PICK r : r = req
  OBVIOUS
<1>2. SliceOf(r)
  BY <1>1
<1>3. /\ r.term \in 1..Len(leaders) /\ r.prev \in Nat /\ r.commit \in Nat
      /\ r.entries \in Seq(Entry) /\ Len(r.entries) \in Nat
      /\ r.prev + Len(r.entries) <= Len(leaders[r.term])
      /\ r.commit <= Known(r.term)
  BY <1>2 DEF SliceOf
<1>4. /\ Same(leaders[r.term], leaders'[r.term], Len(leaders[r.term]))
      /\ Known(r.term) <= Known(r.term)'
  BY <1>3 DEF Grows
<1>5. r.term \in 1..Len(leaders')
  BY <1>3, ClusterTypes DEF Grows, Cluster
<1>6. /\ Known(r.term) \in Nat /\ Known(r.term)' \in Nat
      /\ leaders[r.term] \in Seq(Entry) /\ leaders'[r.term] \in Seq(Entry)
  <2>1. Known(r.term) \in Nat /\ leaders[r.term] \in Seq(Entry)
    BY <1>3, ClusterTypes
  <2>2. /\ leaders' \in Seq(Seq(Entry)) /\ floors' \in Seq(Nat)
        /\ Len(floors') = Len(leaders') /\ chosen' \in Seq(Entry)
    BY DEF Cluster
  <2>3. Known(r.term)' \in Nat
    BY <1>5, <2>2 DEF Known
  <2>. QED BY <1>5, <2>1, <2>2, <2>3
<1>7. /\ r.prev + Len(r.entries) <= Len(leaders'[r.term])
      /\ \A j \in 1..Len(r.entries) :
            r.entries[j] = leaders'[r.term][r.prev + j]
  <2>1. \A j \in 1..Len(r.entries) :
           r.prev + j \in 1..Len(leaders[r.term])
    BY <1>3, <1>6, SMTT(30)
  <2>2. \A j \in 1..Len(r.entries) :
           r.entries[j] = leaders[r.term][r.prev + j]
    BY <1>2 DEF SliceOf
  <2>3. \A x \in 1..Len(leaders[r.term]) :
           leaders[r.term][x] = leaders'[r.term][x]
    BY <1>4 DEF Same
  <2>4. Len(leaders[r.term]) <= Len(leaders'[r.term])
    BY <1>4 DEF Same
  <2>5. Len(leaders[r.term]) \in Nat /\ Len(leaders'[r.term]) \in Nat
    BY <1>6
  <2>6. r.prev + Len(r.entries) <= Len(leaders'[r.term])
    <3>1. \A a, b, c, d \in Nat : a + b <= c /\ c <= d => a + b <= d
      OBVIOUS
    <3>. QED BY <3>1, <2>4, <2>5, <1>3, Zenon
  <2>. QED BY <2>1, <2>2, <2>3, <2>6
<1>8. r.commit <= Known(r.term)'
  BY <1>3, <1>4, <1>6
<1>9. SliceOf(r)'
  BY <1>2, <1>3, <1>5, <1>7, <1>8 DEF SliceOf
<1>. QED BY <1>1, <1>9 DEF SliceOf, Known
-----------------------------------------------------------------------------
(* The invariant, whatever fails.                                          *)

(* The initial states have the invariant.                                  *)
LEMMA InitInv == Init => Inv
<1>. SUFFICES ASSUME Init PROVE Inv
  OBVIOUS
<1>1. TypeOK
  <2>1. timer \in BOOLEAN
    BY Zenon DEF Init
  <2>2. ElectionsOK
    BY CandidateAssumption DEF Init, NoElections, ElectionsOK
  <2>3. role \in {"FOLLOWER", "CANDIDATE"} /\ currentTerm \in 0..MaxTerm + 1
    BY CandidateAssumption DEF Init
  <2>. QED BY <2>1, <2>2, <2>3 DEF Init, TypeOK, Labels
<1>2. Cluster
  BY CandidateAssumption DEF Init, Cluster
<1>. QED BY <1>1, <1>2 DEF Inv, Running, Init

(* What happens elsewhere in the cluster leaves the request that is being  *)
(* handled a slice of its leader's log.                                    *)
LEMMA ClusterStepKeepsInv ==
    ASSUME Inv, ClusterStep
    PROVE  Inv'
<1>1. /\ Cluster' /\ Grows
      /\ UNCHANGED <<store, raftState, handler, crashes>>
  BY ClusterKeeps DEF Inv
<1>2. TypeOK'
  BY <1>1 DEF Inv, TypeOK, ElectionsOK
<1>3. Running'
  BY <1>1, SliceStays DEF Inv, Running
<1>. QED BY <1>1, <1>2, <1>3 DEF Inv

(* A request arrives: it is a slice.                                       *)
LEMMA ReceiveKeepsInv ==
    ASSUME Inv, NEW r, Arrives(r), Receive(r)
    PROVE  Inv'
<1>1. SliceOf(r) /\ Cluster /\ TypeOK
  BY ArrivesSlice DEF Inv
<1>2. Cluster'
  BY <1>1 DEF Receive, Cluster, Known
<1>3. TypeOK'
  BY <1>1 DEF Receive, TypeOK, ElectionsOK, Labels
<1>4. Running'
  <2>1. pc' = "term" /\ req' = r /\ UNCHANGED cluster
    BY DEF Receive
  <2>2. SliceOf(req)'
    BY <2>1, <1>1 DEF SliceOf, Known
  <2>. QED BY <2>1, <2>2 DEF Running
<1>. QED BY <1>2, <1>3, <1>4 DEF Inv

(* The steps of the node leave the cluster alone.                          *)
LEMMA ClusterUnchanged ==
    ASSUME UNCHANGED cluster
    PROVE  /\ Cluster => Cluster'
           /\ SliceOf(req) /\ req' = req => SliceOf(req)'
BY DEF Cluster, Known, SliceOf

(* The numbers of a request that is handled.                               *)
LEMMA RequestTypes ==
    ASSUME Inv, pc # "idle"
    PROVE  /\ req.entries \in Seq(Entry) /\ Len(req.entries) \in Nat
           /\ req.prev \in Nat /\ req.commit \in Nat
           /\ req.prev + Len(req.entries) <= MaxLen
           /\ req.term \in 1..Len(leaders)
<1>1. SliceOf(req)
  BY DEF Inv, Running
<1>2. /\ req.entries \in Seq(Entry) /\ Len(req.entries) \in Nat
      /\ req.prev \in Nat /\ req.commit \in Nat /\ req.term \in 1..Len(leaders)
      /\ req.prev + Len(req.entries) <= Len(leaders[req.term])
  BY <1>1 DEF SliceOf
<1>3. Len(leaders[req.term]) \in Nat /\ Len(leaders[req.term]) <= MaxLen
  BY <1>2, ClusterTypes DEF Inv, Cluster
<1>. QED BY <1>2, <1>3

(* Leaving the handler and going on in it, as far as the types of its own  *)
(* variables go.                                                           *)
LEMMA IdleKeeps ==
    ASSUME Inv, Idle
    PROVE  /\ pc' \in Labels /\ i' \in 0..MaxLen + 1 /\ la' \in 0..MaxLen
           /\ upto' \in 0..MaxLen
           /\ Running'
BY DEF Idle, Running, Labels

(* The statements up to the loop.                                          *)
LEMMA CheckKeepsInv ==
    ASSUME Inv, SeeNewer \/ Adopt \/ CheckPrev
    PROVE  Inv'
<1>1. UNCHANGED <<cluster, store, elections>>
  BY DEF SeeNewer, Adopt, CheckPrev
<1>2. Cluster' /\ (SliceOf(req) /\ req' = req => SliceOf(req)')
  BY <1>1, ClusterUnchanged DEF Inv
<1>3. TypeOK
  BY DEF Inv
<1>4. CASE SeeNewer
  <2>1. TypeOK'
    BY <1>3, <1>4 DEF TypeOK, ElectionsOK, Labels, SeeNewer
  <2>2. Running'
    BY <1>2, <1>4 DEF Inv, Running, SeeNewer
  <2>. QED BY <1>2, <2>1, <2>2 DEF Inv
<1>5. CASE Adopt
  <2>1. req.term \in 1..MaxTerm
    BY CandidateAssumption, <1>5, RequestTypes DEF Adopt, Inv, Cluster
  <2>2. TypeOK'
    BY CandidateAssumption, <1>3, <1>5, <2>1
       DEF TypeOK, ElectionsOK, Labels, Adopt
  <2>3. Running'
    BY <1>2, <1>5 DEF Inv, Running, Adopt
  <2>. QED BY <1>2, <2>2, <2>3 DEF Inv
<1>6. CASE CheckPrev
  <2>1. timer' \in BOOLEAN
    BY <1>6, Zenon DEF CheckPrev
  <2>2. /\ pc' \in Labels /\ i' \in 0..MaxLen + 1 /\ la' \in 0..MaxLen
        /\ upto' \in 0..MaxLen
        /\ Running'
    <3>1. CASE Idle
      BY <3>1, IdleKeeps
    <3>2. CASE pc' = "loop" /\ i' = 1 /\ UNCHANGED <<req, la, upto>>
      <4>1. pc # "idle"
        BY <1>6 DEF CheckPrev
      <4>2. SliceOf(req)' /\ Len(req.entries) \in Nat
        BY <4>1, <3>2, <1>2, RequestTypes DEF Inv, Running
      <4>. QED BY <3>2, <4>2, <1>3 DEF TypeOK, Running, Labels
    <3>. QED BY <1>6, <3>1, <3>2 DEF CheckPrev
  <2>3. UNCHANGED <<role, currentTerm>>
    BY <1>6 DEF CheckPrev
  <2>4. TypeOK'
    BY <1>1, <1>3, <2>1, <2>2, <2>3 DEF TypeOK, ElectionsOK
  <2>. QED BY <1>2, <2>2, <2>4 DEF Inv
<1>. QED BY <1>4, <1>5, <1>6

(* The entry to be appended, and the log with it.                          *)
LEMMA AppendingTypes ==
    ASSUME Inv, Appending
    PROVE  /\ pc \in {"loop", "append"} /\ i \in 1..Len(req.entries)
           /\ req.entries[i] \in Entry
           /\ Append(log, req.entries[i]) \in Seq(Entry)
           /\ Len(Append(log, req.entries[i])) <= MaxLen
<1>1. /\ log \in Seq(Entry) /\ Len(log) < MaxLen /\ pc \in {"loop", "append"}
      /\ i \in 1..Len(req.entries)
  BY RequestTypes DEF Inv, TypeOK, Running, Appending, Index
<1>2. req.entries[i] \in Entry
  BY <1>1, RequestTypes
<1>. QED BY <1>1, <1>2

(* The statements of the loop.                                             *)
LEMMA LoopKeepsInv ==
    ASSUME Inv, SkipEntry \/ DeleteConflict \/ AppendEntry \/ Abort
    PROVE  Inv'
<1>1. UNCHANGED <<cluster, commitIndex, lastApplied, kv, raftState>>
  BY DEF SkipEntry, DeleteConflict, AppendEntry, Abort
<1>2. Cluster' /\ (SliceOf(req) /\ req' = req => SliceOf(req)')
  BY <1>1, ClusterUnchanged DEF Inv
<1>3. TypeOK
  BY DEF Inv
<1>4. CASE SkipEntry
  <2>0. i \in Nat /\ i <= MaxLen
    BY <1>4, RequestTypes, SMTT(30) DEF Inv, TypeOK, SkipEntry
  <2>1. TypeOK'
    BY <1>3, <1>4, <2>0 DEF TypeOK, ElectionsOK, SkipEntry
  <2>2. Running'
    BY <1>4, <1>2, SMTT(30) DEF Inv, TypeOK, Running, SkipEntry
  <2>. QED BY <1>2, <2>1, <2>2 DEF Inv
<1>5. CASE DeleteConflict
  <2>1. /\ log \in Seq(Entry) /\ Len(log) \in Nat /\ Len(log) <= MaxLen
        /\ Index - 1 \in 0..Len(log) /\ Index - 1 < Len(log)
    <3>1. pc = "loop" /\ Len(log) >= Index
      BY <1>5 DEF DeleteConflict
    <3>2. log \in Seq(Entry) /\ Len(log) \in Nat /\ Len(log) <= MaxLen
      BY DEF Inv, TypeOK
    <3>3. Index \in Nat \ {0}
      BY <3>1, RequestTypes DEF Inv, Running, Index
    <3>. QED BY <3>1, <3>2, <3>3
  <2>2. log' = Prefix(log, Index - 1) \/ (Len(log) < MaxLen /\ log' = log)
    BY <1>5, Zenon DEF DeleteConflict
  <2>3. log' \in Seq(Entry) /\ Len(log') < MaxLen
    BY <2>1, <2>2, PrefixOf
  <2>4. TypeOK'
    BY <1>1, <1>3, <1>5, <2>3, SMTT(30)
       DEF TypeOK, ElectionsOK, DeleteConflict, Labels
  <2>5. Running'
    BY <1>5, <1>2, <2>3, RequestTypes DEF Inv, TypeOK, Running, DeleteConflict
  <2>. QED BY <1>2, <2>4, <2>5 DEF Inv
<1>6. CASE AppendEntry
  <2>1. /\ log' \in Seq(Entry) /\ Len(log') <= MaxLen
        /\ i \in 1..Len(req.entries) /\ pc # "idle"
    BY <1>6, AppendingTypes DEF AppendEntry
  <2>2. i' \in 0..MaxLen + 1 /\ i' \in 1..Len(req.entries) + 1
    BY <1>6, <2>1, RequestTypes DEF AppendEntry
  <2>3. TypeOK'
    BY <1>1, <1>3, <1>6, <2>1, <2>2
       DEF TypeOK, ElectionsOK, AppendEntry, Labels
  <2>4. Running'
    BY <1>6, <1>2, <2>1, <2>2 DEF Inv, Running, AppendEntry
  <2>. QED BY <1>2, <2>3, <2>4 DEF Inv
<1>7. CASE Abort
  <2>1. log' = log \/ (Appending /\ log' = Append(log, req.entries[i]))
    BY <1>7 DEF Abort
  <2>2. log' \in Seq(Entry) /\ Len(log') <= MaxLen
    BY <1>3, <2>1, AppendingTypes DEF TypeOK
  <2>3. Idle
    BY <1>7 DEF Abort
  <2>4. TypeOK'
    BY <1>1, <1>3, <2>2, <2>3, IdleKeeps DEF TypeOK, ElectionsOK
  <2>. QED BY <1>2, <2>3, <2>4, IdleKeeps DEF Inv
<1>. QED BY <1>4, <1>5, <1>6, <1>7

(* What a call on the state table may read or leave.                       *)
LEMMA CallResults ==
    ASSUME NEW S, 0 \in S, NEW a \in S, NEW b \in S
    PROVE  Reads(a) \subseteq S /\ Writes(a, b) \subseteq S
BY DEF Reads, Writes

(* The commit index and applyCommittedEntries.                             *)
LEMMA CommitKeepsInv ==
    ASSUME Inv,
           \/ TestCommit \/ SetCommit \/ ReadApplied \/ ReadTarget
           \/ ApplyEntry \/ ApplyDone
    PROVE  Inv'
<1>1. UNCHANGED <<cluster, log, raftState>>
  BY DEF TestCommit, SetCommit, ReadApplied, ReadTarget, ApplyEntry, ApplyDone
<1>2. Cluster' /\ (SliceOf(req) /\ req' = req => SliceOf(req)')
  BY <1>1, ClusterUnchanged DEF Inv
<1>3. /\ TypeOK /\ la \in 0..MaxLen /\ upto \in 0..MaxLen
      /\ commitIndex \in 0..MaxLen /\ lastApplied \in 0..MaxLen
      /\ i \in 0..MaxLen + 1
      /\ 0 \in 0..MaxLen
  BY DEF Inv, TypeOK
<1>4. CASE TestCommit
  <2>1. \/ pc = "loop" /\ pc' = "set" /\ UNCHANGED <<req, i, la, upto>>
        \/ Idle
    BY <1>4 DEF TestCommit
  <2>2. /\ pc' \in Labels /\ i' \in 0..MaxLen + 1 /\ la' \in 0..MaxLen
        /\ upto' \in 0..MaxLen
        /\ Running'
    <3>1. CASE Idle
      BY <3>1, IdleKeeps
    <3>2. CASE pc = "loop" /\ pc' = "set" /\ UNCHANGED <<req, i, la, upto>>
      BY <1>2, <1>3, <3>2 DEF Labels, Inv, Running
    <3>. QED BY <2>1, <3>1, <3>2
  <2>3. UNCHANGED <<commitIndex, lastApplied, kv>>
    BY <1>4 DEF TestCommit
  <2>4. TypeOK'
    BY <1>1, <1>3, <2>2, <2>3 DEF TypeOK, ElectionsOK
  <2>. QED BY <1>2, <2>2, <2>4 DEF Inv
<1>5. CASE SetCommit
  <2>1. Smaller(req.commit, Len(log)) \in 0..MaxLen
    BY <1>3, <1>5, RequestTypes DEF SetCommit, TypeOK, Smaller
  <2>2. commitIndex' \in 0..MaxLen
    BY <1>3, <1>5, <2>1, CallResults, Zenon DEF SetCommit
  <2>3. TypeOK'
    BY <1>3, <1>5, <2>2 DEF TypeOK, ElectionsOK, SetCommit, Labels
  <2>4. Running'
    BY <1>5, <1>2 DEF Inv, Running, SetCommit
  <2>. QED BY <1>2, <2>3, <2>4 DEF Inv
<1>6. CASE ReadApplied
  <2>1. la' \in 0..MaxLen
    BY <1>3, <1>6, CallResults, Zenon DEF ReadApplied
  <2>2. TypeOK'
    BY <1>3, <1>6, <2>1 DEF TypeOK, ElectionsOK, ReadApplied, Labels
  <2>3. Running'
    BY <1>6, <1>2 DEF Inv, Running, ReadApplied
  <2>. QED BY <1>2, <2>2, <2>3 DEF Inv
<1>7. CASE ReadTarget
  <2>1. upto' \in 0..MaxLen
    BY <1>3, <1>7, CallResults, Zenon DEF ReadTarget
  <2>2. TypeOK'
    BY <1>3, <1>7, <2>1 DEF TypeOK, ElectionsOK, ReadTarget, Labels
  <2>3. Running'
    BY <1>7, <1>2 DEF Inv, Running, ReadTarget
  <2>. QED BY <1>2, <2>2, <2>3 DEF Inv
<1>8. CASE ApplyEntry
  <2>1. log[la + 1] \in Entry
    BY <1>8 DEF Inv, TypeOK, ApplyEntry
  <2>2. kv' \in [Keys -> Values \cup {NoValue}]
    <3>1. \/ kv' = kv
          \/ kv' = [kv EXCEPT ![log[la + 1].key] = log[la + 1].value]
      BY <1>8, Zenon DEF ApplyEntry, Writes
    <3>. QED BY <1>3, <2>1, <3>1 DEF TypeOK, Entry
  <2>3. la' \in 0..MaxLen
    BY <1>3, <1>8 DEF ApplyEntry
  <2>4. TypeOK'
    BY <1>3, <1>8, <2>2, <2>3 DEF TypeOK, ElectionsOK, ApplyEntry
  <2>5. Running'
    BY <1>8, <1>2 DEF Inv, Running, ApplyEntry
  <2>. QED BY <1>2, <2>4, <2>5 DEF Inv
<1>9. CASE ApplyDone
  <2>1. lastApplied' \in 0..MaxLen
    BY <1>3, <1>9, CallResults, Zenon DEF ApplyDone
  <2>2. Idle
    BY <1>9 DEF ApplyDone
  <2>3. TypeOK'
    BY <1>3, <1>9, <2>1, <2>2, IdleKeeps DEF TypeOK, ElectionsOK, ApplyDone
  <2>. QED BY <1>2, <2>2, <2>3, IdleKeeps DEF Inv
<1>. QED BY <1>4, <1>5, <1>6, <1>7, <1>8, <1>9

(* Elections keep the types of what they move.                             *)
LEMMA ElectionsTyped ==
    ASSUME TypeOK, Elections
    PROVE  /\ role' \in {"FOLLOWER", "CANDIDATE"}
           /\ currentTerm' \in 0..MaxTerm + 1 /\ timer' \in BOOLEAN
           /\ ElectionsOK'
<1>1. /\ role \in {"FOLLOWER", "CANDIDATE"} /\ currentTerm \in 0..MaxTerm + 1
      /\ timer \in BOOLEAN /\ ElectionsOK
  BY DEF TypeOK
<1>2. MaxTerm \in Nat /\ MaxTasks \in Nat /\ Cardinality(Peers) \in Nat
  BY CandidateAssumption, FS_CardinalityType
<1>3. ASSUME NEW e \in Electors, ElectionTask(e) \/ TimerFires(e)
      PROVE  /\ role' \in {"FOLLOWER", "CANDIDATE"}
             /\ currentTerm' \in 0..MaxTerm + 1 /\ timer' \in BOOLEAN
             /\ ElectionsOK'
  <2>1. BecomeCandidate(e)
    BY <1>3 DEF ElectionTask, TimerFires
  <2>2. timer' \in BOOLEAN
    BY <1>1, <1>3, Zenon DEF ElectionTask, TimerFires
  <2>3. ballot' \in [Electors -> 0..MaxTerm]
    BY <1>1, <1>2, <2>1 DEF BecomeCandidate, ElectionsOK
  <2>. QED BY <1>1, <2>1, <2>2, <2>3 DEF BecomeCandidate, ElectionsOK
<1>4. ASSUME NEW e \in Electors, Campaign(e) \/ CampaignFails(e)
      PROVE  /\ role' \in {"FOLLOWER", "CANDIDATE"}
             /\ currentTerm' \in 0..MaxTerm + 1 /\ timer' \in BOOLEAN
             /\ ElectionsOK'
  <2>1. WriteTerm(e) /\ tasks' \in 0..MaxTasks /\ role' = role
    BY <1>1, <1>2, <1>4 DEF Campaign, CampaignFails, ElectionsOK
  <2>2. /\ ballot' \in [Electors -> 0..MaxTerm]
        /\ currentTerm' \in 0..MaxTerm + 1 /\ UNCHANGED <<voter, heard>>
    BY <1>1, <1>2, <2>1 DEF WriteTerm, ElectionsOK
  <2>3. timer' \in BOOLEAN
    BY <1>1, <2>1, Zenon DEF WriteTerm
  <2>. QED BY <1>1, <2>1, <2>2, <2>3 DEF ElectionsOK
<1>5. ASSUME NEW w \in Voters, TakeTask(w) \/ RequestVote(w)
      PROVE  /\ role' \in {"FOLLOWER", "CANDIDATE"}
             /\ currentTerm' \in 0..MaxTerm + 1 /\ timer' \in BOOLEAN
             /\ ElectionsOK'
  <2>1. UNCHANGED <<timer, ballot>> /\ timer' \in BOOLEAN
    BY <1>1, <1>5, Zenon
       DEF TakeTask, RequestVote, PeerAnswers, CallEnds, AdoptTerm
  <2>2. CASE TakeTask(w)
    BY <1>1, <1>2, <2>1, <2>2 DEF TakeTask, ElectionsOK
  <2>3. ASSUME NEW term \in 1..MaxTerm + 1, PeerAnswers(w, term)
        PROVE  /\ UNCHANGED <<role, currentTerm>> /\ ElectionsOK'
    BY <1>1, <1>2, <2>1, <2>3 DEF PeerAnswers, ElectionsOK
  <2>4. CASE CallEnds(w)
    BY <1>1, <1>2, <2>1, <2>4 DEF CallEnds, ElectionsOK
  <2>5. CASE AdoptTerm(w)
    BY <1>1, <1>2, <2>1, <2>5 DEF AdoptTerm, ElectionsOK
  <2>. QED BY <1>1, <1>5, <2>1, <2>2, <2>3, <2>4, <2>5 DEF RequestVote
<1>. QED BY <1>3, <1>4, <1>5 DEF Elections

(* Elections and crashes of the node itself.                               *)
LEMMA OwnKeepsInv ==
    ASSUME Inv, Elections \/ Crash
    PROVE  Inv'
<1>1. UNCHANGED <<cluster, store>>
  BY DEF Elections, Crash
<1>2. Cluster' /\ (SliceOf(req) /\ req' = req => SliceOf(req)')
  BY <1>1, ClusterUnchanged DEF Inv
<1>3. CASE Elections
  <2>1. UNCHANGED handler
    BY <1>3 DEF Elections
  <2>2. TypeOK'
    BY <1>1, <1>3, <2>1, ElectionsTyped DEF Inv, TypeOK
  <2>. QED BY <1>1, <1>2, <2>1, <2>2 DEF Inv, Running
<1>4. CASE Crash
  <2>1. timer' \in BOOLEAN
    BY <1>4, Zenon DEF Crash
  <2>2. ElectionsOK' /\ role' = "FOLLOWER" /\ currentTerm' = 0 /\ Idle
    BY CandidateAssumption, <1>4 DEF Crash, DropElections, ElectionsOK
  <2>3. TypeOK'
    BY CandidateAssumption, <1>1, <2>1, <2>2, IdleKeeps DEF Inv, TypeOK
  <2>. QED BY <1>2, <2>2, <2>3, IdleKeeps DEF Inv
<1>. QED BY <1>3, <1>4

(* What a step of the specification can be.                                *)
LEMMA StepCases ==
    ASSUME Next
    PROVE  \/ ClusterStep
           \/ \E r : Arrives(r) /\ Receive(r)
           \/ Handle
           \/ Elections \/ Crash
BY DEF Next, ClusterStep, Arrives

(* Every step keeps the invariant.                                         *)
LEMMA NextKeepsInv == Inv /\ [Next]_vars => Inv'
<1>. SUFFICES ASSUME Inv, [Next]_vars PROVE Inv'
  OBVIOUS
<1>1. CASE UNCHANGED vars
  <2>1. Cluster' /\ (SliceOf(req) => SliceOf(req)')
    BY <1>1, ClusterUnchanged DEF Inv
  <2>2. TypeOK'
    BY <1>1 DEF Inv, TypeOK, ElectionsOK
  <2>. QED BY <1>1, <2>1, <2>2 DEF Inv, Running
<1>2. CASE Next
  BY <1>2, StepCases, ClusterStepKeepsInv, ReceiveKeepsInv, CheckKeepsInv,
     LoopKeepsInv, CommitKeepsInv, OwnKeepsInv DEF Handle
<1>. QED BY <1>1, <1>2

(* The invariant holds whatever fails: with crashes, failing calls, terms  *)
(* that fall and requests whose commit index runs ahead of their entries.  *)
THEOREM Invariance == Spec => []Inv
BY InitInv, NextKeepsInv, PTL DEF Spec

(* The tables and the fields of a follower keep their types for every      *)
(* number of terms and every length of the logs (RaftNode.java:170-239).   *)
THEOREM TypeCorrect == Spec => []TypeOK
<1>1. Inv => TypeOK
  BY DEF Inv
<1>. QED BY Invariance, <1>1, PTL

-----------------------------------------------------------------------------
(* The loop of appendEntries, when deletes do not fail.                    *)

(* j is the first position at which the request clashes with the log s.    *)
First(j, s, prev, entries) ==
    /\ j \in Clashes(s, prev, entries)
    /\ \A c \in Clashes(s, prev, entries) : j <= c

(* The log starts as s did before position prev + j, and goes on with the  *)
(* entries j..m of the request.                                            *)
Spliced(new, s, prev, entries, j, m) ==
    /\ Len(new) = prev + m
    /\ \A x \in 1..prev + j - 1 : new[x] = s[x]
    /\ \A x \in j..m : new[prev + x] = entries[x]

(* Nothing differed yet; or the first clash was just deleted; or it is     *)
(* behind and the request is being appended.                               *)
Merging ==
    pc \in {"loop", "append"} =>
      /\ before \in Seq(Entry) /\ req.prev <= Len(before)
      /\ \/ /\ pc = "loop" /\ log = before
            /\ \A j \in 1..i - 1 :
                  j \notin Clashes(before, req.prev, req.entries)
         \/ /\ pc = "append" /\ First(i, before, req.prev, req.entries)
            /\ Spliced(log, before, req.prev, req.entries, i, i - 1)
         \/ /\ pc = "loop"
            /\ \E j \in 1..i - 1 :
                  /\ First(j, before, req.prev, req.entries)
                  /\ Spliced(log, before, req.prev, req.entries, j, i - 1)

(* A log that was spliced at the first clash, with the whole request, is   *)
(* what MergeEntries says.                                                 *)
LEMMA SplicedMerges ==
    ASSUME NEW s \in Seq(Entry), NEW new \in Seq(Entry), NEW prev \in Nat,
           NEW entries \in Seq(Entry), NEW j \in 1..Len(entries),
           prev + j - 1 <= Len(s),
           First(j, s, prev, entries),
           Spliced(new, s, prev, entries, j, Len(entries))
    PROVE  new = MergeEntries(s, prev, entries)
<1>. DEFINE C == Clashes(s, prev, entries)
            head == SubSeq(s, 1, prev + j - 1)
            tail == SubSeq(entries, j, Len(entries))
<1>1. C \subseteq Nat /\ j \in C /\ \A c \in C : j <= c
  BY DEF First, Clashes
<1>. HIDE DEF C
<1>2. \A y \in C : (\A c \in C : y <= c) => y = j
  BY <1>1
<1>3. (CHOOSE y \in C : \A c \in C : y <= c) = j
  BY <1>1, <1>2, Zenon
<1>4. MergeEntries(s, prev, entries) = head \o tail
  BY <1>1, <1>3, Zenon DEF MergeEntries, C
<1>5. /\ head \in Seq(Entry) /\ Len(head) = prev + j - 1
      /\ \A x \in 1..prev + j - 1 : head[x] = s[x]
  OBVIOUS
<1>6. /\ tail \in Seq(Entry) /\ Len(tail) = Len(entries) - j + 1
      /\ \A x \in 1..Len(entries) - j + 1 : tail[x] = entries[j + x - 1]
  BY SMTT(30)
<1>. HIDE DEF head, tail
<1>7. /\ head \o tail \in Seq(Entry)
      /\ Len(head \o tail) = prev + Len(entries)
      /\ \A x \in 1..prev + j - 1 : (head \o tail)[x] = head[x]
      /\ \A x \in prev + j..prev + Len(entries) :
            (head \o tail)[x] = tail[x - (prev + j - 1)]
  <2>1. /\ head \o tail \in Seq(Entry)
        /\ Len(head \o tail) = Len(head) + Len(tail)
        /\ \A x \in 1..Len(head) + Len(tail) : (head \o tail)[x] =
              IF x <= Len(head) THEN head[x] ELSE tail[x - Len(head)]
    BY <1>5, <1>6, ConcatProperties
  <2>2. Len(head) + Len(tail) = prev + Len(entries)
    BY <1>5, <1>6
  <2>3. ASSUME NEW x \in 1..prev + j - 1
        PROVE  (head \o tail)[x] = head[x]
    <3>1. x \in 1..Len(head) + Len(tail) /\ x <= Len(head)
      BY <2>2, <1>5
    <3>. QED BY <3>1, <2>1
  <2>4. ASSUME NEW x \in prev + j..prev + Len(entries)
        PROVE  (head \o tail)[x] = tail[x - (prev + j - 1)]
    <3>1. x \in 1..Len(head) + Len(tail) /\ ~(x <= Len(head))
      BY <2>2, <1>5
    <3>. QED BY <3>1, <2>1, <1>5
  <2>. QED BY <2>1, <2>2, <2>3, <2>4
<1>8. Len(new) = prev + Len(entries)
  BY DEF Spliced
<1>9. ASSUME NEW x \in 1..prev + Len(entries)
      PROVE  new[x] = (head \o tail)[x]
  <2>1. CASE x <= prev + j - 1
    BY <2>1, <1>5, <1>7 DEF Spliced
  <2>2. CASE x > prev + j - 1
    <3>1. x - prev \in j..Len(entries) /\ x = prev + (x - prev)
      BY <2>2
    <3>2. new[x] = entries[x - prev]
      BY <3>1 DEF Spliced
    <3>3. /\ x - (prev + j - 1) \in 1..Len(entries) - j + 1
          /\ j + (x - (prev + j - 1)) - 1 = x - prev
      BY <2>2
    <3>4. tail[x - (prev + j - 1)] = entries[x - prev]
      BY <3>3, <1>6
    <3>5. x \in prev + j..prev + Len(entries)
      BY <2>2
    <3>. QED BY <3>2, <3>4, <3>5, <1>7
  <2>. QED
    <3>1. x <= prev + j - 1 \/ x > prev + j - 1
      OBVIOUS
    <3>. QED BY <2>1, <2>2, <3>1, Zenon
<1>. QED BY <1>4, <1>7, <1>8, <1>9, SeqEqual

(* What the loop knows of position i of the request.                       *)
LEMMA ClashAt ==
    ASSUME NEW s \in Seq(Entry), NEW prev \in Nat, NEW entries \in Seq(Entry),
           NEW j \in 1..Len(entries)
    PROVE  j \in Clashes(s, prev, entries)
             <=> prev + j > Len(s) \/ s[prev + j].term # entries[j].term
BY DEF Clashes

(* An entry that the log has already is no clash.                          *)
LEMMA SkipMerges ==
    ASSUME Inv, Merging, SkipEntry
    PROVE  Merging'
<1>1. /\ pc = "loop" /\ pc' = "loop" /\ i' = i + 1
      /\ UNCHANGED <<log, req, before>>
      /\ i \in 1..Len(req.entries) /\ Len(log) >= req.prev + i
      /\ log[req.prev + i].term = req.entries[i].term
  BY DEF SkipEntry, Inv, Running, Index, TypeOK
<1>2. /\ req.entries \in Seq(Entry) /\ Len(req.entries) \in Nat
      /\ req.prev \in Nat /\ log \in Seq(Entry) /\ Len(log) \in Nat
  BY <1>1, RequestTypes DEF Inv, TypeOK
<1>3. before \in Seq(Entry) /\ req.prev <= Len(before)
  BY <1>1 DEF Merging
<1>4. ~ \E j \in 1..i - 1 :
           /\ First(j, before, req.prev, req.entries)
           /\ Spliced(log, before, req.prev, req.entries, j, i - 1)
  BY <1>1, <1>2 DEF Spliced
<1>5. /\ log = before
      /\ \A j \in 1..i - 1 : j \notin Clashes(before, req.prev, req.entries)
  BY <1>1, <1>4 DEF Merging
<1>6. i \notin Clashes(before, req.prev, req.entries)
  BY <1>1, <1>2, <1>5, ClashAt
<1>7. \A j \in 1..i' - 1 : j \in 1..i - 1 \/ j = i
  BY <1>1
<1>. QED BY <1>1, <1>3, <1>5, <1>6, <1>7 DEF Merging

(* The conflict that is deleted is the first clash, and the log is cut     *)
(* there.                                                                  *)
LEMMA DeleteMerges ==
    ASSUME Inv, Merging, DeleteConflict, ~DeleteMayFail
    PROVE  Merging'
<1>1. /\ pc = "loop" /\ pc' = "append" /\ i' = i
      /\ UNCHANGED <<req, before>> /\ log' = Prefix(log, req.prev + i - 1)
      /\ i \in 1..Len(req.entries) /\ Len(log) >= req.prev + i
      /\ log[req.prev + i].term # req.entries[i].term
  <2>1. log' = Prefix(log, Index - 1)
    BY Zenon DEF DeleteConflict
  <2>2. log' = Prefix(log, req.prev + i - 1)
    <3>1. pc # "idle" /\ i \in Int
      BY DEF DeleteConflict, Inv, TypeOK
    <3>2. req.prev \in Nat
      BY <3>1, RequestTypes
    <3>3. Index - 1 = req.prev + i - 1
      BY <3>1, <3>2 DEF Index
    <3>. QED BY <2>1, <3>3, Zenon
  <2>3. /\ pc = "loop" /\ pc' = "append" /\ i' = i
        /\ UNCHANGED <<req, before>>
        /\ i <= Len(req.entries) /\ Len(log) >= req.prev + i
        /\ log[req.prev + i].term # req.entries[i].term
    BY DEF DeleteConflict, Index
  <2>. QED BY <2>2, <2>3 DEF Inv, Running
<1>2. /\ req.entries \in Seq(Entry) /\ Len(req.entries) \in Nat
      /\ req.prev \in Nat /\ log \in Seq(Entry) /\ Len(log) \in Nat
  BY <1>1, RequestTypes DEF Inv, TypeOK
<1>3. before \in Seq(Entry) /\ req.prev <= Len(before)
  BY <1>1 DEF Merging
<1>4. ~ \E j \in 1..i - 1 :
           /\ First(j, before, req.prev, req.entries)
           /\ Spliced(log, before, req.prev, req.entries, j, i - 1)
  BY <1>1, <1>2 DEF Spliced
<1>5. /\ log = before
      /\ \A j \in 1..i - 1 : j \notin Clashes(before, req.prev, req.entries)
  BY <1>1, <1>4 DEF Merging
<1>6. First(i, before, req.prev, req.entries)
  <2>1. i \in Clashes(before, req.prev, req.entries)
    BY <1>1, <1>2, <1>5, ClashAt
  <2>2. ASSUME NEW c \in Clashes(before, req.prev, req.entries) PROVE i <= c
    <3>1. c \in 1..Len(req.entries)
      BY DEF Clashes
    <3>. QED BY <3>1, <1>1, <1>2, <1>5
  <2>. QED BY <2>1, <2>2 DEF First
<1>7. Spliced(log', before, req.prev, req.entries, i, i - 1)
  <2>1. req.prev + i - 1 \in 0..Len(log)
    BY <1>1, <1>2
  <2>2. /\ Len(log') = req.prev + i - 1
        /\ \A x \in 1..req.prev + i - 1 : log'[x] = log[x]
    BY <2>1, <1>1, <1>2, PrefixOf
  <2>. QED BY <2>2, <1>1, <1>2, <1>5 DEF Spliced
<1>. QED BY <1>1, <1>3, <1>6, <1>7 DEF Merging

(* An entry is appended at the first clash, when the log ends there, or    *)
(* behind the ones appended before.                                        *)
LEMMA AppendMerges ==
    ASSUME Inv, Merging, AppendEntry
    PROVE  Merging'
<1>. DEFINE prev == req.prev
            entries == req.entries
<1>1. /\ pc \in {"loop", "append"} /\ pc' = "loop" /\ i' = i + 1
      /\ UNCHANGED <<req, before>> /\ log' = Append(log, entries[i])
      /\ i \in 1..Len(entries) /\ (pc = "loop" => Len(log) < prev + i)
  BY AppendingTypes DEF AppendEntry, Appending, Index
<1>2. /\ entries \in Seq(Entry) /\ Len(entries) \in Nat /\ prev \in Nat
      /\ log \in Seq(Entry) /\ Len(log) \in Nat /\ entries[i] \in Entry
  BY <1>1, RequestTypes DEF Inv, TypeOK
<1>3. before \in Seq(Entry) /\ prev <= Len(before) /\ Len(before) \in Nat
  BY <1>1 DEF Merging
<1>4. /\ Len(log') = Len(log) + 1 /\ log'[Len(log) + 1] = entries[i]
      /\ \A x \in 1..Len(log) : log'[x] = log[x]
  BY <1>1, <1>2
<1>. HIDE DEF prev, entries
<1>5. ASSUME First(i, before, prev, entries),
             Spliced(log, before, prev, entries, i, i - 1)
      PROVE  Spliced(log', before, prev, entries, i, i)
  <2>1. Len(log) = prev + i - 1 /\ Len(log) + 1 = prev + i
    BY <1>1, <1>2, <1>5 DEF Spliced
  <2>2. \A x \in 1..prev + i - 1 : log'[x] = before[x]
    BY <1>4, <1>5, <2>1 DEF Spliced
  <2>3. \A x \in i..i : log'[prev + x] = entries[x]
    BY <1>1, <1>4, <2>1
  <2>. QED BY <1>4, <2>1, <2>2, <2>3 DEF Spliced
<1>6. CASE pc = "append"
  <2>1. /\ First(i, before, prev, entries)
        /\ Spliced(log, before, prev, entries, i, i - 1)
    BY <1>1, <1>6 DEF Merging, prev, entries
  <2>2. i \in 1..i' - 1 /\ i' - 1 = i
    BY <1>1
  <2>. QED BY <1>1, <1>3, <1>5, <2>1, <2>2 DEF Merging, prev, entries
<1>7. CASE /\ pc = "loop" /\ log = before
           /\ \A j \in 1..i - 1 : j \notin Clashes(before, prev, entries)
  <2>1. Len(log) = prev + i - 1
    <3>1. CASE i = 1
      BY <3>1, <1>1, <1>2, <1>3, <1>7
    <3>2. CASE i # 1
      <4>1. i - 1 \in 1..Len(entries) /\ i - 1 \in 1..i - 1
        BY <3>2, <1>1, <1>2
      <4>2. ~(prev + (i - 1) > Len(before))
        BY <4>1, <1>2, <1>3, <1>7, ClashAt
      <4>3. Len(log) = Len(before) /\ Len(log) < prev + i /\ i \in Nat
        BY <1>1, <1>7
      <4>. QED BY <4>2, <4>3, <1>2, <1>3
    <3>. QED BY <3>1, <3>2
  <2>2. First(i, before, prev, entries)
    <3>1. i \in Clashes(before, prev, entries)
      BY <1>1, <1>2, <1>3, <1>7, ClashAt
    <3>2. ASSUME NEW c \in Clashes(before, prev, entries) PROVE i <= c
      <4>1. c \in 1..Len(entries)
        BY DEF Clashes
      <4>. QED BY <4>1, <1>1, <1>2, <1>7
    <3>. QED BY <3>1, <3>2 DEF First
  <2>3. Spliced(log, before, prev, entries, i, i - 1)
    BY <2>1, <1>1, <1>2, <1>7 DEF Spliced
  <2>4. i \in 1..i' - 1 /\ i' - 1 = i
    BY <1>1
  <2>. QED BY <1>1, <1>3, <1>5, <2>2, <2>3, <2>4 DEF Merging, prev, entries
<1>8. CASE /\ pc = "loop"
           /\ \E j \in 1..i - 1 :
                 /\ First(j, before, prev, entries)
                 /\ Spliced(log, before, prev, entries, j, i - 1)
  <2>1. PICK j \in 1..i - 1 :
           /\ First(j, before, prev, entries)
           /\ Spliced(log, before, prev, entries, j, i - 1)
    BY <1>8
  <2>2. Len(log) = prev + i - 1 /\ Len(log) + 1 = prev + i
    BY <2>1, <1>1, <1>2 DEF Spliced
  <2>3. \A x \in 1..prev + j - 1 : x \in 1..Len(log) /\ log'[x] = before[x]
    BY <2>1, <2>2, <1>1, <1>2, <1>4 DEF Spliced
  <2>4. ASSUME NEW x \in j..i PROVE log'[prev + x] = entries[x]
    <3>1. CASE x = i
      BY <3>1, <2>2, <1>4
    <3>2. CASE x # i
      <4>1. x \in j..i - 1 /\ prev + x \in 1..Len(log)
        BY <3>2, <2>1, <2>2, <1>1, <1>2
      <4>. QED BY <4>1, <2>1, <1>4 DEF Spliced
    <3>. QED BY <3>1, <3>2
  <2>5. Spliced(log', before, prev, entries, j, i)
    BY <2>2, <2>3, <2>4, <1>4 DEF Spliced
  <2>6. j \in 1..i' - 1 /\ i' - 1 = i
    BY <1>1, <1>2
  <2>. QED BY <1>1, <1>3, <2>1, <2>5, <2>6 DEF Merging, prev, entries
<1>. QED BY <1>1, <1>6, <1>7, <1>8 DEF Merging, prev, entries

(* Every step keeps the loop on its way to the merged log.                 *)
LEMMA NextMerges ==
    ASSUME ~DeleteMayFail, Inv, Merging, [Next]_vars
    PROVE  Merging'
<1>1. CASE ClusterStep
  BY <1>1, ClusterKeeps DEF Inv, Merging
<1>2. ASSUME NEW r, Arrives(r), Receive(r) PROVE Merging'
  BY <1>2 DEF Receive, Merging
<1>3. CASE SeeNewer \/ Adopt \/ CheckPrev
  <2>1. CASE pc' = "loop" /\ CheckPrev
    <3>1. /\ i' = 1 /\ before' = log /\ log' = log /\ req' = req
          /\ PrevMatches(log, req.prev, req.prevTerm)
      BY <2>1 DEF CheckPrev, Idle
    <3>2. log \in Seq(Entry) /\ req.prev <= Len(log)
      BY <3>1 DEF PrevMatches, Inv, TypeOK
    <3>. QED BY <2>1, <3>1, <3>2 DEF Merging
  <2>2. CASE pc' \notin {"loop", "append"}
    BY <2>2 DEF Merging
  <2>. QED BY <1>3, <2>1, <2>2 DEF SeeNewer, Adopt, CheckPrev, Idle
<1>4. CASE \/ Abort \/ TestCommit \/ SetCommit \/ ReadApplied \/ ReadTarget
           \/ ApplyEntry \/ ApplyDone
  <2>1. pc' \notin {"loop", "append"}
    BY <1>4 DEF Abort, TestCommit, SetCommit, ReadApplied, ReadTarget,
                ApplyEntry, ApplyDone, Idle
  <2>. QED BY <2>1 DEF Merging
<1>7. CASE Handle
  BY <1>3, <1>4, <1>7, SkipMerges, DeleteMerges, AppendMerges DEF Handle
<1>8. CASE Elections
  BY <1>8 DEF Elections, Merging
<1>5. CASE Crash
  BY <1>5 DEF Crash, Idle, Merging
<1>6. CASE UNCHANGED vars
  BY <1>6 DEF Merging
<1>. QED BY <1>1, <1>2, <1>5, <1>6, <1>7, <1>8, StepCases

(* When the loop is through, its log is the merged one.                    *)
LEMMA MergingMerges ==
    ASSUME Inv, Merging
    PROVE  LoopMerges
<1>. SUFFICES ASSUME pc = "loop", i > Len(req.entries)
              PROVE  log = MergeEntries(before, req.prev, req.entries)
  BY DEF LoopMerges
<1>1. /\ req.entries \in Seq(Entry) /\ Len(req.entries) \in Nat
      /\ req.prev \in Nat /\ log \in Seq(Entry)
  BY RequestTypes DEF Inv, TypeOK
<1>2. i - 1 = Len(req.entries)
  BY <1>1 DEF Inv, Running
<1>3. /\ before \in Seq(Entry) /\ Len(before) \in Nat
      /\ req.prev <= Len(before)
  BY DEF Merging
<1>4. CASE /\ log = before
           /\ \A j \in 1..i - 1 :
                 j \notin Clashes(before, req.prev, req.entries)
  <2>1. Clashes(before, req.prev, req.entries) = {}
    <3>1. \A j \in Clashes(before, req.prev, req.entries) :
             j \in 1..Len(req.entries)
      BY DEF Clashes
    <3>. QED BY <3>1, <1>2, <1>4
  <2>. QED BY <2>1, <1>4, Zenon DEF MergeEntries
<1>5. ASSUME NEW j \in 1..i - 1, First(j, before, req.prev, req.entries),
             Spliced(log, before, req.prev, req.entries, j, i - 1)
      PROVE  log = MergeEntries(before, req.prev, req.entries)
  <2>1. j \in 1..Len(req.entries)
    BY <1>2
  <2>2. req.prev + j - 1 <= Len(before)
    <3>1. CASE j = 1
      BY <3>1, <1>1, <1>3
    <3>2. CASE j # 1
      <4>1. j - 1 \in 1..Len(req.entries) /\ ~(j <= j - 1)
        BY <2>1, <3>2, <1>1
      <4>2. j - 1 \notin Clashes(before, req.prev, req.entries)
        BY <4>1, <1>5 DEF First
      <4>3. ~(req.prev + (j - 1) > Len(before))
        BY <4>1, <4>2, <1>1, <1>3, ClashAt
      <4>. QED BY <2>1, <4>3, <1>1, <1>3
    <3>. QED BY <3>1, <3>2
  <2>3. Spliced(log, before, req.prev, req.entries, j, Len(req.entries))
    BY <1>2, <1>5
  <2>. QED BY <2>1, <2>2, <2>3, <1>1, <1>3, <1>5, SplicedMerges
<1>. QED BY <1>4, <1>5 DEF Merging

(* The loop of appendEntries (RaftNode.java:204-215), one statement at a   *)
(* time between elections of the node and crashes, leaves MergeEntries of  *)
(* the log that the request found, when deleteLogEntriesFrom does delete.  *)
THEOREM LoopIsMerge == ~DeleteMayFail /\ Spec => []LoopMerges
<1>1. Init => Merging
  BY DEF Init, Merging
<1>2. ~DeleteMayFail /\ Inv /\ Merging /\ [Next]_vars => Merging'
  BY NextMerges
<1>3. Inv /\ Merging => LoopMerges
  BY MergingMerges
<1>4. ASSUME ~DeleteMayFail PROVE Spec => []LoopMerges
  <2>1. Inv /\ Merging /\ [Next]_vars => Merging'
    BY <1>2, <1>4
  <2>. QED BY <1>1, <1>3, <2>1, Invariance, PTL DEF Spec
<1>. QED BY <1>4
=============================================================================
