----------------------------- MODULE MCFollower -----------------------------
(* Model-checking instances of FollowerNode.                               *)
EXTENDS FollowerNode, TLC

Symmetry == Permutations(Keys) \cup Permutations(Values)
=============================================================================
