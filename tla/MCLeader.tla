------------------------------ MODULE MCLeader ------------------------------
(* Model-checking instances of LeaderNode.                                 *)
EXTENDS LeaderNode, TLC

Symmetry == Permutations(Peers) \cup Permutations(Putters)
                \cup Permutations(Values)
=============================================================================
