---------------------------- MODULE MCLeaderless ----------------------------
(* Instances of Leaderless and LoadTester for TLC. *)
EXTENDS LoadTester, TLC

CONSTANTS k1, k2, w1, w2, w3

OneKey == [w \in Writes |-> k1]

TwoKeys == [w \in Writes |-> IF w = w1 THEN k1 ELSE k2]

Symmetry == Permutations(Writes) \cup Permutations(Nodes)

NodeSymmetry == Permutations(Nodes)
=============================================================================
