-------------------------- MODULE MCLeaderFollower --------------------------
(***************************************************************************)
(* Instances of LeaderFollower for TLC.                                    *)
(***************************************************************************)
EXTENDS LeaderFollower, TLC

CONSTANTS k1, k2, w1, w2, w3, r1, r2

\* Every request is about one key.
OneKey == [x \in Writes \cup Reads |-> k1]

\* The first write and the first read are about k1, the others about k2.
TwoKeys == [x \in Writes \cup Reads |-> IF x \in {w1, r1} THEN k1 ELSE k2]

Symmetry == Permutations(Writes) \cup Permutations(Reads)
=============================================================================
