--------------------------- MODULE MCStatsPipeline ---------------------------
(***************************************************************************)
(* Instances of StatsPipeline for TLC: an event of a registered player     *)
(* that its client sends twice, and one of a player nobody has registered. *)
(***************************************************************************)
EXTENDS StatsPipeline

CONSTANTS e1, e2, known, unknown, q1, q2, q3, p1, p2

SentTwice == [q \in Requests |-> IF q = q3 THEN e2 ELSE e1]

Owners == [e \in Events |-> IF e = e2 THEN unknown ELSE known]

ByPlayer == [x \in Players |-> IF x = known THEN p1 ELSE p2]
=============================================================================
