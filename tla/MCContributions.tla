--------------------------- MODULE MCContributions --------------------------
(* Instances of Contributions for TLC: one wallet has contributed, another   *)
(* may claim it.                                                             *)
EXTENDS Contributions, TLC

CONSTANTS w1, w2, p1, t1

Makers == t1 :> w1
Targets == t1 :> p1

Symmetry == Permutations(Confirms)
=============================================================================
