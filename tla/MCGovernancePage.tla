-------------------------- MODULE MCGovernancePage --------------------------
(* Instances of GovernancePage for TLC: one wallet that can pay a fee and    *)
(* another that cannot.                                                      *)
EXTENDS GovernancePage, TLC

CONSTANTS w1, w2, g1

OpensAt == g1 :> 1
ClosesAt == g1 :> 1
OneFee == (w1 :> 1) @@ (w2 :> 0)

Symmetry == Permutations(Flows \ {Load})
=============================================================================
