---------------------------- MODULE MCPortalPages ---------------------------
(* Instances of PortalPages for TLC.                                         *)
EXTENDS PortalPages, TLC

Symmetry == Permutations(Loads) \cup Permutations(Decides)
=============================================================================
