---------------------------- MODULE MCCatalogue -----------------------------
(* Instances of Catalogue for TLC.  Administrators, records and requests are *)
(* interchangeable.                                                          *)
EXTENDS Catalogue, TLC

Symmetry == Permutations(Admins) \cup Permutations(Records) \cup Permutations(Requests)
=============================================================================
