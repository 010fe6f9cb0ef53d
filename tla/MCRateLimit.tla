---------------------------- MODULE MCRateLimit -----------------------------
(* Instances of RateLimit for TLC; the requests are interchangeable. *)
EXTENDS RateLimit, TLC

Symmetry == Permutations(Requests)
=============================================================================
