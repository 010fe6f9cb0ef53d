----------------------------- MODULE MCService ------------------------------
(* Instances of Service for TLC: an official environment and six that miss   *)
(* it in one part each; a request from the app, one without an Origin and    *)
(* one from elsewhere.                                                       *)
EXTENDS Service, TLC

CONSTANTS r1, r2, r3

Official ==
  [parses |-> TRUE, canonical |-> TRUE, store |-> TRUE, origin |-> "home", chain |-> TRUE]
SomeEnvironments ==
  {Official, [Official EXCEPT !.parses = FALSE], [Official EXCEPT !.canonical = FALSE],
   [Official EXCEPT !.store = FALSE], [Official EXCEPT !.origin = None],
   [Official EXCEPT !.origin = "foreign"], [Official EXCEPT !.chain = FALSE]}

SomeOrigins == (r1 :> "home") @@ (r2 :> "none") @@ (r3 :> "foreign")
=============================================================================
