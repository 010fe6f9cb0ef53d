----------------------------- MODULE ReviewQueue ----------------------------
(***************************************************************************)
(* What a review queue promises, whatever is reviewed (KYC submissions,    *)
(* planting reports): an item is decided by at most one review, for good;  *)
(* only the review that decided it enters the audit log, once; and no      *)
(* review is reported as successful that is not in the log.                *)
(***************************************************************************)
CONSTANTS Items, Reviews, None

VARIABLES
  decided,    \* decided[i]: the review that decided item i, or None
  logged,     \* reviews in the audit log
  succeeded   \* reviews that were answered as successful

vars == <<decided, logged, succeeded>>

Init ==
  /\ decided = [i \in Items |-> None]
  /\ logged = {}
  /\ succeeded = {}

Decide(i, r) ==
  /\ decided[i] = None
  /\ \A j \in Items : decided[j] # r
  /\ decided' = [decided EXCEPT ![i] = r]
  /\ UNCHANGED <<logged, succeeded>>

\* The answer may follow at once, later, or never.
Log(r) ==
  /\ \E i \in Items : decided[i] = r
  /\ r \notin logged
  /\ logged' = logged \cup {r}
  /\ succeeded' \in {succeeded, succeeded \cup {r}}
  /\ UNCHANGED decided

Succeed(r) ==
  /\ r \in logged
  /\ succeeded' = succeeded \cup {r}
  /\ UNCHANGED <<decided, logged>>

Next ==
  \E r \in Reviews : Log(r) \/ Succeed(r) \/ \E i \in Items : Decide(i, r)

Spec == Init /\ [][Next]_vars
=============================================================================
