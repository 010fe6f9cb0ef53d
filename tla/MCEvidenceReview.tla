--------------------------- MODULE MCEvidenceReview -------------------------
(* Instances of EvidenceReview for TLC: an agent, and a reviewer who may     *)
(* also plant trees; every report is about its own project.                  *)
EXTENDS EvidenceReview, TLC

CONSTANTS ann, rev, adm, e1, e2, p1, p2

People == {ann, rev, adm}
PeopleRole == (ann :> "agent") @@ (rev :> "reviewer") @@ (adm :> "admin")
OneEach == (e1 :> p1) @@ (e2 :> p2)

Symmetry == Permutations(DecideReqs)
=============================================================================
