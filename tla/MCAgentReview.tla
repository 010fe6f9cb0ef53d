---------------------------- MODULE MCAgentReview ---------------------------
(* Instances of AgentReview for TLC: an applicant, a reviewer and two        *)
(* administrators.                                                           *)
EXTENDS AgentReview, TLC

CONSTANTS ann, rev, adm, boss

Everyone == {ann, rev, adm}
EveryoneRole == (ann :> "user") @@ (rev :> "reviewer") @@ (adm :> "admin")

\* A reviewer and an administrator, each of whom may also be the applicant.
Pair == {rev, adm}
PairRole == (rev :> "reviewer") @@ (adm :> "admin")

\* Three administrators.
Three == {rev, adm, boss}
ThreeRole == [p \in Three |-> "admin"]

RoleSymmetry == Permutations(Three) \cup Permutations(RoleReqs)
=============================================================================
