\* An application, a submission, two reviews of it and a status decision, all at
\* once, by a reviewer and an administrator; one fault; no symmetry, for liveness.
SPECIFICATION FairSpec
CONSTANTS
  None = None
  ann = ann
  rev = rev
  adm = adm
  boss = boss
  Profiles <- Pair
  InitialRole <- PairRole
  Applied = {}
  ApplyReqs = {p1}
  SubmitReqs = {s1}
  KycReqs = {k1, k2}
  StatusReqs = {a1}
  RoleReqs = {}
  MaxFaults = 1
INVARIANTS TypeOK AuditLogAgrees ApprovedForAReason
PROPERTIES ImplementsReviewQueue DecidedStaysDecided DecisionReachesAgent
CHECK_DEADLOCK FALSE
