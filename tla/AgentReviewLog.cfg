\* One submission and its review; one fault.
SPECIFICATION Spec
CONSTANTS
  None = None
  ann = ann
  rev = rev
  adm = adm
  boss = boss
  Profiles <- Everyone
  InitialRole <- EveryoneRole
  Applied = {ann}
  ApplyReqs = {}
  SubmitReqs = {s1}
  KycReqs = {k1}
  StatusReqs = {}
  RoleReqs = {}
  MaxFaults = 1

INVARIANTS EveryKycDecisionLogged
CHECK_DEADLOCK FALSE
