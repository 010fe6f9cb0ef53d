\* Three administrators who change roles at once, their own author's among them; one
\* fault.
SPECIFICATION Spec
CONSTANTS
  None = None
  ann = ann
  rev = rev
  adm = adm
  boss = boss
  Profiles <- Three
  InitialRole <- ThreeRole
  Applied = {}
  ApplyReqs = {}
  SubmitReqs = {}
  KycReqs = {}
  StatusReqs = {}
  RoleReqs = {o1, o2, o3}
  MaxFaults = 1
SYMMETRY RoleSymmetry
PROPERTIES AdminsVanishOnlyByRace
CHECK_DEADLOCK FALSE
