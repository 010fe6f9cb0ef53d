\* Five requests against a limit of two per two ticks; every environment.
SPECIFICATION Spec
CONSTANTS
  Requests = {r1, r2, r3, r4, r5}
  Limit = 2
  Window = 2
  None = None
  MaxTime = 5
SYMMETRY Symmetry
INVARIANTS
  TypeOK
  AdmissionBounds
  BlocksBusyKeysOnly
CHECK_DEADLOCK FALSE
