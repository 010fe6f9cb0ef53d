\* One page beside clients of the API, two records that may exist at the start, two
\* requests, one refresh by hand, one fault.
SPECIFICATION Spec
CONSTANTS
  Admins = {a1}
  Records = {t1, t2}
  Requests = {q1, q2}
  None = None
  MaxRefreshes = 1
  MaxFaults = 1
SYMMETRY Symmetry
INVARIANTS
  TypeOK
  PublicationsAccounted
PROPERTIES
  StatusChangesOnPurpose
CHECK_DEADLOCK FALSE
