\* Three rate-limited requests, from the app, without an Origin and from elsewhere,
\* against a limit of one, on each host and in each environment; one outage, one
\* restart or deployment; no symmetry, for liveness.
SPECIFICATION FairServiceSpec
CONSTANTS
  r1 = r1
  r2 = r2
  r3 = r3
  Requests = {r1, r2, r3}
  OriginOf <- SomeOrigins
  Environments <- SomeEnvironments
  Limit = 1
  Window = 2
  None = None
  MaxTime = 1
  MaxOutages = 1
  MaxRestarts = 1
INVARIANTS
  ServiceTypeOK
  FailsClosed
  LiveMeansReady
PROPERTIES
  KeepsGoing
CHECK_DEADLOCK FALSE
