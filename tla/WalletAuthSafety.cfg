\* Two wallets, two challenges, two verify requests and a session check, with a clock
\* that outlives a challenge and a session of one second; one fault.
SPECIFICATION Spec
CONSTANTS
  Wallets = {w1, w2}
  Nonces = {n1, n2}
  VerifyReqs = {r1, r2}
  SessionReqs = {s1}
  None = None
  NonceTTL = 2
  SessionTTL = 1
  TicksPerSecond = 2
  WalletUnique = FALSE
  MaxTime = 3
  MaxFaults = 1
SYMMETRY Symmetry
INVARIANTS
  TypeOK
  SingleRedemption
  SpentProperly
  TokenBacked
  AnsweredForCause
  TokenLifetime
PROPERTY ImplementsOneTimeChallenge
CHECK_DEADLOCK FALSE
