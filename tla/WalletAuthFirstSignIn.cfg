\* Two first sign-ins of one wallet, each with its own challenge; no faults.
SPECIFICATION Spec
CONSTANTS
  Wallets = {w1}
  Nonces = {n1, n2}
  VerifyReqs = {r1, r2}
  SessionReqs = {}
  None = None
  NonceTTL = 1
  SessionTTL = 1
  TicksPerSecond = 1
  WalletUnique = TRUE
  MaxTime = 1
  MaxFaults = 0
INVARIANT
  FindOrCreateSucceeds
CHECK_DEADLOCK FALSE
