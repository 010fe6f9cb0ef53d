\* A proposal, two wallets, four interactions after the load; one fault.
SPECIFICATION Spec
CONSTANTS
  None = None
  w1 = w1
  w2 = w2
  g1 = g1
  Load = Load
  Wallets = {w1, w2}
  Proposals = {g1}
  Options = {1, 2}
  Flows = {Load, f1, f2, f3, f4}
  Opens <- OpensAt
  Closes <- ClosesAt
  Funds <- OneFee
  MaxTime = 2
  MaxFaults = 1
SYMMETRY Symmetry
INVARIANTS
  TypeOK
  ConfirmedVoteWasCast
  NeverAheadOfContract
  SettledPageIsCurrent
CHECK_DEADLOCK FALSE
