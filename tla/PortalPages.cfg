\* Two wallets, one of them a reviewer's, one item, three loads, two decisions;
\* one fault.
SPECIFICATION Spec
CONSTANTS
  None = None
  Wallets = {ann, rev}
  Reviewers = {rev}
  Items = {i1}
  Loads = {l1, l2, l3}
  Decides = {d1, d2}
  MaxFaults = 1
SYMMETRY Symmetry
INVARIANTS
  TypeOK
  SessionsKeepApart
  SettledQueueIsCurrent
CHECK_DEADLOCK FALSE
