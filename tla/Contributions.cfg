\* Two confirmations and a list, two wallets, one transaction; one upset.
SPECIFICATION Spec
CONSTANTS
  None = None
  w1 = w1
  w2 = w2
  p1 = p1
  t1 = t1
  Wallets = {w1, w2}
  Projects = {p1}
  Txs = {t1}
  MakerOf <- Makers
  TargetOf <- Targets
  Confirms = {c1, c2}
  Lists = {l1}
  Confirmations = 2
  MaxHead = 3
  MaxUpsets = 1
SYMMETRY Symmetry
INVARIANTS
  TypeOK
  AnswersAreSound
  StatusNeverRegresses
  ListsAgree
CHECK_DEADLOCK FALSE
