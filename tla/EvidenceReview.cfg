\* Two reports of two projects, two decisions, a public read; one fault.
SPECIFICATION Spec
CONSTANTS
  None = None
  ann = ann
  rev = rev
  adm = adm
  e1 = e1
  e2 = e2
  p1 = p1
  p2 = p2
  Profiles <- People
  Role <- PeopleRole
  Reports = {e1, e2}
  Projects = {p1, p2}
  ProjectOf <- OneEach
  DecideReqs = {d1, d2}
  ReadReqs = {q1}
  MaxTrees = 1
  MaxFaults = 1
SYMMETRY Symmetry
INVARIANTS
  TypeOK
  NeverOwnReport
  LogMatchesReport
  PublishedFiguresStand
PROPERTIES
  ImplementsReviewQueue
CHECK_DEADLOCK FALSE
