SPECIFICATION Spec
CONSTANTS
  People = {u1, u2}
  Partners = {p1, p2}
  Clients = {c1}
  Types = {receipt}
  All = All
  Scopes <- MCScopes
  None = None
  MaxWorks = 3
  MaxSaves = 1
SYMMETRY Symmetry
INVARIANTS TypeOK LogTellsVerdicts NamesAreAccounted LatestIsInForce
CHECK_DEADLOCK FALSE
