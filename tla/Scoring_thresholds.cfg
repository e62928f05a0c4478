SPECIFICATION Spec
CONSTANTS
  Txs = {t1, t2}
  Facts <- MCFacts
  Names = {0, 2000, 3400, 3900, 4000}
  Uppers = {9500, 10000, 9000, 6100, 3500}
  Lowers = {5500, 7000, 3200}
SYMMETRY Symmetry
INVARIANTS TypeOK AmbiguousNeverAuto CapNeverRejects
CHECK_DEADLOCK FALSE
