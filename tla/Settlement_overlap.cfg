SPECIFICATION Spec
CONSTANTS
  Docs = {1, 2}
  Txs = {1, 2}
  Runs = {r1, r2}
  NoTx = NoTx
  Readings <- MCReadings
  MaxReadings = 2
  MaxDecisions = 1
SYMMETRY Symmetry
INVARIANTS TypeOK AuditTellsSettlement SoloRunRepairs
PROPERTIES OnlyRacesTouchDecisions
CHECK_DEADLOCK FALSE
