SPECIFICATION Spec
CONSTANTS
  Docs = {1, 2, 3}
  Txs = {1, 2}
  Runs = {r1}
  NoTx = NoTx
  Readings <- MCReadings
  MaxReadings = 3
  MaxDecisions = 1
INVARIANTS NoDoubleAuto
PROPERTIES ComesToRest
CHECK_DEADLOCK FALSE
