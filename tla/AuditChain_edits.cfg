SPECIFICATION Spec
CONSTANTS
  Writers = {w1, w2}
  Contents = {c1, c2}
  MaxRows = 4
  MaxEdits = 1
SYMMETRY Symmetry
CHECK_DEADLOCK FALSE
INVARIANTS TypeOK EditsDetected OnlyOverlapsAlarm RangesAgree
