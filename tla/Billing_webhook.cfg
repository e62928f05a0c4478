SPECIFICATION Spec
CONSTANTS
  Subs = {s1, s2}
  GraceDays = 1
  MaxEvents = 4
  MaxOrdered = 6
  MaxTime = 1
  MaxFaults = 1
SYMMETRY Symmetry
CHECK_DEADLOCK FALSE
INVARIANTS TypeOK ActiveHasNoGrace OneAuditRowPerEvent SettledMatchesStripe
PROPERTIES CanceledForGood
