SPECIFICATION Spec
CONSTANTS
  Subs = {s1, s2}
  GraceDays = 1
  MaxEvents = 4
  MaxOrdered = 6
  MaxTime = 1
  MaxFaults = 0
SYMMETRY Symmetry
CHECK_DEADLOCK FALSE
INVARIANT FailedIsNotLost
