SPECIFICATION FairSpec
CONSTANTS
  Docs = {d1}
  Workers = {w1, w2}
  Users = {u1}
  NoOne = NoOne
  MaxAttempts = 3
  MaxStalls = 2
  MaxFaults = 1
  MaxDecisions = 1
INVARIANTS TypeOK AttemptsBounded DecisionAccounted StatusTellsDecision
PROPERTIES CompletedByLastClaimer EveryJobEnds
CHECK_DEADLOCK FALSE
