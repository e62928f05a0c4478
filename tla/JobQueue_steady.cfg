SPECIFICATION FairSpec
CONSTANTS
  Docs = {d1, d2}
  Workers = {w1, w2}
  Users = {u1}
  NoOne = NoOne
  MaxAttempts = 2
  MaxStalls = 0
  MaxFaults = 1
  MaxDecisions = 1
INVARIANTS OneWorkerPerDoc
PROPERTIES HumanDecisionKept PromiseKept
CHECK_DEADLOCK FALSE
