SPECIFICATION Spec
CONSTANTS
  a1 = a1  a2 = a2  a3 = a3
  Ids <- ThreeIds
  MaxRecords = 2
  PendingTTL = 2
  ResolvedTTL = 2
  SweepInterval = 1
  MaxTime = 3
SYMMETRY IdsAlike
PROPERTY DecisionKeptForTTL
CHECK_DEADLOCK FALSE
