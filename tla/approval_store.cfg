SPECIFICATION Spec
CONSTANTS
  a1 = a1  a2 = a2  a3 = a3
  Ids <- ThreeIds
  MaxRecords = 2
  PendingTTL = 1
  ResolvedTTL = 1
  SweepInterval = 1
  MaxTime = 3
SYMMETRY IdsAlike
INVARIANTS ExpiredAreSwept NoLostWakeup
PROPERTIES DecisionKept AnswersAreFinal ImplementsGate
CHECK_DEADLOCK FALSE
