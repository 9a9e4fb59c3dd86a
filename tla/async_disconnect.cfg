SPECIFICATION Spec
CONSTANTS
  r1 = r1  r2 = r2  r3 = r3  s1 = s1  s2 = s2  t1 = t1  t2 = t2
  Requests <- ThreeRequests
  Sessions <- TwoSessions
  Tasks <- TwoTasks
  Routes <- BothRoutes
  NoSession = NoSession
  NoTask = NoTask
  Client = Client
SYMMETRY AllAlike
INVARIANT DisconnectCancelsAll
CHECK_DEADLOCK FALSE
