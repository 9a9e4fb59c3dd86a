SPECIFICATION FairSpec
CONSTANTS
  server = server  task_ = task_  host = host  guest = guest
  u1 = u1  u2 = u2  mine = mine  other = other
  Contexts <- AllContexts
  Threads <- TwoThreads
  ThreadOf <- WhoRunsWhere
  NoContext = NoContext
  Thread = server
  Task = task_
  Stoppers <- OneStopper
INVARIANTS TypeOK StartReportsFailure
PROPERTIES ImplementsChannel StopStops
CHECK_DEADLOCK FALSE
