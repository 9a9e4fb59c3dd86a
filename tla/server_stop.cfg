SPECIFICATION Spec
CONSTANTS
  server = server  task_ = task_  host = host  guest = guest
  u1 = u1  u2 = u2  mine = mine  other = other
  Contexts <- AllContexts
  Threads <- TwoThreads
  ThreadOf <- WhoRunsWhere
  NoContext = NoContext
  Thread = server
  Task = task_
  Stoppers <- TwoStoppers
INVARIANT CleanupBeforeRelease
CHECK_DEADLOCK FALSE
