SPECIFICATION Spec
CONSTANTS
  q1 = q1  q2 = q2  w1 = w1  w2 = w2  alice = alice  bob = bob
  None = None  Raised = Raised  Idle = Idle  Main = Main  Unbuilt = Unbuilt  Unset = Unset
  Requests <- TwoRequests
  Workers <- TwoWorkers
  Identities <- TwoIdentities
  Credentials <- Tokens
  Situations <- AllSituations
  Buses <- StdioOrHttp
  MaxEdits = 1
SYMMETRY AllAlike
INVARIANTS TypeOK ActsAsVerified ContextsAreClean ServedAsSelected Unwound EnforcedAsLaunched
CHECK_DEADLOCK FALSE
