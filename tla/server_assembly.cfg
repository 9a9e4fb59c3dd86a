SPECIFICATION Spec
CONSTANTS
  m1 = m1  m2 = m2  sys = sys  odd = odd  res = res  badId = badId  t1 = t1  t2 = t2
  Modules <- FiveModules
  IllegalIds <- OddId
  ReadOnlySystem <- SystemOnly
  Reserved <- ReservedOnly
  Unbuildable <- OddOnly
  WithSchema <- Declaring
  Documented <- Explained
  Projectable <- SystemOnly
  Surface <- SurfaceOf
  Setups <- AllSetups
  NoExport = NoExport
  NoReply = NoReply
  Hosts <- TwoHosts
  MaxEvents = 3
  MaxRefDepth = 7
  Keys <- AllKeys
  Leaves <- AllLeaves
INVARIANTS RefusedWritesNothing ServedUnderItsAcl ListingsAgree ListenerFollows ErrorsAnsweredInKind ExportedMeansTheSame RefusedForCause
SYMMETRY HostSymmetry
CHECK_DEADLOCK FALSE
