SPECIFICATION Spec
CONSTANTS
  c1 = c1  m1 = m1  m2 = m2  taskTool = taskTool  approvalTool = approvalTool
  Calls <- OneCall
  Modules <- TwoModules
  TaskTools <- OneTaskTool
  ApprovalTools <- OneApprovalTool
  WithSchema <- TwoModules
  ObjectSchema <- OneModule
  Keys <- AllKeys
  Leaves <- AllLeaves
  Secrets <- AllSecrets
  Results <- Returned
  Envelope <- TaskEnvelope
  Valid <- Meets
  Setups <- AllSetups
  Replaceable <- OneModule
  MaxChunks = 3
  MaxDepth = 1
INVARIANTS TypeOK StreamedAnswer NothingSecretLeaves AdvertisedIsKept SubmissionAnswered MergeIsLastWrite
CHECK_DEADLOCK FALSE
