CONSTANTS
  e1 = e1
  h1 = h1
  h2 = h2
  NoOwner = NoOwner
  NoHandler = NoHandler
  NoTx = NoTx
  Tx = {1, 2}
  Owner = {e1}
  TypeOf <- PipelineType
  OwnerOf <- PipelineOwner
  OnErgo = {2}
  FailLimit <- OneFail
  RequiredConf = 1
  Handler = {h1, h2}
  PromptSigner = TRUE
  PromptWrites = TRUE
  MaxHeight = 2
  MaxJobs = 1
  MaxCrashes = 1
SPECIFICATION Spec
INVARIANTS TypeOK IInv PaidBeforeReward NoOrphan
SYMMETRY HandlerSymmetry
CHECK_DEADLOCK FALSE
