CONSTANTS
  e1 = e1
  h1 = h1
  h2 = h2
  NoOwner = NoOwner
  NoHandler = NoHandler
  NoTx = NoTx
  Tx = {1, 2}
  Owner = {e1}
  TypeOf <- CompetingType
  OwnerOf <- CompetingOwner
  OnErgo = {}
  FailLimit <- OneFail
  RequiredConf = 1
  Handler = {h1}
  PromptSigner = TRUE
  PromptWrites = TRUE
  MaxHeight = 2
  MaxJobs = 1
  MaxCrashes = 0
SPECIFICATION Spec
INVARIANT OneValidTx
PROPERTY ImplementsLifecycle
CHECK_DEADLOCK FALSE
