CONSTANTS
  e1 = e1
  h1 = h1
  h2 = h2
  NoOwner = NoOwner
  NoHandler = NoHandler
  NoTx = NoTx
  Tx = {1}
  Owner = {}
  TypeOf <- ManualType
  OwnerOf <- ManualOwner
  OnErgo = {}
  FailLimit <- OneFail
  RequiredConf = 1
  Handler = {h1}
  PromptSigner = FALSE
  PromptWrites = FALSE
  MaxHeight = 2
  MaxJobs = 3
  MaxCrashes = 2
SPECIFICATION FairSpec
PROPERTY SigningEnds
CHECK_DEADLOCK FALSE
