CONSTANTS
  g1 = g1
  g2 = g2
  g3 = g3
  e1 = e1
  NoOwner = NoOwner
  NoTx = NoTx
  Tx = {1}
  Owner = {e1}
  TypeOf <- SingleType
  OwnerOf <- SingleOwner
  OnErgo = {}
  Guard = {g1, g2, g3}
  Holder <- TwoTurns
  CreatorOf <- SingleCreator
  RequiredSign = 2
  MaxTurn = 2
  MaxTasks = 1
  Perishable = {}
  DeepForks = FALSE
  Submitted = {}
  MaxFaults = 0
SPECIFICATION FairSpec
PROPERTY AgreementReached
CHECK_DEADLOCK FALSE
