CONSTANTS
  g1 = g1
  g2 = g2
  g3 = g3
  e1 = e1
  NoOwner = NoOwner
  NoTx = NoTx
  Tx = {1}
  Owner = {e1}
  TypeOf <- SingleType
  OwnerOf <- SingleOwner
  OnErgo = {}
  Guard = {g1, g2, g3}
  Holder <- ThreeTurns
  CreatorOf <- SingleCreator
  RequiredSign = 3
  MaxTurn = 3
  MaxTasks = 1
  Perishable = {}
  DeepForks = FALSE
  Submitted = {}
  MaxFaults = 1
SPECIFICATION Spec
INVARIANTS StoredByQuorum AgreementIsRecent
CONSTRAINT BeforeLastTurn
CHECK_DEADLOCK FALSE
