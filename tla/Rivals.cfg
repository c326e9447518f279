CONSTANTS
  g1 = g1
  g2 = g2
  g3 = g3
  e1 = e1
  NoOwner = NoOwner
  NoTx = NoTx
  Tx = {1, 2}
  Owner = {e1}
  TypeOf <- RivalType
  OwnerOf <- RivalOwner
  OnErgo = {}
  Guard = {g1, g2, g3}
  Holder <- TwoTurns
  CreatorOf <- RivalCreator
  RequiredSign = 2
  MaxTurn = 2
  MaxTasks = 1
  Perishable = {1}
  DeepForks = TRUE
  Submitted = {1, 2}
  MaxFaults = 0
SPECIFICATION Spec
INVARIANTS TypeOK NoRivalQuorums PaidOnce
PROPERTY ImplementsTables
CHECK_DEADLOCK FALSE
