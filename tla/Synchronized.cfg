CONSTANTS
  e1 = e1
  p1 = p1
  p2 = p2
  h1 = h1
  h2 = h2
  NoTx = NoTx
  NoEvent = NoEvent
  NoHandler = NoHandler
  Event = {e1}
  Payment = {1, 2}
  EventOf <- TwoPayments
  OnChain = {1}
  Peer = {p1, p2}
  Handler = {h1, h2}
  RequiredApproval = 2
  ParallelSyncLimit = 1
  ParallelRequestCount = 2
  PromptPayment = TRUE
  MaxQueue = 1
  MaxCrashes = 1
SPECIFICATION FairSpec
INVARIANTS TypeOK SyncedByPeers PaidBeforeReward SyncedGoesOn OneHeldPayment
PROPERTIES FinishedStays SyncEnds
