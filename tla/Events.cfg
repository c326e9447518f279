CONSTANTS
  e1 = e1
  e2 = e2
  o1 = o1
  p1 = p1
  h1 = h1
  h2 = h2
  v1 = v1
  NoRow = NoRow
  Operator = Operator
  Event = {e1, e2}
  Order = {o1}
  ToErgo = {e2}
  Genuine = {e1}
  Verifier = {v1}
  FailLimit <- OneFail
  PromptWork = TRUE
  Peer = {p1}
  Handler = {h1, h2}
  MaxRecent = 3
  MaxLost = 1
  MaxWork = 2
  MaxOverlap = 2
SPECIFICATION MCSpec
INVARIANTS AllTypeOK RewardBehindPayment PaidGoesOn CooldownHolds
SYMMETRY HandlerSymmetry
CHECK_DEADLOCK FALSE
