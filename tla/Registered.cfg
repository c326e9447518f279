CONSTANTS
  g1 = g1
  g2 = g2
  g3 = g3
  NoGuard = NoGuard
  Guard = {g1, g2, g3}
  Lists <- Replaced
  MaxUpdates <- Updates
  MaxFaults = 1
SPECIFICATION Spec
INVARIANTS KnownByKey InTouch
CHECK_DEADLOCK FALSE
