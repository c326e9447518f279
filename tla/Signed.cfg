CONSTANTS
  g1 = g1
  g2 = g2
  g3 = g3
  NoEntry = NoEntry
  NoSign = NoSign
  Guard = {g1, g2, g3}
  RequiredSigner = 2
  AllRegistered = TRUE
  MaxSecrets <- FirstTwice
  MaxFaults <- FirstFails
SPECIFICATION Spec
SYMMETRY Others
INVARIANTS TypeOK SignersAgree SimulatedStayOut ExchangeEndsSigned
CHECK_DEADLOCK FALSE
