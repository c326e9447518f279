CONSTANTS
  p1 = p1
  p2 = p2
  r1 = r1
  Everyone = Everyone
  NoUrl = NoUrl
  NoEntry = NoEntry
  Listener = {p1, p2}
  Relay = {r1}
  Msg = {1, 2}
  Receiver <- OneAndAll
  Sub <- OneSub
  MaxRetries = 1
  MaxBreaks = 1
SPECIFICATION MCSpec
INVARIANTS TypeOK HandledOnce OvertakenForCause RelayWatched
PROPERTIES IsChannel MessagesDecided LostForCause RelayComesBack
CHECK_DEADLOCK FALSE
