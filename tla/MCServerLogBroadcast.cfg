SPECIFICATION Spec
CONSTANTS
  Workers = {w1}
  Acceptor = Acceptor
  Sender = Sender
  MaxConnections = 2
  MaxDepartures = 0
  MaxLines = 2
  MaxClears = 1
INVARIANT BroadcastReachesAll
CHECK_DEADLOCK FALSE
