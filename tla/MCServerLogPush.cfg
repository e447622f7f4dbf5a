SPECIFICATION Spec
CONSTANTS
  Workers = {w1, w2}
  Acceptor = Acceptor
  Sender = Sender
  MaxConnections = 1
  MaxDepartures = 1
  MaxLines = 2
  MaxClears = 1
INVARIANTS
  TypeOK
  LatestLogReachesEveryone
PROPERTIES
  IndexNeverGoesBack
  LeftConnectionsGo
CHECK_DEADLOCK FALSE
