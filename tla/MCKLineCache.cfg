SPECIFICATION Spec
CONSTANTS
  Closes = {1, 2}
  Capacity = 3
  PreloadLimit = 2
  Periods = {2, 3}
  MAUnit = 1
  NoCandle = NoCandle
  MaxTime = 5
  MaxTrades = 2
  MaxPending = 2
INVARIANTS
  TypeOK
  CandlesInOrder
  StreamedCandlesExact
  AverageErrorAccounted
PROPERTIES
  ClosedCandlesFrozen
  CacheIsHistory
