SPECIFICATION Spec
CONSTANTS
  RetryInterval = 5
  MaxRetries = 5
  AttemptTicks = 2
  MaxConnectCalls = 2
  MaxOutages = 3
  Symbols = {s1, s2, s3}
  Changes = {0, 1, 4, 5, 7, 8}
  Most = 4
  Unit = 2
  Levels = 2
  Top = 1
  Bars = {0, 2, 3}
  MaxEvents = 2
  ItemHeight = 2
  Viewports = {3, 4}
  Sizes = {2, 4, 5}
  Deltas = {1, 3}
  Garbage = {0, 3}
  MaxLists = 2
  Popups = {p1, p2}
  Inner = inner
  nullptr = nullptr
  TKey = {k1, k2, k3}
  TValue = {v1, v2, v3}
  Orders = {o1, o2, o3}
  WithCallback = {o1, o2}
  AutoCancelled = {o1, o3}
  PageSize = 3
  Interval = 2
  Limits = {2, 4, 6, 7}
  StartTimes = {0, 3}
  EndTimes = {5, 12, 13, 16}
  Opened = 7
  MaxOpened = 8
  Delays = {2, 5}
  Frames = {2}
  Repeats = {0, 2}
  DayLength = 2
  FloatExact = 4
  Start = 9
  MaxTime = 5
  MaxTasks = 2
  MaxSetBacks = 1
  MaxRuns = 3
INVARIANT GivesUpAtTheLimit
CHECK_DEADLOCK FALSE
