\* Long histories of a bucket that ECS stamps; the window moves, rows expire. The
\* retention is the shortest that config.Load admits.
CONSTANTS
  None = None
  TicksPerHour = 3
  ActivityWindow = 5
  ActivityRetention = 5
  Objects = {0, 1}
  Parts = {0}
  Stamped = {TRUE}
  Second = 2
  Fractions = {1}
  MaxGap = 2
  MaxTime = 8
  MaxSetBacks = 0
  Faults = {"query", "prune"}
  Lookbacks = {2}
SPECIFICATION HistorySpec
INVARIANTS
  WindowIsComplete
  NotFoundIsNotStale
  MissingHourWasNotMeasured
CHECK_DEADLOCK FALSE
