\* Short histories of a bucket whose metering is stamped or not; the store, the
\* process and the clock fail, nothing is pruned within MaxTime.
CONSTANTS
  None = None
  TicksPerHour = 2
  ActivityWindow = 2
  ActivityRetention = 8
  Objects = {0, 1}
  Parts = {0, 1}
  Stamped = {TRUE, FALSE}
  Second = 2
  Fractions = {0, 1}
  MaxGap = 1
  MaxTime = 3
  MaxSetBacks = 1
  Faults = {"persist", "record", "seed", "crash", "clock"}
SPECIFICATION Spec
INVARIANTS
  NetIsAccounted
  RestartKeepsCounters
  IdleIsNeverBusy
PROPERTIES
  StampedIsFoldedOnce
CHECK_DEADLOCK FALSE
