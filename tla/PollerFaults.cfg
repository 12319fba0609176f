\* One bucket; everything may fail.
CONSTANTS
  Nil = Nil
  Buckets = {b1}
  Namespace = ns
  Sizes = {0, 1}
  Thresholds = {1}
  StreakBound = 2
  Faults = {"billing", "inventory", "persist", "seed", "crash"}
SPECIFICATION Spec
INVARIANTS
  AlarmsAreSound
  FreshAlarmIsAtQuota
  ReadyShowsTrueFlags
  AlarmIsOnTheBoard
PROPERTIES
  OnlyEvidenceSilences
