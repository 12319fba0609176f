\* Two pods, one bucket; the inventory and the pods fail.
CONSTANTS
  Nil = Nil
  Buckets = {b1}
  Namespace = ns
  Sizes = {0, 1}
  Thresholds = {1}
  StreakBound = 2
  Faults = {"inventory", "crash"}
SPECIFICATION PodsFairSpec
PROPERTIES
  AgreedAlarmSurvives
  OverlapHeals
