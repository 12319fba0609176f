CONSTANTS
  Nil = Nil
  Buckets = {b1}
  Namespace = ns
  Sizes = {0, 1}
  Thresholds = {1}
  StreakBound = 2
  Faults = {"seed", "crash"}
SPECIFICATION Spec
PROPERTY OnlyEvidenceClears
