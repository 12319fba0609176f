\* A bucket and the namespace; ECS and the process fail, the store does not.
CONSTANTS
  Nil = Nil
  Buckets = {b1}
  Namespace = ns
  Sizes = {0, 1}
  Thresholds = {1, 2}
  StreakBound = 2
  Faults = {"billing", "inventory", "crash"}
SPECIFICATION FairSpec
INVARIANTS
  TypeOK
  SnapshotIsDurable
PROPERTIES
  OnlyEvidenceClears
  KeepsPromise
  OverIsPaged
  RecoveryIsSeen
