\* Two pods that start, race and die on one database.
CONSTANTS
  None = None
  Pods = {p1, p2}
  MaxDeaths = 2
SPECIFICATION FairSpec
INVARIANTS
  RecordedIsApplied
  ServesOnLatest
PROPERTIES
  AllServe
  OnlyDeathBreaks
CHECK_DEADLOCK FALSE
