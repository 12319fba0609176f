CONSTANTS
  None = None
  Tokens = {t1, t2, t3}
  Markers = {m1, m2, m3}
  MaxPages = 3
  FirstPage = first
SPECIFICATION FairSpec
INVARIANTS
  PagesAreDistinct
  OneRefusalIsSurvived
  OneExpiryIsSurvived
PROPERTIES
  PollRunsOut
  PollEnds
CHECK_DEADLOCK FALSE
