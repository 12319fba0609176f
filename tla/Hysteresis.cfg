\* 2^63 is 8 here and a GiB 4 bytes: documents at the edge of an int64, of a byte
\* and of nothing; then samples below and at one threshold.
CONSTANTS
  Nil = Nil
  Sizes = {0, 4}
  Thresholds = {4}
  MaxSamples = 6
  Missing = Missing
  Blank = Blank
  Junk = Junk
  Grain = 16
  GiB = 4
  MaxInt64 = 7
  Written = {0, 1, 4, 16, 32, 48}
  Parts = {Missing, 4, 16}
SPECIFICATION MeteringSpec
INVARIANTS
  TypeOK
  ConfirmedByTwoUntilEvidence
  UnconfirmedStreakIsLatestSample
  FormatsAgree
  OverAsPublished
CHECK_DEADLOCK FALSE
