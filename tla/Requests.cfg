\* Slow and repeated headers, changing grants, two clocks; lists of three buckets.
CONSTANTS
  MaxLifetime = 2
  Leeway = 1
  Skew = 1
  Lifetimes = {1, 2, 4}
  MaxTime = 6
  Nil = Nil
  Names = {1, 2, 3}
  Snapshots <- MCSnapshots
  MaxListLimit = 2
  DefaultLimit = 1
  LimitArgs <- MCLimitArgs
SPECIFICATION Spec
INVARIANTS
  RevocationTakesEffect
  FreshIsServed
  AbsenceIsReal
