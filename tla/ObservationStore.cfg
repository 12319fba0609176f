\* Two pods, one connection each, two namespaces; every call may fail.
CONSTANTS
  None = None
  Pods = {p1, p2}
  Existing <- MCExisting
  Clients <- MCClients
  p1 = p1
  p2 = p2
  PoolSize = 1
  n1 = n1
  n2 = n2
  b1 = b1
  b2 = b2
  Namespaces = {n1, n2}
  Buckets = {b1, b2}
  Bytes = {1}
  Observations <- MCObservations
  Deltas <- MCDeltas
  MaxSamples = 1
  Faults = {"error", "crash"}
SPECIFICATION FairSpec
INVARIANTS
  PoolIsAccounted
PROPERTIES
  KeepsPromise
  EveryCallReturns
