SPECIFICATION HostileSpec
CONSTANTS
  k1 = k1
  k2 = k2
  w1 = w1
  w2 = w2
  Replicas = {r1}
  Jobs = {j1}
  Cancels = {}
  Reports = {p1}
  Gets = {}
  Streams = {s1}
  Queues = {k1, k2}
  Workers = {w1, w2}
  Listens <- NodeFirst
  Events <- RunnerEvents
  HasDb = TRUE
  None = None
SYMMETRY Symmetry
INVARIANTS OneRunner
PROPERTIES DeletedStaysDeleted
\* Once every job is worked off the runners wait in BLPOP.
CHECK_DEADLOCK FALSE
