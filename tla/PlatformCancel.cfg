SPECIFICATION ReliableSpec
CONSTANTS
  k1 = k1
  k2 = k2
  w1 = w1
  w2 = w2
  Replicas = {r1}
  Jobs = {j1}
  Cancels = {c1}
  Reports = {p1, p2}
  Gets = {}
  Streams = {}
  Queues = {k1}
  Workers = {w1}
  Listens <- OneList
  Events <- RunnerEvents
  HasDb = FALSE
  None = None
SYMMETRY Symmetry
INVARIANT CanceledIsNotRun
\* Once every job is worked off the runners wait in BLPOP.
CHECK_DEADLOCK FALSE
