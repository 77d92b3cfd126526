SPECIFICATION ReliableSpec
CONSTANTS
  k1 = k1
  k2 = k2
  w1 = w1
  w2 = w2
  Replicas = {r1}
  Jobs = {j1, j2}
  Cancels = {}
  Reports = {p1, p2, p3, p4}
  Gets = {}
  Streams = {}
  Queues = {k1}
  Workers = {w1}
  Listens <- OneList
  Events <- RunnerEvents
  HasDb = TRUE
  None = None
INVARIANTS PlatformTypeOK ThroughIsEnded
PROPERTIES EverySubmissionEnds EndedIsFinal
\* Once every job is worked off the runners wait in BLPOP.
CHECK_DEADLOCK FALSE
