SPECIFICATION Spec
CONSTANTS
  Replicas = {r1, r2}
  Jobs = {j1}
  Cancels = {}
  Reports = {p1}
  Gets = {}
  Streams = {s1}
  Queues = {k1}
  Events <- SomeEvents
  HasDb = TRUE
  None = None
SYMMETRY Symmetry
INVARIANTS DeliveredAtMostOnce CreatedIsDurable ListedIsReady AcceptedIsAudited PositionOnlyInQueue
\* A service with no request left to serve waits.
CHECK_DEADLOCK FALSE
