SPECIFICATION FairSpec
CONSTANTS
  Replicas = {r1}
  Jobs = {j1}
  Cancels = {}
  Reports = {p1}
  Gets = {}
  Streams = {s1}
  Queues = {k1}
  Events <- SomeEvents
  HasDb = FALSE
  None = None
PROPERTY StreamTerminates
\* A service with no request left to serve waits.
CHECK_DEADLOCK FALSE
