SPECIFICATION Spec
CONSTANTS
  Replicas = {r1}
  Jobs = {j1}
  Cancels = {c1, c2}
  Reports = {p1}
  Gets = {}
  Streams = {}
  Queues = {k1}
  Events <- TwoEvents
  HasDb = TRUE
  None = None
SYMMETRY Symmetry
INVARIANTS TypeOK TableIsAhead AcceptedIsKept OneCancellation
PROPERTIES TableMovesOnward TableIsLifecycle
\* A service with no request left to serve waits.
CHECK_DEADLOCK FALSE
