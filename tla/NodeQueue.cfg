SPECIFICATION Spec
CONSTANTS
  Jobs = {j1}
  NodeWorkers = {w1, w2}
  ModelWorkers = {w3}
  Consumers = {c1}
  None = None
  MaxMishaps = 2
INVARIANTS
  QueueTypeOK
PROPERTIES
  OneRunUnlessRaced
  EveryPopEnds
CHECK_DEADLOCK FALSE   \* every list is empty and every job has been worked on
