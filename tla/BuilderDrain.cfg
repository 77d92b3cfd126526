SPECIFICATION BuilderSpec
CONSTANTS
  Builds = {b1}
  Readers = {s1}
  Modes = {"command"}
  Cap = 2
  Steps = 1
  Outputs <- OneLine
  Overlong = {}
  Free = Free
INVARIANTS SucceededIsDrained
\* When every build is over and every reader gone, nothing is left to do.
CHECK_DEADLOCK FALSE
