SPECIFICATION BuilderSpec
CONSTANTS
  Builds = {b1}
  Readers = {s1}
  Modes = {"simulation", "command"}
  Cap = 2
  Steps = 1
  Outputs <- OneLine
  Overlong = {"stdout"}
  Free = Free
INVARIANTS BuilderTypeOK NoLineFallsBetween SucceededHasWhatWasRead PanicNeedsFailure ClosedOnce
PROPERTIES EveryBuildEnds EveryStreamIsClosed
\* When every build is over and every reader gone, nothing is left to do.
CHECK_DEADLOCK FALSE
