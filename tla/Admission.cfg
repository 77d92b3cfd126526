SPECIFICATION Spec
CONSTANTS
  x = x
  y = y
  v0 = v0
  Models = {x, y}
  Versions = {v0, v1}
  Labels = {l1}
  Admins = {a1}
  Submissions = {s1, s2}
  Wanted = {x}
  Nodes = {n1}
  None = None
  Suffix <- Named
  Older <- Served
  MaxListings = 3
  MaxFailures = 1
SYMMETRY Symmetry
INVARIANTS
  AdmissionTypeOK
  UnservedNeedsFailure
  UnknownNeedsFailure
  JobOnItsVersion
PROPERTIES
  StaleOnlyByLateFetch
CHECK_DEADLOCK FALSE   \* every submission has been answered and the listings are used up
