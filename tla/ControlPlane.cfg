SPECIFICATION Spec
CONSTANTS
  Nodes = {n1}
  Names = {m1}
  Served = {m1}
  Runs = {1, 2}
  Editors = {e1}
  None = None
  MaxMishaps = 2
CONSTRAINT UntilStale
INVARIANTS
  TypeOK
  AcknowledgedHolds
  ProvisioningHasRun
  FoundIsLoaded
PROPERTIES
  StatusMovesAsDocumented
