\* An ordinary path, one failing call and a restart.
CONSTANTS
  Paths = {p}
  Managed = {}
  MaxPuts = 2
  MaxOps = 1
  MaxCrashes = 0
  MaxFailures = 1
SPECIFICATION Spec
INVARIANT LiveKept
