\* Two ordinary paths and a managed one; crashes, failing calls and what they
\* leave behind for the operations after them.
CONSTANTS
  Paths = {p, q, r}
  Managed = {r}
  MaxPuts = 2
  MaxOps = 3
  MaxCrashes = 2
  MaxFailures = 2
SYMMETRY PathSymmetry
SPECIFICATION Spec
INVARIANTS
  MetaFollowsFile
  PlaceHonoured
  RefusalNeedsFailure
PROPERTY LostOnlyByReplay
