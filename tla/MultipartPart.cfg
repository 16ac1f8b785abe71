\* A client may also send again what is already stored.
CONSTANTS
  Contents = {a, b}
  MaxAttempts = 4
  MaxCrashes = 2
  MaxFailures = 2
SPECIFICATION FairSpec
INVARIANTS
  RecordedPartUsable
  AckedStays
  RefusalNeedsEqualContent
PROPERTY LeftoversGo
