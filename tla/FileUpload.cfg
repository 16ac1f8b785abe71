\* Crashes, failing calls and repeated recoveries, with fairness.
CONSTANTS
  MaxUploads = 3
  MaxCrashes = 2
  MaxFailures = 3
SPECIFICATION FairSpec
INVARIANTS
  AckedSurvives
  NoOrphans
  OneCrashStartsUp
PROPERTIES
  SuccessIsCommitted
  Recovers
