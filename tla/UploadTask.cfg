\* Two tasks on one directory, with a retry, lost answers and aborted requests.
CONSTANTS
  t1 = t1
  t2 = t2
  Tasks = {t1, t2}
  FilesOf <- MCFilesOf
  Old = {1}
  Concurrency = 2
  MaxRetries = 1
  MaxErrors = 1
  None = None
SPECIFICATION Spec
INVARIANTS
  ReportTrue
  OverwriteNeedsAnswer
  CancelStops
PROPERTY TaskEnds
CHECK_DEADLOCK FALSE
