\* A file operation or completion, another handler and an administrator, with
\* fairness.
CONSTANTS
  a = a
  b = b
  c = c
  Procs = {a, b, c}
  Rosters <- AnyThree
  Order <- SourcesThenUsers
  Keys <- MCKeys
  None = None
SPECIFICATION FairSpec
INVARIANTS
  NoCircularWait
  NoWorkAfterDelete
PROPERTY EveryRequestEnds
