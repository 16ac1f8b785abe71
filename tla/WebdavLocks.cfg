\* Two users, two locks and every operation; a lock runs out, or the process
\* dies or a deletion fails.
CONSTANTS
  c1 = c1
  c2 = c2
  t1 = t1
  t2 = t2
  Clients = {c1, c2}
  UserOf <- OwnUser
  Tokens = {t1, t2}
  Paths <- MCPaths
  Kinds = {"put", "delete", "move"}
  MaxTime = 1
  MaxTimeout = 1
  MaxFaults = 1
  None = None
SYMMETRY Symmetry
CONSTRAINT OneTrouble
SPECIFICATION Spec
INVARIANTS
  LocksDisjoint
  MutationsRespectLocks
  LockedResourceExists
PROPERTY LocksEndRightly
