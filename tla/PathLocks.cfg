\* Four concurrent requests, so that a queue of three can build up.
CONSTANTS
  Callers = {c1, c2, c3, c4}
  Keys <- MCKeys
  Requests <- MCRequests
SPECIFICATION FairOrderSpec
INVARIANTS
  LocksConsistent
  ServedInTurn
PROPERTIES
  ImplementsScopeLock
  EveryWaiterServed
