\* Two directories, two tasks or requests.
CONSTANTS
  root = root
  sub = sub
  rootByName = rootByName
  subByName = subByName
  Dirs = {root, sub}
  Keys = {rootByName, subByName}
  Dir <- MCDir
  Names = {1, 2}
  InitFiles <- MCInitFiles
  Writable = {root, sub}
  MaxActions = 2
  None = None
SPECIFICATION ConsentSpec
INVARIANTS
  ConfirmedOnly
  ListingFresh
CHECK_DEADLOCK FALSE
