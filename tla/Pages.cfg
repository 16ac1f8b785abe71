\* Lists of two rows, two requests under way, two in all (three on the sources);
\* four images, at most two at a time; two directories of up to four files, one
\* change behind the page.
CONSTANTS
  Entries = {1, 2}
  MaxRequests = 2
  MaxSent <- Sent
  MaxVisits = 1
  Images = {1, 2, 3, 4}
  MaxConcurrent = 2
  Dirs = {"a", "b"}
  Last = 4
  KindOf <- Kinds
  Cap = 2
  Stores <- SomeStores
  Sizes = {1, 3}
  MaxChanges = 1
  MaxRetries = 1
  None = None
  Absent = Absent
SPECIFICATION Spec
INVARIANTS
  SecretTrue
  LastClickHolds
  ListTrue
  PlacesUsed
  ContentOfItem
  NoSilentCut
  ShownIsOpened
CHECK_DEADLOCK FALSE
