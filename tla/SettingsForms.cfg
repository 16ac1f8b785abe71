\* Three changes of a record, two forms opened one after the other.
CONSTANTS
  Sources = {1, 2}
  Publishable = {"photos", "/"}
  Whole = "/"
  MaxVersion = 3
  MaxRequests = 2
  MaxOpened = 2
  None = None
SPECIFICATION FormsSpec
INVARIANTS
  NoBlindOverwrite
  DraftKept
  TargetConfirmed
CHECK_DEADLOCK FALSE
