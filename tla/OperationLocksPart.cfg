\* Requests on one multipart upload while its source is deleted.
CONSTANTS
  a = a
  b = b
  c = c
  Procs = {a, b, c}
  Rosters <- SameUpload
  Order <- SourcesThenUsers
  Keys <- MCKeys
  None = None
SPECIFICATION Spec
INVARIANT NoCircularWait
