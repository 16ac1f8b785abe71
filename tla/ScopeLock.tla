----------------------------- MODULE ScopeLock -----------------------------
(***************************************************************************)
(* What locks.Manager (src/internal/locks/locks.go) promises its callers,  *)
(* without its queue, counters or condition variable: a caller may come to *)
(* hold a request only while nobody holds a conflicting one.  PathLocks    *)
(* implements this specification.                                          *)
(***************************************************************************)
CONSTANTS Callers,        \* one element per call of acquire
          Requests,       \* what a caller may ask for
          NoRequest,      \* the value of a caller that holds nothing
          Conflict(_, _)  \* may two requests not be held together?

VARIABLE holding          \* [Callers -> Requests \cup {NoRequest}]

Init == holding = [c \in Callers |-> NoRequest]

Grant(c, r) ==
  /\ holding[c] = NoRequest
  /\ \A d \in Callers : holding[d] # NoRequest => ~Conflict(r, holding[d])
  /\ holding' = [holding EXCEPT ![c] = r]

Drop(c) ==
  /\ holding[c] # NoRequest
  /\ holding' = [holding EXCEPT ![c] = NoRequest]

Next == \E c \in Callers : Drop(c) \/ \E r \in Requests : Grant(c, r)

Spec == Init /\ [][Next]_holding
=============================================================================
