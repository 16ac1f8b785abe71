---------------------------- MODULE ArrivalOrder ----------------------------
(***************************************************************************)
(* PathLocks with a history variable: who was waiting already when whom    *)
(* called acquire.  It is kept from the arrivals alone and never looks at  *)
(* the queue, so that it says in which order requests came, whatever       *)
(* grants, wake-ups and releases have done to the queue since.             *)
(***************************************************************************)
EXTENDS PathLocks

VARIABLE ahead   \* <<c, d>>: c waits, and has since before d arrived

orderVars == <<entries, waiters, req, pc, ahead>>

Waiting(c) == pc[c] \in {"asleep", "awake"}

OrderInit == Init /\ ahead = {}

\* d arrives when it is idle no longer, and is forgotten when it is idle again.
Arrivals ==
  ahead' = {p \in Callers \X Callers :
              LET c == p[1]
                  d == p[2]
              IN
              /\ Waiting(c)' /\ pc'[d] # "idle"
              /\ p \in ahead \/ (Waiting(c) /\ pc[d] = "idle")}

OrderNext == Next /\ Arrivals

OrderSpec == OrderInit /\ [][OrderNext]_orderVars

\* As in PathLocks: these steps of PathLocks are steps here.
FairOrderSpec == OrderSpec /\ Fairness
-----------------------------------------------------------------------------
\* Conflicting requests are served in the order in which they arrived: while a
\* request waits, none that came after it and conflicts with it is granted,
\* however many others are granted, released and woken in between, and
\* although disjoint ones may overtake.  Rests on canAcquire looking at the
\* queue ahead of the caller and on every grant taking its own entry off it.
ServedInTurn ==
  \A p \in ahead : Holds(p[2]) => ~waiterConflicts(req[p[1]], req[p[2]])
=============================================================================
