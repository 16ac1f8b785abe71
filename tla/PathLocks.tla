----------------------------- MODULE PathLocks -----------------------------
(***************************************************************************)
(* locks.Manager (src/internal/locks/locks.go): the in-process reader/     *)
(* writer lock table that every file operation goes through.  A request    *)
(* names one or more keys; a path key conflicts with every ancestor and    *)
(* descendant of the same source, any other key (a quota lock) only with   *)
(* itself.  One mutex protects the table, so each critical section between *)
(* Lock and Unlock or cond.Wait is one action here.                        *)
(***************************************************************************)
EXTENDS Integers, Sequences, FiniteSets, SequencesExt

CONSTANTS Callers,   \* one element per concurrent call of acquire
          Keys,      \* lock keys
          Requests   \* [keys : set of Keys, write : BOOLEAN]

\* A key is "source NUL path" (isPath) or an opaque string such as "quota:x".
ASSUME KeysAssumption ==
  \A k \in Keys : /\ k.isPath \in BOOLEAN
                  /\ DOMAIN k = {"isPath", "source", "path"}

ASSUME RequestsAssumption ==
  Requests \subseteq [keys : (SUBSET Keys) \ {{}}, write : BOOLEAN]

ASSUME CallersAssumption == IsFiniteSet(Callers)

VARIABLES entries,   \* the active table: readers and writers of each key
          waiters,   \* FIFO list of queued callers
          req,       \* what each caller asked for
          pc         \* idle, asleep in cond.Wait, awake after Broadcast, held

vars == <<entries, waiters, req, pc>>

NoRequest == [keys |-> {}, write |-> FALSE]

Counter == [readers : Nat, writers : Nat]

\* Types of the counters, queue and locals.
TypeOK ==
  /\ entries \in [Keys -> Counter]
  /\ waiters \in Seq(Callers)
  /\ req \in [Callers -> Requests \cup {NoRequest}]
  /\ pc \in [Callers -> {"idle", "asleep", "awake", "held"}]
-----------------------------------------------------------------------------
isSameOrDescendantPath(parent, child) == IsPrefix(parent, child)

keysConflict(left, right) ==
  \/ left = right
  \/ /\ left.isPath /\ right.isPath
     /\ left.source = right.source
     /\ \/ isSameOrDescendantPath(left.path, right.path)
        \/ isSameOrDescendantPath(right.path, left.path)

waiterConflicts(left, right) ==
  /\ left.write \/ right.write
  /\ \E k \in left.keys, l \in right.keys : keysConflict(k, l)

Active(k) == entries[k].readers + entries[k].writers > 0

\* The loop of canAcquire over the active entries.
conflictsWithActive(r) ==
  \E k \in Keys : /\ Active(k)
                  /\ entries[k].writers > 0 \/ r.write
                  /\ \E l \in r.keys : keysConflict(l, k)

\* Callers queued ahead of c; all of them when c has just been appended.
EarlierWaiters(c) ==
  {d \in Callers : \E i \in 1..Len(waiters) :
       /\ waiters[i] = d
       /\ \A j \in 1..i : waiters[j] # c}

\* Fault: an arriving request overtakes queued requests it conflicts with.
canAcquireIgnoringQueue(c, r) == ~conflictsWithActive(r)

\* Fault: an entry without writers never blocks, not even a writer.
canAcquireSharingReaders(c, r) ==
  /\ ~(\E k \in Keys : entries[k].writers > 0 /\ \E l \in r.keys : keysConflict(l, k))
  /\ \A d \in EarlierWaiters(c) : ~waiterConflicts(r, req[d])

canAcquire(c, r) ==
  /\ ~conflictsWithActive(r)
  /\ \A d \in EarlierWaiters(c) : ~waiterConflicts(r, req[d])
-----------------------------------------------------------------------------
Init ==
  /\ entries = [k \in Keys |-> [readers |-> 0, writers |-> 0]]
  /\ waiters = << >>
  /\ req = [c \in Callers |-> NoRequest]
  /\ pc = [c \in Callers |-> "idle"]

addEntry(r) ==
  entries' = [k \in Keys |->
    IF k \notin r.keys THEN entries[k]
    ELSE IF r.write THEN [entries[k] EXCEPT !.writers = @ + 1]
    ELSE [entries[k] EXCEPT !.readers = @ + 1]]

removeEntry(r) ==
  entries' = [k \in Keys |->
    IF k \notin r.keys THEN entries[k]
    ELSE IF r.write THEN [entries[k] EXCEPT !.writers = @ - 1]
    ELSE [entries[k] EXCEPT !.readers = @ - 1]]

\* acquire when the first evaluation of canAcquire succeeds.
AcquireAtOnce(c, r) ==
  /\ pc[c] = "idle"
  /\ canAcquire(c, r)
  /\ addEntry(r)
  /\ req' = [req EXCEPT ![c] = r]
  /\ pc' = [pc EXCEPT ![c] = "held"]
  /\ UNCHANGED waiters

\* acquire up to cond.Wait, which releases the mutex.
EnqueueAndWait(c, r) ==
  /\ pc[c] = "idle"
  /\ ~canAcquire(c, r)
  /\ waiters' = Append(waiters, c)
  /\ req' = [req EXCEPT ![c] = r]
  /\ pc' = [pc EXCEPT ![c] = "asleep"]
  /\ UNCHANGED entries

\* Fault: the waiter that is granted takes the head off the queue.
AcquireAfterWaitPopsHead(c) ==
  /\ pc[c] = "awake"
  /\ canAcquire(c, req[c])
  /\ waiters' = Tail(waiters)
  /\ addEntry(req[c])
  /\ pc' = [pc EXCEPT ![c] = "held"]
  /\ UNCHANGED req

\* A woken waiter gets the mutex back and re-evaluates the loop condition.
AcquireAfterWait(c) ==
  /\ pc[c] = "awake"
  /\ canAcquire(c, req[c])
  /\ \E i \in 1..Len(waiters) : waiters[i] = c /\ waiters' = RemoveAt(waiters, i)
  /\ addEntry(req[c])
  /\ pc' = [pc EXCEPT ![c] = "held"]
  /\ UNCHANGED req

WaitAgain(c) ==
  /\ pc[c] = "awake"
  /\ ~canAcquire(c, req[c])
  /\ pc' = [pc EXCEPT ![c] = "asleep"]
  /\ UNCHANGED <<entries, waiters, req>>

broadcast(c) ==
  pc' = [d \in Callers |-> CASE d = c             -> "idle"
                             [] pc[d] = "asleep"  -> "awake"
                             [] OTHER             -> pc[d]]

\* Fault: Signal, which wakes the longest sleeper only.
ReleaseWithSignal(c) ==
  /\ pc[c] = "held"
  /\ removeEntry(req[c])
  /\ req' = [req EXCEPT ![c] = NoRequest]
  /\ pc' = [d \in Callers |-> CASE d = c -> "idle"
                                [] waiters # << >> /\ d = Head(waiters) -> "awake"
                                [] OTHER -> pc[d]]
  /\ UNCHANGED waiters

\* The function acquire returns; sync.Once makes a second call a no-op.
Release(c) ==
  /\ pc[c] = "held"
  /\ removeEntry(req[c])
  /\ req' = [req EXCEPT ![c] = NoRequest]
  /\ broadcast(c)
  /\ UNCHANGED waiters

Next ==
  \E c \in Callers :
    \/ \E r \in Requests : AcquireAtOnce(c, r) \/ EnqueueAndWait(c, r)
    \/ AcquireAfterWait(c)
    \/ WaitAgain(c)
    \/ Release(c)

Spec == Init /\ [][Next]_vars

\* Holders finish their operation, and the Go scheduler runs woken goroutines.
Fairness ==
  \A c \in Callers : WF_vars(Release(c) \/ AcquireAfterWait(c) \/ WaitAgain(c))

FairSpec == Spec /\ Fairness
-----------------------------------------------------------------------------
Holds(c) == pc[c] = "held"

\* Two operations whose scopes overlap, one of them writing, never run
\* together: the guarantee Lock, LockPair, RLock and RLockMany give the file
\* operations, for ancestors and descendants as much as for equal paths.
MutualExclusion ==
  \A c, d \in Callers :
    c # d /\ Holds(c) /\ Holds(d) => ~waiterConflicts(req[c], req[d])

ReadersOf(k) == {c \in Callers : Holds(c) /\ k \in req[c].keys /\ ~req[c].write}
WritersOf(k) == {c \in Callers : Holds(c) /\ k \in req[c].keys /\ req[c].write}

\* The reader and writer counters are exactly the number of holders of each
\* key: no release underflows them, and an entry vanishes with its last holder.
EntriesCountHolders ==
  \A k \in Keys : /\ entries[k].readers = Cardinality(ReadersOf(k))
                  /\ entries[k].writers = Cardinality(WritersOf(k))

\* No lost wakeup: whoever sleeps in cond.Wait still cannot proceed.  Taking
\* a lock removes a waiter from the queue without a Broadcast, so this needs
\* that the new holder blocks everyone its queue entry blocked.
NoLostWakeup ==
  \A c \in Callers : pc[c] = "asleep" => ~canAcquire(c, req[c])

\* The manager's mutex, counters, queue and condition variable agree at every
\* step: writers exclude everyone, each counter is the number of its holders,
\* and nobody sleeps who could run.
LocksConsistent ==
  /\ TypeOK
  /\ MutualExclusion
  /\ EntriesCountHolders
  /\ NoLostWakeup

\* No starvation: a queued request is eventually granted, however many
\* readers or disjoint writers keep arriving.
EveryWaiterServed ==
  \A c \in Callers : pc[c] \in {"asleep", "awake"} ~> Holds(c)

\* The lock manager implements the abstract scope lock.
Abstract == INSTANCE ScopeLock WITH
  holding <- [c \in Callers |-> IF Holds(c) THEN req[c] ELSE NoRequest],
  Conflict <- waiterConflicts

ImplementsScopeLock == Abstract!Spec
=============================================================================
