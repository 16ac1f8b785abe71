--------------------------- MODULE OperationLocks ---------------------------
(***************************************************************************)
(* The locks one request holds together.  Every handler takes, in its own  *)
(* order, leases of the lifecycle manager (a sync.RWMutex per source and   *)
(* user), the mutex of locks.PersistentStore and scopes of locks.Manager,  *)
(* and keeps them until it returns.  A handler is written here as the      *)
(* sequence of its lock steps; what it does between them is "work".  The   *)
(* scopes are those of PathLocks, queue and wake-ups included.             *)
(***************************************************************************)
EXTENDS Naturals, Sequences, FiniteSets, SequencesExt

CONSTANTS Procs,      \* goroutines serving requests
          Rosters,    \* the programs each of them may run: functions from Procs to sets of
                      \* sequences of steps, one of them per behaviour
          Order,      \* ids of sources and users, as normalizedKeys sorts them
          Keys,       \* keys of the lock manager
          None

Resources == ToSet(Order)

VARIABLES roster,     \* the programs of this behaviour
          todo,       \* the steps each request still has to take
          held,       \* what it has acquired, oldest first
          lease,      \* the RWMutex of each source and user
          mu,         \* owner of PersistentStore.mu
          deleted,    \* rows of sources and users that are gone
          journal,    \* sources and users named by each request's completion row
          entries, waiters, req, pc    \* the lock manager, as in PathLocks

scopeVars == <<entries, waiters, req, pc>>
state == <<todo, held, lease, mu, deleted, journal, scopeVars>>
vars == <<roster, state>>
-----------------------------------------------------------------------------
(* Steps.  Every step has the same fields, so that steps can be compared.  *)

step(op, lock, res, keys, write) ==
  [op |-> op, lock |-> lock, res |-> res, keys |-> keys, write |-> write]

Read(r)   == step("take", "lease", r, {}, FALSE)     \* lifecycle.Read of one resource
Write(r)  == step("take", "lease", r, {}, TRUE)      \* lifecycle.Write
Mutex     == step("take", "mutex", "none", {}, TRUE) \* PersistentStore.mu.Lock
RLock(K)  == step("take", "scope", "none", K, FALSE)
Lock(K)   == step("take", "scope", "none", K, TRUE)
Drop(s)   == [s EXCEPT !.op = "drop"]
Check(r)  == step("check", "none", r, {}, FALSE)     \* the row still exists
Work(r)   == step("work", "none", r, {}, FALSE)      \* files and rows of r are used
Erase(r)  == step("erase", "none", r, {}, FALSE)     \* the row of r is deleted
Journal   == step("journal", "none", "none", {}, FALSE)
Settle    == step("settle", "none", "none", {}, FALSE)

path(src, p)    == [isPath |-> TRUE, source |-> src, path |-> p]
opaque(name, x) == [isPath |-> FALSE, source |-> name, path |-> <<x>>]
quotaLockKey(src)      == opaque("quota", src)
userQuotaLockKey(user) == opaque("user-quota", user)
multipartKey(id)       == opaque("multipart", id)

Takes == {Read(r) : r \in Resources} \cup {Write(r) : r \in Resources} \cup {Mutex}
           \cup {RLock(K) : K \in SUBSET Keys} \cup {Lock(K) : K \in SUBSET Keys}
Steps == Takes \cup {Drop(s) : s \in Takes}
           \cup {Check(r) : r \in Resources} \cup {Erase(r) : r \in Resources}
           \cup {Work(r) : r \in Resources \cup {"none"}} \cup {Journal, Settle}

each(Op(_), rs) == [i \in DOMAIN rs |-> Op(rs[i])]

\* The leases of a set in the one order, then the rows.
normalizedKeys(S) == SelectSeq(Order, LAMBDA r : r \in S)
guardLifecycle(S) == each(Read, normalizedKeys(S)) \o each(Check, normalizedKeys(S))

\* An unlimited owner shares the quota lock; a limited one peeks at the limit
\* under the shared lock and then takes the exclusive one.
quotaGuard(k, limited) ==
  IF limited THEN <<RLock({k}), Drop(RLock({k})), Lock({k})>> ELSE <<RLock({k})>>
-----------------------------------------------------------------------------
(* The handlers, each as its lock steps.                                   *)

UploadWithLockTokens(src, user, p, limited) ==
  guardLifecycle({src, user}) \o <<Mutex>>
    \o quotaGuard(quotaLockKey(src), limited)
    \o quotaGuard(userQuotaLockKey(user), limited)
    \o <<Lock({path(src, p)}), Work(src)>>

\* DeleteWithLockTokens and MkdirWithLockTokens.
DeleteWithLockTokens(src, user, p) ==
  guardLifecycle({src, user}) \o <<Mutex, Lock({path(src, p)}), Work(src)>>

MoveWithLockTokens(src, user, from, to) ==
  guardLifecycle({src, user})
    \o <<Mutex, Lock({path(src, from), path(src, to)}), Work(src)>>

\* Cross-source move: the file moves from src to target.
transfer(src, target, user, from, to) ==
  guardLifecycle({src, target, user}) \o <<Mutex>>
    \o quotaGuard(quotaLockKey(target), TRUE)
    \o <<Lock({path(src, from), path(target, to)}), Work(src), Work(target)>>

RestoreTrash(src, user, p, key) ==
  guardLifecycle({src, user}) \o <<Mutex>> \o quotaGuard(quotaLockKey(src), TRUE)
    \o <<Lock({path(src, p), path("trash", key)}), Work(src)>>

PurgeTrash(src, key) ==
  guardLifecycle({src}) \o <<Lock({path("trash", key)}), Work(src)>>

\* The picture is written into a managed directory, outside WebDAV locks.
imageUpload(src, user, p, limited) ==
  guardLifecycle({src, user})
    \o quotaGuard(quotaLockKey(src), limited)
    \o quotaGuard(userQuotaLockKey(user), limited)
    \o <<Lock({path(src, p)}), Work(src)>>

OpenForRead(src, p) == <<RLock({path(src, p)}), Work("none")>>

\* An administrator's quota change.
LockQuotaUpdate(src) == <<Lock({quotaLockKey(src)}), Work("none")>>

\* PersistentStore.Create, Refresh, Unlock and Discover.
PersistentLockCall == <<Mutex, Work("none")>>

UploadPart(src, user, id) ==
  guardLifecycle({src, user}) \o <<Lock({multipartKey(id)}), Work(src)>>

CleanupExpired(id) == <<Lock({multipartKey(id)}), Work("none")>>

\* A handler that calls another one gets its locks back when the call returns.
returned(prog) ==
  prog \o each(Drop, SelectSeq(Reverse(prog),
                              LAMBDA s : s.op = "take" /\ ~Contains(prog, Drop(s))))

Mkdir(src, p) == guardLifecycle({src}) \o <<Mutex, Lock({path(src, p)}), Work(src)>>

\* EnsureObjectParents: one call of Mkdir for every directory above the object.
EnsureObjectParents(src, p) ==
  FlattenSeq([n \in 1..(Len(p) - 1) |-> returned(Mkdir(src, SubSeq(p, 1, n)))])

\* objectMatchesCompletion reads the object before the completion is settled.
resolveMultipartCompletion(src, p) == <<RLock({path(src, p)}), Work(src), Settle>>

\* Fault: the shared leases are kept across the nested upload.
CompleteNested(src, user, id, p, limited) ==
  guardLifecycle({src, user}) \o <<Lock({multipartKey(id)}), Journal>>
    \o UploadWithLockTokens(src, user, p, limited) \o <<Settle>>

\* Complete journals, gives its leases back and calls Mkdir and the ordinary
\* upload while it keeps the lock of the multipart upload.
Complete(src, user, id, p, limited) ==
  guardLifecycle({src, user})
    \o <<Lock({multipartKey(id)}), Journal, Drop(Read(user)), Drop(Read(src))>>
    \o EnsureObjectParents(src, p)
    \o returned(UploadWithLockTokens(src, user, p, limited))
    \o resolveMultipartCompletion(src, p)

\* handleAdminDeleteSource and handleAdminDeleteUser.
handleAdminDelete(r) == <<Write(r), Erase(r)>>
-----------------------------------------------------------------------------
(* How the programs protect what they use.                                 *)

\* Before its step k a program has taken the lease of r, not given it back,
\* and seen the row since.
leased(prog, k, r) ==
  \E i, j \in 1..(k - 1) :
    /\ i < j /\ prog[i] = Read(r) /\ prog[j] = Check(r)
    /\ \A n \in (i + 1)..(k - 1) : prog[n] # Drop(Read(r))

\* Or its completion row, which it settles last, names r.
journaled(prog, k, r) ==
  \E i \in 1..(k - 1) :
    /\ prog[i] = Journal /\ \E j \in (i + 1)..Len(prog) : prog[j] = Check(r)
    /\ \A n \in (i + 1)..(k - 1) : prog[n] \notin {Journal, Settle}

\* A deletion has the exclusive lease, taken once and kept to the end.
Disciplined(prog) ==
  \A k \in 1..Len(prog) :
    /\ prog[k].op = "work" => prog[k].res = "none" \/ leased(prog, k, prog[k].res)
                                                 \/ journaled(prog, k, prog[k].res)
    /\ prog[k] = Journal => \A r \in Resources : \A j \in (k + 1)..Len(prog) :
                             prog[j] = Check(r) => leased(prog, k, r)
    /\ prog[k] = Settle => k = Len(prog)
    /\ prog[k].op = "erase" => \E i \in 1..(k - 1) : prog[i] = Write(prog[k].res)
    /\ \A r \in Resources : prog[k] = Write(r) =>
         \A j \in 1..Len(prog) : prog[j] # Drop(Write(r)) /\ (prog[j] = Write(r) => j = k)

\* What a scope is about: the quota of a source or of a user, a multipart
\* upload, paths.
Kinds == 1..4
kindOf(key) ==
  IF key.isPath THEN 4
  ELSE CASE key.source = "quota" -> 1 [] key.source = "user-quota" -> 2 [] OTHER -> 3
kind(s) == kindOf(CHOOSE key \in s.keys : TRUE)

\* A program takes its locks in one order: the leases as they are sorted, the
\* mutex, and then one scope of each kind.
rank(s) ==
  CASE s.lock = "lease" -> CHOOSE i \in 1..Len(Order) : Order[i] = s.res
    [] s.lock = "mutex" -> Len(Order) + 1
    [] OTHER -> Len(Order) + 1 + kind(s)

InOrder(prog) ==
  \A k \in 1..Len(prog) : prog[k].op = "take" =>
    /\ \A x, y \in prog[k].keys : kindOf(x) = kindOf(y)
    /\ \A i \in 1..(k - 1) :
         prog[i].op = "take" /\ (\A n \in (i + 1)..(k - 1) : prog[n] # Drop(prog[i]))
           => rank(prog[i]) < rank(prog[k])

ASSUME OrderAssumption == Order \in Seq(Resources)
ASSUME ProgramsAssumption ==
  \A R \in Rosters : \A p \in Procs : \A prog \in R[p] : prog \in Seq(Steps) /\ Disciplined(prog)
ASSUME NoneAssumption == None \notin Procs /\ "none" \notin Resources
-----------------------------------------------------------------------------
(* The three kinds of lock.                                                *)

isScope(s) == s.lock = "scope"

\* A request calls the lock manager for one scope of each kind at a time.
Calls == Procs \X Kinds
Scopes == INSTANCE PathLocks WITH
  Callers <- Calls,
  Requests <- [keys : (SUBSET Keys) \ {{}}, write : BOOLEAN]

Running(p) == todo[p] # << >>
Current(p)   == Head(todo[p])

Advance(p) == todo' = [todo EXCEPT ![p] = Tail(@)]
Take(p) == /\ Advance(p)
           /\ held' = [held EXCEPT ![p] = Append(@, Current(p))]

\* Requests inside the read side of r: a set, with admitted ones not yet back.
Readers(r) == {p \in Procs : Contains(held[p], Read(r))} \cup lease[r].admitted

\* sync.RWMutex.RLock: a writer that has announced itself keeps readers out,
\* and admits all that wait when it unlocks.
RLockLease(p) ==
  /\ Running(p) /\ Current(p) = Read(Current(p).res)
  /\ LET r == Current(p).res IN
       \/ /\ lease[r].writer = None
          /\ p \notin lease[r].admitted
          /\ Take(p)
          /\ UNCHANGED lease
       \/ /\ lease[r].writer # None
          /\ p \notin lease[r].blocked \cup lease[r].admitted
          /\ lease' = [lease EXCEPT ![r].blocked = @ \cup {p}]
          /\ UNCHANGED <<todo, held>>
       \/ /\ p \in lease[r].admitted
          /\ Take(p)
          /\ lease' = [lease EXCEPT ![r].admitted = @ \ {p}]
  /\ UNCHANGED <<mu, deleted, journal, scopeVars>>

\* sync.RWMutex.Lock: announce, then wait for the readers inside.
LockLease(p) ==
  /\ Running(p) /\ Current(p) = Write(Current(p).res)
  /\ LET r == Current(p).res IN
       \/ /\ lease[r].writer = None
          /\ lease' = [lease EXCEPT ![r].writer = p]
          /\ UNCHANGED <<todo, held>>
       \/ /\ lease[r].writer = p /\ Readers(r) = {}
          /\ Take(p)
          /\ UNCHANGED lease
  /\ UNCHANGED <<mu, deleted, journal, scopeVars>>

LockMutex(p) ==
  /\ Running(p) /\ Current(p) = Mutex
  /\ mu = None /\ mu' = p
  /\ Take(p)
  /\ UNCHANGED <<lease, deleted, journal, scopeVars>>

call(p) == <<p, kind(Current(p))>>

LockScope(p) ==
  /\ Running(p) /\ Current(p).op = "take" /\ isScope(Current(p))
  /\ LET r == [keys |-> Current(p).keys, write |-> Current(p).write] IN
       \/ (Scopes!AcquireAtOnce(call(p), r) \/ Scopes!AcquireAfterWait(call(p))) /\ Take(p)
       \/ /\ Scopes!EnqueueAndWait(call(p), r) \/ Scopes!WaitAgain(call(p))
          /\ UNCHANGED <<todo, held>>
  /\ UNCHANGED <<lease, mu, deleted, journal>>
-----------------------------------------------------------------------------
(* What a request does between its locks, and how it ends.                 *)

\* Fault: a writer's unlock forgets the readers it kept out.
freeForgettingReaders(p, s) ==
  /\ IF isScope(s) THEN Scopes!Release(<<p, kind(s)>>) ELSE UNCHANGED scopeVars
  /\ mu' = IF s.lock = "mutex" THEN None ELSE mu
  /\ lease' = IF s.lock = "lease" /\ s.write THEN [lease EXCEPT ![s.res].writer = None]
              ELSE lease

\* Give s back: the effect on the lock it names.
free(p, s) ==
  /\ IF isScope(s) THEN Scopes!Release(<<p, kind(s)>>) ELSE UNCHANGED scopeVars
  /\ mu' = IF s.lock = "mutex" THEN None ELSE mu
  /\ lease' = IF s.lock = "lease" /\ s.write
              THEN [lease EXCEPT ![s.res] = [writer |-> None, blocked |-> {},
                                             admitted |-> @.admitted \cup @.blocked]]
              ELSE lease

dropped(p, s) == held' = [held EXCEPT ![p] = RemoveFirst(@, s)]

\* A release in the middle of a handler.
DropStep(p) ==
  /\ Running(p)
  /\ \E s \in ToSet(held[p]) :
       Current(p) = Drop(s) /\ free(p, s) /\ dropped(p, s)
  /\ Advance(p)
  /\ UNCHANGED <<deleted, journal>>

\* When the row is gone the handler returns; Complete settles its journal.
CheckStep(p) ==
  /\ Running(p) /\ Current(p).op = "check"
  /\ todo' = [todo EXCEPT ![p] =
       IF Current(p).res \notin deleted THEN Tail(@)
       ELSE IF Last(@) = Settle THEN <<Settle>> ELSE << >>]
  /\ UNCHANGED <<held, lease, mu, deleted, journal, scopeVars>>

WorkStep(p) ==
  /\ Running(p) /\ Current(p).op = "work"
  /\ Advance(p)
  /\ UNCHANGED <<held, lease, mu, deleted, journal, scopeVars>>

\* Fault: the deletion does not count pending completions.
EraseUnchecked(p) ==
  /\ Running(p) /\ Current(p).op = "erase"
  /\ deleted' = deleted \cup {Current(p).res}
  /\ Advance(p)
  /\ UNCHANGED <<held, lease, mu, journal, scopeVars>>

\* Deletion is refused while a completion names the source or user.
EraseStep(p) ==
  /\ Running(p) /\ Current(p).op = "erase"
  /\ deleted' = IF \E q \in Procs : Current(p).res \in journal[q] THEN deleted
                ELSE deleted \cup {Current(p).res}
  /\ Advance(p)
  /\ UNCHANGED <<held, lease, mu, journal, scopeVars>>

\* The completion row: written for the source and the user that the upload
\* after it is going to check, removed when the object has been settled.
JournalStep(p) ==
  /\ Running(p) /\ Current(p).op \in {"journal", "settle"}
  /\ journal' = [journal EXCEPT ![p] =
       {s.res : s \in {x \in ToSet(Tail(todo[p])) : x.op = "check"}}]
  /\ Advance(p)
  /\ UNCHANGED <<held, lease, mu, deleted, scopeVars>>

\* The deferred releases, last lock first.
Return(p) ==
  /\ todo[p] = << >> /\ held[p] # << >>
  /\ free(p, Last(held[p]))
  /\ held' = [held EXCEPT ![p] = Front(@)]
  /\ UNCHANGED <<todo, deleted, journal>>

Start(p) ==
  /\ todo[p] = << >> /\ held[p] = << >>
  /\ \E r \in roster[p] : todo' = [todo EXCEPT ![p] = r]
  /\ UNCHANGED <<held, lease, mu, deleted, journal, scopeVars>>

Step(p) ==
  \/ RLockLease(p) \/ LockLease(p) \/ LockMutex(p) \/ LockScope(p)
  \/ DropStep(p) \/ CheckStep(p) \/ WorkStep(p) \/ EraseStep(p) \/ JournalStep(p)
  \/ Return(p)

Init ==
  /\ roster \in Rosters
  /\ todo = [p \in Procs |-> << >>]
  /\ held = [p \in Procs |-> << >>]
  /\ lease = [r \in Resources |-> [writer |-> None, blocked |-> {}, admitted |-> {}]]
  /\ mu = None
  /\ deleted = {}
  /\ journal = [p \in Procs |-> {}]
  /\ Scopes!Init

Next == (\E p \in Procs : Step(p) \/ Start(p)) /\ UNCHANGED roster

Spec == Init /\ [][Next]_vars

\* The scheduler runs every goroutine that can run.  Several can wait for one
\* mutex, or to announce a deletion: Go hands a contended sync.Mutex over in
\* arrival order once a waiter has starved for a millisecond.
Fairness ==
  \A p \in Procs : WF_state(Step(p)) /\ SF_state(LockMutex(p)) /\ SF_state(LockLease(p))

FairSpec == Spec /\ Fairness
-----------------------------------------------------------------------------
\* Types; a request is somewhere in one of its programs.
TypeOK ==
  /\ roster \in Rosters
  /\ \A p \in Procs : /\ \E r \in roster[p] \cup {<< >>} : IsSuffix(todo[p], r)
                      /\ held[p] \in Seq(UNION {ToSet(r) : r \in roster[p]})
  /\ lease \in [Resources -> [writer : Procs \cup {None}, blocked : SUBSET Procs,
                              admitted : SUBSET Procs]]
  /\ mu \in Procs \cup {None}
  /\ deleted \subseteq Resources
  /\ journal \in [Procs -> SUBSET Resources]

\* The requests p cannot go on without: all of them have to act first.
WaitsFor(p) ==
  IF ~Running(p) \/ Current(p).op # "take" THEN {}
  ELSE LET s == Current(p) IN
    CASE s.lock = "lease" /\ ~s.write /\ p \in lease[s.res].blocked -> {lease[s.res].writer}
      [] s.lock = "lease" /\ s.write /\ lease[s.res].writer = p -> Readers(s.res)
      [] s.lock = "lease" /\ s.write /\ lease[s.res].writer # p -> {lease[s.res].writer} \ {None}
      [] s.lock = "mutex" -> {mu} \ {None}
      [] s.lock = "scope" /\ pc[call(p)] = "asleep" ->
           {c[1] : c \in {c \in Calls :
                /\ Scopes!Holds(c) \/ c \in Scopes!EarlierWaiters(call(p))
                /\ Scopes!waiterConflicts(req[call(p)], req[c])}}
      [] OTHER -> {}

\* No group of requests wait for one another for ever.
NoCircularWait ==
  ~\E D \in (SUBSET Procs) \ {{}} : \A p \in D : WaitsFor(p) \cap D # {}

\* Nobody works on the files or rows of a source or user that has been
\* deleted, however the deletion and the requests overlap.  (The state is well
\* typed all along.)
NoWorkAfterDelete ==
  /\ TypeOK
  /\ \A p \in Procs : Running(p) /\ Current(p).op = "work" => Current(p).res \notin deleted

\* Every request ends.
EveryRequestEnds == \A p \in Procs : Running(p) ~> ~Running(p)
=============================================================================
