---------------------------- MODULE WebdavLocks ----------------------------
(***************************************************************************)
(* WebDAV write locks: locks.PersistentStore, the LOCK, UNLOCK and refresh *)
(* handlers over it, and the guard under which every file operation of the *)
(* service runs (GuardMutations).  The rows live in webdav_locks, survive  *)
(* a restart and expire; one mutex is kept from the check of the locks to  *)
(* the end of the mutation.  One storage source; directories and files are *)
(* paths, of which only the existence matters here.                        *)
(***************************************************************************)
EXTENDS Naturals, Sequences, FiniteSets, SequencesExt

CONSTANTS Clients,     \* connections that send requests
          UserOf,      \* the user each of them is logged in as
          Tokens,      \* lock tokens, drawn at random by newLockToken
          Paths,       \* relative paths; << >> is the root
          Kinds,       \* file operations the clients send
          MaxTime,     \* bound on the clock
          MaxTimeout,  \* longest timeout asked for
          MaxFaults,   \* crashes and failing deletions per behaviour
          None

\* A path is a sequence of names, and what is above it is a path too.
ASSUME PathsAssumption ==
  /\ << >> \in Paths /\ Paths \subseteq Seq(UNION {Range(p) : p \in Paths})
  /\ \A p \in Paths : \A n \in 0..Len(p) : SubSeq(p, 1, n) \in Paths

ASSUME KindsAssumption == Kinds \subseteq {"put", "mkdir", "delete", "move", "restore"}
ASSUME BoundsAssumption == {MaxTime, MaxTimeout, MaxFaults} \subseteq Nat

VARIABLES locks,     \* rows of webdav_locks
          drawn,     \* tokens drawn so far
          files,     \* paths that exist
          now,       \* the clock
          mu,        \* client in the critical section of PersistentStore.mu
          work,      \* the mutation that client performs
          stage,     \* where each LOCK request is
          answered,  \* tokens that a LOCK response has delivered
          faults     \* crashes and failing deletions so far

vars == <<locks, drawn, files, now, mu, work, stage, answered, faults>>

Users == {UserOf[c] : c \in Clients}
Lock == [token : Tokens, path : Paths, depth : {"0", "infinity"}, user : Users, expires : Nat]
Mutation == [kind : Kinds \cup {"lock-null"}, from : Paths, to : Paths, tokens : SUBSET Tokens]
ASSUME NoneAssumption == None \notin Clients \cup Tokens \cup Mutation
Idle == [at |-> "idle", token |-> None, path |-> << >>]

\* Types; a token has one row, and the mutex is held just during a mutation.
TypeOK ==
  /\ locks \subseteq Lock
  /\ \A k, l \in locks : k.token = l.token => k = l
  /\ drawn \subseteq Tokens /\ answered \subseteq drawn
  /\ files \subseteq Paths
  /\ now \in 0..MaxTime
  /\ mu \in Clients \cup {None}
  /\ work \in Mutation \cup {None} /\ (work = None <=> mu = None)
  /\ stage \in [Clients -> [at : {"idle", "created", "missing", "failed"},
                            token : Tokens \cup {None}, path : Paths]]
-----------------------------------------------------------------------------
(* Scopes.                                                                 *)

isSameOrDescendant(parent, child) == IsPrefix(parent, child)

lockCovers(lockPath, depth, target) ==
  lockPath = target \/ (depth = "infinity" /\ isSameOrDescendant(lockPath, target))

\* Fault: a new lock is compared with the scopes of the old ones only.
lockScopesCover(pathA, depthA, pathB, depthB) == lockCovers(pathB, depthB, pathA)

lockScopesIntersect(pathA, depthA, pathB, depthB) ==
  lockCovers(pathA, depthA, pathB) \/ lockCovers(pathB, depthB, pathA)

\* Fault: a recursive mutation looks upwards only.
mutationMeetsAncestors(scope, l) == lockCovers(l.path, l.depth, scope.path)

mutationIntersectsLock(scope, l) ==
  \/ lockCovers(l.path, l.depth, scope.path)
  \/ scope.descendants /\ isSameOrDescendant(scope.path, l.path)

one(p)     == [path |-> p, descendants |-> FALSE]
subtree(p) == [path |-> p, descendants |-> TRUE]

\* The scopes each operation passes to GuardMutations.
scopesOf(m) ==
  CASE m.kind \in {"put", "mkdir", "lock-null"} -> {one(m.to)}
    [] m.kind = "delete"  -> {subtree(m.from)}
    [] m.kind = "move"    -> {subtree(m.from), one(m.to)}
    [] m.kind = "restore" -> {subtree(m.to)}

\* Expired rows are deleted before anything is decided.
Live == {l \in locks : l.expires > now}
-----------------------------------------------------------------------------
(* PersistentStore.                                                        *)

\* Create, after the checks of handleLock.
Create(c, p, depth, timeout) ==
  /\ stage[c] = Idle /\ mu = None
  /\ \A l \in Live : ~lockScopesIntersect(p, depth, l.path, l.depth)
  /\ \E t \in Tokens \ drawn :
       /\ drawn' = drawn \cup {t}
       /\ locks' = Live \cup {[token |-> t, path |-> p, depth |-> depth,
                               user |-> UserOf[c], expires |-> now + timeout]}
       /\ stage' = [stage EXCEPT ![c] = [at |-> "created", token |-> t, path |-> p]]
  /\ UNCHANGED <<files, now, mu, work, answered, faults>>

\* Fault: any user who has seen the token may give the lock up.
mayUseByToken(c, l, p) == lockCovers(l.path, l.depth, p)

\* The checks of Refresh and Unlock.
mayUse(c, l, p) == l.user = UserOf[c] /\ lockCovers(l.path, l.depth, p)

Refresh(c, l, p, timeout) ==
  /\ stage[c] = Idle /\ mu = None
  /\ l \in Live /\ mayUse(c, l, p)
  /\ locks' = (Live \ {l}) \cup {[l EXCEPT !.expires = now + timeout]}
  /\ UNCHANGED <<drawn, files, now, mu, work, stage, answered, faults>>

Unlock(c, l, p) ==
  /\ stage[c] = Idle /\ mu = None
  /\ l \in Live /\ mayUse(c, l, p)
  /\ locks' = Live \ {l}
  /\ UNCHANGED <<drawn, files, now, mu, work, stage, answered, faults>>

\* CleanupExpired, hourly and at the start of every other operation, those
\* that are then refused included.
CleanupExpired ==
  /\ mu = None /\ Live # locks
  /\ locks' = Live
  /\ UNCHANGED <<drawn, files, now, mu, work, stage, answered, faults>>

\* GuardMutations: every lock met must be the submitter's and submitted.
submitted(c, m, l) == l.token \in m.tokens /\ l.user = UserOf[c]

GuardMutations(c, m) ==
  /\ mu = None
  /\ \A l \in Live, s \in scopesOf(m) : mutationIntersectsLock(s, l) => submitted(c, m, l)
  /\ locks' = Live
  /\ mu' = c /\ work' = m

\* Fault: only the lock on the removed resource itself is deleted.
deleteLocksAt(root) == locks' = {l \in locks : l.path # root}

deleteLocksRootedAt(root) == locks' = {l \in locks : ~isSameOrDescendant(root, l.path)}
-----------------------------------------------------------------------------
(* Mutations.                                                              *)

exists(p) == p \in files
parentExists(p) == p # << >> /\ exists(Front(p))

\* The checks each operation makes once it has the guard.
possible(m) ==
  CASE m.kind = "put" -> parentExists(m.to)
    [] m.kind \in {"mkdir", "lock-null", "restore"} -> parentExists(m.to) /\ ~exists(m.to)
    [] m.kind = "delete" -> exists(m.from)
    [] m.kind = "move"   -> exists(m.from) /\ parentExists(m.to) /\ ~exists(m.to)

moved(m, p) == m.to \o SubSeq(p, Len(m.from) + 1, Len(p))
below(p) == {q \in files : isSameOrDescendant(p, q)}

\* The resources a mutation removes and those it creates or overwrites.
removes(m) == IF m.kind \in {"delete", "move"} THEN below(m.from) ELSE {}
writes(m) ==
  CASE m.kind = "delete" -> {}
    [] m.kind = "move" -> {moved(m, p) : p \in below(m.from)} \cap Paths
    [] OTHER -> {m.to}

after(m) == (files \ removes(m)) \cup writes(m)

Request(c, m) ==
  /\ stage[c] = Idle
  /\ m.from # << >> /\ m.to # << >>
  /\ IF m.kind = "move" THEN ~isSameOrDescendant(m.from, m.to) ELSE m.from = m.to
  /\ GuardMutations(c, m)
  /\ UNCHANGED <<drawn, files, now, stage, answered, faults>>

finished == mu' = None /\ work' = None

\* The operation succeeds; locks on what it removed are deleted before the
\* mutex is given back.
Succeed(c) ==
  /\ mu = c /\ work.kind # "lock-null" /\ possible(work)
  /\ files' = after(work)
  /\ IF removes(work) # {} THEN deleteLocksRootedAt(work.from) ELSE UNCHANGED locks
  /\ finished
  /\ UNCHANGED <<drawn, now, stage, answered, faults>>

\* It is refused by its checks, or fails and leaves the tree as it was.
Fail(c) ==
  /\ mu = c /\ work.kind # "lock-null"
  /\ finished
  /\ UNCHANGED <<locks, drawn, files, now, stage, answered, faults>>

\* A deletion that fails on the way, in RemoveAll or in a database call after
\* it, is left to the next start: what is removed stays removed, and the end
\* of the critical section is not told of it.
DeleteFails(c) ==
  /\ faults < MaxFaults /\ faults' = faults + 1
  /\ mu = c /\ work.kind = "delete" /\ possible(work)
  /\ \E gone \in SUBSET below(work.from) :
       /\ gone # {}
       /\ \A p \in gone : below(p) \subseteq gone
       /\ files' = files \ gone
  /\ finished
  /\ UNCHANGED <<locks, drawn, now, stage, answered>>
-----------------------------------------------------------------------------
(* The rest of handleLock.                                                 *)

answer(c, t) == answered' = answered \cup {t} /\ stage' = [stage EXCEPT ![c] = Idle]

\* The second Stat, which may fail.
Confirm(c) ==
  /\ stage[c].at = "created"
  /\ \/ exists(stage[c].path) /\ answer(c, stage[c].token)
     \/ ~exists(stage[c].path) /\ stage' = [stage EXCEPT ![c].at = "missing"] /\ UNCHANGED answered
     \/ stage' = [stage EXCEPT ![c].at = "failed"] /\ UNCHANGED answered
  /\ UNCHANGED <<locks, drawn, files, now, mu, work, faults>>

\* UploadWithLockTokens of an empty file, overwrite = false; a lock that has
\* expired meanwhile may have made room for somebody else's.
CreateEmpty(c) ==
  /\ stage[c].at = "missing"
  /\ LET m == [kind |-> "lock-null", from |-> stage[c].path, to |-> stage[c].path,
               tokens |-> {stage[c].token}]
     IN GuardMutations(c, m)
  /\ UNCHANGED <<drawn, files, now, stage, answered, faults>>

EmptyCreated(c) ==
  /\ mu = c /\ work.kind = "lock-null" /\ possible(work)
  /\ files' = after(work)
  /\ answer(c, stage[c].token)
  /\ finished
  /\ UNCHANGED <<locks, drawn, now, faults>>

EmptyFailed(c) ==
  /\ mu = c /\ work.kind = "lock-null"
  /\ stage' = [stage EXCEPT ![c].at = "failed"]
  /\ finished
  /\ UNCHANGED <<locks, drawn, files, now, answered, faults>>

\* The guard refuses the empty file.
EmptyRefused(c) ==
  /\ stage[c].at = "missing" /\ mu = None
  /\ \E l \in Live : lockCovers(l.path, l.depth, stage[c].path) /\ l.token # stage[c].token
  /\ locks' = Live
  /\ stage' = [stage EXCEPT ![c].at = "failed"]
  /\ UNCHANGED <<drawn, files, now, mu, work, answered, faults>>

\* PersistentStore.Delete of the lock whose resource could not be made.
Discard(c) ==
  /\ stage[c].at = "failed" /\ mu = None
  /\ locks' = {l \in locks : l.token # stage[c].token}
  /\ stage' = [stage EXCEPT ![c] = Idle]
  /\ UNCHANGED <<drawn, files, now, mu, work, answered, faults>>
-----------------------------------------------------------------------------
Tick ==
  /\ now < MaxTime
  /\ now' = now + 1
  /\ UNCHANGED <<locks, drawn, files, mu, work, stage, answered, faults>>

\* The process dies.  Start-up recovery finishes or undoes the mutation; the
\* rows of webdav_locks stay as they are.
Crash ==
  /\ faults < MaxFaults /\ faults' = faults + 1
  /\ files' \in {files} \cup (IF mu # None /\ possible(work) THEN {after(work)} ELSE {})
  /\ stage' = [c \in Clients |-> Idle]
  /\ finished
  /\ UNCHANGED <<locks, drawn, now, answered>>

Init ==
  /\ locks = {} /\ drawn = {} /\ answered = {}
  /\ files = {p \in Paths : Len(p) <= 1}
  /\ now = 0
  /\ mu = None /\ work = None
  /\ stage = [c \in Clients |-> Idle]
  /\ faults = 0

Next ==
  \/ \E c \in Clients :
       \/ \E p \in Paths, depth \in {"0", "infinity"}, t \in 1..MaxTimeout : Create(c, p, depth, t)
       \/ \E l \in locks, p \in Paths : \/ Unlock(c, l, p)
                                        \/ \E t \in 1..MaxTimeout : Refresh(c, l, p, t)
       \/ \E m \in [kind : Kinds, from : Paths, to : Paths, tokens : SUBSET {l.token : l \in Live}] : Request(c, m)
       \/ Succeed(c) \/ Fail(c) \/ DeleteFails(c)
       \/ Confirm(c) \/ CreateEmpty(c) \/ EmptyCreated(c) \/ EmptyFailed(c)
       \/ EmptyRefused(c) \/ Discard(c)
  \/ CleanupExpired
  \/ Tick
  \/ Crash

Spec == Init /\ [][Next]_vars
-----------------------------------------------------------------------------
\* Two locks in force never overlap, whatever their depths and whoever owns
\* them: LOCK hands out exclusive locks only.  (The state is well typed.)
LocksDisjoint ==
  /\ TypeOK
  /\ \A k, l \in Live : k # l => ~lockScopesIntersect(k.path, k.depth, l.path, l.depth)

\* No mutation in progress removes or overwrites a resource under a lock that
\* a client has been told it holds, unless the owner submitted its token.
\* The guard compares paths; this compares them with the tree as it is.  A
\* crash or a failing deletion leaves locks without their resource, and a
\* directory moved there later brings content the guard does not compare.
MutationsRespectLocks ==
  mu # None /\ faults = 0 =>
    \A l \in Live, p \in removes(work) \cup writes(work) :
      l.token \in answered /\ possible(work) /\ lockCovers(l.path, l.depth, p)
      => submitted(mu, work, l)

\* A lock a client has been told it holds is rooted at an existing resource:
\* whatever deletes or moves the resource takes the lock with it, unless the
\* process dies or a deletion fails on the way: then the lock remains.
LockedResourceExists ==
  faults = 0 => \A l \in Live : l.token \in answered => exists(l.path)

\* A lock in force disappears only when its owner unlocks it, when the LOCK
\* that made it fails, or when a mutation its owner submitted the token for
\* removes the resource at its root: never by another user's doing, never
\* because something below its root goes.
LocksEndRightly ==
  [][\A l \in Live :
       (\A k \in locks' : k.token # l.token) =>
         \/ \E c \in Clients : UserOf[c] = l.user /\ Unlock(c, l, l.path)
         \/ \E c \in Clients : Discard(c) /\ stage[c].token = l.token
         \/ /\ mu # None /\ submitted(mu, work, l)
            /\ isSameOrDescendant(work.from, l.path) /\ l.path \notin files']_vars
=============================================================================
