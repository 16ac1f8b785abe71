--------------------------- MODULE PathOperations ---------------------------
(***************************************************************************)
(* Permanent delete and same-source move (DeleteWithLockTokens,            *)
(* DeleteManaged and move in src/internal/files/service.go) with their     *)
(* journal and start-up recovery (path_recovery.go).  The persistent lock  *)
(* guard serialises them with each other and with uploads, so one runs at  *)
(* a time; crashes and failing calls come between any two calls, and new   *)
(* content may be written between two operations.                          *)
(*                                                                         *)
(* A path holds a number identifying its content, or Absent.  meta stands  *)
(* for the rows of file_records, images and file_shares at a path, which   *)
(* one transaction moves or deletes together.                              *)
(***************************************************************************)
EXTENDS Integers, FiniteSets

CONSTANTS Paths, Managed,  \* paths below .omnistore/ are Managed
          MaxPuts, MaxOps, MaxCrashes, MaxFailures

ASSUME PathsAssumption == Managed \subseteq Paths
ASSUME BoundsAssumption == {MaxPuts, MaxOps, MaxCrashes, MaxFailures} \subseteq Nat

Absent == 0
Contents == 1..MaxPuts
Ordinary == Paths \ Managed

\* A .json file of operations/paths; to is the source itself for a delete.
Operations == [id : 1..MaxOps, kind : {"delete", "move"}, from : Paths, to : Paths]
NoOp == [id |-> 0, kind |-> "none"]

VARIABLES file, meta,      \* content and rows of each path
          journal,         \* operations with a .json
          dbReady,         \* ids of operations with a .database-ready
          mode, cur, step, \* as in FileUpload
          live,            \* contents stored and not since deleted or replaced
          place,           \* where the client may expect each content
          tangled,         \* paths used again while a journal named them
          puts, ops, crashes, failures

state == <<file, meta, journal, dbReady>>
ghosts == <<live, place, tangled>>
counts == <<puts, ops, crashes, failures>>
vars == <<state, mode, cur, step, ghosts, counts>>

\* Types; one journal per operation, and no marker without a failure or crash.
TypeOK ==
  /\ file \in [Paths -> Contents \cup {Absent}]
  /\ meta \in [Paths -> Contents \cup {Absent}]
  /\ journal \subseteq Operations /\ dbReady \subseteq 1..MaxOps
  /\ mode \in {"serving", "down", "recovering", "refused"}
  /\ cur \in Operations \cup {NoOp}
  /\ step \in {"idle", "journal", "remove", "rename", "fsReady", "meta", "dbReady",
               "unlock", "unlink", "undoMeta", "undoRename", "undoUnlink"}
  /\ live \subseteq Contents
  /\ place \in [Contents -> SUBSET Paths] /\ tangled \subseteq Paths
  /\ puts \in 0..MaxPuts /\ ops \in 0..MaxOps
  /\ crashes \in 0..MaxCrashes /\ failures \in 0..MaxFailures
  /\ step = "idle" <=> cur = NoOp
  /\ \A j, k \in journal : j.id = k.id => j = k
  /\ step = "idle" /\ crashes + failures = 0 => dbReady = {}

Init ==
  /\ file = [p \in Paths |-> Absent] /\ meta = file
  /\ journal = {} /\ dbReady = {}
  /\ mode = "serving" /\ cur = NoOp /\ step = "idle"
  /\ live = {} /\ place = [c \in Contents |-> {}]
  /\ tangled = {}
  /\ puts = 0 /\ ops = 0 /\ crashes = 0 /\ failures = 0
-----------------------------------------------------------------------------
Running == mode \in {"serving", "recovering"}
At(s) == Running /\ step = s
Goto(s) == step' = s /\ UNCHANGED <<mode, cur>>
Fail == failures < MaxFailures /\ failures' = failures + 1 /\ UNCHANGED <<puts, ops, crashes>>

Return == step' = "idle" /\ cur' = NoOp /\ UNCHANGED mode
\* An error reaches the client, or ends start-up.
ReturnError ==
  /\ step' = "idle" /\ cur' = NoOp
  /\ mode' = IF mode = "recovering" THEN "down" ELSE mode

\* Using paths that the journal of an earlier operation still names, which only
\* managed paths are guarded against, ties the two operations' paths together.
use(P) ==
  LET met == {j \in journal : P \cap {j.from, j.to} # {}}
  IN  tangled' = IF met = {} /\ P \cap tangled = {} THEN tangled
                 ELSE tangled \cup P \cup UNION {{j.from, j.to} : j \in met}

\* The client learns that the content of the running move is at one of P.
Told(P) ==
  /\ place' = IF cur.kind = "move" /\ mode = "serving"
              THEN [c \in Contents |-> IF c \in live /\ c \in {file[cur.from], file[cur.to]}
                                       THEN P ELSE place[c]]
              ELSE place
  /\ UNCHANGED <<live, tangled>>
-----------------------------------------------------------------------------
\* Pending journals keep managed paths from being written again.
guardPendingManagedPathWrite(p) ==
  \A j \in journal : \/ j.kind = "delete" /\ j.id \in dbReady
                     \/ p \notin {j.from, j.to}

\* A finished upload (FileUpload) or managed write.
Put(p) ==
  /\ mode = "serving" /\ step = "idle" /\ puts < MaxPuts
  /\ p \in Managed => guardPendingManagedPathWrite(p)
  /\ puts' = puts + 1
  /\ file' = [file EXCEPT ![p] = puts + 1]
  /\ meta' = [meta EXCEPT ![p] = puts + 1]
  /\ live' = (live \ {file[p]}) \cup {puts + 1}
  /\ place' = [place EXCEPT ![puts + 1] = {p}]
  /\ use({p})
  /\ UNCHANGED <<journal, dbReady, mode, cur, step, ops, crashes, failures>>

\* The checks before the journal: the source exists, a move target does not.
Begin(kind, p, q) ==
  /\ mode = "serving" /\ step = "idle" /\ ops < MaxOps
  /\ file[p] # Absent
  /\ IF kind = "delete" THEN q = p
     ELSE q # p /\ file[q] = Absent /\ {p, q} \subseteq Ordinary
  /\ ops' = ops + 1
  /\ cur' = [id |-> ops + 1, kind |-> kind, from |-> p, to |-> q]
  /\ step' = "journal"
  /\ live' = IF kind = "delete" THEN live \ {file[p]} ELSE live
  /\ place' = IF kind = "move" THEN [place EXCEPT ![file[p]] = {p, q}] ELSE place
  /\ use({p, q})
  /\ UNCHANGED <<state, mode, puts, crashes, failures>>

writePathOperation ==
  /\ At("journal")
  /\ journal' = journal \cup {cur}
  /\ Goto(IF cur.kind = "delete" THEN "remove" ELSE "rename")
  /\ UNCHANGED <<file, meta, dbReady, ghosts, counts>>

writePathOperationFails ==
  /\ At("journal") /\ Fail
  /\ journal' \in {journal, journal \cup {cur}}
  /\ ReturnError
  /\ UNCHANGED <<file, meta, dbReady, ghosts>>

\* os.RemoveAll of the target, in the delete and in its recovery.
removeTarget ==
  /\ At("remove")
  /\ file' = [file EXCEPT ![cur.from] = Absent]
  /\ Goto(IF mode = "serving" THEN "fsReady" ELSE "meta")
  /\ UNCHANGED <<meta, journal, dbReady, ghosts, counts>>

renameTo(p, q) == file' = [file EXCEPT ![p] = Absent, ![q] = file[p]]

rename ==
  /\ At("rename")
  /\ renameTo(cur.from, cur.to)
  /\ Goto("fsReady")
  /\ UNCHANGED <<meta, journal, dbReady, ghosts, counts>>

\* Directory sync and the .filesystem-ready marker, which nothing reads.
markPathFilesystemReady ==
  /\ At("fsReady") /\ Goto("meta")
  /\ UNCHANGED <<state, ghosts, counts>>

\* The UNIQUE constraint on the path makes the transaction fail when rows of
\* both paths exist.
rowsCollide(p, q) == meta[p] # Absent /\ meta[q] # Absent

\* Fault: the rows follow the file only forwards.
movePathMetadataForwards(p, q) ==
  /\ ~rowsCollide(p, q)
  /\ meta' = IF meta[p] = Absent \/ step = "undoMeta" THEN meta
             ELSE [meta EXCEPT ![p] = Absent, ![q] = meta[p]]

movePathMetadata(p, q) ==
  /\ ~rowsCollide(p, q)
  /\ meta' = IF meta[p] = Absent THEN meta ELSE [meta EXCEPT ![p] = Absent, ![q] = meta[p]]

updateMetadata ==
  /\ At("meta")
  /\ IF cur.kind = "move" THEN movePathMetadata(cur.from, cur.to)
     ELSE meta' = [meta EXCEPT ![cur.from] = Absent]
  /\ Goto(IF mode = "recovering" /\ cur.kind = "move" THEN "unlink" ELSE "dbReady")
  /\ UNCHANGED <<file, journal, dbReady, ghosts, counts>>

markPathDatabaseReady ==
  /\ At("dbReady")
  /\ dbReady' = dbReady \cup {cur.id}
  /\ Goto(IF mode = "serving" THEN "unlock" ELSE "unlink")
  /\ UNCHANGED <<file, meta, journal, ghosts, counts>>

\* The release function deletes the WebDAV locks below the removed path.
releasePersistent ==
  /\ At("unlock") /\ Goto("unlink")
  /\ UNCHANGED <<state, ghosts, counts>>

removePathOperation ==
  /\ At("unlink") \/ At("undoUnlink")
  /\ IF cur \in journal
     THEN journal' = journal \ {cur} /\ UNCHANGED <<dbReady, ghosts>> /\ Goto(step)
     ELSE /\ dbReady' = dbReady \ {cur.id} /\ UNCHANGED journal
          /\ Told(IF step = "unlink" THEN {cur.to} ELSE {cur.from}) /\ Return
  /\ UNCHANGED <<file, meta, counts>>

\* The journal stays and the next start finishes the job.  Clearing the
\* journal is best effort for the request, not for start-up.
stepFails ==
  /\ Running /\ Fail
  /\ \/ /\ \/ step \in {"remove", "unlock", "undoMeta", "undoRename", "undoUnlink"}
           \/ /\ step \in {"fsReady", "meta", "dbReady"}
              /\ cur.kind = "delete" \/ mode = "recovering"
           \/ step = "unlink" /\ mode = "recovering"
        /\ ReturnError /\ UNCHANGED ghosts
     \/ step = "unlink" /\ mode = "serving" /\ Return /\ Told({cur.to})
  /\ UNCHANGED state

\* move undoes what it did before reporting the error; the marker may exist
\* although creating it failed.
moveFails ==
  /\ mode = "serving" /\ cur.kind = "move"
  /\ \/ step = "meta" /\ rowsCollide(cur.from, cur.to) /\ UNCHANGED counts
     \/ step \in {"rename", "fsReady", "meta", "dbReady"} /\ Fail
  /\ dbReady' \in {dbReady} \cup (IF step = "dbReady" THEN {dbReady \cup {cur.id}} ELSE {})
  /\ Goto(CASE step = "rename" -> "undoUnlink"
            [] step = "dbReady" -> "undoMeta"
            [] OTHER -> "undoRename")
  /\ UNCHANGED <<file, meta, journal, ghosts>>

\* Fault: the rename back does not look at its target.
undoMoveBlindly ==
  /\ \/ At("undoMeta") /\ movePathMetadata(cur.to, cur.from) /\ UNCHANGED file
        /\ Goto("undoRename")
     \/ At("undoRename") /\ renameTo(cur.to, cur.from) /\ UNCHANGED meta /\ Goto("undoUnlink")
  /\ UNCHANGED <<journal, dbReady, ghosts, counts>>

undoMove ==
  /\ \/ At("undoMeta") /\ movePathMetadata(cur.to, cur.from) /\ UNCHANGED file
        /\ Goto(IF file[cur.from] # Absent THEN "undoUnlink" ELSE "undoRename")
     \/ At("undoRename") /\ renameTo(cur.to, cur.from) /\ UNCHANGED meta /\ Goto("undoUnlink")
  /\ UNCHANGED <<journal, dbReady, ghosts, counts>>
-----------------------------------------------------------------------------
Crash ==
  /\ Running /\ crashes < MaxCrashes
  /\ crashes' = crashes + 1
  /\ mode' = "down" /\ cur' = NoOp /\ step' = "idle"
  /\ UNCHANGED <<state, ghosts, puts, ops, failures>>

Shutdown ==
  /\ mode = "serving" /\ step = "idle" /\ mode' = "down"
  /\ UNCHANGED <<state, cur, step, ghosts, counts>>

Restart ==
  /\ mode \in {"down", "refused"} /\ mode' = "recovering"
  /\ UNCHANGED <<state, cur, step, ghosts, counts>>

resume(j, s) == cur' = j /\ step' = s /\ UNCHANGED mode
refuse == mode' = "refused" /\ UNCHANGED <<cur, step>>
moved(j) == file[j.from] = Absent /\ file[j.to] # Absent
unmoved(j) == file[j.from] # Absent /\ file[j.to] = Absent

\* A managed path that cannot be verified as the program's own ends start-up
\* like a removal that fails (stepFails), before anything is changed.
recoverDelete(j) == resume(j, IF j.id \in dbReady THEN "unlink" ELSE "remove")

\* Fault: an uncommitted move is expected to have renamed its file.
recoverMoveRenamed(j) ==
  IF moved(j) THEN resume(j, IF j.id \in dbReady THEN "meta" ELSE "undoMeta") ELSE refuse

\* Fault: every move is rolled back, the committed ones too.
recoverMoveBack(j) ==
  IF moved(j) \/ unmoved(j) THEN resume(j, "undoMeta") ELSE refuse

recoverMove(j) ==
  IF j.id \in dbReady
  THEN IF moved(j) THEN resume(j, "meta") ELSE refuse
  ELSE IF moved(j) \/ unmoved(j) THEN resume(j, "undoMeta") ELSE refuse

\* The journals are taken in file name order, which is random; a refusal ends
\* start-up with the journal in place.
RecoverPathOperations(j) ==
  /\ mode = "recovering" /\ step = "idle" /\ j \in journal
  /\ j.kind = "delete" => recoverDelete(j)
  /\ j.kind = "move" => recoverMove(j)
  /\ UNCHANGED <<state, ghosts, counts>>

recoveryDone ==
  /\ mode = "recovering" /\ step = "idle" /\ journal = {}
  /\ mode' = "serving"
  /\ UNCHANGED <<state, cur, step, ghosts, counts>>

\* A transaction that violates the UNIQUE constraint ends start-up.
recoveryBlocked ==
  /\ mode = "recovering" /\ step \in {"meta", "undoMeta"} /\ cur.kind = "move"
  /\ rowsCollide(cur.from, cur.to)
  /\ mode' = "refused" /\ cur' = NoOp /\ step' = "idle"
  /\ UNCHANGED <<state, ghosts, counts>>

Step ==
  \/ writePathOperation \/ removeTarget \/ rename \/ markPathFilesystemReady
  \/ updateMetadata \/ markPathDatabaseReady \/ releasePersistent
  \/ removePathOperation \/ undoMove

FailedCall == writePathOperationFails \/ stepFails \/ moveFails

RecoveryStep == recoveryDone \/ recoveryBlocked \/ \E j \in journal : RecoverPathOperations(j)

Next ==
  \/ \E p \in Paths : Put(p)
  \/ \E kind \in {"delete", "move"}, p, q \in Paths : Begin(kind, p, q)
  \/ Step \/ FailedCall \/ RecoveryStep
  \/ Crash \/ Shutdown \/ Restart

Spec == Init /\ [][Next]_vars
-----------------------------------------------------------------------------
Quiet == mode = "serving" /\ step = "idle"
Exists(c) == \E p \in Paths : file[p] = c

\* Content that was stored and that nobody asked to delete or replace is at
\* some path at every moment: neither a crash half-way through a move nor the
\* replay of a delete destroys it.
LiveKept == \A c \in live : Exists(c)

\* It is lost in one way only: a delete that a failed call, not a crash, left
\* behind is replayed at an ordinary path that has been written since.  The
\* rename of a move, or back, never lands on a file; managed paths lose nothing.
LostOnlyByReplay ==
  [][\A c \in live \cap live' : Exists(c) /\ ~Exists(c)' =>
       /\ mode = "recovering" /\ step = "remove"
       /\ cur.from \in Ordinary \cap tangled]_vars

\* Between operations the rows describe exactly the files, unless a failed
\* call left its journal to the next start and the path was used meanwhile.
\* (The state is well typed all along.)
MetaFollowsFile ==
  /\ TypeOK
  /\ Quiet /\ journal = {} => \A p \in Paths \ tangled : meta[p] = file[p]

\* Where the client last heard its content is, it is: a move that was answered
\* with success is never undone, one answered with an error never takes
\* effect later, unless its journal is still there.
PlaceHonoured ==
  Quiet /\ journal = {} =>
    \A c \in live : place[c] \cap tangled = {} => \E p \in place[c] : file[p] = c

\* Crashes alone, repeated ones in recovery included, never leave a journal that
\* start-up cannot resolve.
RefusalNeedsFailure == mode = "refused" => failures > 0
=============================================================================
