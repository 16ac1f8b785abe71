---------------------------- MODULE MultipartPart ----------------------------
(***************************************************************************)
(* One part number of one S3 multipart upload: UploadPart, Abort and       *)
(* CleanupExpired (src/internal/s3api/multipart.go) with the part journal  *)
(* and its recovery (multipart_part_recovery.go).  The lock "multipart:id" *)
(* makes them sequential; crashes and failing calls come between any two   *)
(* file system or database calls.  Unlike a file upload the journal names  *)
(* the temporary file after it is complete, and the database row, with the *)
(* time the part was received, decides whether an operation is committed.  *)
(* Files are compared by size and MD5 only.                                *)
(***************************************************************************)
EXTENDS Integers, FiniteSets

CONSTANTS Contents,     \* what a client may send as this part
          MaxAttempts, MaxCrashes, MaxFailures

Absent == "absent"

ASSUME ContentsAssumption == Absent \notin Contents
ASSUME BoundsAssumption == {MaxAttempts, MaxCrashes, MaxFailures} \subseteq Nat

Attempts == 1..MaxAttempts   \* an attempt also stands for its created_at

\* A row of s3_multipart_parts; NoRow if the part was never received.
NoRow == [at |-> 0, content |-> Absent]
Rows == [at : Attempts, content : Contents] \cup {NoRow}

\* The journal <upload>-<part>.json: the new part and the row it replaces.
NoOp == [new |-> NoRow, previous |-> NoRow]
Operations == [new : Rows, previous : Rows]

VARIABLES final, backup,  \* the part file and <part>.previous
          temp,           \* content of the .part-*.tmp of each attempt
          journal,        \* NoOp if there is none
          row, upload,    \* row of the part; does the upload have one?
          mode,           \* serving, down, recovering, or refused to start
          by, op, step,   \* holder of the lock, its operation, its next call
          acked,          \* the part last acknowledged to the client
          attempts, crashes, failures

files == <<final, backup, temp>>
data == <<files, journal, row, upload>>
counts == <<attempts, crashes, failures>>
vars == <<data, mode, by, op, step, acked, counts>>

\* Types; nobody holds the lock between calls; no row outlives its upload.
TypeOK ==
  /\ {final, backup} \subseteq Contents \cup {Absent}
  /\ temp \in [Attempts -> Contents \cup {Absent}]
  /\ journal \in Operations /\ op \in Operations
  /\ row \in Rows /\ acked \in Rows /\ upload \in BOOLEAN
  /\ mode \in {"serving", "down", "recovering", "refused"}
  /\ by \in {"nobody", "UploadPart", "resolve", "Abort", "CleanupExpired"}
  /\ step \in {"idle", "receive", "checkPrevious", "dropStale", "writeJournal", "backup",
               "install", "commit", "dropTemp", "dropBackup", "removeDir", "unlink", "unlinkError",
               "undoCheck", "undoTemp", "undoFinal", "undoRestore", "undoUnlink", "resolve"}
  /\ attempts \in 0..MaxAttempts /\ crashes \in 0..MaxCrashes /\ failures \in 0..MaxFailures
  /\ step = "idle" <=> by = "nobody"
  /\ ~upload => row = NoRow
  /\ by = "UploadPart" => upload /\ op.new.at = attempts

Init ==
  /\ final = Absent /\ backup = Absent /\ temp = [a \in Attempts |-> Absent]
  /\ journal = NoOp /\ row = NoRow /\ upload = TRUE
  /\ mode = "serving" /\ by = "nobody" /\ op = NoOp /\ step = "idle"
  /\ acked = NoRow /\ attempts = 0 /\ crashes = 0 /\ failures = 0
-----------------------------------------------------------------------------
Running == mode \in {"serving", "recovering"}
Idle == mode = "serving" /\ step = "idle"
At(s) == Running /\ step = s
Goto(s) == step' = s /\ UNCHANGED <<mode, by, op>>
Release == step' = "idle" /\ by' = "nobody" /\ op' = NoOp
Fail == failures < MaxFailures /\ failures' = failures + 1 /\ UNCHANGED <<attempts, crashes>>

\* An error is answered, or ends start-up.
ReturnError ==
  /\ Release /\ UNCHANGED acked
  /\ mode' = IF mode = "recovering" THEN "down" ELSE mode

\* A refusal: the same, but the next start will meet it again.
Refuse ==
  /\ Release /\ UNCHANGED acked
  /\ mode' = IF mode = "recovering" THEN "refused" ELSE mode

Finish ==
  /\ Release /\ UNCHANGED mode
  /\ acked' = IF by = "UploadPart" /\ step # "undoUnlink" THEN op.new ELSE acked

temp_ == temp[op.new.at]
dropTemp_ == temp' = [temp EXCEPT ![op.new.at] = Absent]
-----------------------------------------------------------------------------
(* UploadPart; a journal left by an earlier attempt is resolved first. *)

UploadPart(c) ==
  /\ Idle /\ upload /\ journal = NoOp /\ attempts < MaxAttempts
  /\ attempts' = attempts + 1
  /\ op' = [NoOp EXCEPT !.new = [at |-> attempts + 1, content |-> c]]
  /\ by' = "UploadPart" /\ step' = "receive"
  /\ UNCHANGED <<data, mode, acked, crashes, failures>>

resolvePending ==
  /\ Idle /\ upload /\ journal # NoOp
  /\ op' = journal /\ by' = "resolve" /\ step' = "resolve"
  /\ UNCHANGED <<data, mode, acked, counts>>

receiveBody ==
  /\ At("receive")
  /\ temp' = [temp EXCEPT ![op.new.at] = op.new.content]
  /\ Goto("checkPrevious")
  /\ UNCHANGED <<final, backup, journal, row, upload, acked, counts>>

\* The stored part must be intact; an unrecorded file is removed.
checkPrevious ==
  /\ At("checkPrevious")
  /\ \/ /\ row # NoRow /\ final # row.content
        /\ dropTemp_ /\ ReturnError /\ UNCHANGED final
     \/ /\ row = NoRow \/ final = row.content
        /\ final' = IF row = NoRow THEN Absent ELSE final
        /\ op' = [op EXCEPT !.previous = row]
        /\ step' = "dropStale" /\ UNCHANGED <<temp, mode, by, acked>>
  /\ UNCHANGED <<backup, journal, row, upload, counts>>

dropStaleBackup ==
  /\ At("dropStale")
  /\ backup' = Absent
  /\ Goto("writeJournal")
  /\ UNCHANGED <<final, temp, journal, row, upload, acked, counts>>

beforeJournalFails ==
  /\ step \in {"receive", "checkPrevious", "dropStale"} /\ Running /\ Fail
  /\ dropTemp_ /\ ReturnError
  /\ UNCHANGED <<final, backup, journal, row, upload>>

writeMultipartPartOperation ==
  /\ At("writeJournal")
  /\ journal' = op
  /\ Goto(IF op.previous # NoRow THEN "backup" ELSE "install")
  /\ UNCHANGED <<files, row, upload, acked, counts>>

\* The journal may be linked although the call failed.
writeMultipartPartOperationFails ==
  /\ At("writeJournal") /\ Fail
  /\ journal' \in {journal, op}
  /\ dropTemp_ /\ ReturnError
  /\ UNCHANGED <<final, backup, row, upload>>

\* Fault: the stored part is overwritten in place.
overwriteInPlace == UNCHANGED files

moveToBackup == backup' = final /\ final' = Absent /\ UNCHANGED temp

moveTempToFinal == final' = temp_ /\ dropTemp_ /\ UNCHANGED backup

installPart ==
  /\ \/ At("backup") /\ moveToBackup /\ Goto("install")
     \/ At("install") /\ moveTempToFinal /\ Goto("commit")
  /\ UNCHANGED <<journal, row, upload, acked, counts>>

installPartFails ==
  /\ Fail
  /\ \/ At("backup") /\ (moveToBackup \/ UNCHANGED files)
     \/ At("install") /\ (moveTempToFinal \/ UNCHANGED files)
  /\ Goto("undoCheck")
  /\ UNCHANGED <<journal, row, upload, acked>>

commitMultipartPartOperation ==
  /\ At("commit")
  /\ row' = op.new
  /\ Goto("dropTemp")
  /\ UNCHANGED <<files, journal, upload, acked, counts>>

\* Fault: the part is acknowledged although the transaction failed.
commitErrorIgnored ==
  /\ At("commit") /\ Fail
  /\ Goto("dropTemp")
  /\ UNCHANGED <<data, acked>>

commitFails ==
  /\ At("commit") /\ Fail
  /\ IF by = "UploadPart" THEN Goto("undoCheck") /\ UNCHANGED acked ELSE ReturnError
  /\ UNCHANGED data
-----------------------------------------------------------------------------
(* cleanupCommittedMultipartPart and rollbackMultipartPartOperation *)

finalIsNew == final = op.new.content

unsafeRollback ==
  IF op.previous = NoRow THEN final # Absent /\ ~finalIsNew
  ELSE IF backup = Absent THEN final = Absent \/ finalIsNew
  ELSE backup # op.previous.content \/ (final # Absent /\ ~finalIsNew)

rollbackCheck ==
  /\ At("undoCheck")
  /\ IF unsafeRollback THEN Refuse ELSE Goto("undoTemp") /\ UNCHANGED acked
  /\ UNCHANGED <<data, counts>>

undoAfterTemp ==
  IF final # Absent /\ (backup # Absent \/ op.previous = NoRow) THEN "undoFinal"
  ELSE IF backup # Absent THEN "undoRestore" ELSE "undoUnlink"

removal ==
  \/ step \in {"dropTemp", "undoTemp"} /\ dropTemp_ /\ UNCHANGED <<final, backup>>
     /\ Goto(IF step = "dropTemp" THEN "dropBackup" ELSE undoAfterTemp)
  \/ step = "dropBackup" /\ backup' = Absent /\ UNCHANGED <<final, temp>> /\ Goto("unlink")
  \/ step = "undoFinal" /\ final' = Absent /\ UNCHANGED <<backup, temp>>
     /\ Goto(IF backup # Absent THEN "undoRestore" ELSE "undoUnlink")
  \/ step = "undoRestore" /\ final' = backup /\ backup' = Absent /\ UNCHANGED temp
     /\ Goto("undoUnlink")

clearFiles == Running /\ removal /\ UNCHANGED <<journal, row, upload, acked, counts>>

\* os.RemoveAll of the directory of the upload.
removeUploadDir ==
  /\ At("removeDir")
  /\ final' = Absent /\ backup' = Absent /\ temp' = [a \in Attempts |-> Absent]
  /\ IF by = "CleanupExpired" THEN Finish ELSE Goto("unlink") /\ UNCHANGED acked
  /\ UNCHANGED <<journal, row, upload, counts>>

removeMultipartPartOperation ==
  /\ At("unlink") \/ At("undoUnlink") \/ At("unlinkError")
  /\ journal' = NoOp
  /\ IF step = "unlinkError" THEN ReturnError ELSE Finish
  /\ UNCHANGED <<files, row, upload, counts>>

\* UploadPart has succeeded when its clean-up fails; Abort and the removal of
\* an aborted upload's files go on to the journal before they report the error,
\* which ends start-up although nothing is left to resolve.
clearingFails ==
  /\ Running /\ Fail
  /\ \/ step \in {"dropTemp", "dropBackup", "unlink"} /\ by = "UploadPart" /\ Finish
     \/ /\ \/ step \in {"undoCheck", "undoTemp", "undoFinal", "undoRestore", "undoUnlink", "unlinkError"}
           \/ step \in {"dropTemp", "dropBackup", "unlink"} /\ by # "UploadPart"
        /\ ReturnError
     \/ step = "removeDir" /\ by # "CleanupExpired" /\ Goto("unlinkError") /\ UNCHANGED acked
     \/ step = "removeDir" /\ by = "CleanupExpired" /\ Finish
  /\ UNCHANGED data
-----------------------------------------------------------------------------
(* resolveMultipartPartOperation: at start-up, and first in UploadPart *)

allAbsent == final = Absent /\ backup = Absent /\ temp_ = Absent

\* Fault: only an operation that still has its temporary file is rolled back.
canRollbackWithTemp == temp_ # Absent

canRollback ==
  \/ temp_ # Absent
  \/ backup # Absent /\ final = Absent
  \/ op.previous # NoRow /\ final # Absent /\ ~finalIsNew /\ backup = Absent

resolveNext ==
  LET go(s) == Goto(s) /\ UNCHANGED acked
  IN  CASE ~upload -> go("removeDir")
        [] upload /\ row = op.new -> IF finalIsNew THEN go("dropTemp") ELSE Refuse
        [] upload /\ row # op.new /\ row # op.previous -> Refuse
        [] OTHER ->
             IF temp_ = Absent /\ finalIsNew THEN go("commit")
             ELSE IF op.previous = NoRow /\ allAbsent THEN go("undoUnlink")
             ELSE IF canRollback THEN go("undoCheck") ELSE Refuse

resolveMultipartPartOperation == At("resolve") /\ resolveNext /\ UNCHANGED <<data, counts>>

resolveFails == At("resolve") /\ Fail /\ ReturnError /\ UNCHANGED data
-----------------------------------------------------------------------------
(* Abort, expiry, crash and restart *)

\* Deleting the row of the upload cascades to its parts.
Abort ==
  /\ Idle /\ upload
  /\ upload' = FALSE /\ row' = NoRow /\ acked' = NoRow
  /\ by' = "Abort" /\ step' = "removeDir"
  /\ UNCHANGED <<files, journal, mode, op, counts>>

DirEmpty == final = Absent /\ backup = Absent /\ \A a \in Attempts : temp[a] = Absent

\* Fault: directories without an upload are not looked for.
isExpiredUpload == upload

\* An upload nobody touched for a day, or a directory without one.
isExpired == upload \/ ~DirEmpty

\* Nothing is removed while an operation is pending.
CleanupExpired ==
  /\ Idle /\ journal = NoOp /\ isExpired
  /\ upload' = FALSE /\ row' = NoRow /\ acked' = NoRow
  /\ by' = "CleanupExpired" /\ step' = "removeDir"
  /\ UNCHANGED <<files, journal, mode, op, counts>>

Crash ==
  /\ Running /\ crashes < MaxCrashes
  /\ crashes' = crashes + 1
  /\ mode' = "down" /\ Release
  /\ UNCHANGED <<data, acked, attempts, failures>>

Shutdown ==
  /\ Idle /\ mode' = "down"
  /\ UNCHANGED <<data, by, op, step, acked, counts>>

Restart ==
  /\ mode \in {"down", "refused"} /\ mode' = "recovering"
  /\ UNCHANGED <<data, by, op, step, acked, counts>>

RecoverMultipartPartOperations ==
  /\ mode = "recovering" /\ step = "idle"
  /\ IF journal = NoOp THEN mode' = "serving" /\ UNCHANGED <<by, op, step>>
     ELSE op' = journal /\ by' = "resolve" /\ step' = "resolve" /\ UNCHANGED mode
  /\ UNCHANGED <<data, acked, counts>>

Step ==
  \/ receiveBody \/ checkPrevious \/ dropStaleBackup \/ writeMultipartPartOperation
  \/ installPart \/ commitMultipartPartOperation \/ rollbackCheck \/ clearFiles
  \/ removeUploadDir \/ removeMultipartPartOperation \/ resolveMultipartPartOperation
  \/ RecoverMultipartPartOperations

FailedCall ==
  \/ beforeJournalFails \/ writeMultipartPartOperationFails \/ installPartFails
  \/ commitFails \/ clearingFails \/ resolveFails

Next ==
  \/ \E c \in Contents : UploadPart(c)
  \/ resolvePending \/ Step \/ FailedCall
  \/ Abort \/ CleanupExpired \/ Crash \/ Shutdown \/ Restart

Spec == Init /\ [][Next]_vars

\* Calls return, a stopped service is started again and runs long enough for
\* the hourly expiry to get its turn.
FairSpec == Spec /\ WF_vars(Step) /\ WF_vars(Restart) /\ SF_vars(CleanupExpired)
-----------------------------------------------------------------------------
\* A part the database lists can be had.  Its content exists at every moment, as
\* the part file or as its backup: no replacement, roll-back or recovery loses
\* it; and between calls, with no operation pending, the part file is the one
\* the row describes, so that Complete can use it.  (The state is well typed
\* all along.)
RecordedPartUsable ==
  /\ TypeOK
  /\ row # NoRow => row.content \in {final, backup}
  /\ Idle /\ journal = NoOp /\ row # NoRow => final = row.content

\* An acknowledged part is never taken back: the row is that part or a later
\* attempt at it, until the upload is aborted or expires.
AckedStays == upload => row.at >= acked.at

\* Start-up resolves every state that crashes and failing calls leave behind,
\* unless the client had sent again what was stored: files are compared by size
\* and MD5, and old and new part can then not be told apart.
RefusalNeedsEqualContent ==
  mode = "refused" => journal.new.content = journal.previous.content

\* The files of an aborted or expired upload go away.
LeftoversGo == ~upload /\ journal = NoOp ~> DirEmpty
=============================================================================
