----------------------------- MODULE FileUpload -----------------------------
(***************************************************************************)
(* Uploads to one path: UploadWithLockTokens (src/internal/files/          *)
(* service.go) and its journal and start-up recovery (upload_recovery.go). *)
(* Path, quota and persistent locks make uploads to the path sequential,   *)
(* so one upload or recovery runs at a time; what interleaves with it is   *)
(* the crash of the process and the failure of any file system or database *)
(* call.  Every such call is one action.  A failing call may have had its  *)
(* effect (a rename whose directory sync fails) or not.                    *)
(*                                                                         *)
(* The content written by upload n is the number n, 0 is the file that was *)
(* there before, Absent no file.  Contents differ because uploadFileMatches *)
(* compares modification time, size and digest.                            *)
(***************************************************************************)
EXTENDS Integers, FiniteSets

CONSTANTS MaxUploads,   \* uploads attempted
          MaxCrashes,   \* bound on process crashes
          MaxFailures   \* bound on failing calls

ASSUME BoundsAssumption ==
  MaxUploads \in Nat /\ MaxCrashes \in Nat /\ MaxFailures \in Nat

Uploads == 1..MaxUploads
Absent == -1
Content == {Absent} \cup 0..MaxUploads

VARIABLES
  final,      \* the file at the target path
  temp,       \* the temporary file of each upload
  backup,     \* the file each upload moved out of the way
  plan, prepared, ready,   \* uploads with a .json, .prepared, .database-ready
  replaced,   \* uploads whose plan says replaced_existing
  record,     \* content described by the file_records row
  mode,       \* serving, down, recovering, or refused: start-up gave up
  begun,      \* number of uploads started; the last one has this number
  cur,        \* upload being processed, 0 if none
  step,       \* next call of the upload or of its recovery
  answer,     \* what the caller will be told when the journal is gone
  promised,   \* content the last successful answer was about
  crashes, failures

disk == <<final, temp, backup>>
journal == <<plan, prepared, ready, replaced>>
history == <<begun, promised, crashes, failures>>
vars == <<disk, journal, record, mode, cur, step, answer, history>>

\* Types; every prepared upload has a complete temporary file, or none any more.
TypeOK ==
  /\ final \in Content /\ record \in Content /\ promised \in Content
  /\ temp \in [Uploads -> {"none", "partial", "full"}]
  /\ backup \in [Uploads -> Content]
  /\ plan \subseteq Uploads /\ prepared \subseteq Uploads
  /\ ready \subseteq Uploads /\ replaced \subseteq Uploads
  /\ mode \in {"serving", "down", "recovering", "refused"}
  /\ begun \in 0..MaxUploads /\ cur \in 0..begun
  /\ step \in {"idle", "plan", "create", "write", "prepare", "backup", "rename",
               "record", "mark", "finish", "undoCheck", "undoTemp", "undoFinal",
               "undoRestore", "dropTemp", "unlinkPlan", "unlinkPrepared", "unlinkReady"}
  /\ answer \in {"success", "error"}
  /\ crashes \in 0..MaxCrashes /\ failures \in 0..MaxFailures
  /\ \A u \in prepared : temp[u] # "partial"

Init ==
  /\ final \in {Absent, 0} /\ record = final /\ promised = final
  /\ temp = [u \in Uploads |-> "none"]
  /\ backup = [u \in Uploads |-> Absent]
  /\ plan = {} /\ prepared = {} /\ ready = {} /\ replaced = {}
  /\ mode = "serving" /\ begun = 0 /\ cur = 0 /\ step = "idle"
  /\ answer = "error" /\ crashes = 0 /\ failures = 0
-----------------------------------------------------------------------------
Running == mode \in {"serving", "recovering"}
At(s) == Running /\ step = s
Goto(s) == step' = s /\ UNCHANGED <<mode, cur>>

\* One failing call; the bound is on the environment, not on the code.
Fail == failures < MaxFailures /\ failures' = failures + 1

\* UploadWithLockTokens returns; recovery goes on with the next journal, or
\* gives up with the error, which ends the process.
Return(told) ==
  /\ step' = "idle" /\ cur' = 0 /\ UNCHANGED mode
  /\ promised' = IF mode = "serving" /\ told = "success" THEN cur ELSE promised
ReturnError ==
  /\ step' = "idle" /\ cur' = 0
  /\ mode' = IF mode = "recovering" THEN "down" ELSE mode
-----------------------------------------------------------------------------
(* UploadWithLockTokens *)

\* The conflict check under the path lock; without overwrite an existing
\* target ends the call with ErrAlreadyExists and no state change.
Begin(overwrite) ==
  /\ mode = "serving" /\ step = "idle" /\ begun < MaxUploads
  /\ final = Absent \/ overwrite
  /\ begun' = begun + 1 /\ cur' = begun + 1 /\ step' = "plan"
  /\ replaced' = IF final = Absent THEN replaced ELSE replaced \cup {begun + 1}
  /\ UNCHANGED <<disk, plan, prepared, ready, record, mode, answer, promised, crashes, failures>>

writeUploadOperation ==
  /\ At("plan")
  /\ plan' = plan \cup {cur}
  /\ Goto("create")
  /\ UNCHANGED <<disk, prepared, ready, replaced, record, answer, history>>

\* The deferred clean-up is not installed yet: a linked journal stays.
writeUploadOperationFails ==
  /\ At("plan") /\ Fail
  /\ plan' \in {plan, plan \cup {cur}}
  /\ ReturnError
  /\ UNCHANGED <<disk, prepared, ready, replaced, record, answer, begun, promised, crashes>>

writeUploadTempAt ==
  /\ At("create") \/ At("write")
  /\ temp' = [temp EXCEPT ![cur] = IF step = "create" THEN "partial" ELSE "full"]
  /\ Goto(IF step = "create" THEN "write" ELSE "prepare")
  /\ UNCHANGED <<final, backup, journal, record, answer, history>>

\* A read error, the quota limit or a disk error removes the temporary file
\* in writeUploadTempAt, and the deferred function the journal.
writeUploadTempAtFails ==
  /\ At("create") \/ At("write")
  /\ Fail
  /\ temp' = [temp EXCEPT ![cur] = "none"]
  /\ answer' = "error"
  /\ Goto("unlinkPlan")
  /\ UNCHANGED <<final, backup, journal, record, begun, promised, crashes>>

writePreparedUploadOperation ==
  /\ At("prepare")
  /\ prepared' = prepared \cup {cur}
  /\ Goto(IF cur \in replaced THEN "backup" ELSE "rename")
  /\ UNCHANGED <<disk, plan, ready, replaced, record, answer, history>>

writePreparedUploadOperationFails ==
  /\ At("prepare") /\ Fail
  /\ prepared' \in {prepared, prepared \cup {cur}}
  /\ answer' = "error"
  /\ Goto("dropTemp")
  /\ UNCHANGED <<disk, plan, ready, replaced, record, begun, promised, crashes>>

\* The deferred os.Remove(tmpPath), whose error is ignored.
dropTemp ==
  /\ At("dropTemp")
  /\ \/ temp' = [temp EXCEPT ![cur] = "none"] /\ UNCHANGED failures
     \/ Fail /\ UNCHANGED temp
  /\ Goto("unlinkPlan")
  /\ UNCHANGED <<final, backup, journal, record, answer, begun, promised, crashes>>

moveToBackup ==
  /\ backup' = [backup EXCEPT ![cur] = final]
  /\ final' = Absent
  /\ UNCHANGED temp

moveTempToFinal ==
  /\ final' = cur
  /\ temp' = [temp EXCEPT ![cur] = "none"]
  /\ UNCHANGED backup

installUploadedFile ==
  /\ \/ At("backup") /\ moveToBackup /\ Goto("rename")
     \/ At("rename") /\ moveTempToFinal /\ Goto("record")
  /\ UNCHANGED <<journal, record, answer, history>>

installUploadedFileFails ==
  /\ Fail
  /\ \/ At("backup") /\ (moveToBackup \/ UNCHANGED disk)
     \/ At("rename") /\ (moveTempToFinal \/ UNCHANGED disk)
  /\ Goto("undoCheck")
  /\ UNCHANGED <<journal, record, answer, begun, promised, crashes>>

\* Fault: the row is taken for granted when the file is already known.
RecordFileIfNew ==
  /\ At("record")
  /\ record' = IF record = Absent THEN final ELSE record
  /\ Goto("mark")
  /\ UNCHANGED <<disk, journal, answer, history>>

\* The row is rebuilt from the file on disk in one transaction.
RecordFile ==
  /\ At("record")
  /\ record' = final
  /\ Goto("mark")
  /\ UNCHANGED <<disk, journal, answer, history>>

\* Fault: the upload goes on although the ledger was not updated.
RecordFileErrorIgnored ==
  /\ At("record") /\ Fail
  /\ Goto("mark")
  /\ UNCHANGED <<disk, journal, record, answer, begun, promised, crashes>>

RecordFileFails ==
  /\ At("record") /\ Fail
  /\ IF mode = "serving" THEN Goto("undoCheck") ELSE ReturnError
  /\ UNCHANGED <<disk, journal, record, answer, begun, promised, crashes>>

markUploadDatabaseReady ==
  /\ At("mark")
  /\ ready' = ready \cup {cur}
  /\ answer' = "success"
  /\ Goto("finish")
  /\ UNCHANGED <<disk, plan, prepared, replaced, record, history>>

\* The journal is kept for the next start.
markUploadDatabaseReadyFails ==
  /\ At("mark") /\ Fail
  /\ ready' \in {ready, ready \cup {cur}}
  /\ ReturnError
  /\ UNCHANGED <<disk, plan, prepared, replaced, record, answer, begun, promised, crashes>>

\* Fault: only the temporary file is cleaned up.
keepBackup ==
  /\ temp' = [temp EXCEPT ![cur] = "none"]
  /\ UNCHANGED <<final, backup>>

removeBackup ==
  /\ temp' = [temp EXCEPT ![cur] = "none"]
  /\ backup' = [backup EXCEPT ![cur] = Absent]
  /\ UNCHANGED final

finishUploadOperation ==
  /\ At("finish") /\ removeBackup
  /\ Goto("unlinkPlan")
  /\ UNCHANGED <<journal, record, answer, history>>

\* Fault: the markers go, the plan itself stays.
removeMarkersOnly ==
  /\ At("unlinkPlan")
  /\ prepared' = prepared \ {cur} /\ ready' = ready \ {cur}
  /\ Return(answer)
  /\ UNCHANGED <<disk, plan, replaced, record, answer, begun, crashes, failures>>

removeUploadJournal ==
  /\ \/ At("unlinkPlan") /\ plan' = plan \ {cur} /\ Goto("unlinkPrepared")
        /\ UNCHANGED <<prepared, ready, promised>>
     \/ At("unlinkPrepared") /\ prepared' = prepared \ {cur} /\ Goto("unlinkReady")
        /\ UNCHANGED <<plan, ready, promised>>
     \/ At("unlinkReady") /\ ready' = ready \ {cur} /\ Return(answer)
        /\ UNCHANGED <<plan, prepared>>
  /\ UNCHANGED <<disk, replaced, record, answer, begun, crashes, failures>>

\* An error of finishUploadOperation is hidden from the client, one of a
\* rollback is reported, the deferred clean-up has reported its cause.
cleanupFails ==
  /\ Running /\ Fail
  /\ \/ step = "finish" /\ removeBackup
     \/ step \in {"finish", "unlinkPlan", "unlinkPrepared", "unlinkReady"} /\ UNCHANGED disk
  /\ IF mode = "serving" THEN Return(answer) ELSE ReturnError /\ UNCHANGED promised
  /\ UNCHANGED <<journal, record, answer, begun, crashes>>
-----------------------------------------------------------------------------
(* rollbackUploadOperation, in the upload itself and in recovery *)

Matches(u) == final = u

unsafeRollback(u) ==
  IF u \in replaced
  THEN \/ backup[u] # Absent /\ final # Absent /\ ~Matches(u)
       \/ backup[u] = Absent /\ final = Absent
       \/ backup[u] = Absent /\ Matches(u) /\ temp[u] = "none"
  ELSE final # Absent /\ ~Matches(u)

undoEffect ==
  \/ step = "undoTemp" /\ temp' = [temp EXCEPT ![cur] = "none"] /\ UNCHANGED <<final, backup>>
  \/ step = "undoFinal" /\ final' = Absent /\ UNCHANGED <<temp, backup>>
  \/ /\ step = "undoRestore"
     /\ final' = backup[cur]
     /\ backup' = [backup EXCEPT ![cur] = Absent]
     /\ UNCHANGED temp

undoNext ==
  CASE step = "undoTemp" /\ (cur \notin replaced \/ backup[cur] # Absent) -> "undoFinal"
    [] step = "undoFinal" /\ cur \in replaced -> "undoRestore"
    [] OTHER -> "unlinkPlan"

rollbackUploadOperation ==
  /\ \/ /\ At("undoCheck") /\ ~unsafeRollback(cur)
        /\ answer' = "error" /\ Goto("undoTemp")
        /\ UNCHANGED disk
     \/ Running /\ undoEffect /\ Goto(undoNext) /\ UNCHANGED answer
  /\ UNCHANGED <<journal, record, history>>

rollbackFails ==
  /\ Running /\ Fail
  /\ \/ undoEffect
     \/ step \in {"undoCheck", "undoTemp", "undoFinal", "undoRestore"} /\ UNCHANGED disk
  /\ ReturnError
  /\ UNCHANGED <<journal, record, answer, begun, promised, crashes>>
-----------------------------------------------------------------------------
(* Crash, restart and RecoverFileUploadOperations *)

Crash ==
  /\ Running /\ crashes < MaxCrashes
  /\ crashes' = crashes + 1
  /\ mode' = "down" /\ cur' = 0 /\ step' = "idle"
  /\ UNCHANGED <<disk, journal, record, answer, begun, promised, failures>>

Shutdown ==
  /\ mode = "serving" /\ step = "idle"
  /\ mode' = "down"
  /\ UNCHANGED <<disk, journal, record, cur, step, answer, history>>

\* Starting again after a refusal meets the same journal.
Restart ==
  /\ mode \in {"down", "refused"}
  /\ mode' = "recovering"
  /\ UNCHANGED <<disk, journal, record, cur, step, answer, history>>

Orphans == (prepared \cup ready) \ plan

cleanupUploadRecoveryArtifacts(u) ==
  /\ mode = "recovering" /\ step = "idle" /\ u \in Orphans
  /\ prepared' = prepared \ {u} /\ ready' = ready \ {u}
  /\ UNCHANGED <<disk, plan, replaced, record, mode, cur, step, answer, history>>

canComplete(u) == temp[u] = "none" /\ Matches(u)

\* Fault: an installed-halfway overwrite is not recognised.
canRollbackUntouched(u) ==
  temp[u] # "none" /\ (u \in replaced <=> final # Absent) /\ backup[u] = Absent

canRollback(u) ==
  IF u \in replaced
  THEN \/ temp[u] # "none" /\ final # Absent /\ backup[u] = Absent
       \/ final = Absent /\ backup[u] # Absent
       \/ temp[u] = "none" /\ final # Absent /\ backup[u] = Absent /\ ~Matches(u)
  ELSE temp[u] # "none" /\ final = Absent

\* rollbackPlannedUpload expects the target as it was when the plan was made.
plannedStateAbnormal(u) ==
  IF u \in replaced THEN final = Absent \/ backup[u] # Absent ELSE final # Absent

Examine(u) ==
  mode = "recovering" /\ step = "idle" /\ Orphans = {} /\ u \in plan

recoverPlanned(u) ==
  /\ Examine(u) /\ u \notin prepared /\ ~plannedStateAbnormal(u)
  /\ temp' = [temp EXCEPT ![u] = "none"]
  /\ cur' = u /\ step' = "unlinkPlan" /\ answer' = "error"
  /\ UNCHANGED <<final, backup, journal, record, mode, history>>

recoverPrepared(u) ==
  /\ Examine(u) /\ u \in prepared
  /\ \/ u \in ready /\ step' = "finish"
     \/ u \notin ready /\ canComplete(u) /\ step' = "record"
     \/ u \notin ready /\ ~canComplete(u) /\ canRollback(u) /\ step' = "undoCheck"
  /\ cur' = u
  /\ UNCHANGED <<disk, journal, record, mode, answer, history>>

\* No case applies: the error "ambiguous state, left as found" ends start-up.
recoverRefuses(u) ==
  /\ Examine(u)
  /\ IF u \in prepared THEN u \notin ready /\ ~canComplete(u) /\ ~canRollback(u)
     ELSE plannedStateAbnormal(u)
  /\ mode' = "refused"
  /\ UNCHANGED <<disk, journal, record, cur, step, answer, history>>

\* A directory, journal or target that cannot be read ends start-up.
recoveryFails ==
  /\ mode = "recovering" /\ step = "idle" /\ Fail
  /\ mode' = "down"
  /\ UNCHANGED <<disk, journal, record, cur, step, answer, begun, promised, crashes>>

recoveryDone ==
  /\ mode = "recovering" /\ step = "idle" /\ Orphans = {} /\ plan = {}
  /\ mode' = "serving"
  /\ UNCHANGED <<disk, journal, record, cur, step, answer, history>>

UploadStep ==
  \/ writeUploadOperation \/ writeUploadTempAt \/ writePreparedUploadOperation
  \/ dropTemp \/ installUploadedFile \/ RecordFile \/ markUploadDatabaseReady
  \/ finishUploadOperation \/ removeUploadJournal
  \/ rollbackUploadOperation

FailedCall ==
  \/ writeUploadOperationFails \/ writeUploadTempAtFails
  \/ writePreparedUploadOperationFails \/ installUploadedFileFails
  \/ RecordFileFails \/ markUploadDatabaseReadyFails \/ cleanupFails \/ rollbackFails
  \/ recoveryFails

RecoveryStep ==
  \/ \E u \in Uploads : \/ cleanupUploadRecoveryArtifacts(u) \/ recoverPlanned(u)
                        \/ recoverPrepared(u) \/ recoverRefuses(u)
  \/ recoveryDone

Next ==
  \/ \E overwrite \in BOOLEAN : Begin(overwrite)
  \/ UploadStep \/ FailedCall \/ RecoveryStep
  \/ Crash \/ Shutdown \/ Restart

Spec == Init /\ [][Next]_vars

\* Calls return, and a stopped service is started again.
FairSpec == Spec /\ WF_vars(UploadStep \/ RecoveryStep) /\ WF_vars(Restart)
-----------------------------------------------------------------------------
Quiet == mode = "serving" /\ step = "idle"

\* Uploads whose outcome an earlier failure left to the next start-up.
Unresolved == (plan \cap prepared) \ ready

\* What a client was told is stored stays stored, through any crashes, failing
\* calls and repeated recoveries.  At every moment, start-up having refused to
\* go on included, the promised content is at the path, in the backup of a
\* journaled upload, or superseded by a later installed upload; and when no
\* upload runs and none is unresolved, the path holds it or that of a later
\* upload, and the ledger row describes exactly that file.
AckedSurvives ==
  /\ final >= promised \/ \E u \in plan : backup[u] >= promised
  /\ Quiet /\ Unresolved = {} => final >= promised /\ record = final

\* No operation forgets the file it moved out of the way: a backup is always
\* covered by a prepared journal, and a temporary file by a plan unless its
\* best-effort removal failed.  (The state is well typed all along.)
NoOrphans ==
  /\ TypeOK
  /\ \A u \in Uploads :
       /\ backup[u] # Absent => u \in plan \cap prepared
       /\ temp[u] # "none" /\ u \notin plan => failures > 0

\* Success is only ever reported for content that is both on disk and in the
\* ledger, never for an upload that was or will be rolled back.
SuccessIsCommitted ==
  [][promised' # promised => /\ final' = promised' /\ record' = promised'
                             /\ promised' \in plan' => promised' \in ready']_vars

\* Start-up recovery handles every state that a crash can leave behind, wherever
\* it comes: only a crash of the recovery itself, or a failing call, can stop it.
OneCrashStartsUp == mode = "refused" => failures > 0 \/ crashes > 1

\* A stopped service comes up again or refuses with the scene preserved.
Recovers == mode = "down" ~> mode \in {"serving", "refused"}
=============================================================================
