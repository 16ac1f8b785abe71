-------------------------- MODULE FileUploadProofs --------------------------
(***************************************************************************)
(* Proofs about FileUpload: the promised content survives crashes, failing *)
(* calls and repeated recoveries (AckedSurvives), nothing moved aside is   *)
(* forgotten (NoOrphans), success is said of committed content only        *)
(* (SuccessIsCommitted), and one crash never stops a start                 *)
(* (OneCrashStartsUp), for any number of uploads, crashes and failures.    *)
(*                                                                         *)
(* The invariant says of every step of an upload what is on the disk and   *)
(* in the journal at that moment (StepInv, FilesInv), where the promised   *)
(* content is (Safe), and which file the ledger row describes (RowInv).    *)
(* Safe has to say more than AckedSurvives: the content that is new enough *)
(* must not be that of an upload which may yet be rolled back, since then  *)
(* the roll-back would take it away.                                       *)
(***************************************************************************)
EXTENDS FileUpload, TLAPS

\* Unresolved uploads that hold a file to give back.
Holding == {u \in Unresolved : backup[u] # Absent}

\* A change of the target by u has not begun, or has been taken back.
Untouched(u) ==
  /\ backup[u] = Absent
  /\ u \in replaced <=> final # Absent
  /\ final # u /\ \A v \in Uploads : backup[v] # u

\* rollbackUploadOperation finds its way from here.
Undoable(u) ==
  /\ u \in Unresolved
  /\ mode = "recovering" => final # u
  /\ IF u \in replaced
     THEN \/ backup[u] # Absent /\ final \in {Absent, u}
          \/ backup[u] = Absent /\ final \notin {Absent, u}
     ELSE final \in {Absent, u} /\ \A v \in Uploads : backup[v] # u

Fresh == {"plan", "create", "write", "prepare", "dropTemp", "backup", "rename"}
Undo == {"undoCheck", "undoTemp", "undoFinal", "undoRestore"}
Unlink == {"unlinkPlan", "unlinkPrepared", "unlinkReady"}

\* What each step of an upload, or of its recovery, may rely on.
StepInv ==
  /\ step = "idle" <=> cur = 0
  /\ mode \in {"down", "refused"} => step = "idle"
  /\ step \in Fresh =>
       /\ mode = "serving" /\ cur = begun /\ cur \notin ready
       /\ cur \in plan <=> step # "plan"
       /\ step \in {"plan", "create", "write", "prepare"} => cur \notin prepared
       /\ step \in {"backup", "rename"} => cur \in prepared
       /\ temp[cur] = CASE step \in {"plan", "create"} -> "none"
                        [] step = "write" -> "partial"
                        [] OTHER -> "full"
       /\ step # "rename" => Untouched(cur)
  /\ step = "dropTemp" => answer = "error"
  /\ step = "backup" => cur \in replaced
  /\ step = "rename" =>
       /\ final = Absent /\ (cur \in replaced <=> backup[cur] # Absent)
       /\ \A v \in Uploads : backup[v] # cur
  /\ step \in {"record", "mark"} => cur \in Unresolved /\ final = cur /\ temp[cur] = "none"
  /\ step = "record" /\ mode = "serving" => Undoable(cur)
  /\ step = "mark" => record = cur
  /\ step \in Undo => Undoable(cur)
  /\ step \in {"undoFinal", "undoRestore"} => temp[cur] = "none" /\ (cur \in replaced => backup[cur] # Absent)
  /\ step = "undoRestore" => cur \in replaced /\ final = Absent
  /\ step = "finish" => cur \in plan \cap ready
  /\ step \in Unlink =>
       /\ backup[cur] = Absent
       /\ cur \in plan <=> step = "unlinkPlan"
       /\ temp[cur] = "none" \/ failures > 0
  /\ step = "unlinkPlan" /\ cur \notin ready => 
       /\ mode = "serving" => answer = "error"
       /\ cur \in prepared => /\ cur \in replaced <=> final # Absent
                              /\ final # cur
                              /\ cur \notin replaced => \A v \in Uploads : backup[v] # cur
  /\ mode = "serving" /\ step \in {"undoTemp", "undoFinal", "undoRestore"} => answer = "error"
  /\ mode = "serving" /\ (step = "finish" \/ (step \in Unlink /\ answer = "success")) =>
       /\ answer = "success" /\ final = cur /\ record = cur
       /\ cur \in plan => cur \in ready

\* Backups are journaled and hold earlier uploads, and a content that has been
\* installed or moved aside has no temporary file any more.
FilesInv ==
  /\ final <= begun
  /\ \A u \in Uploads :
       /\ backup[u] # Absent => u \in plan \cap prepared \cap replaced
       /\ backup[u] < u
       /\ final = u \/ (\E v \in Uploads : backup[v] = u) => u <= begun /\ temp[u] = "none"
       /\ temp[u] # "none" => u \in plan \/ failures > 0
       /\ u > begun => u \notin plan \cup prepared \cup ready \cup replaced /\ temp[u] = "none"
       /\ u \in plan \cap ready => u \in prepared

\* The content c, or a later one, is where no roll-back can destroy it.
Safe(c) ==
  \/ c = Absent
  \/ final >= c /\ final \notin Unresolved
  \/ \E v \in Unresolved : backup[v] >= c /\ backup[v] \notin Unresolved

\* What a roll-back would bring back is what the row describes.
RowReturns ==
  \/ Holding = {} /\ record = Absent
  \/ \E u, v \in Holding : u # v
  \/ \E u \in Holding : record = backup[u] \/ backup[u] \in Unresolved

\* The row describes the target, or what recovery will put back there.
RowInv ==
  /\ final = Absent => RowReturns
  /\ final # Absent =>
       \/ record = final \/ final \in Unresolved \/ Holding # {}
       \/ mode # "serving" /\ Unresolved \ replaced # {}
  /\ final = cur /\ step \in {"record"} \cup Undo /\ mode = "serving" => RowReturns

IInv == TypeOK /\ StepInv /\ FilesInv /\ Safe(promised) /\ RowInv

\* Start-up knows what to do with the journal of u.
Recoverable(u) ==
  IF u \notin prepared THEN ~plannedStateAbnormal(u)
  ELSE u \in ready \/ canComplete(u) \/ canRollback(u)

\* Without a failing call, a first crash leaves at most one journal, a
\* recoverable one.
CrashInv ==
  failures = 0 =>
    /\ mode = "serving" => plan \subseteq {cur} /\ step \notin Undo \cup {"dropTemp"}
    /\ mode = "serving" /\ step \in Unlink => answer = "success"
    /\ mode # "serving" /\ crashes = 0 => plan = {}
    /\ mode # "serving" /\ crashes <= 1 =>
         /\ step # "idle" => plan \subseteq {cur}
         /\ step = "idle" => /\ mode # "refused"
                             /\ \A u, v \in plan : u = v
                             /\ \A u \in plan : Recoverable(u)
\* Uploads are the positive contents; Absent is below every content.
LEMMA UploadNumbers ==
  /\ Uploads \subseteq Nat \ {0} /\ Uploads \subseteq Content /\ Content \subseteq Int
  /\ Absent \in Content /\ Absent \notin Uploads /\ Absent \in Int
  /\ \A c \in Content : c >= Absent
BY BoundsAssumption DEF Uploads, Content, Absent

\* A step is always that of an upload.
LEMMA CurrentUpload == TypeOK /\ StepInv /\ step # "idle" => cur \in Uploads
BY BoundsAssumption DEF TypeOK, StepInv, Uploads

\* Each step keeps the types.
LEMMA TypeStep == IInv /\ [Next]_vars => TypeOK'
<1> SUFFICES ASSUME IInv, [Next]_vars  PROVE TypeOK'
  OBVIOUS
<1> USE UploadNumbers, BoundsAssumption DEF At, Goto, Running, Fail, Return, ReturnError, disk,
   journal, history
<1>0. TypeOK /\ (step # "idle" => cur \in Uploads) /\ begun \in Nat
  BY CurrentUpload, BoundsAssumption DEF IInv, TypeOK
<1>1. ASSUME NEW overwrite \in BOOLEAN, Begin(overwrite)  PROVE TypeOK'
  BY <1>0, <1>1 DEF Begin, TypeOK, Uploads
<1>2. CASE writeUploadOperation
  BY <1>0, <1>2 DEF TypeOK, writeUploadOperation
<1>3. CASE writeUploadTempAt
  <2>1. cur \notin prepared
    BY <1>3 DEF IInv, StepInv, Fresh, writeUploadTempAt
  <2>2. /\ temp' \in [Uploads -> {"none", "partial", "full"}]
        /\ \A u \in prepared : temp'[u] # "partial"
    BY <1>0, <1>3, <2>1 DEF TypeOK, writeUploadTempAt
  <2> QED  BY <1>0, <1>3, <2>2 DEF TypeOK, writeUploadTempAt
<1>4. CASE writePreparedUploadOperation
  <2>1. temp[cur] = "full"
    BY <1>4 DEF IInv, StepInv, Fresh, writePreparedUploadOperation
  <2>2. /\ prepared' \subseteq Uploads
        /\ \A u \in prepared' : temp[u] # "partial"
    BY <1>0, <1>4, <2>1 DEF TypeOK, writePreparedUploadOperation
  <2> QED  BY <1>0, <1>4, <2>2 DEF TypeOK, writePreparedUploadOperation
<1>5. CASE dropTemp
  BY <1>0, <1>5 DEF TypeOK, dropTemp
<1>6. CASE installUploadedFile
  BY <1>0, <1>6 DEF TypeOK, installUploadedFile, moveToBackup, moveTempToFinal
<1>7. CASE RecordFile
  BY <1>0, <1>7 DEF TypeOK, RecordFile
<1>8. CASE markUploadDatabaseReady
  BY <1>0, <1>8 DEF TypeOK, markUploadDatabaseReady
<1>9. CASE finishUploadOperation
  BY <1>0, <1>9 DEF TypeOK, finishUploadOperation, removeBackup
<1>10. CASE removeUploadJournal
  <2>1. plan' \subseteq Uploads /\ prepared' \subseteq prepared /\ ready' \subseteq Uploads /\ promised' \in Content
    BY <1>0, <1>10 DEF TypeOK, removeUploadJournal
  <2>2. step' \in {"unlinkPrepared", "unlinkReady", "idle"} /\ cur' \in 0..begun /\ mode' = mode
    BY <1>0, <1>10 DEF TypeOK, removeUploadJournal
  <2> QED  BY <1>0, <1>10, <2>1, <2>2 DEF TypeOK, removeUploadJournal
<1>11. CASE rollbackUploadOperation
  <2>1. /\ final' \in Content /\ backup' \in [Uploads -> Content]
        /\ temp' \in [Uploads -> {"none", "partial", "full"}]
        /\ \A u \in prepared : temp'[u] # "partial"
    BY <1>0, <1>11 DEF TypeOK, rollbackUploadOperation, undoEffect
  <2> QED  BY <1>0, <1>11, <2>1 DEF TypeOK, rollbackUploadOperation, undoNext
<1>12. CASE writeUploadOperationFails
  BY <1>0, <1>12 DEF TypeOK, writeUploadOperationFails
<1>13. CASE writeUploadTempAtFails
  <2>1. cur \notin prepared
    BY <1>13 DEF IInv, StepInv, Fresh, writeUploadTempAtFails
  <2>2. /\ temp' \in [Uploads -> {"none", "partial", "full"}]
        /\ \A u \in prepared : temp'[u] # "partial"
    BY <1>0, <1>13, <2>1 DEF TypeOK, writeUploadTempAtFails
  <2> QED  BY <1>0, <1>13, <2>2 DEF TypeOK, writeUploadTempAtFails
<1>14. CASE writePreparedUploadOperationFails
  <2>1. temp[cur] = "full"
    BY <1>14 DEF IInv, StepInv, Fresh, writePreparedUploadOperationFails
  <2>2. /\ prepared' \subseteq Uploads
        /\ \A u \in prepared' : temp[u] # "partial"
    BY <1>0, <1>14, <2>1 DEF TypeOK, writePreparedUploadOperationFails
  <2> QED  BY <1>0, <1>14, <2>2 DEF TypeOK, writePreparedUploadOperationFails
<1>15. CASE installUploadedFileFails
  BY <1>0, <1>15 DEF TypeOK, installUploadedFileFails, moveToBackup, moveTempToFinal
<1>16. CASE RecordFileFails
  BY <1>0, <1>16 DEF TypeOK, RecordFileFails
<1>17. CASE markUploadDatabaseReadyFails
  BY <1>0, <1>17 DEF TypeOK, markUploadDatabaseReadyFails
<1>18. CASE cleanupFails
  BY <1>0, <1>18 DEF TypeOK, cleanupFails, removeBackup
<1>19. CASE rollbackFails
  BY <1>0, <1>19 DEF TypeOK, rollbackFails, undoEffect
<1>20. CASE recoveryFails
  BY <1>0, <1>20 DEF TypeOK, recoveryFails
<1>21. ASSUME NEW u \in Uploads, cleanupUploadRecoveryArtifacts(u)  PROVE TypeOK'
  BY <1>0, <1>21 DEF TypeOK, cleanupUploadRecoveryArtifacts
<1>22. ASSUME NEW u \in Uploads, recoverPlanned(u)  PROVE TypeOK'
  <2>1. u \in 0..begun
    BY <1>0, <1>22 DEF IInv, FilesInv, Examine, recoverPlanned
  <2> QED  BY <1>0, <1>22, <2>1 DEF TypeOK, recoverPlanned, Examine
<1>23. ASSUME NEW u \in Uploads, recoverPrepared(u)  PROVE TypeOK'
  <2>1. u \in 0..begun
    BY <1>0, <1>23 DEF IInv, FilesInv, Examine, recoverPrepared
  <2> QED  BY <1>0, <1>23, <2>1 DEF TypeOK, recoverPrepared, Examine
<1>24. ASSUME NEW u \in Uploads, recoverRefuses(u)  PROVE TypeOK'
  BY <1>0, <1>24 DEF TypeOK, recoverRefuses
<1>25. CASE recoveryDone
  BY <1>0, <1>25 DEF TypeOK, recoveryDone
<1>26. CASE Crash
  BY <1>0, <1>26 DEF TypeOK, Crash
<1>27. CASE Shutdown
  BY <1>0, <1>27 DEF TypeOK, Shutdown
<1>28. CASE Restart
  BY <1>0, <1>28 DEF TypeOK, Restart
<1>29. CASE UNCHANGED vars
  BY <1>0, <1>29 DEF TypeOK, vars
<1> QED
  BY <1>1, <1>2, <1>3, <1>4, <1>5, <1>6, <1>7, <1>8, <1>9, <1>10, <1>11, <1>12, <1>13, <1>14, <1>15,
     <1>16, <1>17, <1>18, <1>19, <1>20, <1>21, <1>22, <1>23, <1>24, <1>25, <1>26, <1>27, <1>28, <1>29
  DEF Next, UploadStep, FailedCall, RecoveryStep

\* Each step leaves the disk and the journal as the next step needs them.
LEMMA StepsStep == IInv /\ [Next]_vars => StepInv'
<1> SUFFICES ASSUME IInv, [Next]_vars  PROVE StepInv'
  OBVIOUS
<1> USE UploadNumbers, BoundsAssumption DEF At, Goto, Running, Fail, Return, ReturnError, disk,
   journal, history, Fresh, Undo, Unlink
<1>0. TypeOK /\ StepInv /\ FilesInv /\ (step # "idle" => cur \in Uploads) /\ begun \in Nat
  BY CurrentUpload, BoundsAssumption DEF IInv, TypeOK
<1>1. ASSUME NEW overwrite \in BOOLEAN, Begin(overwrite)  PROVE StepInv'
  BY <1>0, <1>1 DEF TypeOK, StepInv, FilesInv, Untouched, Undoable, Unresolved, Begin, Uploads
<1>2. CASE writeUploadOperation
  BY <1>0, <1>2 DEF TypeOK, StepInv, FilesInv, Untouched, Undoable, Unresolved, writeUploadOperation
<1>3. CASE writeUploadTempAt
  BY <1>0, <1>3 DEF TypeOK, StepInv, FilesInv, Untouched, Undoable, Unresolved, writeUploadTempAt
<1>4. CASE writePreparedUploadOperation
  BY <1>0, <1>4 DEF TypeOK, StepInv, FilesInv, Untouched, Undoable, Unresolved,
     writePreparedUploadOperation
<1>5. CASE dropTemp
  BY <1>0, <1>5 DEF TypeOK, StepInv, FilesInv, Untouched, Undoable, Unresolved, dropTemp
<1>6. CASE installUploadedFile
  BY <1>0, <1>6 DEF TypeOK, StepInv, FilesInv, Untouched, Undoable, Unresolved,
     installUploadedFile, moveToBackup, moveTempToFinal
<1>7. CASE RecordFile
  BY <1>0, <1>7 DEF TypeOK, StepInv, FilesInv, Untouched, Undoable, Unresolved, RecordFile
<1>8. CASE markUploadDatabaseReady
  BY <1>0, <1>8 DEF TypeOK, StepInv, FilesInv, Untouched, Undoable, Unresolved,
     markUploadDatabaseReady
<1>9. CASE finishUploadOperation
  BY <1>0, <1>9 DEF TypeOK, StepInv, FilesInv, Untouched, Undoable, Unresolved,
     finishUploadOperation, removeBackup
<1>10. CASE removeUploadJournal
  BY <1>0, <1>10 DEF TypeOK, StepInv, FilesInv, Untouched, Undoable, Unresolved, removeUploadJournal
<1>11. CASE rollbackUploadOperation
  <2>1. CASE step = "undoCheck"
    <3>1. ~unsafeRollback(cur) /\ UNCHANGED <<final, temp, backup>> /\ step' = "undoTemp" /\ answer' = "error"
      BY <1>11, <2>1 DEF rollbackUploadOperation, undoEffect
    <3> QED  BY <1>0, <1>11, <2>1, <3>1 DEF TypeOK, StepInv, FilesInv, Untouched, Undoable,
       Unresolved, rollbackUploadOperation
  <2>2. CASE step = "undoTemp"
    <3>1. UNCHANGED <<final, backup, answer>> /\ temp' = [temp EXCEPT ![cur] = "none"]
      BY <1>11, <2>2 DEF rollbackUploadOperation, undoEffect
    <3>2. step' = IF cur \notin replaced \/ backup[cur] # Absent THEN "undoFinal" ELSE "unlinkPlan"
      BY <1>11, <2>2 DEF rollbackUploadOperation, undoNext
    <3> QED  BY <1>0, <1>11, <2>2, <3>1, <3>2 DEF TypeOK, StepInv, FilesInv, Untouched, Undoable,
       Unresolved, rollbackUploadOperation
  <2>3. CASE step = "undoFinal"
    <3>1. UNCHANGED <<temp, backup, answer>> /\ final' = Absent
      BY <1>11, <2>3 DEF rollbackUploadOperation, undoEffect
    <3>2. step' = IF cur \in replaced THEN "undoRestore" ELSE "unlinkPlan"
      BY <1>11, <2>3 DEF rollbackUploadOperation, undoNext
    <3> QED  BY <1>0, <1>11, <2>3, <3>1, <3>2 DEF TypeOK, StepInv, FilesInv, Untouched, Undoable,
       Unresolved, rollbackUploadOperation
  <2>4. CASE step = "undoRestore"
    <3>1. UNCHANGED <<temp, answer>> /\ final' = backup[cur] /\ backup' = [backup EXCEPT ![cur] = Absent]
      BY <1>11, <2>4 DEF rollbackUploadOperation, undoEffect
    <3>2. step' = "unlinkPlan"
      BY <1>11, <2>4 DEF rollbackUploadOperation, undoNext
    <3> QED  BY <1>0, <1>11, <2>4, <3>1, <3>2 DEF TypeOK, StepInv, FilesInv, Untouched, Undoable,
       Unresolved, rollbackUploadOperation
  <2> QED  BY <1>11, <2>1, <2>2, <2>3, <2>4 DEF rollbackUploadOperation, undoEffect
<1>12. CASE writeUploadOperationFails
  BY <1>0, <1>12 DEF TypeOK, StepInv, FilesInv, Untouched, Undoable, Unresolved,
     writeUploadOperationFails
<1>13. CASE writeUploadTempAtFails
  BY <1>0, <1>13 DEF TypeOK, StepInv, FilesInv, Untouched, Undoable, Unresolved,
     writeUploadTempAtFails
<1>14. CASE writePreparedUploadOperationFails
  BY <1>0, <1>14 DEF TypeOK, StepInv, FilesInv, Untouched, Undoable, Unresolved,
     writePreparedUploadOperationFails
<1>15. CASE installUploadedFileFails
  BY <1>0, <1>15 DEF TypeOK, StepInv, FilesInv, Untouched, Undoable, Unresolved,
     installUploadedFileFails, moveToBackup, moveTempToFinal
<1>16. CASE RecordFileFails
  BY <1>0, <1>16 DEF TypeOK, StepInv, FilesInv, Untouched, Undoable, Unresolved, RecordFileFails
<1>17. CASE markUploadDatabaseReadyFails
  BY <1>0, <1>17 DEF TypeOK, StepInv, FilesInv, Untouched, Undoable, Unresolved,
     markUploadDatabaseReadyFails
<1>18. CASE cleanupFails
  BY <1>0, <1>18 DEF TypeOK, StepInv, FilesInv, Untouched, Undoable, Unresolved, cleanupFails,
     removeBackup
<1>19. CASE rollbackFails
  BY <1>0, <1>19 DEF TypeOK, StepInv, FilesInv, Untouched, Undoable, Unresolved, rollbackFails,
     undoEffect
<1>20. CASE recoveryFails
  BY <1>0, <1>20 DEF TypeOK, StepInv, FilesInv, Untouched, Undoable, Unresolved, recoveryFails
<1>21. ASSUME NEW u \in Uploads, cleanupUploadRecoveryArtifacts(u)  PROVE StepInv'
  BY <1>0, <1>21 DEF TypeOK, StepInv, FilesInv, Untouched, Undoable, Unresolved,
     cleanupUploadRecoveryArtifacts
<1>22. ASSUME NEW u \in Uploads, recoverPlanned(u)  PROVE StepInv'
  BY <1>0, <1>22 DEF TypeOK, StepInv, FilesInv, Untouched, Undoable, Unresolved, recoverPlanned,
     Examine, plannedStateAbnormal
<1>23. ASSUME NEW u \in Uploads, recoverPrepared(u)  PROVE StepInv'
  BY <1>0, <1>23 DEF TypeOK, StepInv, FilesInv, Untouched, Undoable, Unresolved, recoverPrepared,
     Examine, canComplete, canRollback, Matches
<1>24. ASSUME NEW u \in Uploads, recoverRefuses(u)  PROVE StepInv'
  BY <1>0, <1>24 DEF TypeOK, StepInv, FilesInv, Untouched, Undoable, Unresolved, recoverRefuses,
     Examine
<1>25. CASE recoveryDone
  BY <1>0, <1>25 DEF TypeOK, StepInv, FilesInv, Untouched, Undoable, Unresolved, recoveryDone
<1>26. CASE Crash
  BY <1>0, <1>26 DEF TypeOK, StepInv, FilesInv, Untouched, Undoable, Unresolved, Crash
<1>27. CASE Shutdown
  BY <1>0, <1>27 DEF TypeOK, StepInv, FilesInv, Untouched, Undoable, Unresolved, Shutdown
<1>28. CASE Restart
  BY <1>0, <1>28 DEF TypeOK, StepInv, FilesInv, Untouched, Undoable, Unresolved, Restart
<1>29. CASE UNCHANGED vars
  BY <1>0, <1>29 DEF TypeOK, StepInv, FilesInv, Untouched, Undoable, Unresolved, vars
<1> QED
  BY <1>1, <1>2, <1>3, <1>4, <1>5, <1>6, <1>7, <1>8, <1>9, <1>10, <1>11, <1>12, <1>13, <1>14, <1>15,
     <1>16, <1>17, <1>18, <1>19, <1>20, <1>21, <1>22, <1>23, <1>24, <1>25, <1>26, <1>27, <1>28, <1>29
  DEF Next, UploadStep, FailedCall, RecoveryStep

\* Each step keeps backups and temporary files accounted for.
LEMMA FilesStep == IInv /\ [Next]_vars => FilesInv'
<1> SUFFICES ASSUME IInv, [Next]_vars  PROVE FilesInv'
  OBVIOUS
<1> USE UploadNumbers, BoundsAssumption DEF At, Goto, Running, Fail, Return, ReturnError, disk,
   journal, history, Fresh, Undo, Unlink
<1>0. TypeOK /\ StepInv /\ FilesInv /\ (step # "idle" => cur \in Uploads) /\ begun \in Nat
  BY CurrentUpload, BoundsAssumption DEF IInv, TypeOK
<1>1. ASSUME NEW overwrite \in BOOLEAN, Begin(overwrite)  PROVE FilesInv'
  BY <1>0, <1>1 DEF TypeOK, StepInv, FilesInv, Untouched, Undoable, Unresolved, Begin, Uploads
<1>2. CASE writeUploadOperation
  BY <1>0, <1>2 DEF TypeOK, StepInv, FilesInv, Untouched, Undoable, Unresolved, writeUploadOperation
<1>3. CASE writeUploadTempAt
  BY <1>0, <1>3 DEF TypeOK, StepInv, FilesInv, Untouched, Undoable, Unresolved, writeUploadTempAt
<1>4. CASE writePreparedUploadOperation
  BY <1>0, <1>4 DEF TypeOK, StepInv, FilesInv, Untouched, Undoable, Unresolved,
     writePreparedUploadOperation
<1>5. CASE dropTemp
  BY <1>0, <1>5 DEF TypeOK, StepInv, FilesInv, Untouched, Undoable, Unresolved, dropTemp
<1>6. CASE installUploadedFile
  BY <1>0, <1>6 DEF TypeOK, StepInv, FilesInv, Untouched, Undoable, Unresolved,
     installUploadedFile, moveToBackup, moveTempToFinal
<1>7. CASE RecordFile
  BY <1>0, <1>7 DEF TypeOK, StepInv, FilesInv, Untouched, Undoable, Unresolved, RecordFile
<1>8. CASE markUploadDatabaseReady
  BY <1>0, <1>8 DEF TypeOK, StepInv, FilesInv, Untouched, Undoable, Unresolved,
     markUploadDatabaseReady
<1>9. CASE finishUploadOperation
  BY <1>0, <1>9 DEF TypeOK, StepInv, FilesInv, Untouched, Undoable, Unresolved,
     finishUploadOperation, removeBackup
<1>10. CASE removeUploadJournal
  BY <1>0, <1>10 DEF TypeOK, StepInv, FilesInv, Untouched, Undoable, Unresolved, removeUploadJournal
<1>11. CASE rollbackUploadOperation
  BY <1>0, <1>11 DEF TypeOK, StepInv, FilesInv, Untouched, Undoable, Unresolved,
     rollbackUploadOperation, undoEffect
<1>12. CASE writeUploadOperationFails
  BY <1>0, <1>12 DEF TypeOK, StepInv, FilesInv, Untouched, Undoable, Unresolved,
     writeUploadOperationFails
<1>13. CASE writeUploadTempAtFails
  BY <1>0, <1>13 DEF TypeOK, StepInv, FilesInv, Untouched, Undoable, Unresolved,
     writeUploadTempAtFails
<1>14. CASE writePreparedUploadOperationFails
  BY <1>0, <1>14 DEF TypeOK, StepInv, FilesInv, Untouched, Undoable, Unresolved,
     writePreparedUploadOperationFails
<1>15. CASE installUploadedFileFails
  BY <1>0, <1>15 DEF TypeOK, StepInv, FilesInv, Untouched, Undoable, Unresolved,
     installUploadedFileFails, moveToBackup, moveTempToFinal
<1>16. CASE RecordFileFails
  BY <1>0, <1>16 DEF TypeOK, StepInv, FilesInv, Untouched, Undoable, Unresolved, RecordFileFails
<1>17. CASE markUploadDatabaseReadyFails
  BY <1>0, <1>17 DEF TypeOK, StepInv, FilesInv, Untouched, Undoable, Unresolved,
     markUploadDatabaseReadyFails
<1>18. CASE cleanupFails
  BY <1>0, <1>18 DEF TypeOK, StepInv, FilesInv, Untouched, Undoable, Unresolved, cleanupFails,
     removeBackup
<1>19. CASE rollbackFails
  BY <1>0, <1>19 DEF TypeOK, StepInv, FilesInv, Untouched, Undoable, Unresolved, rollbackFails,
     undoEffect
<1>20. CASE recoveryFails
  BY <1>0, <1>20 DEF TypeOK, StepInv, FilesInv, Untouched, Undoable, Unresolved, recoveryFails
<1>21. ASSUME NEW u \in Uploads, cleanupUploadRecoveryArtifacts(u)  PROVE FilesInv'
  BY <1>0, <1>21 DEF TypeOK, StepInv, FilesInv, Untouched, Undoable, Unresolved,
     cleanupUploadRecoveryArtifacts, Orphans
<1>22. ASSUME NEW u \in Uploads, recoverPlanned(u)  PROVE FilesInv'
  BY <1>0, <1>22 DEF TypeOK, StepInv, FilesInv, Untouched, Undoable, Unresolved, recoverPlanned,
     Examine, plannedStateAbnormal
<1>23. ASSUME NEW u \in Uploads, recoverPrepared(u)  PROVE FilesInv'
  BY <1>0, <1>23 DEF TypeOK, StepInv, FilesInv, Untouched, Undoable, Unresolved, recoverPrepared,
     Examine, canComplete, canRollback, Matches
<1>24. ASSUME NEW u \in Uploads, recoverRefuses(u)  PROVE FilesInv'
  BY <1>0, <1>24 DEF TypeOK, StepInv, FilesInv, Untouched, Undoable, Unresolved, recoverRefuses,
     Examine
<1>25. CASE recoveryDone
  BY <1>0, <1>25 DEF TypeOK, StepInv, FilesInv, Untouched, Undoable, Unresolved, recoveryDone
<1>26. CASE Crash
  BY <1>0, <1>26 DEF TypeOK, StepInv, FilesInv, Untouched, Undoable, Unresolved, Crash
<1>27. CASE Shutdown
  BY <1>0, <1>27 DEF TypeOK, StepInv, FilesInv, Untouched, Undoable, Unresolved, Shutdown
<1>28. CASE Restart
  BY <1>0, <1>28 DEF TypeOK, StepInv, FilesInv, Untouched, Undoable, Unresolved, Restart
<1>29. CASE UNCHANGED vars
  BY <1>0, <1>29 DEF TypeOK, StepInv, FilesInv, Untouched, Undoable, Unresolved, vars
<1> QED
  BY <1>1, <1>2, <1>3, <1>4, <1>5, <1>6, <1>7, <1>8, <1>9, <1>10, <1>11, <1>12, <1>13, <1>14, <1>15,
     <1>16, <1>17, <1>18, <1>19, <1>20, <1>21, <1>22, <1>23, <1>24, <1>25, <1>26, <1>27, <1>28, <1>29
  DEF Next, UploadStep, FailedCall, RecoveryStep

\* No step takes the promised content away.
LEMMA SafeStep == IInv /\ [Next]_vars => Safe(promised)'
<1> SUFFICES ASSUME IInv, [Next]_vars  PROVE Safe(promised)'
  OBVIOUS
<1> USE UploadNumbers, BoundsAssumption DEF At, Goto, Running, Fail, Return, ReturnError, disk,
   journal, history, Fresh, Undo, Unlink
<1>0. TypeOK /\ StepInv /\ FilesInv /\ Safe(promised) /\ (step # "idle" => cur \in Uploads) /\ begun \in Nat
  BY CurrentUpload, BoundsAssumption DEF IInv, TypeOK
<1>1. ASSUME NEW overwrite \in BOOLEAN, Begin(overwrite)  PROVE Safe(promised)'
  BY <1>0, <1>1 DEF TypeOK, StepInv, FilesInv, Safe, Untouched, Undoable, Unresolved, Begin, Uploads
<1>2. CASE writeUploadOperation
  BY <1>0, <1>2 DEF TypeOK, StepInv, FilesInv, Safe, Untouched, Undoable, Unresolved,
     writeUploadOperation
<1>3. CASE writeUploadTempAt
  BY <1>0, <1>3 DEF TypeOK, StepInv, FilesInv, Safe, Untouched, Undoable, Unresolved,
     writeUploadTempAt
<1>4. CASE writePreparedUploadOperation
  BY <1>0, <1>4 DEF TypeOK, StepInv, FilesInv, Safe, Untouched, Undoable, Unresolved,
     writePreparedUploadOperation
<1>5. CASE dropTemp
  BY <1>0, <1>5 DEF TypeOK, StepInv, FilesInv, Safe, Untouched, Undoable, Unresolved, dropTemp
<1>6. CASE installUploadedFile
  BY <1>0, <1>6 DEF TypeOK, StepInv, FilesInv, Safe, Untouched, Undoable, Unresolved,
     installUploadedFile, moveToBackup, moveTempToFinal
<1>7. CASE RecordFile
  BY <1>0, <1>7 DEF TypeOK, StepInv, FilesInv, Safe, Untouched, Undoable, Unresolved, RecordFile
<1>8. CASE markUploadDatabaseReady
  BY <1>0, <1>8 DEF TypeOK, StepInv, FilesInv, Safe, Untouched, Undoable, Unresolved,
     markUploadDatabaseReady
<1>9. CASE finishUploadOperation
  BY <1>0, <1>9 DEF TypeOK, StepInv, FilesInv, Safe, Untouched, Undoable, Unresolved,
     finishUploadOperation, removeBackup
<1>10. CASE removeUploadJournal
  BY <1>0, <1>10 DEF TypeOK, StepInv, FilesInv, Safe, Untouched, Undoable, Unresolved,
     removeUploadJournal
<1>11. CASE rollbackUploadOperation
  BY <1>0, <1>11 DEF TypeOK, StepInv, FilesInv, Safe, Untouched, Undoable, Unresolved,
     rollbackUploadOperation, undoEffect
<1>12. CASE writeUploadOperationFails
  BY <1>0, <1>12 DEF TypeOK, StepInv, FilesInv, Safe, Untouched, Undoable, Unresolved,
     writeUploadOperationFails
<1>13. CASE writeUploadTempAtFails
  BY <1>0, <1>13 DEF TypeOK, StepInv, FilesInv, Safe, Untouched, Undoable, Unresolved,
     writeUploadTempAtFails
<1>14. CASE writePreparedUploadOperationFails
  BY <1>0, <1>14 DEF TypeOK, StepInv, FilesInv, Safe, Untouched, Undoable, Unresolved,
     writePreparedUploadOperationFails
<1>15. CASE installUploadedFileFails
  BY <1>0, <1>15 DEF TypeOK, StepInv, FilesInv, Safe, Untouched, Undoable, Unresolved,
     installUploadedFileFails, moveToBackup, moveTempToFinal
<1>16. CASE RecordFileFails
  BY <1>0, <1>16 DEF TypeOK, StepInv, FilesInv, Safe, Untouched, Undoable, Unresolved,
     RecordFileFails
<1>17. CASE markUploadDatabaseReadyFails
  BY <1>0, <1>17 DEF TypeOK, StepInv, FilesInv, Safe, Untouched, Undoable, Unresolved,
     markUploadDatabaseReadyFails
<1>18. CASE cleanupFails
  BY <1>0, <1>18 DEF TypeOK, StepInv, FilesInv, Safe, Untouched, Undoable, Unresolved,
     cleanupFails, removeBackup
<1>19. CASE rollbackFails
  BY <1>0, <1>19 DEF TypeOK, StepInv, FilesInv, Safe, Untouched, Undoable, Unresolved,
     rollbackFails, undoEffect
<1>20. CASE recoveryFails
  BY <1>0, <1>20 DEF TypeOK, StepInv, FilesInv, Safe, Untouched, Undoable, Unresolved, recoveryFails
<1>21. ASSUME NEW u \in Uploads, cleanupUploadRecoveryArtifacts(u)  PROVE Safe(promised)'
  BY <1>0, <1>21 DEF TypeOK, StepInv, FilesInv, Safe, Untouched, Undoable, Unresolved,
     cleanupUploadRecoveryArtifacts, Orphans
<1>22. ASSUME NEW u \in Uploads, recoverPlanned(u)  PROVE Safe(promised)'
  BY <1>0, <1>22 DEF TypeOK, StepInv, FilesInv, Safe, Untouched, Undoable, Unresolved,
     recoverPlanned, Examine, plannedStateAbnormal
<1>23. ASSUME NEW u \in Uploads, recoverPrepared(u)  PROVE Safe(promised)'
  BY <1>0, <1>23 DEF TypeOK, StepInv, FilesInv, Safe, Untouched, Undoable, Unresolved,
     recoverPrepared, Examine, canComplete, canRollback, Matches
<1>24. ASSUME NEW u \in Uploads, recoverRefuses(u)  PROVE Safe(promised)'
  BY <1>0, <1>24 DEF TypeOK, StepInv, FilesInv, Safe, Untouched, Undoable, Unresolved,
     recoverRefuses, Examine
<1>25. CASE recoveryDone
  BY <1>0, <1>25 DEF TypeOK, StepInv, FilesInv, Safe, Untouched, Undoable, Unresolved, recoveryDone
<1>26. CASE Crash
  BY <1>0, <1>26 DEF TypeOK, StepInv, FilesInv, Safe, Untouched, Undoable, Unresolved, Crash
<1>27. CASE Shutdown
  BY <1>0, <1>27 DEF TypeOK, StepInv, FilesInv, Safe, Untouched, Undoable, Unresolved, Shutdown
<1>28. CASE Restart
  BY <1>0, <1>28 DEF TypeOK, StepInv, FilesInv, Safe, Untouched, Undoable, Unresolved, Restart
<1>29. CASE UNCHANGED vars
  BY <1>0, <1>29 DEF TypeOK, StepInv, FilesInv, Safe, Untouched, Undoable, Unresolved, vars
<1> QED
  BY <1>1, <1>2, <1>3, <1>4, <1>5, <1>6, <1>7, <1>8, <1>9, <1>10, <1>11, <1>12, <1>13, <1>14, <1>15,
     <1>16, <1>17, <1>18, <1>19, <1>20, <1>21, <1>22, <1>23, <1>24, <1>25, <1>26, <1>27, <1>28, <1>29
  DEF Next, UploadStep, FailedCall, RecoveryStep

\* No step leaves the row behind the file it describes.
LEMMA RowStep == IInv /\ [Next]_vars => RowInv'
<1> SUFFICES ASSUME IInv, [Next]_vars  PROVE RowInv'
  OBVIOUS
<1> USE UploadNumbers, BoundsAssumption DEF At, Goto, Running, Fail, Return, ReturnError, disk,
   journal, history, Fresh, Undo, Unlink
<1>0. TypeOK /\ StepInv /\ FilesInv /\ RowInv /\ (step # "idle" => cur \in Uploads) /\ begun \in Nat
  BY CurrentUpload, BoundsAssumption DEF IInv, TypeOK
<1>1. ASSUME NEW overwrite \in BOOLEAN, Begin(overwrite)  PROVE RowInv'
  BY <1>0, <1>1 DEF TypeOK, StepInv, FilesInv, RowInv, RowReturns, Holding, Untouched, Undoable,
     Unresolved, Begin, Uploads
<1>2. CASE writeUploadOperation
  BY <1>0, <1>2 DEF TypeOK, StepInv, FilesInv, RowInv, RowReturns, Holding, Untouched, Undoable,
     Unresolved, writeUploadOperation
<1>3. CASE writeUploadTempAt
  BY <1>0, <1>3 DEF TypeOK, StepInv, FilesInv, RowInv, RowReturns, Holding, Untouched, Undoable,
     Unresolved, writeUploadTempAt
<1>4. CASE writePreparedUploadOperation
  BY <1>0, <1>4 DEF TypeOK, StepInv, FilesInv, RowInv, RowReturns, Holding, Untouched, Undoable,
     Unresolved, writePreparedUploadOperation
<1>5. CASE dropTemp
  BY <1>0, <1>5 DEF TypeOK, StepInv, FilesInv, RowInv, RowReturns, Holding, Untouched, Undoable,
     Unresolved, dropTemp
<1>6. CASE installUploadedFile
  BY <1>0, <1>6 DEF TypeOK, StepInv, FilesInv, RowInv, RowReturns, Holding, Untouched, Undoable,
     Unresolved, installUploadedFile, moveToBackup, moveTempToFinal
<1>7. CASE RecordFile
  BY <1>0, <1>7 DEF TypeOK, StepInv, FilesInv, RowInv, RowReturns, Holding, Untouched, Undoable,
     Unresolved, RecordFile
<1>8. CASE markUploadDatabaseReady
  BY <1>0, <1>8 DEF TypeOK, StepInv, FilesInv, RowInv, RowReturns, Holding, Untouched, Undoable,
     Unresolved, markUploadDatabaseReady
<1>9. CASE finishUploadOperation
  BY <1>0, <1>9 DEF TypeOK, StepInv, FilesInv, RowInv, RowReturns, Holding, Untouched, Undoable,
     Unresolved, finishUploadOperation, removeBackup
<1>10. CASE removeUploadJournal
  BY <1>0, <1>10 DEF TypeOK, StepInv, FilesInv, RowInv, RowReturns, Holding, Untouched, Undoable,
     Unresolved, removeUploadJournal
<1>11. CASE rollbackUploadOperation
  BY <1>0, <1>11 DEF TypeOK, StepInv, FilesInv, RowInv, RowReturns, Holding, Untouched, Undoable,
     Unresolved, rollbackUploadOperation, undoEffect
<1>12. CASE writeUploadOperationFails
  BY <1>0, <1>12 DEF TypeOK, StepInv, FilesInv, RowInv, RowReturns, Holding, Untouched, Undoable,
     Unresolved, writeUploadOperationFails
<1>13. CASE writeUploadTempAtFails
  BY <1>0, <1>13 DEF TypeOK, StepInv, FilesInv, RowInv, RowReturns, Holding, Untouched, Undoable,
     Unresolved, writeUploadTempAtFails
<1>14. CASE writePreparedUploadOperationFails
  BY <1>0, <1>14 DEF TypeOK, StepInv, FilesInv, RowInv, RowReturns, Holding, Untouched, Undoable,
     Unresolved, writePreparedUploadOperationFails
<1>15. CASE installUploadedFileFails
  BY <1>0, <1>15 DEF TypeOK, StepInv, FilesInv, RowInv, RowReturns, Holding, Untouched, Undoable,
     Unresolved, installUploadedFileFails, moveToBackup, moveTempToFinal
<1>16. CASE RecordFileFails
  BY <1>0, <1>16 DEF TypeOK, StepInv, FilesInv, RowInv, RowReturns, Holding, Untouched, Undoable,
     Unresolved, RecordFileFails
<1>17. CASE markUploadDatabaseReadyFails
  BY <1>0, <1>17 DEF TypeOK, StepInv, FilesInv, RowInv, RowReturns, Holding, Untouched, Undoable,
     Unresolved, markUploadDatabaseReadyFails
<1>18. CASE cleanupFails
  BY <1>0, <1>18 DEF TypeOK, StepInv, FilesInv, RowInv, RowReturns, Holding, Untouched, Undoable,
     Unresolved, cleanupFails, removeBackup
<1>19. CASE rollbackFails
  BY <1>0, <1>19 DEF TypeOK, StepInv, FilesInv, RowInv, RowReturns, Holding, Untouched, Undoable,
     Unresolved, rollbackFails, undoEffect
<1>20. CASE recoveryFails
  BY <1>0, <1>20 DEF TypeOK, StepInv, FilesInv, RowInv, RowReturns, Holding, Untouched, Undoable,
     Unresolved, recoveryFails
<1>21. ASSUME NEW u \in Uploads, cleanupUploadRecoveryArtifacts(u)  PROVE RowInv'
  BY <1>0, <1>21 DEF TypeOK, StepInv, FilesInv, RowInv, RowReturns, Holding, Untouched, Undoable,
     Unresolved, cleanupUploadRecoveryArtifacts, Orphans
<1>22. ASSUME NEW u \in Uploads, recoverPlanned(u)  PROVE RowInv'
  BY <1>0, <1>22 DEF TypeOK, StepInv, FilesInv, RowInv, RowReturns, Holding, Untouched, Undoable,
     Unresolved, recoverPlanned, Examine, plannedStateAbnormal
<1>23. ASSUME NEW u \in Uploads, recoverPrepared(u)  PROVE RowInv'
  BY <1>0, <1>23 DEF TypeOK, StepInv, FilesInv, RowInv, RowReturns, Holding, Untouched, Undoable,
     Unresolved, recoverPrepared, Examine, canComplete, canRollback, Matches
<1>24. ASSUME NEW u \in Uploads, recoverRefuses(u)  PROVE RowInv'
  BY <1>0, <1>24 DEF TypeOK, StepInv, FilesInv, RowInv, RowReturns, Holding, Untouched, Undoable,
     Unresolved, recoverRefuses, Examine
<1>25. CASE recoveryDone
  BY <1>0, <1>25 DEF TypeOK, StepInv, FilesInv, RowInv, RowReturns, Holding, Untouched, Undoable,
     Unresolved, recoveryDone
<1>26. CASE Crash
  BY <1>0, <1>26 DEF TypeOK, StepInv, FilesInv, RowInv, RowReturns, Holding, Untouched, Undoable,
     Unresolved, Crash
<1>27. CASE Shutdown
  BY <1>0, <1>27 DEF TypeOK, StepInv, FilesInv, RowInv, RowReturns, Holding, Untouched, Undoable,
     Unresolved, Shutdown
<1>28. CASE Restart
  BY <1>0, <1>28 DEF TypeOK, StepInv, FilesInv, RowInv, RowReturns, Holding, Untouched, Undoable,
     Unresolved, Restart
<1>29. CASE UNCHANGED vars
  BY <1>0, <1>29 DEF TypeOK, StepInv, FilesInv, RowInv, RowReturns, Holding, Untouched, Undoable,
     Unresolved, vars
<1> QED
  BY <1>1, <1>2, <1>3, <1>4, <1>5, <1>6, <1>7, <1>8, <1>9, <1>10, <1>11, <1>12, <1>13, <1>14, <1>15,
     <1>16, <1>17, <1>18, <1>19, <1>20, <1>21, <1>22, <1>23, <1>24, <1>25, <1>26, <1>27, <1>28, <1>29
  DEF Next, UploadStep, FailedCall, RecoveryStep

\* A state that one crash leaves behind stays recoverable.
LEMMA CrashStep == IInv /\ CrashInv /\ [Next]_vars => CrashInv'
<1> SUFFICES ASSUME IInv, CrashInv, [Next]_vars  PROVE CrashInv'
  OBVIOUS
<1> USE UploadNumbers, BoundsAssumption DEF At, Goto, Running, Fail, Return, ReturnError, disk,
   journal, history, Fresh, Undo, Unlink
<1>0. TypeOK /\ StepInv /\ FilesInv /\ CrashInv /\ (step # "idle" => cur \in Uploads) /\ begun \in Nat
  BY CurrentUpload, BoundsAssumption DEF IInv, TypeOK
<1>1. ASSUME NEW overwrite \in BOOLEAN, Begin(overwrite)  PROVE CrashInv'
  BY <1>0, <1>1 DEF TypeOK, StepInv, FilesInv, CrashInv, Recoverable, canComplete, canRollback,
     plannedStateAbnormal, Matches, Untouched, Undoable, Unresolved, Begin, Uploads
<1>2. CASE writeUploadOperation
  BY <1>0, <1>2 DEF TypeOK, StepInv, FilesInv, CrashInv, Recoverable, canComplete, canRollback,
     plannedStateAbnormal, Matches, Untouched, Undoable, Unresolved, writeUploadOperation
<1>3. CASE writeUploadTempAt
  BY <1>0, <1>3 DEF TypeOK, StepInv, FilesInv, CrashInv, Recoverable, canComplete, canRollback,
     plannedStateAbnormal, Matches, Untouched, Undoable, Unresolved, writeUploadTempAt
<1>4. CASE writePreparedUploadOperation
  BY <1>0, <1>4 DEF TypeOK, StepInv, FilesInv, CrashInv, Recoverable, canComplete, canRollback,
     plannedStateAbnormal, Matches, Untouched, Undoable, Unresolved, writePreparedUploadOperation
<1>5. CASE dropTemp
  BY <1>0, <1>5 DEF TypeOK, StepInv, FilesInv, CrashInv, Recoverable, canComplete, canRollback,
     plannedStateAbnormal, Matches, Untouched, Undoable, Unresolved, dropTemp
<1>6. CASE installUploadedFile
  BY <1>0, <1>6 DEF TypeOK, StepInv, FilesInv, CrashInv, Recoverable, canComplete, canRollback,
     plannedStateAbnormal, Matches, Untouched, Undoable, Unresolved, installUploadedFile, moveToBackup, moveTempToFinal
<1>7. CASE RecordFile
  BY <1>0, <1>7 DEF TypeOK, StepInv, FilesInv, CrashInv, Recoverable, canComplete, canRollback,
     plannedStateAbnormal, Matches, Untouched, Undoable, Unresolved, RecordFile
<1>8. CASE markUploadDatabaseReady
  BY <1>0, <1>8 DEF TypeOK, StepInv, FilesInv, CrashInv, Recoverable, canComplete, canRollback,
     plannedStateAbnormal, Matches, Untouched, Undoable, Unresolved, markUploadDatabaseReady
<1>9. CASE finishUploadOperation
  BY <1>0, <1>9 DEF TypeOK, StepInv, FilesInv, CrashInv, Recoverable, canComplete, canRollback,
     plannedStateAbnormal, Matches, Untouched, Undoable, Unresolved, finishUploadOperation, removeBackup
<1>10. CASE removeUploadJournal
  BY <1>0, <1>10 DEF TypeOK, StepInv, FilesInv, CrashInv, Recoverable, canComplete, canRollback,
     plannedStateAbnormal, Matches, Untouched, Undoable, Unresolved, removeUploadJournal
<1>11. CASE rollbackUploadOperation
  <2>1. CASE mode = "serving"
    BY <1>0, <1>11, <2>1 DEF CrashInv, rollbackUploadOperation, undoEffect
  <2>2. CASE mode = "recovering"
    <3>1. step # "idle" /\ step' # "idle" /\ mode' = mode /\ UNCHANGED <<cur, plan, failures, crashes>>
      BY <1>0, <1>11, <2>2 DEF StepInv, rollbackUploadOperation, undoEffect, undoNext
    <3> QED  BY <1>0, <2>2, <3>1 DEF CrashInv
  <2> QED  BY <1>11, <2>1, <2>2 DEF rollbackUploadOperation
<1>12. CASE writeUploadOperationFails
  BY <1>0, <1>12 DEF TypeOK, StepInv, FilesInv, CrashInv, Recoverable, canComplete, canRollback,
     plannedStateAbnormal, Matches, Untouched, Undoable, Unresolved, writeUploadOperationFails
<1>13. CASE writeUploadTempAtFails
  BY <1>0, <1>13 DEF TypeOK, StepInv, FilesInv, CrashInv, Recoverable, canComplete, canRollback,
     plannedStateAbnormal, Matches, Untouched, Undoable, Unresolved, writeUploadTempAtFails
<1>14. CASE writePreparedUploadOperationFails
  BY <1>0, <1>14 DEF TypeOK, StepInv, FilesInv, CrashInv, Recoverable, canComplete, canRollback,
     plannedStateAbnormal, Matches, Untouched, Undoable, Unresolved, writePreparedUploadOperationFails
<1>15. CASE installUploadedFileFails
  BY <1>0, <1>15 DEF TypeOK, StepInv, FilesInv, CrashInv, Recoverable, canComplete, canRollback,
     plannedStateAbnormal, Matches, Untouched, Undoable, Unresolved, installUploadedFileFails, moveToBackup, moveTempToFinal
<1>16. CASE RecordFileFails
  BY <1>0, <1>16 DEF TypeOK, StepInv, FilesInv, CrashInv, Recoverable, canComplete, canRollback,
     plannedStateAbnormal, Matches, Untouched, Undoable, Unresolved, RecordFileFails
<1>17. CASE markUploadDatabaseReadyFails
  BY <1>0, <1>17 DEF TypeOK, StepInv, FilesInv, CrashInv, Recoverable, canComplete, canRollback,
     plannedStateAbnormal, Matches, Untouched, Undoable, Unresolved, markUploadDatabaseReadyFails
<1>18. CASE cleanupFails
  BY <1>0, <1>18 DEF TypeOK, StepInv, FilesInv, CrashInv, Recoverable, canComplete, canRollback,
     plannedStateAbnormal, Matches, Untouched, Undoable, Unresolved, cleanupFails, removeBackup
<1>19. CASE rollbackFails
  BY <1>0, <1>19 DEF TypeOK, StepInv, FilesInv, CrashInv, Recoverable, canComplete, canRollback,
     plannedStateAbnormal, Matches, Untouched, Undoable, Unresolved, rollbackFails, undoEffect
<1>20. CASE recoveryFails
  BY <1>0, <1>20 DEF TypeOK, StepInv, FilesInv, CrashInv, Recoverable, canComplete, canRollback,
     plannedStateAbnormal, Matches, Untouched, Undoable, Unresolved, recoveryFails
<1>21. ASSUME NEW u \in Uploads, cleanupUploadRecoveryArtifacts(u)  PROVE CrashInv'
  BY <1>0, <1>21 DEF TypeOK, StepInv, FilesInv, CrashInv, Recoverable, canComplete, canRollback,
     plannedStateAbnormal, Matches, Untouched, Undoable, Unresolved, cleanupUploadRecoveryArtifacts, Orphans
<1>22. ASSUME NEW u \in Uploads, recoverPlanned(u)  PROVE CrashInv'
  BY <1>0, <1>22 DEF TypeOK, StepInv, FilesInv, CrashInv, Recoverable, canComplete, canRollback,
     plannedStateAbnormal, Matches, Untouched, Undoable, Unresolved, recoverPlanned, Examine, plannedStateAbnormal
<1>23. ASSUME NEW u \in Uploads, recoverPrepared(u)  PROVE CrashInv'
  BY <1>0, <1>23 DEF TypeOK, StepInv, FilesInv, CrashInv, Recoverable, canComplete, canRollback,
     plannedStateAbnormal, Matches, Untouched, Undoable, Unresolved, recoverPrepared, Examine, canComplete, canRollback, Matches
<1>24. ASSUME NEW u \in Uploads, recoverRefuses(u)  PROVE CrashInv'
  BY <1>0, <1>24 DEF TypeOK, StepInv, FilesInv, CrashInv, Recoverable, canComplete, canRollback,
     plannedStateAbnormal, Matches, Untouched, Undoable, Unresolved, recoverRefuses, Examine
<1>25. CASE recoveryDone
  BY <1>0, <1>25 DEF TypeOK, StepInv, FilesInv, CrashInv, Recoverable, canComplete, canRollback,
     plannedStateAbnormal, Matches, Untouched, Undoable, Unresolved, recoveryDone
<1>26. CASE Crash
  BY <1>0, <1>26 DEF TypeOK, StepInv, FilesInv, CrashInv, Recoverable, canComplete, canRollback,
     plannedStateAbnormal, Matches, Untouched, Undoable, Unresolved, Crash
<1>27. CASE Shutdown
  BY <1>0, <1>27 DEF TypeOK, StepInv, FilesInv, CrashInv, Recoverable, canComplete, canRollback,
     plannedStateAbnormal, Matches, Untouched, Undoable, Unresolved, Shutdown
<1>28. CASE Restart
  BY <1>0, <1>28 DEF TypeOK, StepInv, FilesInv, CrashInv, Recoverable, canComplete, canRollback,
     plannedStateAbnormal, Matches, Untouched, Undoable, Unresolved, Restart
<1>29. CASE UNCHANGED vars
  BY <1>0, <1>29 DEF TypeOK, StepInv, FilesInv, CrashInv, Recoverable, canComplete, canRollback,
     plannedStateAbnormal, Matches, Untouched, Undoable, Unresolved, vars
<1> QED
  BY <1>1, <1>2, <1>3, <1>4, <1>5, <1>6, <1>7, <1>8, <1>9, <1>10, <1>11, <1>12, <1>13, <1>14, <1>15,
     <1>16, <1>17, <1>18, <1>19, <1>20, <1>21, <1>22, <1>23, <1>24, <1>25, <1>26, <1>27, <1>28, <1>29
  DEF Next, UploadStep, FailedCall, RecoveryStep

\* The initial states satisfy the invariants.
LEMMA InitInv == Init => IInv /\ CrashInv
<1> SUFFICES ASSUME Init  PROVE IInv /\ CrashInv
  OBVIOUS
<1> USE UploadNumbers, BoundsAssumption DEF Init
<1>1. TypeOK
  BY DEF TypeOK, Content
<1>2. StepInv /\ FilesInv
  BY DEF StepInv, FilesInv, Fresh, Undo, Unlink, Content, Uploads
<1>3. Safe(promised) /\ RowInv /\ CrashInv
  BY DEF Safe, RowInv, RowReturns, Holding, Unresolved, CrashInv, Undo, Unlink
<1> QED  BY <1>1, <1>2, <1>3 DEF IInv

-----------------------------------------------------------------------------
\* The invariant holds in every reachable state.
THEOREM UploadInvariant == Spec => []IInv
<1>1. Init => IInv
  BY InitInv
<1>2. IInv /\ [Next]_vars => IInv'
  BY TypeStep, StepsStep, FilesStep, SafeStep, RowStep DEF IInv
<1> QED  BY <1>1, <1>2, PTL DEF Spec

\* What a client was told is stored is never lost: it is at the path, in the
\* backup of a journaled upload or superseded, and when nothing is pending the
\* ledger row describes exactly the file at the path.
THEOREM AckedStaysStored == Spec => []AckedSurvives
<1>1. IInv => AckedSurvives
  <2> SUFFICES ASSUME IInv  PROVE AckedSurvives
    OBVIOUS
  <2> USE UploadNumbers, BoundsAssumption
  <2>1. final >= promised \/ \E u \in plan : backup[u] >= promised
    BY DEF IInv, Safe, Unresolved, TypeOK
  <2>2. ASSUME Quiet, Unresolved = {}  PROVE final >= promised /\ record = final
    BY <2>2 DEF IInv, Safe, RowInv, RowReturns, Holding, Quiet, TypeOK
  <2> QED  BY <2>1, <2>2 DEF AckedSurvives
<1> QED  BY <1>1, UploadInvariant, PTL

\* UploadWithLockTokens and its recovery never forget a file they moved aside,
\* and a temporary file without a plan is one whose removal failed.
THEOREM NothingOrphaned == Spec => []NoOrphans
<1>1. IInv => NoOrphans
  BY DEF IInv, FilesInv, NoOrphans, TypeOK
<1> QED  BY <1>1, UploadInvariant, PTL

\* RecoverFileUploadOperations never refuses to start after a single crash
\* without failing calls, wherever that crash came.
THEOREM OneCrashIsSurvived == Spec => []OneCrashStartsUp
<1>1. Init => CrashInv
  BY InitInv
<1>2. IInv /\ CrashInv /\ [Next]_vars => CrashInv'
  BY CrashStep
<1>3. IInv /\ CrashInv => OneCrashStartsUp
  BY BoundsAssumption DEF IInv, TypeOK, StepInv, CrashInv, OneCrashStartsUp
<1> QED  BY <1>1, <1>2, <1>3, UploadInvariant, PTL DEF Spec

\* Only the end of a committed upload tells the client success.
LEMMA SuccessStep ==
  IInv /\ [Next]_vars =>
    (promised' # promised => /\ final' = promised' /\ record' = promised'
                             /\ promised' \in plan' => promised' \in ready')
<1> SUFFICES ASSUME IInv, [Next]_vars, promised' # promised
             PROVE  /\ final' = promised' /\ record' = promised'
                    /\ promised' \in plan' => promised' \in ready'
  OBVIOUS
<1> USE DEF At, Goto, Running, Fail, Return, ReturnError, disk, journal, history
<1>1. CASE removeUploadJournal
  BY <1>1 DEF IInv, StepInv, Unlink, removeUploadJournal
<1>2. CASE cleanupFails
  BY <1>2 DEF IInv, StepInv, Unlink, cleanupFails, removeBackup
<1>3. UNCHANGED promised \/ removeUploadJournal \/ cleanupFails
  <2>1. ASSUME NEW overwrite \in BOOLEAN, Begin(overwrite)  PROVE UNCHANGED promised
    BY <2>1 DEF Begin
  <2>2. CASE UploadStep
    BY <2>2 DEF UploadStep, writeUploadOperation, writeUploadTempAt,
       writePreparedUploadOperation, dropTemp,
       installUploadedFile, RecordFile, markUploadDatabaseReady, finishUploadOperation, rollbackUploadOperation
  <2>3. CASE FailedCall
    BY <2>3 DEF FailedCall, writeUploadOperationFails, writeUploadTempAtFails,
       writePreparedUploadOperationFails,
       installUploadedFileFails, RecordFileFails, markUploadDatabaseReadyFails, rollbackFails, recoveryFails
  <2>4. CASE RecoveryStep
    BY <2>4 DEF RecoveryStep, cleanupUploadRecoveryArtifacts, recoverPlanned, recoverPrepared,
       recoverRefuses,
       recoveryDone
  <2>5. CASE Crash \/ Shutdown \/ Restart \/ UNCHANGED vars
    BY <2>5 DEF Crash, Shutdown, Restart, vars
  <2> QED  BY <2>1, <2>2, <2>3, <2>4, <2>5 DEF Next
<1> QED  BY <1>1, <1>2, <1>3

\* Success is reported only for content that is on disk and in the ledger, and
\* whose journal, if it is still there, is marked as committed.
THEOREM SuccessMeansCommitted == Spec => SuccessIsCommitted
<1> DEFINE Committed == promised' # promised => /\ final' = promised' /\ record' = promised'
                                                /\ promised' \in plan' => promised' \in ready'
<1>1. IInv /\ [Next]_vars => [Committed]_vars
  BY SuccessStep
<1> QED  BY <1>1, UploadInvariant, PTL DEF Spec, SuccessIsCommitted
=============================================================================
