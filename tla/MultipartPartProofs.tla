------------------------ MODULE MultipartPartProofs ------------------------
(***************************************************************************)
(* Proofs about MultipartPart: the part the database lists can be had      *)
(* (RecordedPartUsable), an acknowledged part is never taken back          *)
(* (AckedStays), and start-up refuses only where equal contents hide which *)
(* part a file is (RefusalNeedsEqualContent), for every set of contents    *)
(* and any number of attempts, crashes and failing calls.                  *)
(*                                                                         *)
(* The three are not inductive: whether a step may take a file away        *)
(* depends on what the journal says of the files (Layout) and on what the  *)
(* steps before it established (StepInv), and a recovery picks the journal *)
(* up in whatever state the crash left (FilesInv).                         *)
(***************************************************************************)
EXTENDS MultipartPart, TLAPS

\* What has happened before the journal is written.
Early == {"receive", "checkPrevious", "dropStale", "writeJournal"}
Clean == {"dropTemp", "dropBackup", "unlink"}
Undo == {"undoCheck", "undoTemp", "undoFinal", "undoRestore", "undoUnlink"}

\* Attempts are numbered in the order they were received.
NumberInv ==
  /\ row.at <= attempts
  /\ journal # NoOp => /\ journal.new # NoRow /\ journal.new.at <= attempts
                       /\ journal.previous.at < journal.new.at
  /\ by = "UploadPart" => op.new # NoRow

\* Who can hold the lock, at which steps, and what it has read.
HolderInv ==
  /\ mode \in {"down", "refused"} => by = "nobody"
  /\ mode = "recovering" => by \in {"nobody", "resolve"}
  /\ by = "UploadPart" =>
       /\ step \in Early \cup {"backup", "install", "commit"} \cup Clean \cup Undo
       /\ step \in Early => journal = NoOp /\ row.at < op.new.at
       /\ step \notin Early => journal = op
  /\ by = "resolve" =>
       /\ step \in {"resolve", "removeDir", "unlinkError", "commit"} \cup Clean \cup Undo
       /\ journal = op /\ journal # NoOp
       /\ step \in {"removeDir", "unlinkError"} => ~upload
       /\ step \notin {"resolve", "removeDir", "unlink", "unlinkError"} => upload
  /\ by = "Abort" => ~upload /\ step \in {"removeDir", "unlink", "unlinkError"}
  /\ by = "CleanupExpired" => ~upload /\ step = "removeDir"

\* The part files while the operation j is not committed: the stored part is in
\* place, or aside with the new one in its place or not yet there.
Layout(j) ==
  IF j.previous = NoRow THEN backup = Absent /\ final \in {Absent, j.new.content}
  ELSE \/ final = j.previous.content /\ backup = Absent
       \/ final \in {Absent, j.new.content} /\ backup = j.previous.content

\* What the row says of the files, and the journal of the row.
FilesInv ==
  /\ journal = NoOp /\ row # NoRow => final = row.content
  /\ journal # NoOp /\ upload => \/ row = journal.new /\ final = row.content
                                 \/ row = journal.previous /\ Layout(journal)
  /\ journal # NoOp => temp[journal.new.at] \in {Absent, journal.new.content}

\* What each step may rely on.
StepInv ==
  /\ step \in Early \ {"receive"} => temp_ = op.new.content
  /\ step \in {"dropStale", "writeJournal"} => op.previous = row /\ (row = NoRow => final = Absent)
  /\ step = "writeJournal" => backup = Absent
  /\ step = "backup" => row = op.previous /\ row # NoRow /\ final = row.content
  /\ step = "backup" => backup = Absent /\ temp_ = op.new.content
  /\ step = "install" => row = op.previous /\ final = Absent /\ temp_ = op.new.content
  /\ step = "commit" => row = op.previous /\ final = op.new.content
  /\ step \in Clean /\ upload => row = op.new
  /\ step \in Undo => row = op.previous
  /\ step = "undoTemp" => ~unsafeRollback
  /\ step = "undoFinal" => op.previous = NoRow \/ backup # Absent
  /\ step = "undoRestore" => backup # Absent /\ final = Absent
  /\ step = "undoUnlink" => backup = Absent /\ (row = NoRow => final = Absent)

IInv == TypeOK /\ NumberInv /\ HolderInv /\ FilesInv /\ StepInv /\ AckedStays
        /\ RefusalNeedsEqualContent

\* A part that is being received has a number and a content.
LEMMA CurrentPart ==
  TypeOK /\ NumberInv =>
    /\ NoOp \in Operations /\ [op EXCEPT !.previous = row] \in Operations
    /\ op.new \in Rows /\ op.new.content \in Contents \cup {Absent}
    /\ \A c \in Contents \cup {Absent} :
         [temp EXCEPT ![op.new.at] = c] \in [Attempts -> Contents \cup {Absent}]
    /\ by = "UploadPart" => op.new.at \in Attempts
    /\ op.new.at \in Attempts => temp_ \in Contents \cup {Absent}
<1> SUFFICES ASSUME TypeOK, NumberInv
             PROVE  /\ NoOp \in Operations /\ [op EXCEPT !.previous = row] \in Operations
                    /\ op.new \in Rows /\ op.new.content \in Contents \cup {Absent}
                    /\ \A c \in Contents \cup {Absent} :
                         [temp EXCEPT ![op.new.at] = c] \in [Attempts -> Contents \cup {Absent}]
                    /\ by = "UploadPart" => op.new.at \in Attempts
                    /\ op.new.at \in Attempts => temp_ \in Contents \cup {Absent}
  OBVIOUS
<1>1. op \in Operations /\ row \in Rows /\ temp \in [Attempts -> Contents \cup {Absent}]
  BY DEF TypeOK
<1>2. NoOp \in Operations /\ [op EXCEPT !.previous = row] \in Operations
  BY <1>1 DEF NoOp, Operations, Rows
<1>3. op.new \in Rows
  BY <1>1 DEF Operations
<1>4. op.new.content \in Contents \cup {Absent} /\ (op.new # NoRow => op.new.at \in Attempts)
  BY <1>3 DEF Rows, NoRow
<1>5. by = "UploadPart" => op.new # NoRow
  BY DEF NumberInv
<1> QED  BY <1>1, <1>2, <1>3, <1>4, <1>5 DEF temp_

\* Each step keeps the types.
LEMMA TypeStep == IInv /\ [Next]_vars => TypeOK'
<1> SUFFICES ASSUME IInv, [Next]_vars  PROVE TypeOK'
  OBVIOUS
<1> USE ContentsAssumption, BoundsAssumption DEF At, Goto, Running, Idle, Fail, Release,
   ReturnError, Refuse, Finish, files, data, counts, Attempts, Rows, Operations, NoRow, NoOp,
   temp_, dropTemp_, finalIsNew,
   TypeOK
<1>0. TypeOK /\ NumberInv /\ HolderInv /\ FilesInv /\ StepInv
  BY DEF IInv
<1>1. ASSUME NEW c \in Contents, UploadPart(c)  PROVE TypeOK'
  BY <1>0, <1>1 DEF UploadPart
<1>2. CASE resolvePending
  BY <1>0, <1>2 DEF resolvePending
<1>3. CASE receiveBody
  <2>1. temp' \in [Attempts -> Contents \cup {Absent}]
    BY <1>0, CurrentPart, <1>3 DEF HolderInv, Early, receiveBody
  <2>2. final' \in Contents \cup {Absent} /\ backup' \in Contents \cup {Absent}
    BY <1>0, CurrentPart, <1>3 DEF HolderInv, Early, StepInv, receiveBody
  <2>3. op' \in Operations /\ journal' \in Operations /\ row' \in Rows
    <3> HIDE DEF Operations, Rows, NoOp
    <3> QED  BY <1>0, CurrentPart, <1>3 DEF receiveBody
  <2>4. (by' = "UploadPart" => op'.new = op.new) /\ (~upload' => row' = NoRow)
    BY <1>0, <1>3 DEF HolderInv, receiveBody
  <2> HIDE DEF Operations, Rows, NoOp
  <2> QED  BY <1>0, <2>1, <2>2, <2>3, <2>4, <1>3 DEF receiveBody
<1>4. CASE checkPrevious
  <2>1. temp' \in [Attempts -> Contents \cup {Absent}]
    BY <1>0, CurrentPart, <1>4 DEF HolderInv, Early, checkPrevious
  <2>2. final' \in Contents \cup {Absent} /\ backup' \in Contents \cup {Absent}
    BY <1>0, CurrentPart, <1>4 DEF HolderInv, Early, StepInv, checkPrevious
  <2>3. op' \in Operations /\ journal' \in Operations /\ row' \in Rows
    <3> HIDE DEF Operations, Rows, NoOp
    <3> QED  BY <1>0, CurrentPart, <1>4 DEF checkPrevious
  <2>4. (by' = "UploadPart" => op'.new = op.new) /\ (~upload' => row' = NoRow)
    BY <1>0, <1>4 DEF HolderInv, checkPrevious
  <2> HIDE DEF Operations, Rows, NoOp
  <2> QED  BY <1>0, <2>1, <2>2, <2>3, <2>4, <1>4 DEF checkPrevious
<1>5. CASE dropStaleBackup
  BY <1>0, <1>5 DEF dropStaleBackup
<1>6. CASE writeMultipartPartOperation
  BY <1>0, <1>6 DEF writeMultipartPartOperation
<1>7. CASE installPart
  <2>1. temp' \in [Attempts -> Contents \cup {Absent}]
    BY <1>0, CurrentPart, <1>7 DEF HolderInv, Early, installPart, moveToBackup, moveTempToFinal
  <2>2. final' \in Contents \cup {Absent} /\ backup' \in Contents \cup {Absent}
    BY <1>0, CurrentPart, <1>7 DEF HolderInv, Early, StepInv, installPart, moveToBackup,
       moveTempToFinal
  <2>3. op' \in Operations /\ journal' \in Operations /\ row' \in Rows
    <3> HIDE DEF Operations, Rows, NoOp
    <3> QED  BY <1>0, CurrentPart, <1>7 DEF installPart, moveToBackup, moveTempToFinal
  <2>4. (by' = "UploadPart" => op'.new = op.new) /\ (~upload' => row' = NoRow)
    BY <1>0, <1>7 DEF HolderInv, installPart, moveToBackup, moveTempToFinal
  <2> HIDE DEF Operations, Rows, NoOp
  <2> QED  BY <1>0, <2>1, <2>2, <2>3, <2>4, <1>7 DEF installPart, moveToBackup, moveTempToFinal
<1>8. CASE commitMultipartPartOperation
  <2>1. temp' \in [Attempts -> Contents \cup {Absent}]
    BY <1>0, CurrentPart, <1>8 DEF HolderInv, Early, commitMultipartPartOperation
  <2>2. final' \in Contents \cup {Absent} /\ backup' \in Contents \cup {Absent}
    BY <1>0, CurrentPart, <1>8 DEF HolderInv, Early, StepInv, commitMultipartPartOperation
  <2>3. op' \in Operations /\ journal' \in Operations /\ row' \in Rows
    <3> HIDE DEF Operations, Rows, NoOp
    <3> QED  BY <1>0, CurrentPart, <1>8 DEF commitMultipartPartOperation
  <2>4. (by' = "UploadPart" => op'.new = op.new) /\ (~upload' => row' = NoRow)
    BY <1>0, <1>8 DEF HolderInv, commitMultipartPartOperation
  <2> HIDE DEF Operations, Rows, NoOp
  <2> QED  BY <1>0, <2>1, <2>2, <2>3, <2>4, <1>8 DEF commitMultipartPartOperation
<1>9. CASE rollbackCheck
  BY <1>0, <1>9 DEF rollbackCheck, unsafeRollback
<1>10. CASE clearFiles
  <2>1. CASE step \in {"dropTemp", "undoTemp"}
    <3>1. temp' \in [Attempts -> Contents \cup {Absent}]
      BY <1>0, CurrentPart, <1>10, <2>1 DEF HolderInv, clearFiles, removal, undoAfterTemp
    <3> QED  BY <1>0, <1>10, <2>1, <3>1 DEF clearFiles, removal, undoAfterTemp
  <2>2. CASE step = "undoRestore"
    BY <1>0, <1>10, <2>2 DEF clearFiles, removal, undoAfterTemp
  <2>3. CASE step \in {"dropBackup", "undoFinal"}
    BY <1>0, <1>10, <2>3 DEF clearFiles, removal, undoAfterTemp
  <2> QED  BY <1>10, <2>1, <2>2, <2>3 DEF clearFiles, removal
<1>11. CASE removeUploadDir
  BY <1>0, <1>11 DEF removeUploadDir
<1>12. CASE removeMultipartPartOperation
  BY <1>0, <1>12 DEF removeMultipartPartOperation
<1>13. CASE resolveMultipartPartOperation
  BY <1>0, <1>13 DEF resolveMultipartPartOperation, resolveNext, allAbsent, canRollback
<1>14. CASE RecoverMultipartPartOperations
  BY <1>0, <1>14 DEF RecoverMultipartPartOperations
<1>15. CASE beforeJournalFails
  <2>1. temp' \in [Attempts -> Contents \cup {Absent}]
    BY <1>0, CurrentPart, <1>15 DEF HolderInv, Early, beforeJournalFails
  <2>2. final' \in Contents \cup {Absent} /\ backup' \in Contents \cup {Absent}
    BY <1>0, CurrentPart, <1>15 DEF HolderInv, Early, StepInv, beforeJournalFails
  <2>3. op' \in Operations /\ journal' \in Operations /\ row' \in Rows
    <3> HIDE DEF Operations, Rows, NoOp
    <3> QED  BY <1>0, CurrentPart, <1>15 DEF beforeJournalFails
  <2>4. (by' = "UploadPart" => op'.new = op.new) /\ (~upload' => row' = NoRow)
    BY <1>0, <1>15 DEF HolderInv, beforeJournalFails
  <2> HIDE DEF Operations, Rows, NoOp
  <2> QED  BY <1>0, <2>1, <2>2, <2>3, <2>4, <1>15 DEF beforeJournalFails
<1>16. CASE writeMultipartPartOperationFails
  <2>1. temp' \in [Attempts -> Contents \cup {Absent}]
    BY <1>0, CurrentPart, <1>16 DEF HolderInv, Early, writeMultipartPartOperationFails
  <2>2. final' \in Contents \cup {Absent} /\ backup' \in Contents \cup {Absent}
    BY <1>0, CurrentPart, <1>16 DEF HolderInv, Early, StepInv, writeMultipartPartOperationFails
  <2>3. op' \in Operations /\ journal' \in Operations /\ row' \in Rows
    <3> HIDE DEF Operations, Rows, NoOp
    <3> QED  BY <1>0, CurrentPart, <1>16 DEF writeMultipartPartOperationFails
  <2>4. (by' = "UploadPart" => op'.new = op.new) /\ (~upload' => row' = NoRow)
    BY <1>0, <1>16 DEF HolderInv, writeMultipartPartOperationFails
  <2> HIDE DEF Operations, Rows, NoOp
  <2> QED  BY <1>0, <2>1, <2>2, <2>3, <2>4, <1>16 DEF writeMultipartPartOperationFails
<1>17. CASE installPartFails
  <2>1. temp' \in [Attempts -> Contents \cup {Absent}]
    BY <1>0, CurrentPart, <1>17 DEF HolderInv, Early, installPartFails, moveToBackup,
       moveTempToFinal
  <2>2. final' \in Contents \cup {Absent} /\ backup' \in Contents \cup {Absent}
    BY <1>0, CurrentPart, <1>17 DEF HolderInv, Early, StepInv, installPartFails, moveToBackup,
       moveTempToFinal
  <2>3. op' \in Operations /\ journal' \in Operations /\ row' \in Rows
    <3> HIDE DEF Operations, Rows, NoOp
    <3> QED  BY <1>0, CurrentPart, <1>17 DEF installPartFails, moveToBackup, moveTempToFinal
  <2>4. (by' = "UploadPart" => op'.new = op.new) /\ (~upload' => row' = NoRow)
    BY <1>0, <1>17 DEF HolderInv, installPartFails, moveToBackup, moveTempToFinal
  <2> HIDE DEF Operations, Rows, NoOp
  <2> QED  BY <1>0, <2>1, <2>2, <2>3, <2>4, <1>17 DEF installPartFails, moveToBackup,
  moveTempToFinal
<1>18. CASE commitFails
  BY <1>0, <1>18 DEF commitFails
<1>19. CASE clearingFails
  BY <1>0, <1>19 DEF clearingFails
<1>20. CASE resolveFails
  BY <1>0, <1>20 DEF resolveFails
<1>21. CASE Abort
  BY <1>0, <1>21 DEF Abort
<1>22. CASE CleanupExpired
  BY <1>0, <1>22 DEF CleanupExpired
<1>23. CASE Crash
  BY <1>0, <1>23 DEF Crash
<1>24. CASE Shutdown
  BY <1>0, <1>24 DEF Shutdown
<1>25. CASE Restart
  BY <1>0, <1>25 DEF Restart
<1>26. CASE UNCHANGED vars
  BY <1>0, <1>26 DEF vars
<1> HIDE DEF TypeOK
<1> QED
  BY <1>1, <1>2, <1>3, <1>4, <1>5, <1>6, <1>7, <1>8, <1>9, <1>10, <1>11, <1>12, <1>13, <1>14,
     <1>15, <1>16, <1>17, <1>18, <1>19, <1>20, <1>21, <1>22, <1>23, <1>24, <1>25, <1>26 DEF Next,
        Step, FailedCall
\* Each step keeps the numbers of the attempts in order.
LEMMA NumberStep == IInv /\ [Next]_vars => NumberInv'
<1> SUFFICES ASSUME IInv, [Next]_vars  PROVE NumberInv'
  OBVIOUS
<1> USE ContentsAssumption, BoundsAssumption DEF At, Goto, Running, Idle, Fail, Release,
   ReturnError, Refuse, Finish, files, data, counts, Attempts, Rows, Operations, NoRow, NoOp,
   temp_, dropTemp_, finalIsNew,
   TypeOK, NumberInv, HolderInv, FilesInv, StepInv, Early
<1>0. TypeOK /\ NumberInv /\ HolderInv /\ FilesInv /\ StepInv
  BY DEF IInv
<1>1. ASSUME NEW c \in Contents, UploadPart(c)  PROVE NumberInv'
  BY <1>0, <1>1 DEF UploadPart
<1>2. CASE resolvePending
  BY <1>0, <1>2 DEF resolvePending
<1>3. CASE receiveBody
  BY <1>0, <1>3 DEF receiveBody
<1>4. CASE checkPrevious
  BY <1>0, <1>4 DEF checkPrevious
<1>5. CASE dropStaleBackup
  BY <1>0, <1>5 DEF dropStaleBackup
<1>6. CASE writeMultipartPartOperation
  BY <1>0, <1>6 DEF writeMultipartPartOperation
<1>7. CASE installPart
  BY <1>0, <1>7 DEF installPart, moveToBackup, moveTempToFinal
<1>8. CASE commitMultipartPartOperation
  BY <1>0, <1>8 DEF commitMultipartPartOperation
<1>9. CASE rollbackCheck
  BY <1>0, <1>9 DEF rollbackCheck, unsafeRollback
<1>10. CASE clearFiles
  BY <1>0, <1>10 DEF clearFiles, removal, undoAfterTemp
<1>11. CASE removeUploadDir
  BY <1>0, <1>11 DEF removeUploadDir
<1>12. CASE removeMultipartPartOperation
  BY <1>0, <1>12 DEF removeMultipartPartOperation
<1>13. CASE resolveMultipartPartOperation
  BY <1>0, <1>13 DEF resolveMultipartPartOperation, resolveNext, allAbsent, canRollback
<1>14. CASE RecoverMultipartPartOperations
  BY <1>0, <1>14 DEF RecoverMultipartPartOperations
<1>15. CASE beforeJournalFails
  BY <1>0, <1>15 DEF beforeJournalFails
<1>16. CASE writeMultipartPartOperationFails
  BY <1>0, <1>16 DEF writeMultipartPartOperationFails
<1>17. CASE installPartFails
  BY <1>0, <1>17 DEF installPartFails, moveToBackup, moveTempToFinal
<1>18. CASE commitFails
  BY <1>0, <1>18 DEF commitFails
<1>19. CASE clearingFails
  BY <1>0, <1>19 DEF clearingFails
<1>20. CASE resolveFails
  BY <1>0, <1>20 DEF resolveFails
<1>21. CASE Abort
  BY <1>0, <1>21 DEF Abort
<1>22. CASE CleanupExpired
  BY <1>0, <1>22 DEF CleanupExpired
<1>23. CASE Crash
  BY <1>0, <1>23 DEF Crash
<1>24. CASE Shutdown
  BY <1>0, <1>24 DEF Shutdown
<1>25. CASE Restart
  BY <1>0, <1>25 DEF Restart
<1>26. CASE UNCHANGED vars
  BY <1>0, <1>26 DEF vars
<1> HIDE DEF TypeOK, NumberInv, HolderInv, FilesInv, StepInv, Early
<1> QED
  BY <1>1, <1>2, <1>3, <1>4, <1>5, <1>6, <1>7, <1>8, <1>9, <1>10, <1>11, <1>12, <1>13, <1>14,
     <1>15, <1>16, <1>17, <1>18, <1>19, <1>20, <1>21, <1>22, <1>23, <1>24, <1>25, <1>26 DEF Next,
        Step, FailedCall
\* Each step leaves the lock with the operation of the journal.
LEMMA HolderStep == IInv /\ [Next]_vars => HolderInv'
<1> SUFFICES ASSUME IInv, [Next]_vars  PROVE HolderInv'
  OBVIOUS
<1> USE ContentsAssumption, BoundsAssumption DEF At, Goto, Running, Idle, Fail, Release,
   ReturnError, Refuse, Finish, files, data, counts, Attempts, Rows, Operations, NoRow, NoOp,
   temp_, dropTemp_, finalIsNew,
   TypeOK, NumberInv, HolderInv, FilesInv, StepInv, Early, Clean, Undo, Layout
<1>0. TypeOK /\ NumberInv /\ HolderInv /\ FilesInv /\ StepInv
  BY DEF IInv
<1>1. ASSUME NEW c \in Contents, UploadPart(c)  PROVE HolderInv'
  BY <1>0, <1>1 DEF UploadPart
<1>2. CASE resolvePending
  BY <1>0, <1>2 DEF resolvePending
<1>3. CASE receiveBody
  BY <1>0, <1>3 DEF receiveBody
<1>4. CASE checkPrevious
  BY <1>0, <1>4 DEF checkPrevious
<1>5. CASE dropStaleBackup
  BY <1>0, <1>5 DEF dropStaleBackup
<1>6. CASE writeMultipartPartOperation
  BY <1>0, <1>6 DEF writeMultipartPartOperation
<1>7. CASE installPart
  BY <1>0, <1>7 DEF installPart, moveToBackup, moveTempToFinal
<1>8. CASE commitMultipartPartOperation
  BY <1>0, <1>8 DEF commitMultipartPartOperation
<1>9. CASE rollbackCheck
  BY <1>0, <1>9 DEF rollbackCheck, unsafeRollback
<1>10. CASE clearFiles
  BY <1>0, <1>10 DEF clearFiles, removal, undoAfterTemp
<1>11. CASE removeUploadDir
  BY <1>0, <1>11 DEF removeUploadDir
<1>12. CASE removeMultipartPartOperation
  BY <1>0, <1>12 DEF removeMultipartPartOperation
<1>13. CASE resolveMultipartPartOperation
  BY <1>0, <1>13 DEF resolveMultipartPartOperation, resolveNext, allAbsent, canRollback
<1>14. CASE RecoverMultipartPartOperations
  BY <1>0, <1>14 DEF RecoverMultipartPartOperations
<1>15. CASE beforeJournalFails
  BY <1>0, <1>15 DEF beforeJournalFails
<1>16. CASE writeMultipartPartOperationFails
  BY <1>0, <1>16 DEF writeMultipartPartOperationFails
<1>17. CASE installPartFails
  BY <1>0, <1>17 DEF installPartFails, moveToBackup, moveTempToFinal
<1>18. CASE commitFails
  BY <1>0, <1>18 DEF commitFails
<1>19. CASE clearingFails
  BY <1>0, <1>19 DEF clearingFails
<1>20. CASE resolveFails
  BY <1>0, <1>20 DEF resolveFails
<1>21. CASE Abort
  BY <1>0, <1>21 DEF Abort
<1>22. CASE CleanupExpired
  BY <1>0, <1>22 DEF CleanupExpired
<1>23. CASE Crash
  BY <1>0, <1>23 DEF Crash
<1>24. CASE Shutdown
  BY <1>0, <1>24 DEF Shutdown
<1>25. CASE Restart
  BY <1>0, <1>25 DEF Restart
<1>26. CASE UNCHANGED vars
  BY <1>0, <1>26 DEF vars
<1> HIDE DEF TypeOK, NumberInv, HolderInv, FilesInv, StepInv, Early, Clean, Undo, Layout
<1> QED
  BY <1>1, <1>2, <1>3, <1>4, <1>5, <1>6, <1>7, <1>8, <1>9, <1>10, <1>11, <1>12, <1>13, <1>14,
     <1>15, <1>16, <1>17, <1>18, <1>19, <1>20, <1>21, <1>22, <1>23, <1>24, <1>25, <1>26 DEF Next,
        Step, FailedCall
\* No step removes the stored part before the new one is committed.
LEMMA FilesStep == IInv /\ [Next]_vars => FilesInv'
<1> SUFFICES ASSUME IInv, [Next]_vars  PROVE FilesInv'
  OBVIOUS
<1> USE ContentsAssumption, BoundsAssumption DEF At, Goto, Running, Idle, Fail, Release,
   ReturnError, Refuse, Finish, files, data, counts, Attempts, Rows, Operations, NoRow, NoOp,
   temp_, dropTemp_, finalIsNew,
   TypeOK, NumberInv, HolderInv, FilesInv, StepInv, Early, Clean, Undo, Layout
<1>0. TypeOK /\ NumberInv /\ HolderInv /\ FilesInv /\ StepInv
  BY DEF IInv
<1>1. ASSUME NEW c \in Contents, UploadPart(c)  PROVE FilesInv'
  BY <1>0, <1>1 DEF UploadPart
<1>2. CASE resolvePending
  BY <1>0, <1>2 DEF resolvePending
<1>3. CASE receiveBody
  BY <1>0, <1>3 DEF receiveBody
<1>4. CASE checkPrevious
  BY <1>0, <1>4 DEF checkPrevious
<1>5. CASE dropStaleBackup
  BY <1>0, <1>5 DEF dropStaleBackup
<1>6. CASE writeMultipartPartOperation
  BY <1>0, <1>6 DEF writeMultipartPartOperation
<1>7. CASE installPart
  BY <1>0, <1>7 DEF installPart, moveToBackup, moveTempToFinal
<1>8. CASE commitMultipartPartOperation
  BY <1>0, <1>8 DEF commitMultipartPartOperation
<1>9. CASE rollbackCheck
  BY <1>0, <1>9 DEF rollbackCheck, unsafeRollback
<1>10. CASE clearFiles
  BY <1>0, <1>10 DEF clearFiles, removal, undoAfterTemp
<1>11. CASE removeUploadDir
  BY <1>0, <1>11 DEF removeUploadDir
<1>12. CASE removeMultipartPartOperation
  BY <1>0, <1>12 DEF removeMultipartPartOperation
<1>13. CASE resolveMultipartPartOperation
  BY <1>0, <1>13 DEF resolveMultipartPartOperation, resolveNext, allAbsent, canRollback
<1>14. CASE RecoverMultipartPartOperations
  BY <1>0, <1>14 DEF RecoverMultipartPartOperations
<1>15. CASE beforeJournalFails
  BY <1>0, <1>15 DEF beforeJournalFails
<1>16. CASE writeMultipartPartOperationFails
  BY <1>0, <1>16 DEF writeMultipartPartOperationFails
<1>17. CASE installPartFails
  BY <1>0, <1>17 DEF installPartFails, moveToBackup, moveTempToFinal
<1>18. CASE commitFails
  BY <1>0, <1>18 DEF commitFails
<1>19. CASE clearingFails
  BY <1>0, <1>19 DEF clearingFails
<1>20. CASE resolveFails
  BY <1>0, <1>20 DEF resolveFails
<1>21. CASE Abort
  BY <1>0, <1>21 DEF Abort
<1>22. CASE CleanupExpired
  BY <1>0, <1>22 DEF CleanupExpired
<1>23. CASE Crash
  BY <1>0, <1>23 DEF Crash
<1>24. CASE Shutdown
  BY <1>0, <1>24 DEF Shutdown
<1>25. CASE Restart
  BY <1>0, <1>25 DEF Restart
<1>26. CASE UNCHANGED vars
  BY <1>0, <1>26 DEF vars
<1> HIDE DEF TypeOK, NumberInv, HolderInv, FilesInv, StepInv, Early, Clean, Undo, Layout
<1> QED
  BY <1>1, <1>2, <1>3, <1>4, <1>5, <1>6, <1>7, <1>8, <1>9, <1>10, <1>11, <1>12, <1>13, <1>14,
     <1>15, <1>16, <1>17, <1>18, <1>19, <1>20, <1>21, <1>22, <1>23, <1>24, <1>25, <1>26 DEF Next,
        Step, FailedCall
\* Each step leaves the files as the next step needs them.
LEMMA StepsStep == IInv /\ [Next]_vars => StepInv'
<1> SUFFICES ASSUME IInv, [Next]_vars  PROVE StepInv'
  OBVIOUS
<1> USE ContentsAssumption, BoundsAssumption DEF At, Goto, Running, Idle, Fail, Release,
   ReturnError, Refuse, Finish, files, data, counts, Attempts, Rows, Operations, NoRow, NoOp,
   temp_, dropTemp_, finalIsNew,
   TypeOK, NumberInv, HolderInv, FilesInv, StepInv, Early, Clean, Undo, Layout, unsafeRollback
<1>0. TypeOK /\ NumberInv /\ HolderInv /\ FilesInv /\ StepInv
  BY DEF IInv
<1>1. ASSUME NEW c \in Contents, UploadPart(c)  PROVE StepInv'
  BY <1>0, <1>1 DEF UploadPart
<1>2. CASE resolvePending
  BY <1>0, <1>2 DEF resolvePending
<1>3. CASE receiveBody
  BY <1>0, <1>3 DEF receiveBody
<1>4. CASE checkPrevious
  BY <1>0, <1>4 DEF checkPrevious
<1>5. CASE dropStaleBackup
  BY <1>0, <1>5 DEF dropStaleBackup
<1>6. CASE writeMultipartPartOperation
  BY <1>0, <1>6 DEF writeMultipartPartOperation
<1>7. CASE installPart
  BY <1>0, <1>7 DEF installPart, moveToBackup, moveTempToFinal
<1>8. CASE commitMultipartPartOperation
  BY <1>0, <1>8 DEF commitMultipartPartOperation
<1>9. CASE rollbackCheck
  BY <1>0, <1>9 DEF rollbackCheck, unsafeRollback
<1>10. CASE clearFiles
  BY <1>0, <1>10 DEF clearFiles, removal, undoAfterTemp
<1>11. CASE removeUploadDir
  BY <1>0, <1>11 DEF removeUploadDir
<1>12. CASE removeMultipartPartOperation
  BY <1>0, <1>12 DEF removeMultipartPartOperation
<1>13. CASE resolveMultipartPartOperation
  BY <1>0, <1>13 DEF resolveMultipartPartOperation, resolveNext, allAbsent, canRollback
<1>14. CASE RecoverMultipartPartOperations
  BY <1>0, <1>14 DEF RecoverMultipartPartOperations
<1>15. CASE beforeJournalFails
  BY <1>0, <1>15 DEF beforeJournalFails
<1>16. CASE writeMultipartPartOperationFails
  BY <1>0, <1>16 DEF writeMultipartPartOperationFails
<1>17. CASE installPartFails
  BY <1>0, <1>17 DEF installPartFails, moveToBackup, moveTempToFinal
<1>18. CASE commitFails
  BY <1>0, <1>18 DEF commitFails
<1>19. CASE clearingFails
  BY <1>0, <1>19 DEF clearingFails
<1>20. CASE resolveFails
  BY <1>0, <1>20 DEF resolveFails
<1>21. CASE Abort
  BY <1>0, <1>21 DEF Abort
<1>22. CASE CleanupExpired
  BY <1>0, <1>22 DEF CleanupExpired
<1>23. CASE Crash
  BY <1>0, <1>23 DEF Crash
<1>24. CASE Shutdown
  BY <1>0, <1>24 DEF Shutdown
<1>25. CASE Restart
  BY <1>0, <1>25 DEF Restart
<1>26. CASE UNCHANGED vars
  BY <1>0, <1>26 DEF vars
<1> HIDE DEF TypeOK, NumberInv, HolderInv, FilesInv, StepInv, Early, Clean, Undo, Layout,
   unsafeRollback
<1> QED
  BY <1>1, <1>2, <1>3, <1>4, <1>5, <1>6, <1>7, <1>8, <1>9, <1>10, <1>11, <1>12, <1>13, <1>14,
     <1>15, <1>16, <1>17, <1>18, <1>19, <1>20, <1>21, <1>22, <1>23, <1>24, <1>25, <1>26 DEF Next,
        Step, FailedCall
\* Only committed parts are acknowledged, and no older row comes back.
LEMMA AckedStep == IInv /\ [Next]_vars => AckedStays'
<1> SUFFICES ASSUME IInv, [Next]_vars  PROVE AckedStays'
  OBVIOUS
<1> USE ContentsAssumption, BoundsAssumption DEF At, Goto, Running, Idle, Fail, Release,
   ReturnError, Refuse, Finish, files, data, counts, Attempts, Rows, Operations, NoRow, NoOp,
   temp_, dropTemp_, finalIsNew,
   TypeOK, NumberInv, HolderInv, FilesInv, StepInv, Early, Clean, Undo, AckedStays, IInv
<1>0. TypeOK /\ NumberInv /\ HolderInv /\ FilesInv /\ StepInv
  BY DEF IInv
<1>1. ASSUME NEW c \in Contents, UploadPart(c)  PROVE AckedStays'
  BY <1>0, <1>1 DEF UploadPart
<1>2. CASE resolvePending
  BY <1>0, <1>2 DEF resolvePending
<1>3. CASE receiveBody
  BY <1>0, <1>3 DEF receiveBody
<1>4. CASE checkPrevious
  BY <1>0, <1>4 DEF checkPrevious
<1>5. CASE dropStaleBackup
  BY <1>0, <1>5 DEF dropStaleBackup
<1>6. CASE writeMultipartPartOperation
  BY <1>0, <1>6 DEF writeMultipartPartOperation
<1>7. CASE installPart
  BY <1>0, <1>7 DEF installPart, moveToBackup, moveTempToFinal
<1>8. CASE commitMultipartPartOperation
  BY <1>0, <1>8 DEF commitMultipartPartOperation
<1>9. CASE rollbackCheck
  BY <1>0, <1>9 DEF rollbackCheck, unsafeRollback
<1>10. CASE clearFiles
  BY <1>0, <1>10 DEF clearFiles, removal, undoAfterTemp
<1>11. CASE removeUploadDir
  BY <1>0, <1>11 DEF removeUploadDir
<1>12. CASE removeMultipartPartOperation
  BY <1>0, <1>12 DEF removeMultipartPartOperation
<1>13. CASE resolveMultipartPartOperation
  BY <1>0, <1>13 DEF resolveMultipartPartOperation, resolveNext, allAbsent, canRollback
<1>14. CASE RecoverMultipartPartOperations
  BY <1>0, <1>14 DEF RecoverMultipartPartOperations
<1>15. CASE beforeJournalFails
  BY <1>0, <1>15 DEF beforeJournalFails
<1>16. CASE writeMultipartPartOperationFails
  BY <1>0, <1>16 DEF writeMultipartPartOperationFails
<1>17. CASE installPartFails
  BY <1>0, <1>17 DEF installPartFails, moveToBackup, moveTempToFinal
<1>18. CASE commitFails
  BY <1>0, <1>18 DEF commitFails
<1>19. CASE clearingFails
  BY <1>0, <1>19 DEF clearingFails
<1>20. CASE resolveFails
  BY <1>0, <1>20 DEF resolveFails
<1>21. CASE Abort
  BY <1>0, <1>21 DEF Abort
<1>22. CASE CleanupExpired
  BY <1>0, <1>22 DEF CleanupExpired
<1>23. CASE Crash
  BY <1>0, <1>23 DEF Crash
<1>24. CASE Shutdown
  BY <1>0, <1>24 DEF Shutdown
<1>25. CASE Restart
  BY <1>0, <1>25 DEF Restart
<1>26. CASE UNCHANGED vars
  BY <1>0, <1>26 DEF vars
<1> HIDE DEF TypeOK, NumberInv, HolderInv, FilesInv, StepInv, Early, Clean, Undo, AckedStays, IInv
<1> QED
  BY <1>1, <1>2, <1>3, <1>4, <1>5, <1>6, <1>7, <1>8, <1>9, <1>10, <1>11, <1>12, <1>13, <1>14,
     <1>15, <1>16, <1>17, <1>18, <1>19, <1>20, <1>21, <1>22, <1>23, <1>24, <1>25, <1>26 DEF Next,
        Step, FailedCall
\* What recovery refuses is a roll-back between equal contents.
LEMMA RefusalStep == IInv /\ [Next]_vars => RefusalNeedsEqualContent'
<1> SUFFICES ASSUME IInv, [Next]_vars  PROVE RefusalNeedsEqualContent'
  OBVIOUS
<1> USE ContentsAssumption, BoundsAssumption DEF At, Goto, Running, Idle, Fail, Release,
   ReturnError, Refuse, Finish, files, data, counts, Attempts, Rows, Operations, NoRow, NoOp,
   temp_, dropTemp_, finalIsNew,
   TypeOK, NumberInv, HolderInv, FilesInv, StepInv, Early, Clean, Undo, Layout, unsafeRollback,
   RefusalNeedsEqualContent, IInv
<1>0. TypeOK /\ NumberInv /\ HolderInv /\ FilesInv /\ StepInv
  BY DEF IInv
<1>1. ASSUME NEW c \in Contents, UploadPart(c)  PROVE RefusalNeedsEqualContent'
  BY <1>0, <1>1 DEF UploadPart
<1>2. CASE resolvePending
  BY <1>0, <1>2 DEF resolvePending
<1>3. CASE receiveBody
  BY <1>0, <1>3 DEF receiveBody
<1>4. CASE checkPrevious
  BY <1>0, <1>4 DEF checkPrevious
<1>5. CASE dropStaleBackup
  BY <1>0, <1>5 DEF dropStaleBackup
<1>6. CASE writeMultipartPartOperation
  BY <1>0, <1>6 DEF writeMultipartPartOperation
<1>7. CASE installPart
  BY <1>0, <1>7 DEF installPart, moveToBackup, moveTempToFinal
<1>8. CASE commitMultipartPartOperation
  BY <1>0, <1>8 DEF commitMultipartPartOperation
<1>9. CASE rollbackCheck
  BY <1>0, <1>9 DEF rollbackCheck, unsafeRollback
<1>10. CASE clearFiles
  BY <1>0, <1>10 DEF clearFiles, removal, undoAfterTemp
<1>11. CASE removeUploadDir
  BY <1>0, <1>11 DEF removeUploadDir
<1>12. CASE removeMultipartPartOperation
  BY <1>0, <1>12 DEF removeMultipartPartOperation
<1>13. CASE resolveMultipartPartOperation
  BY <1>0, <1>13 DEF resolveMultipartPartOperation, resolveNext, allAbsent, canRollback
<1>14. CASE RecoverMultipartPartOperations
  BY <1>0, <1>14 DEF RecoverMultipartPartOperations
<1>15. CASE beforeJournalFails
  BY <1>0, <1>15 DEF beforeJournalFails
<1>16. CASE writeMultipartPartOperationFails
  BY <1>0, <1>16 DEF writeMultipartPartOperationFails
<1>17. CASE installPartFails
  BY <1>0, <1>17 DEF installPartFails, moveToBackup, moveTempToFinal
<1>18. CASE commitFails
  BY <1>0, <1>18 DEF commitFails
<1>19. CASE clearingFails
  BY <1>0, <1>19 DEF clearingFails
<1>20. CASE resolveFails
  BY <1>0, <1>20 DEF resolveFails
<1>21. CASE Abort
  BY <1>0, <1>21 DEF Abort
<1>22. CASE CleanupExpired
  BY <1>0, <1>22 DEF CleanupExpired
<1>23. CASE Crash
  BY <1>0, <1>23 DEF Crash
<1>24. CASE Shutdown
  BY <1>0, <1>24 DEF Shutdown
<1>25. CASE Restart
  BY <1>0, <1>25 DEF Restart
<1>26. CASE UNCHANGED vars
  BY <1>0, <1>26 DEF vars
<1> HIDE DEF TypeOK, NumberInv, HolderInv, FilesInv, StepInv, Early, Clean, Undo, Layout,
   unsafeRollback, RefusalNeedsEqualContent, IInv
<1> QED
  BY <1>1, <1>2, <1>3, <1>4, <1>5, <1>6, <1>7, <1>8, <1>9, <1>10, <1>11, <1>12, <1>13, <1>14,
     <1>15, <1>16, <1>17, <1>18, <1>19, <1>20, <1>21, <1>22, <1>23, <1>24, <1>25, <1>26 DEF Next,
        Step, FailedCall
\* The initial state satisfies the invariant.
LEMMA InitInv == Init => IInv
<1> SUFFICES ASSUME Init  PROVE IInv
  OBVIOUS
<1>1. TypeOK
  BY ContentsAssumption, BoundsAssumption DEF Init, TypeOK, Operations, Rows, NoOp, NoRow
<1>2. NumberInv /\ HolderInv /\ FilesInv /\ StepInv
  BY BoundsAssumption DEF Init, NumberInv, HolderInv, FilesInv, StepInv, Early, Clean, Undo,
     NoRow, NoOp
<1>3. AckedStays /\ RefusalNeedsEqualContent
  BY DEF Init, AckedStays, RefusalNeedsEqualContent, NoRow, NoOp
<1> QED  BY <1>1, <1>2, <1>3 DEF IInv

-----------------------------------------------------------------------------
\* The invariant holds in every reachable state.
THEOREM PartInvariant == Spec => []IInv
<1>1. IInv /\ [Next]_vars => IInv'
  BY TypeStep, NumberStep, HolderStep, FilesStep, StepsStep, AckedStep, RefusalStep DEF IInv
<1> QED  BY InitInv, <1>1, PTL DEF Spec

\* UploadPart, its roll-back and its recovery keep the content of the recorded
\* part, and outside them the part file is the one the row describes.
THEOREM RecordedStaysUsable == Spec => []RecordedPartUsable
<1>1. IInv => RecordedPartUsable
  <2> SUFFICES ASSUME IInv  PROVE RecordedPartUsable
    OBVIOUS
  <2> USE DEF IInv, TypeOK, NumberInv, FilesInv
  <2>1. row # NoRow => row.content \in {final, backup}
    <3>1. CASE journal = NoOp \/ ~upload
      BY <3>1
    <3>2. CASE journal # NoOp /\ upload
      BY <3>2 DEF Layout
    <3> QED  BY <3>1, <3>2
  <2>2. journal = NoOp /\ row # NoRow => final = row.content
    OBVIOUS
  <2> QED  BY <2>1, <2>2 DEF RecordedPartUsable
<1> QED  BY <1>1, PartInvariant, PTL

\* Neither a later attempt that fails nor a recovery takes back a part that
\* UploadPart answered with success.
THEOREM AckedPartStays == Spec => []AckedStays
<1>1. IInv => AckedStays
  BY DEF IInv
<1> QED  BY <1>1, PartInvariant, PTL

\* RecoverMultipartPartOperations refuses to start only when the part that is
\* rolled back and the one it replaced have the same size and MD5.
THEOREM RefusalIsAmbiguity == Spec => []RefusalNeedsEqualContent
<1>1. IInv => RefusalNeedsEqualContent
  BY DEF IInv
<1> QED  BY <1>1, PartInvariant, PTL
=============================================================================
