----------------------------- MODULE UploadTask -----------------------------
(***************************************************************************)
(* The upload tasks of the file page: UploadTaskController (utils/         *)
(* uploadTask.ts), the requests it sends, and the state the page keeps of   *)
(* it (FileManager.tsx): the controller behind the buttons of the task     *)
(* card, the snapshot the card shows, the one conflict dialog.             *)
(*                                                                         *)
(* A task is a controller; all tasks upload to one directory, so that a    *)
(* file of two tasks meets itself on the server.  The coroutine of an item *)
(* (uploadItem) is the phase at[t][f].  A request is carried out and its    *)
(* answer handled in one step: what may come between them is an abort, and *)
(* the server may carry out an aborted request afterwards.                 *)
(***************************************************************************)
EXTENDS Console, Naturals, FiniteSets, FiniteSetsExt

CONSTANTS
  Tasks,        \* controllers the page may create
  FilesOf,      \* the files of each task, numbers: their order
  Old,          \* the files the directory holds at the start
  Concurrency,  \* workers of a task
  MaxRetries,   \* bound: no task is retried again once one was this often
  MaxErrors     \* bound on the items that have failed and were not retried

VARIABLES
  status,           \* of a task, as in UploadTaskStatus; None: not created
  item,             \* item[t][f], as in UploadItemStatus
  at,               \* at[t][f]: where the coroutine of the item is
  overwrite,        \* overwrite[t][f]: the request under way replaces a file
  cancelRequested,
  decision,         \* conflictDecision
  promise,          \* conflictDecisionPromise: None, "asking" or its value
  page,             \* the file page: mounted, controller, shown, label, dialog, reading
  stored,           \* on the server: None, "old" or the task that wrote the file
  late,             \* aborted requests the server may still carry out
  unlisted,         \* files stored since the listing was last refreshed
  answers,          \* what the user answered, and in which task
  history           \* per task: stored files, retries, was it ever cancelled

Files == UNION {FilesOf[t] : t \in Tasks}

\* A task is created with finitely many files.
ASSUME TasksAssumption ==
  /\ IsFiniteSet(Tasks) /\ FilesOf \in [Tasks -> SUBSET Nat]
  /\ \A t \in Tasks : IsFiniteSet(FilesOf[t])
  /\ Concurrency \in Nat /\ MaxRetries \in Nat /\ MaxErrors \in Nat

ASSUME NoneAssumption ==
  /\ None \notin Tasks /\ "old" \notin Tasks \cup {None}
  /\ None \notin {"queued", "running", "completed", "completed_with_errors", "cancelled",
                  "skip", "overwrite", "cancel", "asking"}

vars == <<status, item, at, overwrite, cancelRequested, decision, promise, page,
          stored, late, unlisted, answers, history>>
task == <<status, item, at, overwrite, cancelRequested, decision, promise>>

ItemStatus == {"queued", "uploading", "succeeded", "failed", "skipped", "cancelled"}
TaskStatus == {"queued", "running", "completed", "completed_with_errors", "cancelled"}
Phase == {"idle", "sent", "aborted", "deciding"}
Decision == {"skip", "overwrite", "cancel"}

TypeOK ==
  /\ status \in [Tasks -> TaskStatus \cup {None}]
  /\ \A t \in Tasks :
       /\ item[t] \in [FilesOf[t] -> ItemStatus]
       /\ at[t] \in [FilesOf[t] -> Phase]
       /\ \A f \in FilesOf[t] : (item[t][f] = "uploading") = (at[t][f] # "idle")
       /\ overwrite[t] \in [FilesOf[t] -> BOOLEAN]
  /\ cancelRequested \in [Tasks -> BOOLEAN]
  /\ decision \in [Tasks -> {None, "skip", "overwrite"}]
  /\ promise \in [Tasks -> Decision \cup {None, "asking"}]
  /\ page \in [mounted: BOOLEAN, controller: Tasks \cup {None}, shown: Tasks \cup {None},
               label: TaskStatus \cup {None}, dialog: Tasks \cup {None}, reading: SUBSET Tasks]
  /\ stored \in [Files -> Tasks \cup {None, "old"}]
  /\ late \in SUBSET [task: Tasks, file: Files, overwrite: BOOLEAN]
  /\ unlisted \in SUBSET Files
  /\ answers \in SUBSET (Tasks \X Decision)
  /\ history \in [Tasks -> [stored: SUBSET Files, retries: 0..MaxRetries, cancelled: BOOLEAN]]
  /\ \A t \in Tasks : Cardinality({f \in FilesOf[t] : item[t][f] = "uploading"}) <= Concurrency

Init ==
  /\ status = [t \in Tasks |-> None]
  /\ item = [t \in Tasks |-> [f \in FilesOf[t] |-> "queued"]]
  /\ at = [t \in Tasks |-> [f \in FilesOf[t] |-> "idle"]]
  /\ overwrite = [t \in Tasks |-> [f \in FilesOf[t] |-> FALSE]]
  /\ cancelRequested = [t \in Tasks |-> FALSE]
  /\ decision = [t \in Tasks |-> None]
  /\ promise = [t \in Tasks |-> None]
  /\ page = [mounted |-> TRUE, controller |-> None, shown |-> None, label |-> None,
             dialog |-> None, reading |-> {}]
  /\ stored = [f \in Files |-> IF f \in Old THEN "old" ELSE None]
  /\ late = {}
  /\ unlisted = {}
  /\ answers = {}
  /\ history = [t \in Tasks |-> [stored |-> {}, retries |-> 0, cancelled |-> FALSE]]

Queued(t) == {f \in FilesOf[t] : item[t][f] = "queued"}
Active(t) == {f \in FilesOf[t] : item[t][f] = "uploading"}
Ended(t) == status[t] \in {"completed", "completed_with_errors", "cancelled"}

\* emit: the page's onChange is setUploadTask, so the card shows the task that
\* emitted last; after an unmount the setter does nothing.
emit(p, t, label) == IF p.mounted THEN [p EXCEPT !.shown = t, !.label = label] ELSE p

\* runningFileTask, as far as uploads go: judged by the card's snapshot.
uploadRunning == page.label = "running"

-----------------------------------------------------------------------------
\* The page starts tasks.  Choosing files is one step.  A drop, or a chosen
\* directory, is read first; the guard is the one of the render in which the
\* reading began, so nothing is asked again when the reading ends.

start(t, p) ==
  /\ status' = [status EXCEPT ![t] = "running"]
  /\ page' = emit([p EXCEPT !.controller = t], t, "running")

startUpload(t) ==
  /\ page.mounted /\ ~uploadRunning
  /\ status[t] = None /\ t \notin page.reading
  /\ start(t, page)
  /\ UNCHANGED <<item, at, overwrite, cancelRequested, decision, promise, stored, late, unlisted, answers, history>>

handleDrop(t) ==
  /\ page.mounted /\ ~uploadRunning
  /\ status[t] = None /\ t \notin page.reading
  /\ page' = [page EXCEPT !.reading = @ \cup {t}]
  /\ UNCHANGED <<task, stored, late, unlisted, answers, history>>

collectDroppedUpload(t) ==
  /\ t \in page.reading
  /\ LET read == [page EXCEPT !.reading = @ \ {t}] IN
     \/ start(t, read)
     \/ page' = read /\ UNCHANGED status      \* nothing to upload, or not readable
  /\ UNCHANGED <<item, at, overwrite, cancelRequested, decision, promise, stored, late, unlisted, answers, history>>

-----------------------------------------------------------------------------
\* A worker takes the first queued item and sends its request.
takeNext(t) ==
  /\ status[t] = "running" /\ ~cancelRequested[t]
  /\ Queued(t) # {} /\ Cardinality(Active(t)) < Concurrency
  /\ LET f == Min(Queued(t)) IN
     /\ item' = [item EXCEPT ![t][f] = "uploading"]
     /\ at' = [at EXCEPT ![t][f] = "sent"]
     /\ overwrite' = [overwrite EXCEPT ![t][f] = FALSE]
  /\ page' = emit(page, t, "running")
  /\ UNCHANGED <<status, cancelRequested, decision, promise, stored, late, unlisted, answers, history>>

Store(t, f) ==
  /\ stored' = [stored EXCEPT ![f] = t]
  /\ unlisted' = unlisted \cup {f}
  /\ history' = [history EXCEPT ![t].stored = @ \cup {f}]

\* The coroutine ends with the item in this state.
settle(t, f, result) ==
  /\ item' = [item EXCEPT ![t][f] = result]
  /\ at' = [at EXCEPT ![t][f] = "idle"]
  /\ overwrite' = [overwrite EXCEPT ![t][f] = FALSE]
  /\ page' = emit(page, t, "running")

Failures == UNION {{<<t, f>> : f \in {g \in FilesOf[t] : item[t][g] = "failed"}} : t \in Tasks}

\* The request is carried out and its answer handled by uploadItem.
uploadSucceeds(t, f) ==
  /\ at[t][f] = "sent"
  /\ stored[f] = None \/ overwrite[t][f]
  /\ Store(t, f)
  /\ settle(t, f, "succeeded")
  /\ UNCHANGED <<status, cancelRequested, decision, promise, late, answers>>

\* The request fails, or is carried out and its answer is lost.
uploadFails(t, f) ==
  /\ at[t][f] = "sent" /\ Cardinality(Failures) < MaxErrors
  /\ \/ (stored[f] = None \/ overwrite[t][f]) /\ Store(t, f)
     \/ UNCHANGED <<stored, unlisted, history>>
  /\ settle(t, f, "failed")
  /\ UNCHANGED <<status, cancelRequested, decision, promise, late, answers>>

\* FILE_ALREADY_EXISTS: conflictDecisionFor.  The first conflict of the task
\* asks, by taking the page's one dialog; the others await its promise.
uploadConflicts(t, f) ==
  /\ at[t][f] = "sent" /\ stored[f] # None /\ ~overwrite[t][f]
  /\ at' = [at EXCEPT ![t][f] = "deciding"]
  /\ IF decision[t] = None /\ promise[t] = None
     THEN /\ promise' = [promise EXCEPT ![t] = "asking"]
          /\ page' = IF page.mounted THEN [page EXCEPT !.dialog = t] ELSE page
     ELSE UNCHANGED <<promise, page>>
  /\ UNCHANGED <<status, item, overwrite, cancelRequested, decision, stored, late, unlisted, answers, history>>

\* The rejection of an aborted request arrives.
uploadAborts(t, f) ==
  /\ at[t][f] = "aborted"
  /\ settle(t, f, "cancelled")
  /\ UNCHANGED <<status, cancelRequested, decision, promise, stored, late, unlisted, answers, history>>

\* The server may carry out an aborted request all the same, or never.
abortedUpload(r) ==
  /\ r \in late /\ (stored[r.file] = None \/ r.overwrite)
  /\ late' = late \ {r}
  /\ Store(r.task, r.file)
  /\ UNCHANGED <<task, page, answers>>

onDecision(d) ==
  /\ page.dialog # None
  /\ promise' = [promise EXCEPT ![page.dialog] = d]
  /\ answers' = answers \cup {<<page.dialog, d>>}
  /\ page' = [page EXCEPT !.dialog = None]
  /\ UNCHANGED <<status, item, at, overwrite, cancelRequested, decision, stored, late, unlisted, history>>

\* abort() of every AbortController of t; those in except have none left.
Abort(t, except) ==
  LET waiting == {f \in FilesOf[t] \ except : at[t][f] = "sent"} IN
  /\ late' = late \cup {[task |-> t, file |-> f, overwrite |-> overwrite[t][f]] : f \in waiting}
  /\ at' = [at EXCEPT ![t] = [f \in FilesOf[t] |->
              IF f \in waiting THEN "aborted" ELSE IF f \in except THEN "idle" ELSE @[f]]]

Chosen(t) == IF decision[t] # None THEN decision[t] ELSE promise[t]

skipItem(t, f) ==
  /\ at[t][f] = "deciding" /\ Chosen(t) = "skip"
  /\ decision' = [decision EXCEPT ![t] = "skip"]
  /\ settle(t, f, "skipped")
  /\ UNCHANGED <<status, cancelRequested, promise, stored, late, unlisted, answers, history>>

cancelByDecision(t, f) ==
  /\ at[t][f] = "deciding" /\ Chosen(t) = "cancel"
  /\ cancelRequested' = [cancelRequested EXCEPT ![t] = TRUE]
  /\ Abort(t, {f})
  /\ item' = [item EXCEPT ![t][f] = "cancelled"]
  /\ page' = emit(page, t, "running")
  /\ history' = [history EXCEPT ![t].cancelled = TRUE]
  /\ UNCHANGED <<status, overwrite, decision, promise, stored, unlisted, answers>>

\* Fault: the second request does not carry the signal of the first.
overwriteItemAnyway(t, f) ==
  /\ at[t][f] = "deciding" /\ Chosen(t) = "overwrite"
  /\ decision' = [decision EXCEPT ![t] = "overwrite"]
  /\ overwrite' = [overwrite EXCEPT ![t][f] = TRUE]
  /\ at' = [at EXCEPT ![t][f] = "sent"]
  /\ UNCHANGED <<status, item, cancelRequested, promise, page, stored, late, unlisted, answers, history>>

\* Fault: whatever is not "skip" replaces the file.
overwriteUnlessSkipped(t, f) ==
  /\ at[t][f] = "deciding" /\ Chosen(t) \in {"overwrite", "cancel"}
  /\ overwrite' = [overwrite EXCEPT ![t][f] = TRUE]
  /\ at' = [at EXCEPT ![t][f] = IF cancelRequested[t] THEN "aborted" ELSE "sent"]
  /\ UNCHANGED <<status, item, cancelRequested, decision, promise, page, stored, late, unlisted, answers, history>>

\* The second request; its signal may have been aborted while the user thought,
\* and then it is never sent.
overwriteItem(t, f) ==
  /\ at[t][f] = "deciding" /\ Chosen(t) = "overwrite"
  /\ decision' = [decision EXCEPT ![t] = "overwrite"]
  /\ overwrite' = [overwrite EXCEPT ![t][f] = TRUE]
  /\ at' = [at EXCEPT ![t][f] = IF cancelRequested[t] THEN "aborted" ELSE "sent"]
  /\ UNCHANGED <<status, item, cancelRequested, promise, page, stored, late, unlisted, answers, history>>

runEnds(t, result, listed) ==
  /\ status' = [status EXCEPT ![t] = result]
  /\ page' = emit(page, t, result)
  /\ item' = [item EXCEPT ![t] = [f \in FilesOf[t] |-> IF @[f] = "queued" THEN "cancelled" ELSE @[f]]]
  /\ unlisted' = IF listed THEN {} ELSE unlisted
  /\ UNCHANGED <<at, overwrite, cancelRequested, decision, promise, stored, late, answers, history>>

runResult(t) ==
  IF cancelRequested[t] THEN "cancelled"
  ELSE IF \E f \in FilesOf[t] : item[t][f] = "failed" THEN "completed_with_errors"
  ELSE "completed"

workersReturned(t) ==
  /\ status[t] = "running"
  /\ Active(t) = {} /\ (cancelRequested[t] \/ Queued(t) = {})

\* Fault: items that failed do not show in the result.
runNoErrors(t) ==
  workersReturned(t) /\ runEnds(t, IF cancelRequested[t] THEN "cancelled" ELSE "completed", history[t].retries = 0)

\* Fault: items still queued after a cancel are waited for.
runWaits(t) == workersReturned(t) /\ Queued(t) = {} /\ runEnds(t, runResult(t), history[t].retries = 0)

\* All workers have returned.  The page refreshes its listing after start(),
\* not after retryFailed().
run(t) == workersReturned(t) /\ runEnds(t, runResult(t), history[t].retries = 0)

-----------------------------------------------------------------------------
\* The buttons of the task card act on the page's controller.

cancel(t, p) ==
  /\ IF t = None \/ Ended(t)
     THEN page' = p /\ UNCHANGED <<cancelRequested, item, at, late, history>>
     ELSE /\ cancelRequested' = [cancelRequested EXCEPT ![t] = TRUE]
          /\ item' = [item EXCEPT ![t] = [f \in FilesOf[t] |-> IF @[f] = "queued" THEN "cancelled" ELSE @[f]]]
          /\ Abort(t, {})
          /\ page' = emit(p, t, status[t])
          /\ history' = [history EXCEPT ![t].cancelled = TRUE]
  /\ UNCHANGED <<status, overwrite, decision, promise, stored, unlisted, answers>>

onCancel == page.mounted /\ uploadRunning /\ cancel(page.controller, page)

retryFailed ==
  LET t == page.controller IN
  /\ page.mounted /\ page.shown # None /\ ~uploadRunning
  /\ \E f \in FilesOf[page.shown] : item[page.shown][f] = "failed"
  /\ t # None /\ status[t] # "running"
  /\ \E f \in FilesOf[t] : item[t][f] = "failed"
  /\ \A u \in Tasks : history[u].retries < MaxRetries
  /\ item' = [item EXCEPT ![t] = [f \in FilesOf[t] |-> IF @[f] = "failed" THEN "queued" ELSE @[f]]]
  /\ cancelRequested' = [cancelRequested EXCEPT ![t] = FALSE]
  /\ start(t, page)
  /\ history' = [history EXCEPT ![t].retries = @ + 1]
  /\ UNCHANGED <<at, overwrite, decision, promise, stored, late, unlisted, answers>>

onClose ==
  /\ page.mounted /\ page.shown # None /\ ~uploadRunning
  /\ page' = [page EXCEPT !.controller = None, !.shown = None, !.label = None]
  /\ UNCHANGED <<task, stored, late, unlisted, answers, history>>

\* Leaving the page cancels its controller and drops the dialog.
unmount ==
  /\ page.mounted
  /\ cancel(page.controller, [page EXCEPT !.mounted = FALSE, !.controller = None,
                               !.dialog = None, !.shown = None, !.label = None])

UserStarts == \E t \in Tasks : startUpload(t) \/ handleDrop(t)
UserActs == onCancel \/ retryFailed \/ onClose \/ unmount
Coroutine(t, f) ==
  uploadSucceeds(t, f) \/ uploadFails(t, f) \/ uploadConflicts(t, f) \/ uploadAborts(t, f)
    \/ skipItem(t, f) \/ cancelByDecision(t, f) \/ overwriteItem(t, f)
Answered == \E d \in Decision : onDecision(d)

Next ==
  \/ UserStarts \/ UserActs \/ Answered
  \/ \E t \in Tasks : collectDroppedUpload(t) \/ takeNext(t) \/ run(t)
  \/ \E t \in Tasks : \E f \in FilesOf[t] : Coroutine(t, f)
  \/ \E r \in late : abortedUpload(r)

\* Requests are answered, promises resumed, and an open dialog, which is modal,
\* is answered in the end.  The user need not do anything else; no step here
\* can be repeated for ever, so one fairness condition is enough.
Progress ==
  \/ Answered
  \/ \E t \in Tasks : takeNext(t) \/ run(t)
  \/ \E t \in Tasks : \E f \in FilesOf[t] : Coroutine(t, f)

Spec == Init /\ [][Next]_vars /\ WF_vars(Progress)

-----------------------------------------------------------------------------
\* The dialog that task t waits for is not on the screen any more: another
\* task's question took its place, or the page was left.
QuestionLost(t) == promise[t] = "asking" /\ page.dialog # t

\* A file that was there is replaced only by a task in which the user answered
\* "overwrite", and of two tasks that stored a file one had that answer,
\* however requests, retries, aborted requests and tasks interleave.
OverwriteNeedsAnswer ==
  \A f \in Files :
    LET writers == {t \in Tasks : f \in history[t].stored}
        unasked == {t \in writers : <<t, "overwrite">> \notin answers}
    IN Cardinality(unasked) <= IF f \in Old THEN 0 ELSE 1

\* The card and the listing tell the truth: an item counted as uploaded was
\* stored, a task called complete left out only what the user chose to skip or,
\* before a retry, cancelled, and once no request is under way the listing
\* misses only files stored by a retry, whose end refreshes nothing, or by a
\* request that was aborted.  (The state is well typed all along.)
ReportTrue ==
  /\ TypeOK
  /\ \A t \in Tasks :
       /\ \A f \in FilesOf[t] : item[t][f] = "succeeded" => f \in history[t].stored
       /\ status[t] = "completed" =>
            \A f \in FilesOf[t] :
              \/ item[t][f] = "succeeded"
              \/ item[t][f] = "skipped" /\ <<t, "skip">> \in answers
              \/ item[t][f] = "cancelled" /\ history[t].cancelled /\ history[t].retries > 0
  /\ (\A t \in Tasks : status[t] # "running") =>
       \A f \in unlisted : \E t \in Tasks :
         f \in history[t].stored /\ (history[t].retries > 0 \/ history[t].cancelled)

\* Once a task is cancelled none of its requests is left to run unaborted, and
\* it sends no other: neither from a worker nor after a conflict that was being
\* decided when the user cancelled.
CancelStops ==
  \A t \in Tasks : cancelRequested[t] => \A f \in FilesOf[t] : at[t][f] # "sent"

\* A running task ends, unless its question to the user was lost.
TaskEnds ==
  \A t \in Tasks : status[t] = "running" ~> (status[t] # "running" \/ QuestionLost(t))
=============================================================================
