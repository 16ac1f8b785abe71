---------------------------- MODULE ConsoleProofs ---------------------------
(***************************************************************************)
(* Proofs about three components of the console, for any instance: its     *)
(* upload tasks (UploadTask), its settings forms (SettingsForms) and its   *)
(* file page (FilePage, Consent).                                          *)
(*                                                                         *)
(* Upload tasks: a cancelled task has no request left that is not aborted  *)
(* (CancelStops), nothing is replaced without the user's answer            *)
(* (OverwriteNeedsAnswer), and the card and the listing tell the truth     *)
(* (ReportTrue).  The properties look at the end of a task; the invariant  *)
(* says what makes them true on the way: a request under way belongs to a  *)
(* running task and carries overwrite only after that answer (RequestInv), *)
(* so does one that was aborted and is carried out late (LateInv), what    *)
(* the coroutines read as the decision is an answer of the user            *)
(* (AnswerInv), and the first writer of a file is the only one that need   *)
(* not have asked (StoredInv).                                             *)
(*                                                                         *)
(* Settings forms: nothing that carries a revision is saved over a newer   *)
(* one unseen (NoBlindOverwrite), a save that fails or goes on leaves what *)
(* was typed since (DraftKept), and what is published is what was looked   *)
(* at (TargetConfirmed).  A form and its request carry the revision that   *)
(* was shown (OpenFormInv, SavedInv), and a form that is saved is still    *)
(* there when the answer comes (LockedInv).                                *)
(*                                                                         *)
(* File page: a task asks only about what was marked when the user asked   *)
(* for it (ConfirmedOnly): the selection is always what is marked in the   *)
(* directory shown (MarksInv), and clipboard and tasks hold only what was  *)
(* asked for, where it was marked (ClipInv, TasksInv).  What is shown      *)
(* never waits for a refresh that nobody asks for (ListingFresh): whenever *)
(* it waits, a loop that will refresh is under way (StaleInv).             *)
(*                                                                         *)
(* One lemma per action, or group of actions, shows that it keeps every    *)
(* part of the component's invariant.                                      *)
(***************************************************************************)
EXTENDS UploadTask, SettingsForms, Consent, FiniteSetTheorems, WellFoundedInduction, TLAPS

-----------------------------------------------------------------------------
(* Upload tasks.                                                           *)

\* What the user answered in t, what t stored, and what it stored unasked.
Answer(t, d) == <<t, d>> \in answers
Wrote(t, f) == f \in history[t].stored
Unasked(t, f) == Wrote(t, f) /\ ~Answer(t, "overwrite")

\* A value of S for each file of each task.
Table(X, S) ==
  X = [t \in Tasks |-> X[t]] /\ \A t \in Tasks : X[t] \in [FilesOf[t] -> S]

\* Types; a request is under way exactly for the items shown as uploading.
ItemTypes ==
  /\ Table(item, ItemStatus) /\ Table(at, Phase) /\ Table(overwrite, BOOLEAN)
  /\ \A t \in Tasks : \A f \in FilesOf[t] : item[t][f] = "uploading" <=> at[t][f] # "idle"

Histories == [Tasks -> [stored : SUBSET Files, retries : 0..MaxRetries, cancelled : BOOLEAN]]

TaskTypes ==
  /\ status \in [Tasks -> TaskStatus \cup {None}]
  /\ cancelRequested \in [Tasks -> BOOLEAN]
  /\ decision \in [Tasks -> {None, "skip", "overwrite"}]
  /\ promise \in [Tasks -> Decision \cup {None, "asking"}]
  /\ history \in Histories

Pages == [mounted : BOOLEAN, controller : Tasks \cup {None}, shown : Tasks \cup {None},
          label : TaskStatus \cup {None}, dialog : Tasks \cup {None}, reading : SUBSET Tasks]

PageTypes == page \in Pages

ServerTypes ==
  /\ stored \in [Files -> Tasks \cup {None, "old"}]
  /\ late \subseteq [task : Tasks, file : Files, overwrite : BOOLEAN]
  /\ unlisted \subseteq Files
  /\ answers \subseteq Tasks \X Decision

FewActive == \A t \in Tasks : Cardinality(Active(t)) <= Concurrency

Types == ItemTypes /\ TaskTypes /\ PageTypes /\ ServerTypes /\ FewActive

\* A request under way belongs to a running task that has not been cancelled,
\* and asks for a replacement only if the user did.
RequestTrue(t, f) ==
  /\ item[t][f] = "uploading" => status[t] = "running"
  /\ at[t][f] = "sent" => ~cancelRequested[t]
  /\ at[t][f] = "aborted" => history[t].cancelled
  /\ overwrite[t][f] /\ at[t][f] \in {"sent", "aborted"} => Answer(t, "overwrite")

RequestInv == \A t \in Tasks : \A f \in FilesOf[t] : RequestTrue(t, f)

\* Requests that were aborted are no different.
LateInv ==
  \A r \in late : history[r.task].cancelled /\ (r.overwrite => Answer(r.task, "overwrite"))

\* Decisions are answers of the user, and cancellations are remembered.
AnswerInv ==
  \A t \in Tasks :
    /\ decision[t] # None => Answer(t, decision[t])
    /\ promise[t] \in Decision => Answer(t, promise[t])
    /\ cancelRequested[t] => history[t].cancelled
    /\ history[t].cancelled => cancelRequested[t] \/ history[t].retries > 0

\* How an item ended is true.
ItemTrue(t, f) ==
  /\ item[t][f] = "succeeded" => Wrote(t, f)
  /\ item[t][f] = "skipped" => Answer(t, "skip")
  /\ item[t][f] = "cancelled" => history[t].cancelled
  /\ status[t] = "completed" =>
       \/ item[t][f] \in {"succeeded", "skipped"}
       \/ item[t][f] = "cancelled" /\ history[t].retries > 0

ItemInv == \A t \in Tasks : \A f \in FilesOf[t] : ItemTrue(t, f)

\* Who wrote a file without having been told to replace it was the first.
StoredTrue(f) ==
  /\ stored[f] = None => f \notin Old /\ \A t \in Tasks : ~Wrote(t, f)
  /\ \A t \in Tasks : Unasked(t, f) => f \notin Old
  /\ \A t, u \in Tasks : Unasked(t, f) /\ Unasked(u, f) => t = u

StoredInv == \A f \in Files : StoredTrue(f)

\* What the listing misses comes from a running, retried or cancelled task.
MissedTrue(t, f) ==
  Wrote(t, f) /\ (status[t] = "running" \/ history[t].retries > 0 \/ history[t].cancelled)

ListingInv == \A f \in unlisted : \E t \in Tasks : MissedTrue(t, f)

IInv ==
  Types /\ RequestInv /\ LateInv /\ AnswerInv /\ ItemInv /\ StoredInv /\ ListingInv
-----------------------------------------------------------------------------
\* A non-empty set of numbers has a least one, which a worker or a loop takes.
LEMMA LeastNumber ==
  ASSUME NEW S \in SUBSET Nat, S # {}  PROVE Min(S) \in S /\ \A n \in S : Min(S) <= n
<1> DEFINE R == {ss \in Nat \X Nat : ss[1] < ss[2]}
<1>1. IsWellFoundedOn(R, Nat)
  BY NatLessThanWellFounded DEF OpToRel
<1>2. PICK x \in S : \A y \in S : ~ (<<y, x>> \in R)
  <2> HIDE DEF R
  <2> QED  BY <1>1, WFMin
<1>3. \A y \in S : x <= y
  <2> SUFFICES ASSUME NEW y \in S  PROVE ~(y < x)
    OBVIOUS
  <2>1. <<y, x>> \notin R
    BY <1>2
  <2> QED  BY <2>1
<1> QED  BY <1>3 DEF Min

\* The files of a task are among all files.
LEMMA TaskFiles == \A t \in Tasks : FilesOf[t] \subseteq Files /\ FilesOf[t] \subseteq Nat
BY TasksAssumption DEF Files

\* The types of the invariant are those of the model.
LEMMA TypesImplyTypeOK == Types => TypeOK
BY DEF TypeOK, Types, Table, ItemTypes, TaskTypes, PageTypes, Pages, ServerTypes, FewActive, Active,
   Histories

\* Changing the state of one item leaves the others alone.
LEMMA ItemUpdate ==
  ASSUME ItemTypes, NEW t \in Tasks, NEW f \in FilesOf[t], NEW x \in ItemStatus,
         item' = [item EXCEPT ![t][f] = x]
  PROVE  /\ Table(item', ItemStatus) /\ item'[t][f] = x
         /\ \A u \in Tasks : \A g \in FilesOf[u] : u # t \/ g # f => item'[u][g] = item[u][g]
BY DEF ItemTypes, Table

\* Moving the coroutine of one item leaves the others alone.
LEMMA PhaseUpdate ==
  ASSUME ItemTypes, NEW t \in Tasks, NEW f \in FilesOf[t], NEW x \in Phase,
         at' = [at EXCEPT ![t][f] = x]
  PROVE  /\ Table(at', Phase) /\ at'[t][f] = x
         /\ \A u \in Tasks : \A g \in FilesOf[u] : u # t \/ g # f => at'[u][g] = at[u][g]
BY DEF ItemTypes, Table

\* A coroutine that ends touches its own item only.
LEMMA SettleEffect ==
  ASSUME ItemTypes, NEW t \in Tasks, NEW f \in FilesOf[t], NEW result \in ItemStatus \ {"uploading"},
         settle(t, f, result)
  PROVE  /\ ItemTypes' /\ item'[t][f] = result /\ at'[t][f] = "idle"
         /\ \A u \in Tasks : \A g \in FilesOf[u] : u # t \/ g # f =>
              item'[u][g] = item[u][g] /\ at'[u][g] = at[u][g] /\ overwrite'[u][g] = overwrite[u][g]
<1>1. Table(item, ItemStatus) /\ Table(at, Phase) /\ Table(overwrite, BOOLEAN)
  BY DEF ItemTypes
<1>2. /\ Table(item', ItemStatus) /\ item'[t][f] = result
      /\ \A u \in Tasks : \A g \in FilesOf[u] : u # t \/ g # f => item'[u][g] = item[u][g]
  BY <1>1 DEF settle, Table
<1>3. /\ Table(at', Phase) /\ at'[t][f] = "idle"
      /\ \A u \in Tasks : \A g \in FilesOf[u] : u # t \/ g # f => at'[u][g] = at[u][g]
  BY <1>1 DEF settle, Table, Phase
<1>4. /\ Table(overwrite', BOOLEAN)
      /\ \A u \in Tasks : \A g \in FilesOf[u] : u # t \/ g # f => overwrite'[u][g] = overwrite[u][g]
  BY <1>1 DEF settle, Table
<1>5. \A u \in Tasks : \A g \in FilesOf[u] : item'[u][g] = "uploading" <=> at'[u][g] # "idle"
  BY <1>2, <1>3 DEF ItemTypes
<1>6. ItemTypes'
  BY <1>2, <1>3, <1>4, <1>5 DEF ItemTypes
<1> QED  BY <1>2, <1>3, <1>4, <1>6

\* The server's storing of a file is remembered for its task only.
LEMMA StoreEffect ==
  ASSUME TaskTypes, ServerTypes, NEW t \in Tasks, NEW f \in FilesOf[t] \cup Files, Store(t, f)
  PROVE  /\ history' \in Histories
         /\ \A u \in Tasks : /\ \A g \in Files : Wrote(u, g)' <=> Wrote(u, g) \/ (u = t /\ g = f)
                             /\ history'[u].retries = history[u].retries
                             /\ history'[u].cancelled = history[u].cancelled
BY TaskFiles DEF TaskTypes, Histories, Store, Wrote

\* Remembering that a task was cancelled changes nothing else.
LEMMA CancelEffect ==
  ASSUME TaskTypes, NEW t \in Tasks, history' = [history EXCEPT ![t].cancelled = TRUE]
  PROVE  /\ history' \in Histories
         /\ \A u \in Tasks : /\ history'[u].stored = history[u].stored
                             /\ history'[u].retries = history[u].retries
                             /\ history'[u].cancelled <=> u = t \/ history[u].cancelled
BY DEF TaskTypes, Histories

\* A retry is counted, for the task of the page's controller.
LEMMA RetryEffect ==
  ASSUME TaskTypes, PageTypes, retryFailed
  PROVE  /\ history' \in Histories /\ page.controller \in Tasks
         /\ \A u \in Tasks : /\ history'[u].stored = history[u].stored
                             /\ history'[u].retries = IF u = page.controller THEN history[u].retries + 1 ELSE history[u].retries
                             /\ history'[u].cancelled = history[u].cancelled
<1> DEFINE t == page.controller
<1>1. /\ t \in Tasks /\ history[t].retries < MaxRetries
      /\ history' = [history EXCEPT ![t].retries = @ + 1]
  BY NoneAssumption DEF PageTypes, Pages, retryFailed
<1> HIDE DEF t
<1>2. history[t].retries + 1 \in 0..MaxRetries
  BY <1>1, TasksAssumption DEF TaskTypes, Histories
<1>3. /\ history' \in Histories
      /\ \A u \in Tasks : /\ history'[u].stored = history[u].stored
                          /\ history'[u].retries = IF u = t THEN history[u].retries + 1 ELSE history[u].retries
                          /\ history'[u].cancelled = history[u].cancelled
  BY <1>1, <1>2 DEF TaskTypes, Histories
<1> QED  BY <1>1, <1>3 DEF t

\* abort() turns each sent request of the task into an aborted one, which the
\* server may still carry out, and touches no other task.
LEMMA AbortEffect ==
  ASSUME ItemTypes, NEW t \in Tasks, NEW except, Abort(t, except)
  PROVE  /\ Table(at', Phase)
         /\ \A u \in Tasks : \A g \in FilesOf[u] :
              at'[u][g] = IF u # t THEN at[u][g] ELSE IF g \in except THEN "idle"
                          ELSE IF at[t][g] = "sent" THEN "aborted" ELSE at[t][g]
         /\ \A r \in late' \ late : /\ r.task = t /\ r.file \in FilesOf[t] /\ at[t][r.file] = "sent"
                                  /\ r.overwrite = overwrite[t][r.file]
                                  /\ r \in [task : Tasks, file : Files, overwrite : BOOLEAN]
<1>1. Table(at, Phase)
  BY DEF ItemTypes
<1> DEFINE waiting == {f \in FilesOf[t] \ except : at[t][f] = "sent"}
           row == [f \in FilesOf[t] |-> IF f \in waiting THEN "aborted" ELSE IF f \in except THEN "idle" ELSE at[t][f]]
<1>2. row \in [FilesOf[t] -> Phase]
  BY <1>1 DEF Table, Phase
<1>3. at' = [at EXCEPT ![t] = row]
  BY <1>1 DEF Abort
<1>4. \A g \in FilesOf[t] : row[g] = IF g \in except THEN "idle"
                                     ELSE IF at[t][g] = "sent" THEN "aborted" ELSE at[t][g]
  OBVIOUS
<1>5. /\ Table(at', Phase)
      /\ \A u \in Tasks : \A g \in FilesOf[u] :
           at'[u][g] = IF u # t THEN at[u][g] ELSE IF g \in except THEN "idle"
                       ELSE IF at[t][g] = "sent" THEN "aborted" ELSE at[t][g]
  <2> HIDE DEF row
  <2> QED  BY <1>1, <1>2, <1>3, <1>4 DEF Table
<1>6. \A r \in late' \ late : /\ r.task = t /\ r.file \in FilesOf[t] /\ at[t][r.file] = "sent"
                              /\ r.overwrite = overwrite[t][r.file]
                              /\ r \in [task : Tasks, file : Files, overwrite : BOOLEAN]
  BY TaskFiles DEF Abort, ItemTypes, Table
<1> QED  BY <1>5, <1>6

-----------------------------------------------------------------------------
\* No more requests are under way than before if none was sent.
LEMMA NoMoreActive ==
  ASSUME FewActive, \A t \in Tasks : \A f \in FilesOf[t] : item'[t][f] = "uploading" => item[t][f] = "uploading"
  PROVE  FewActive'
<1> SUFFICES ASSUME NEW t \in Tasks  PROVE Cardinality(Active(t)') <= Concurrency
  BY DEF FewActive
<1>1. Active(t)' \subseteq Active(t) /\ IsFiniteSet(Active(t))
  BY TasksAssumption, FS_Subset DEF Active
<1>2. Cardinality(Active(t)') <= Cardinality(Active(t)) /\ Cardinality(Active(t)) \in Nat /\ Cardinality(Active(t)') \in Nat
  BY <1>1, FS_Subset, FS_CardinalityType
<1> QED  BY <1>2, TasksAssumption DEF FewActive

\* Starting keeps the invariant.
LEMMA StartUploadKeeps == ASSUME IInv, NEW t \in Tasks, startUpload(t)  PROVE IInv'
<1> USE NoneAssumption, TasksAssumption DEF task, Decision, Answer, Unasked
<1>0. Types /\ ItemTypes /\ TaskTypes /\ PageTypes /\ ServerTypes /\ FewActive
  BY DEF IInv, Types
<1>1. RequestInv /\ LateInv /\ AnswerInv /\ ItemInv /\ StoredInv /\ ListingInv
  BY DEF IInv
<1>2. UNCHANGED <<item, at, overwrite, cancelRequested, decision, promise, stored, late, unlisted, answers, history>>
  BY DEF startUpload
<1>3. status[t] = None /\ status' = [status EXCEPT ![t] = "running"]
  BY <1>0 DEF startUpload, start
<1>4. ItemTypes'
  BY <1>0, <1>1, <1>2, <1>3 DEF ItemTypes
<1>5. TaskTypes'
  BY <1>0, <1>1, <1>2, <1>3 DEF TaskTypes, TaskStatus
<1>6. PageTypes'
  BY <1>0 DEF PageTypes, Pages, startUpload, start, emit, TaskStatus
<1>7. ServerTypes'
  BY <1>0, <1>1, <1>2, <1>3 DEF ServerTypes
<1>8. FewActive'
  BY <1>0, <1>2, <1>3, NoMoreActive DEF Table
<1>9. RequestInv'
  BY <1>0, <1>1, <1>2, <1>3 DEF RequestInv, RequestTrue, TaskTypes
<1>10. LateInv'
  BY <1>0, <1>1, <1>2, <1>3 DEF LateInv
<1>11. AnswerInv'
  BY <1>0, <1>1, <1>2, <1>3 DEF AnswerInv
<1>12. ItemInv'
  BY <1>0, <1>1, <1>2, <1>3 DEF ItemInv, ItemTrue, TaskTypes, Wrote
<1>13. StoredInv'
  BY <1>0, <1>1, <1>2, <1>3 DEF StoredInv, StoredTrue, Wrote
<1>14. ListingInv'
  BY <1>0, <1>1, <1>2, <1>3 DEF ListingInv, MissedTrue, Wrote
<1> QED  BY <1>4, <1>5, <1>6, <1>7, <1>8, <1>9, <1>10, <1>11, <1>12, <1>13, <1>14 DEF IInv, Types

\* A drop, whose reading only begins, keeps the invariant.
LEMMA HandleDropKeeps == ASSUME IInv, NEW t \in Tasks, handleDrop(t)  PROVE IInv'
<1> USE NoneAssumption, TasksAssumption DEF task, Decision, Answer, Unasked
<1>0. Types /\ ItemTypes /\ TaskTypes /\ PageTypes /\ ServerTypes /\ FewActive
  BY DEF IInv, Types
<1>1. RequestInv /\ LateInv /\ AnswerInv /\ ItemInv /\ StoredInv /\ ListingInv
  BY DEF IInv
<1>2. UNCHANGED <<task, stored, late, unlisted, answers, history>>
  BY DEF handleDrop
<1>3. ItemTypes'
  BY <1>0, <1>1, <1>2 DEF ItemTypes
<1>4. TaskTypes'
  BY <1>0, <1>1, <1>2 DEF TaskTypes
<1>5. PageTypes'
  BY <1>0 DEF PageTypes, Pages, handleDrop
<1>6. ServerTypes'
  BY <1>0, <1>1, <1>2 DEF ServerTypes
<1>7. FewActive'
  BY <1>0, <1>2, NoMoreActive DEF Table
<1>8. RequestInv'
  BY <1>0, <1>1, <1>2 DEF RequestInv, RequestTrue
<1>9. LateInv'
  BY <1>0, <1>1, <1>2 DEF LateInv
<1>10. AnswerInv'
  BY <1>0, <1>1, <1>2 DEF AnswerInv
<1>11. ItemInv'
  BY <1>0, <1>1, <1>2 DEF ItemInv, ItemTrue, Wrote
<1>12. StoredInv'
  BY <1>0, <1>1, <1>2 DEF StoredInv, StoredTrue, Wrote
<1>13. ListingInv'
  BY <1>0, <1>1, <1>2 DEF ListingInv, MissedTrue, Wrote
<1> QED  BY <1>3, <1>4, <1>5, <1>6, <1>7, <1>8, <1>9, <1>10, <1>11, <1>12, <1>13 DEF IInv, Types

\* Closing the card keeps the invariant.
LEMMA OnCloseKeeps == ASSUME IInv, onClose  PROVE IInv'
<1> USE NoneAssumption, TasksAssumption DEF task, Decision, Answer, Unasked
<1>0. Types /\ ItemTypes /\ TaskTypes /\ PageTypes /\ ServerTypes /\ FewActive
  BY DEF IInv, Types
<1>1. RequestInv /\ LateInv /\ AnswerInv /\ ItemInv /\ StoredInv /\ ListingInv
  BY DEF IInv
<1>2. UNCHANGED <<task, stored, late, unlisted, answers, history>>
  BY DEF onClose
<1>3. ItemTypes'
  BY <1>0, <1>1, <1>2 DEF ItemTypes
<1>4. TaskTypes'
  BY <1>0, <1>1, <1>2 DEF TaskTypes
<1>5. PageTypes'
  BY <1>0 DEF PageTypes, Pages, onClose
<1>6. ServerTypes'
  BY <1>0, <1>1, <1>2 DEF ServerTypes
<1>7. FewActive'
  BY <1>0, <1>2, NoMoreActive DEF Table
<1>8. RequestInv'
  BY <1>0, <1>1, <1>2 DEF RequestInv, RequestTrue
<1>9. LateInv'
  BY <1>0, <1>1, <1>2 DEF LateInv
<1>10. AnswerInv'
  BY <1>0, <1>1, <1>2 DEF AnswerInv
<1>11. ItemInv'
  BY <1>0, <1>1, <1>2 DEF ItemInv, ItemTrue, Wrote
<1>12. StoredInv'
  BY <1>0, <1>1, <1>2 DEF StoredInv, StoredTrue, Wrote
<1>13. ListingInv'
  BY <1>0, <1>1, <1>2 DEF ListingInv, MissedTrue, Wrote
<1> QED  BY <1>3, <1>4, <1>5, <1>6, <1>7, <1>8, <1>9, <1>10, <1>11, <1>12, <1>13 DEF IInv, Types

\* An answer in the dialog keeps the invariant.
LEMMA OnDecisionKeeps == ASSUME IInv, NEW d \in Decision, onDecision(d)  PROVE IInv'
<1> USE NoneAssumption, TasksAssumption DEF task, Decision, Answer, Unasked
<1>0. Types /\ ItemTypes /\ TaskTypes /\ PageTypes /\ ServerTypes /\ FewActive
  BY DEF IInv, Types
<1>1. RequestInv /\ LateInv /\ AnswerInv /\ ItemInv /\ StoredInv /\ ListingInv
  BY DEF IInv
<1>2. UNCHANGED <<status, item, at, overwrite, cancelRequested, decision, stored, late, unlisted, history>>
  BY DEF onDecision
<1>3. /\ page.dialog \in Tasks /\ promise' = [promise EXCEPT ![page.dialog] = d]
      /\ answers' = answers \cup {<<page.dialog, d>>}
  BY <1>0 DEF onDecision, PageTypes, Pages
<1>4. ItemTypes'
  BY <1>0, <1>1, <1>2, <1>3 DEF ItemTypes
<1>5. TaskTypes'
  BY <1>0, <1>1, <1>2, <1>3 DEF TaskTypes
<1>6. PageTypes'
  BY <1>0 DEF PageTypes, Pages, onDecision
<1>7. ServerTypes'
  BY <1>0, <1>1, <1>2, <1>3 DEF ServerTypes
<1>8. FewActive'
  BY <1>0, <1>2, <1>3, NoMoreActive DEF Table
<1>9. RequestInv'
  BY <1>0, <1>1, <1>2, <1>3 DEF RequestInv, RequestTrue
<1>10. LateInv'
  BY <1>0, <1>1, <1>2, <1>3 DEF LateInv
<1>11. AnswerInv'
  BY <1>0, <1>1, <1>2, <1>3 DEF AnswerInv, TaskTypes
<1>12. ItemInv'
  BY <1>0, <1>1, <1>2, <1>3 DEF ItemInv, ItemTrue, Wrote
<1>13. StoredInv'
  BY <1>0, <1>1, <1>2, <1>3 DEF StoredInv, StoredTrue, Wrote
<1>14. ListingInv'
  BY <1>0, <1>1, <1>2, <1>3 DEF ListingInv, MissedTrue, Wrote
<1> QED  BY <1>4, <1>5, <1>6, <1>7, <1>8, <1>9, <1>10, <1>11, <1>12, <1>13, <1>14 DEF IInv, Types

\* The end of the reading of a drop keeps the invariant.
LEMMA CollectDroppedUploadKeeps == ASSUME IInv, NEW t \in Tasks, collectDroppedUpload(t)  PROVE IInv'
<1> USE NoneAssumption, TasksAssumption DEF task, Decision, Answer, Unasked
<1>0. Types /\ ItemTypes /\ TaskTypes /\ PageTypes /\ ServerTypes /\ FewActive
  BY DEF IInv, Types
<1>1. RequestInv /\ LateInv /\ AnswerInv /\ ItemInv /\ StoredInv /\ ListingInv
  BY DEF IInv
<1>2. UNCHANGED <<item, at, overwrite, cancelRequested, decision, promise, stored, late, unlisted, answers, history>>
  BY DEF collectDroppedUpload
<1>3. UNCHANGED status \/ status' = [status EXCEPT ![t] = "running"]
  BY DEF collectDroppedUpload, start
<1>4. ItemTypes'
  BY <1>0, <1>1, <1>2, <1>3 DEF ItemTypes
<1>5. TaskTypes'
  BY <1>0, <1>1, <1>2, <1>3 DEF TaskTypes, TaskStatus
<1>6. PageTypes'
  <2> DEFINE read == [page EXCEPT !.reading = @ \ {t}]
  <2>1. read \in [mounted : BOOLEAN, controller : Tasks \cup {None}, shown : Tasks \cup {None},
                label : TaskStatus \cup {None}, dialog : Tasks \cup {None}, reading : SUBSET Tasks]
    BY <1>0 DEF PageTypes, Pages
  <2>2. page' = read \/ start(t, read)
    BY DEF collectDroppedUpload
  <2> HIDE DEF read
  <2> QED  BY <2>1, <2>2 DEF PageTypes, Pages, start, emit, TaskStatus
<1>7. ServerTypes'
  BY <1>0, <1>1, <1>2, <1>3 DEF ServerTypes
<1>8. FewActive'
  BY <1>0, <1>2, <1>3, NoMoreActive DEF Table
<1>9. RequestInv'
  BY <1>0, <1>1, <1>2, <1>3 DEF RequestInv, RequestTrue, TaskTypes
<1>10. LateInv'
  BY <1>0, <1>1, <1>2, <1>3 DEF LateInv
<1>11. AnswerInv'
  BY <1>0, <1>1, <1>2, <1>3 DEF AnswerInv
<1>12. ItemInv'
  BY <1>0, <1>1, <1>2, <1>3 DEF ItemInv, ItemTrue, TaskTypes, Wrote
<1>13. StoredInv'
  BY <1>0, <1>1, <1>2, <1>3 DEF StoredInv, StoredTrue, Wrote
<1>14. ListingInv'
  BY <1>0, <1>1, <1>2, <1>3 DEF ListingInv, MissedTrue, TaskTypes, Wrote
<1> QED  BY <1>4, <1>5, <1>6, <1>7, <1>8, <1>9, <1>10, <1>11, <1>12, <1>13, <1>14 DEF IInv, Types

\* The rejection of an aborted request keeps the invariant.
LEMMA UploadAbortsKeeps == ASSUME IInv, NEW t \in Tasks, NEW f \in FilesOf[t], uploadAborts(t, f)  PROVE IInv'
<1> USE NoneAssumption, TasksAssumption DEF task, Decision, Answer, Unasked
<1>0. Types /\ ItemTypes /\ TaskTypes /\ PageTypes /\ ServerTypes /\ FewActive
  BY DEF IInv, Types
<1>1. RequestInv /\ LateInv /\ AnswerInv /\ ItemInv /\ StoredInv /\ ListingInv
  BY DEF IInv
<1>2. settle(t, f, "cancelled") /\ at[t][f] # "idle" /\ at[t][f] = "aborted"
  BY DEF uploadAborts
<1>3. /\ ItemTypes' /\ item'[t][f] = "cancelled" /\ at'[t][f] = "idle"
      /\ \A u \in Tasks : \A g \in FilesOf[u] : u # t \/ g # f =>
           item'[u][g] = item[u][g] /\ at'[u][g] = at[u][g] /\ overwrite'[u][g] = overwrite[u][g]
  BY <1>0, <1>2, SettleEffect DEF ItemStatus
<1>4. status[t] = "running"
  BY <1>0, <1>1, <1>2, <1>3 DEF ItemTypes, RequestInv, RequestTrue
<1>5. UNCHANGED <<status, cancelRequested, decision, promise, stored, late, unlisted, answers, history>>
  BY DEF uploadAborts
<1>6. ItemTypes'
  BY <1>3
<1>7. TaskTypes'
  BY <1>0, <1>5 DEF TaskTypes
<1>8. PageTypes'
  BY <1>0 DEF PageTypes, Pages, uploadAborts, settle, emit, TaskStatus
<1>9. ServerTypes'
  BY <1>0, <1>5 DEF ServerTypes
<1>10. FewActive'
  BY <1>0, <1>3, NoMoreActive DEF Table
<1>11. RequestInv'
  <2> SUFFICES ASSUME NEW u \in Tasks, NEW g \in FilesOf[u]  PROVE RequestTrue(u, g)'
    BY DEF RequestInv
  <2>1. CASE u = t /\ g = f
    BY <1>1, <1>3, <1>5 DEF RequestInv, RequestTrue, TaskTypes, AnswerInv, Wrote
  <2>2. CASE u # t \/ g # f
    BY <1>1, <1>3, <1>5 DEF RequestInv, RequestTrue, TaskTypes, Wrote
  <2> QED  BY <2>1, <2>2
<1>12. LateInv'
  BY <1>1, <1>5 DEF LateInv, ServerTypes
<1>13. AnswerInv'
  BY <1>1, <1>5 DEF AnswerInv, TaskTypes, Histories
<1>14. ItemInv'
  <2> SUFFICES ASSUME NEW u \in Tasks, NEW g \in FilesOf[u]  PROVE ItemTrue(u, g)'
    BY DEF ItemInv
  <2>1. CASE u = t /\ g = f
    BY <1>1, <1>2, <1>3, <1>4, <1>5, <2>1 DEF ItemTrue, RequestInv, RequestTrue
  <2>2. CASE u # t \/ g # f
    BY <1>1, <1>3, <1>5, <2>2 DEF ItemInv, ItemTrue, TaskTypes, Wrote
  <2> QED  BY <2>1, <2>2
<1>15. StoredInv'
  BY <1>1, <1>5 DEF StoredInv, StoredTrue, ServerTypes, Wrote
<1>16. ListingInv'
  BY <1>1, <1>5 DEF ListingInv, MissedTrue, TaskTypes, Wrote
<1> QED  BY <1>6, <1>7, <1>8, <1>9, <1>10, <1>11, <1>12, <1>13, <1>14, <1>15, <1>16 DEF IInv, Types

\* Skipping an item keeps the invariant.
LEMMA SkipItemKeeps == ASSUME IInv, NEW t \in Tasks, NEW f \in FilesOf[t], skipItem(t, f)  PROVE IInv'
<1> USE NoneAssumption, TasksAssumption DEF task, Decision, Answer, Unasked
<1>0. Types /\ ItemTypes /\ TaskTypes /\ PageTypes /\ ServerTypes /\ FewActive
  BY DEF IInv, Types
<1>1. RequestInv /\ LateInv /\ AnswerInv /\ ItemInv /\ StoredInv /\ ListingInv
  BY DEF IInv
<1>2. settle(t, f, "skipped") /\ at[t][f] # "idle" /\ Chosen(t) = "skip"
  BY DEF skipItem
<1>3. /\ ItemTypes' /\ item'[t][f] = "skipped" /\ at'[t][f] = "idle"
      /\ \A u \in Tasks : \A g \in FilesOf[u] : u # t \/ g # f =>
           item'[u][g] = item[u][g] /\ at'[u][g] = at[u][g] /\ overwrite'[u][g] = overwrite[u][g]
  BY <1>0, <1>2, SettleEffect DEF ItemStatus
<1>5. UNCHANGED <<status, cancelRequested, promise, stored, late, unlisted, answers, history>>
  BY DEF skipItem
<1>6. decision' = [decision EXCEPT ![t] = "skip"] /\ Answer(t, "skip")
  BY <1>1 DEF skipItem, Chosen, AnswerInv, TaskTypes
<1>7. ItemTypes'
  BY <1>3
<1>8. TaskTypes'
  BY <1>0, <1>5, <1>6 DEF TaskTypes
<1>9. PageTypes'
  BY <1>0 DEF PageTypes, Pages, skipItem, settle, emit, TaskStatus
<1>10. ServerTypes'
  BY <1>0, <1>5 DEF ServerTypes
<1>11. FewActive'
  BY <1>0, <1>3, NoMoreActive DEF Table
<1>12. RequestInv'
  <2> SUFFICES ASSUME NEW u \in Tasks, NEW g \in FilesOf[u]  PROVE RequestTrue(u, g)'
    BY DEF RequestInv
  <2>1. CASE u = t /\ g = f
    BY <1>1, <1>3, <1>5 DEF RequestInv, RequestTrue, TaskTypes, AnswerInv, Wrote
  <2>2. CASE u # t \/ g # f
    BY <1>1, <1>3, <1>5 DEF RequestInv, RequestTrue, TaskTypes, Wrote
  <2> QED  BY <2>1, <2>2
<1>13. LateInv'
  BY <1>1, <1>5 DEF LateInv, ServerTypes
<1>14. AnswerInv'
  BY <1>0, <1>1, <1>5, <1>6 DEF AnswerInv, TaskTypes
<1>15. ItemInv'
  <2> SUFFICES ASSUME NEW u \in Tasks, NEW g \in FilesOf[u]  PROVE ItemTrue(u, g)'
    BY DEF ItemInv
  <2>1. CASE u = t /\ g = f
    BY <1>1, <1>3, <1>5, <1>6 DEF ItemInv, ItemTrue, AnswerInv, Wrote
  <2>2. CASE u # t \/ g # f
    BY <1>1, <1>3, <1>5, <1>6 DEF ItemInv, ItemTrue, TaskTypes, Wrote
  <2> QED  BY <2>1, <2>2
<1>16. StoredInv'
  BY <1>1, <1>5 DEF StoredInv, StoredTrue, ServerTypes, Wrote
<1>17. ListingInv'
  BY <1>1, <1>5 DEF ListingInv, MissedTrue, TaskTypes, Wrote
<1> QED  BY <1>7, <1>8, <1>9, <1>10, <1>11, <1>12, <1>13, <1>14, <1>15, <1>16, <1>17 DEF IInv, Types

\* A stored file keeps the invariant.
LEMMA UploadSucceedsKeeps == ASSUME IInv, NEW t \in Tasks, NEW f \in FilesOf[t], uploadSucceeds(t, f)  PROVE IInv'
<1> USE NoneAssumption, TasksAssumption DEF task, Decision, Answer, Unasked
<1>0. Types /\ ItemTypes /\ TaskTypes /\ PageTypes /\ ServerTypes /\ FewActive
  BY DEF IInv, Types
<1>1. RequestInv /\ LateInv /\ AnswerInv /\ ItemInv /\ StoredInv /\ ListingInv
  BY DEF IInv
<1>2. f \in Files /\ Store(t, f) /\ (stored[f] = None \/ Answer(t, "overwrite"))
  BY <1>1, TaskFiles DEF uploadSucceeds, RequestInv, RequestTrue
<1>3. stored' = [stored EXCEPT ![f] = t] /\ unlisted' = unlisted \cup {f}
  BY <1>2 DEF Store
<1>4. /\ history' \in Histories
      /\ \A u \in Tasks : /\ \A g \in Files : Wrote(u, g)' <=> Wrote(u, g) \/ (u = t /\ g = f)
                          /\ history'[u].retries = history[u].retries
                          /\ history'[u].cancelled = history[u].cancelled
  BY <1>0, <1>2, <1>3, StoreEffect
<1>5. settle(t, f, "succeeded") /\ at[t][f] # "idle" /\ at[t][f] = "sent"
  BY DEF uploadSucceeds
<1>6. /\ ItemTypes' /\ item'[t][f] = "succeeded" /\ at'[t][f] = "idle"
      /\ \A u \in Tasks : \A g \in FilesOf[u] : u # t \/ g # f =>
           item'[u][g] = item[u][g] /\ at'[u][g] = at[u][g] /\ overwrite'[u][g] = overwrite[u][g]
  BY <1>0, <1>5, SettleEffect DEF ItemStatus
<1>7. status[t] = "running"
  BY <1>0, <1>1, <1>5 DEF ItemTypes, RequestInv, RequestTrue
<1>8. UNCHANGED <<status, cancelRequested, decision, promise, late, answers>>
  BY DEF uploadSucceeds
<1>9. ItemTypes'
  BY <1>6
<1>10. TaskTypes'
  BY <1>0, <1>4, <1>8 DEF TaskTypes
<1>11. PageTypes'
  BY <1>0 DEF PageTypes, Pages, uploadSucceeds, settle, emit, TaskStatus
<1>12. ServerTypes'
  BY <1>0, <1>2, <1>3, <1>8 DEF ServerTypes
<1>13. FewActive'
  BY <1>0, <1>6, NoMoreActive DEF Table
<1>14. RequestInv'
  <2> SUFFICES ASSUME NEW u \in Tasks, NEW g \in FilesOf[u]  PROVE RequestTrue(u, g)'
    BY DEF RequestInv
  <2>1. CASE u = t /\ g = f
    BY <1>1, <1>4, <1>6, <1>8 DEF RequestInv, RequestTrue, TaskTypes, AnswerInv
  <2>2. CASE u # t \/ g # f
    BY <1>1, <1>4, <1>6, <1>8 DEF RequestInv, RequestTrue, TaskTypes
  <2> QED  BY <2>1, <2>2
<1>15. LateInv'
  BY <1>0, <1>1, <1>4, <1>8 DEF LateInv, ServerTypes
<1>16. AnswerInv'
  BY <1>1, <1>4, <1>8 DEF AnswerInv
<1>17. ItemInv'
  <2> SUFFICES ASSUME NEW u \in Tasks, NEW g \in FilesOf[u]  PROVE ItemTrue(u, g)'
    BY DEF ItemInv
  <2>1. CASE u = t /\ g = f
    BY <1>1, <1>4, <1>6, <1>8, TaskFiles DEF ItemInv, ItemTrue, AnswerInv
  <2>2. CASE u # t \/ g # f
    BY <1>1, <1>4, <1>6, <1>8, TaskFiles DEF ItemInv, ItemTrue, TaskTypes
  <2> QED  BY <2>1, <2>2
<1>18. StoredInv'
  <2> SUFFICES ASSUME NEW g \in Files  PROVE StoredTrue(g)'
    BY DEF StoredInv
  <2>1. CASE g = f
    BY <1>0, <1>1, <1>2, <1>3, <1>4, <1>8, <2>1 DEF StoredInv, StoredTrue, ServerTypes
  <2>2. CASE g # f
    BY <1>0, <1>1, <1>2, <1>3, <1>4, <1>7, <1>8 DEF StoredInv, StoredTrue, ServerTypes
  <2> QED  BY <2>1, <2>2
<1>19. ListingInv'
  <2> SUFFICES ASSUME NEW g \in unlisted'  PROVE \E u \in Tasks : MissedTrue(u, g)'
    BY DEF ListingInv
  <2>1. CASE g = f
    BY <1>2, <1>4, <1>7, <1>8, <2>1 DEF RequestInv, RequestTrue, LateInv, MissedTrue
  <2>2. CASE g # f
    BY <1>0, <1>1, <1>2, <1>3, <1>4, <1>7, <1>8 DEF ListingInv, MissedTrue, ServerTypes
  <2> QED  BY <2>1, <2>2
<1> QED  BY <1>9, <1>10, <1>11, <1>12, <1>13, <1>14, <1>15, <1>16, <1>17, <1>18, <1>19 DEF IInv,
            Types

\* A failed request, or a lost answer, keeps the invariant.
LEMMA UploadFailsKeeps == ASSUME IInv, NEW t \in Tasks, NEW f \in FilesOf[t], uploadFails(t, f)  PROVE IInv'
<1> USE NoneAssumption, TasksAssumption DEF task, Decision, Answer, Unasked
<1>0. Types /\ ItemTypes /\ TaskTypes /\ PageTypes /\ ServerTypes /\ FewActive
  BY DEF IInv, Types
<1>1. RequestInv /\ LateInv /\ AnswerInv /\ ItemInv /\ StoredInv /\ ListingInv
  BY DEF IInv
<1>2. f \in Files /\ ((Store(t, f) /\ (stored[f] = None \/ Answer(t, "overwrite"))) \/ UNCHANGED <<stored, unlisted, history>>)
  BY <1>1, TaskFiles DEF uploadFails, RequestInv, RequestTrue
<1>3. /\ history' \in Histories
      /\ \A u \in Tasks : /\ \A g \in Files : Wrote(u, g) => Wrote(u, g)'
                          /\ history'[u].retries = history[u].retries
                          /\ history'[u].cancelled = history[u].cancelled
  <2>1. CASE Store(t, f)
    BY <1>0, <1>2, <2>1, StoreEffect
  <2>2. CASE UNCHANGED history
    BY <1>0, <2>2 DEF TaskTypes, Wrote
  <2> QED  BY <1>2, <2>1, <2>2
<1>4. settle(t, f, "failed") /\ at[t][f] # "idle" /\ at[t][f] = "sent"
  BY DEF uploadFails
<1>5. /\ ItemTypes' /\ item'[t][f] = "failed" /\ at'[t][f] = "idle"
      /\ \A u \in Tasks : \A g \in FilesOf[u] : u # t \/ g # f =>
           item'[u][g] = item[u][g] /\ at'[u][g] = at[u][g] /\ overwrite'[u][g] = overwrite[u][g]
  BY <1>0, <1>4, SettleEffect DEF ItemStatus
<1>6. status[t] = "running"
  BY <1>0, <1>1, <1>4 DEF ItemTypes, RequestInv, RequestTrue
<1>7. UNCHANGED <<status, cancelRequested, decision, promise, late, answers>>
  BY DEF uploadFails
<1>8. ItemTypes'
  BY <1>5
<1>9. TaskTypes'
  BY <1>0, <1>3, <1>7 DEF TaskTypes
<1>10. PageTypes'
  BY <1>0 DEF PageTypes, Pages, uploadFails, settle, emit, TaskStatus
<1>11. ServerTypes'
  <2>1. CASE Store(t, f)
    BY <1>0, <1>2, <1>7 DEF ServerTypes, Store
  <2>2. CASE UNCHANGED <<stored, unlisted, history>>
    BY <1>0, <1>7, <2>2 DEF ServerTypes
  <2> QED  BY <1>2, <2>1, <2>2
<1>12. FewActive'
  BY <1>0, <1>5, NoMoreActive DEF Table
<1>13. RequestInv'
  <2> SUFFICES ASSUME NEW u \in Tasks, NEW g \in FilesOf[u]  PROVE RequestTrue(u, g)'
    BY DEF RequestInv
  <2>1. CASE u = t /\ g = f
    BY <1>1, <1>3, <1>5, <1>7 DEF RequestInv, RequestTrue, TaskTypes, AnswerInv
  <2>2. CASE u # t \/ g # f
    BY <1>1, <1>3, <1>5, <1>7 DEF RequestInv, RequestTrue, TaskTypes
  <2> QED  BY <2>1, <2>2
<1>14. LateInv'
  BY <1>0, <1>1, <1>3, <1>7 DEF LateInv, ServerTypes
<1>15. AnswerInv'
  BY <1>1, <1>3, <1>7 DEF AnswerInv
<1>16. ItemInv'
  <2> SUFFICES ASSUME NEW u \in Tasks, NEW g \in FilesOf[u]  PROVE ItemTrue(u, g)'
    BY DEF ItemInv
  <2>1. CASE u = t /\ g = f
    BY <1>1, <1>3, <1>5, <1>6, <1>7, TaskFiles DEF ItemInv, ItemTrue, AnswerInv
  <2>2. CASE u # t \/ g # f
    BY <1>1, <1>3, <1>5, <1>6, <1>7, TaskFiles DEF ItemInv, ItemTrue, TaskTypes
  <2> QED  BY <2>1, <2>2
<1>17. StoredInv'
  <2> SUFFICES ASSUME NEW g \in Files  PROVE StoredTrue(g)'
    BY DEF StoredInv
  <2>1. CASE UNCHANGED <<stored, unlisted, history>>
    BY <1>1, <1>7, <2>1 DEF StoredInv, StoredTrue, Wrote
  <2>2. CASE Store(t, f) /\ (stored[f] = None \/ Answer(t, "overwrite"))
    <3>1. stored' = [stored EXCEPT ![f] = t]
      BY <2>2 DEF Store
    <3>2. \A u \in Tasks : Wrote(u, g)' <=> Wrote(u, g) \/ (u = t /\ g = f)
      BY <1>0, <1>2, <2>2, StoreEffect
    <3>3. CASE g = f
      BY <1>0, <1>1, <1>7, <2>2, <3>1, <3>2 DEF StoredInv, StoredTrue, ServerTypes
    <3>4. CASE g # f
      BY <1>1, <1>7, <3>1, <3>2, <3>4 DEF StoredInv, StoredTrue, ServerTypes
    <3> QED  BY <3>3, <3>4
  <2> QED  BY <1>2, <2>1, <2>2
<1>18. ListingInv'
  <2> SUFFICES ASSUME NEW g \in unlisted'  PROVE \E u \in Tasks : MissedTrue(u, g)'
    BY DEF ListingInv
  <2>1. CASE g \in unlisted
    BY <1>0, <1>1, <1>3, <1>7, <2>1 DEF ListingInv, MissedTrue, ServerTypes
  <2>2. CASE g \notin unlisted
    <3>1. g = f /\ Store(t, f)
      BY <1>2, <2>2 DEF Store
    <3> QED  BY <1>0, <1>2, <1>3, <1>4, <1>5, <1>6, <1>7, <3>1, StoreEffect DEF MissedTrue
  <2> QED  BY <2>1, <2>2
<1> QED  BY <1>8, <1>9, <1>10, <1>11, <1>12, <1>13, <1>14, <1>15, <1>16, <1>17, <1>18 DEF IInv,
            Types

\* A conflict keeps the invariant.
LEMMA UploadConflictsKeeps == ASSUME IInv, NEW t \in Tasks, NEW f \in FilesOf[t], uploadConflicts(t, f)  PROVE IInv'
<1> USE NoneAssumption, TasksAssumption DEF task, Decision, Answer, Unasked
<1>0. Types /\ ItemTypes /\ TaskTypes /\ PageTypes /\ ServerTypes /\ FewActive
  BY DEF IInv, Types
<1>1. RequestInv /\ LateInv /\ AnswerInv /\ ItemInv /\ StoredInv /\ ListingInv
  BY DEF IInv
<1>2. UNCHANGED <<status, item, overwrite, cancelRequested, decision, stored, late, unlisted, answers, history>>
  BY DEF uploadConflicts
<1>3. /\ Table(at', Phase) /\ at[t][f] = "sent" /\ at'[t][f] = "deciding"
      /\ \A u \in Tasks : \A g \in FilesOf[u] : u # t \/ g # f => at'[u][g] = at[u][g]
  BY <1>0, PhaseUpdate DEF uploadConflicts, Phase
<1>4. promise' = promise \/ promise' = [promise EXCEPT ![t] = "asking"]
  BY DEF uploadConflicts
<1>5. ItemTypes'
  <2>1. \A u \in Tasks : \A g \in FilesOf[u] : item'[u][g] = "uploading" <=> at'[u][g] # "idle"
    BY <1>0, <1>2, <1>3, <1>4 DEF ItemTypes
  <2> QED  BY <1>0, <1>2, <1>3, <1>4, <2>1 DEF ItemTypes, Table
<1>6. TaskTypes'
  BY <1>0, <1>1, <1>2, <1>3, <1>4 DEF TaskTypes
<1>7. PageTypes'
  BY <1>0 DEF PageTypes, Pages, uploadConflicts
<1>8. ServerTypes'
  BY <1>0, <1>1, <1>2, <1>3, <1>4 DEF ServerTypes
<1>9. FewActive'
  BY <1>0, <1>2, <1>3, <1>4, NoMoreActive DEF Table
<1>10. RequestInv'
  <2> SUFFICES ASSUME NEW u \in Tasks, NEW g \in FilesOf[u]  PROVE RequestTrue(u, g)'
    BY DEF RequestInv
  <2>1. CASE u = t /\ g = f
    BY <1>1, <1>2, <1>3 DEF RequestInv, RequestTrue, TaskTypes, AnswerInv, Wrote
  <2>2. CASE u # t \/ g # f
    BY <1>1, <1>2, <1>3 DEF RequestInv, RequestTrue, TaskTypes, Wrote
  <2> QED  BY <2>1, <2>2
<1>11. LateInv'
  BY <1>0, <1>1, <1>2, <1>3, <1>4 DEF LateInv
<1>12. AnswerInv'
  BY <1>0, <1>1, <1>2, <1>3, <1>4 DEF AnswerInv, TaskTypes, Histories
<1>13. ItemInv'
  <2> SUFFICES ASSUME NEW u \in Tasks, NEW g \in FilesOf[u]  PROVE ItemTrue(u, g)'
    BY DEF ItemInv
  <2>1. CASE u = t /\ g = f
    BY <1>1, <1>2 DEF ItemInv, ItemTrue, AnswerInv, Wrote
  <2>2. CASE u # t \/ g # f
    BY <1>1, <1>2 DEF ItemInv, ItemTrue, TaskTypes, Wrote
  <2> QED  BY <2>1, <2>2
<1>14. StoredInv'
  BY <1>0, <1>1, <1>2, <1>3, <1>4 DEF StoredInv, StoredTrue, Wrote
<1>15. ListingInv'
  BY <1>0, <1>1, <1>2, <1>3, <1>4 DEF ListingInv, MissedTrue, Wrote
<1> QED  BY <1>5, <1>6, <1>7, <1>8, <1>9, <1>10, <1>11, <1>12, <1>13, <1>14, <1>15 DEF IInv, Types

\* The second request of a conflict keeps the invariant.
LEMMA OverwriteItemKeeps == ASSUME IInv, NEW t \in Tasks, NEW f \in FilesOf[t], overwriteItem(t, f)  PROVE IInv'
<1> USE NoneAssumption, TasksAssumption DEF task, Decision, Answer, Unasked
<1>0. Types /\ ItemTypes /\ TaskTypes /\ PageTypes /\ ServerTypes /\ FewActive
  BY DEF IInv, Types
<1>1. RequestInv /\ LateInv /\ AnswerInv /\ ItemInv /\ StoredInv /\ ListingInv
  BY DEF IInv
<1>2. UNCHANGED <<status, item, cancelRequested, promise, page, stored, late, unlisted, answers, history>>
  BY DEF overwriteItem
<1>3. /\ Table(at', Phase) /\ at[t][f] = "deciding" /\ at'[t][f] = IF cancelRequested[t] THEN "aborted" ELSE "sent"
      /\ \A u \in Tasks : \A g \in FilesOf[u] : u # t \/ g # f => at'[u][g] = at[u][g]
  <2>1. at[t][f] = "deciding" /\ at' = [at EXCEPT ![t][f] = IF cancelRequested[t] THEN "aborted" ELSE "sent"]
    BY DEF overwriteItem
  <2>2. CASE cancelRequested[t]
    BY <1>0, <2>1, <2>2, PhaseUpdate DEF Phase
  <2>3. CASE ~cancelRequested[t]
    BY <1>0, <2>1, <2>3, PhaseUpdate DEF Phase
  <2> QED  BY <2>2, <2>3
<1>4. /\ Table(overwrite', BOOLEAN)
      /\ \A u \in Tasks : \A g \in FilesOf[u] : u # t \/ g # f => overwrite'[u][g] = overwrite[u][g]
  BY <1>0 DEF overwriteItem, ItemTypes, Table
<1>5. decision' = [decision EXCEPT ![t] = "overwrite"] /\ Answer(t, "overwrite")
  BY <1>0, <1>1 DEF overwriteItem, Chosen, AnswerInv
<1>6. ItemTypes'
  <2>1. \A u \in Tasks : \A g \in FilesOf[u] : item'[u][g] = "uploading" <=> at'[u][g] # "idle"
    BY <1>0, <1>2, <1>3, <1>4, <1>5 DEF ItemTypes
  <2> QED  BY <1>0, <1>2, <1>3, <1>4, <1>5, <2>1 DEF ItemTypes, Table
<1>7. TaskTypes'
  BY <1>0, <1>2, <1>5 DEF TaskTypes
<1>8. PageTypes'
  BY <1>0, <1>2 DEF PageTypes
<1>9. ServerTypes'
  BY <1>0, <1>2 DEF ServerTypes
<1>10. FewActive'
  BY <1>0, <1>2, NoMoreActive DEF Table
<1>11. RequestInv'
  <2> SUFFICES ASSUME NEW u \in Tasks, NEW g \in FilesOf[u]  PROVE RequestTrue(u, g)'
    BY DEF RequestInv
  <2>1. CASE u = t /\ g = f
    BY <1>1, <1>2, <1>3, <1>5, <2>1 DEF RequestInv, RequestTrue, TaskTypes, AnswerInv, Wrote
  <2>2. CASE u # t \/ g # f
    BY <1>1, <1>2, <1>3, <1>4, <2>2 DEF RequestInv, RequestTrue, TaskTypes, Wrote
  <2> QED  BY <2>1, <2>2
<1>12. LateInv'
  BY <1>1, <1>2 DEF LateInv, ServerTypes
<1>13. AnswerInv'
  BY <1>0, <1>1, <1>2, <1>5 DEF AnswerInv, TaskTypes
<1>14. ItemInv'
  <2> SUFFICES ASSUME NEW u \in Tasks, NEW g \in FilesOf[u]  PROVE ItemTrue(u, g)'
    BY DEF ItemInv
  <2>1. CASE u = t /\ g = f
    BY <1>1, <1>2 DEF ItemInv, ItemTrue, AnswerInv, Wrote
  <2>2. CASE u # t \/ g # f
    BY <1>1, <1>2 DEF ItemInv, ItemTrue, TaskTypes, Wrote
  <2> QED  BY <2>1, <2>2
<1>15. StoredInv'
  BY <1>1, <1>2 DEF StoredInv, StoredTrue, ServerTypes, Wrote
<1>16. ListingInv'
  BY <1>1, <1>2 DEF ListingInv, MissedTrue, TaskTypes, Wrote
<1> QED  BY <1>6, <1>7, <1>8, <1>9, <1>10, <1>11, <1>12, <1>13, <1>14, <1>15, <1>16 DEF IInv, Types

\* The answer "cancel" keeps the invariant.
LEMMA CancelByDecisionKeeps == ASSUME IInv, NEW t \in Tasks, NEW f \in FilesOf[t], cancelByDecision(t, f)  PROVE IInv'
<1> USE NoneAssumption, TasksAssumption DEF task, Decision, Answer, Unasked
<1>0. Types /\ ItemTypes /\ TaskTypes /\ PageTypes /\ ServerTypes /\ FewActive
  BY DEF IInv, Types
<1>1. RequestInv /\ LateInv /\ AnswerInv /\ ItemInv /\ StoredInv /\ ListingInv
  BY DEF IInv
<1>2. UNCHANGED <<status, overwrite, decision, promise, stored, unlisted, answers>>
  BY DEF cancelByDecision
<1>3. /\ Abort(t, {f}) /\ history' = [history EXCEPT ![t].cancelled = TRUE]
      /\ at[t][f] = "deciding" /\ cancelRequested' = [cancelRequested EXCEPT ![t] = TRUE]
  BY DEF cancelByDecision
<1>4. /\ Table(at', Phase)
      /\ \A u \in Tasks : \A g \in FilesOf[u] :
           at'[u][g] = IF u # t THEN at[u][g] ELSE IF g \in {f} THEN "idle" ELSE IF at[t][g] = "sent" THEN "aborted" ELSE at[t][g]
  BY <1>0, <1>3, AbortEffect
<1>5. \A r \in late' \ late : /\ r.task = t /\ r.file \in FilesOf[t] /\ at[t][r.file] = "sent"
                             /\ r.overwrite = overwrite[t][r.file]
                             /\ r \in [task : Tasks, file : Files, overwrite : BOOLEAN]
  BY <1>0, <1>3, AbortEffect
<1>6. /\ history' \in Histories
      /\ \A u \in Tasks : /\ history'[u].stored = history[u].stored
                          /\ history'[u].retries = history[u].retries
                          /\ history'[u].cancelled <=> u = t \/ history[u].cancelled
  BY <1>0, <1>3, CancelEffect
<1>7. /\ Table(item', ItemStatus) /\ item'[t][f] = "cancelled"
      /\ \A u \in Tasks : \A g \in FilesOf[u] : u # t \/ g # f => item'[u][g] = item[u][g]
  BY <1>0, ItemUpdate DEF cancelByDecision, ItemStatus
<1>8. status[t] = "running"
  BY <1>0, <1>1, <1>3 DEF ItemTypes, RequestInv, RequestTrue
<1>9. ItemTypes'
  <2>1. \A u \in Tasks : \A g \in FilesOf[u] : item'[u][g] = "uploading" <=> at'[u][g] # "idle"
    BY <1>0, <1>4, <1>7 DEF ItemTypes
  <2> QED  BY <1>0, <1>2, <1>4, <1>5, <1>7, <1>8, <2>1 DEF ItemTypes, Table
<1>10. TaskTypes'
  BY <1>0, <1>2, <1>3, <1>6 DEF TaskTypes
<1>11. PageTypes'
  BY <1>0 DEF PageTypes, Pages, cancelByDecision, emit, TaskStatus
<1>12. ServerTypes'
  BY <1>0, <1>2, <1>5 DEF ServerTypes
<1>13. FewActive'
  BY <1>0, <1>7, NoMoreActive DEF Table
<1>14. RequestInv'
  <2> SUFFICES ASSUME NEW u \in Tasks, NEW g \in FilesOf[u]  PROVE RequestTrue(u, g)'
    BY DEF RequestInv
  <2>1. CASE u = t /\ g = f
    BY <1>1, <1>2, <1>3, <1>4, <1>6, <1>7 DEF RequestInv, RequestTrue, TaskTypes, AnswerInv, Wrote
  <2>2. CASE u # t \/ g # f
    BY <1>1, <1>2, <1>3, <1>4, <1>6, <1>7 DEF RequestInv, RequestTrue, TaskTypes, Wrote
  <2> QED  BY <2>1, <2>2
<1>15. LateInv'
  <2> SUFFICES ASSUME NEW r \in late'
               PROVE  history'[r.task].cancelled /\ (r.overwrite => <<r.task, "overwrite">> \in answers')
    BY DEF LateInv
  <2>1. CASE r \in late
    BY <1>1, <1>2, <1>3, <2>1 DEF LateInv, ServerTypes
  <2>2. CASE r \notin late
    BY <1>1, <1>2, <1>5, <1>6, <2>2 DEF RequestInv, RequestTrue
  <2> QED  BY <2>1, <2>2
<1>16. AnswerInv'
  BY <1>0, <1>1, <1>2, <1>3, <1>6, <1>7, <1>8 DEF AnswerInv, TaskTypes
<1>17. ItemInv'
  <2> SUFFICES ASSUME NEW u \in Tasks, NEW g \in FilesOf[u]  PROVE ItemTrue(u, g)'
    BY DEF ItemInv
  <2>1. CASE u = t /\ g = f
    BY <1>1, <1>2, <1>6, <1>7, <1>8 DEF ItemInv, ItemTrue, AnswerInv, Wrote
  <2>2. CASE u # t \/ g # f
    BY <1>1, <1>2, <1>6, <1>7, <1>8 DEF ItemInv, ItemTrue, TaskTypes, Wrote
  <2> QED  BY <2>1, <2>2
<1>18. StoredInv'
  BY <1>1, <1>2, <1>3 DEF StoredInv, StoredTrue, ServerTypes, Wrote
<1>19. ListingInv'
  BY <1>1, <1>2, <1>3 DEF ListingInv, MissedTrue, TaskTypes, Wrote
<1> QED  BY <1>9, <1>10, <1>11, <1>12, <1>13, <1>14, <1>15, <1>16, <1>17, <1>18, <1>19 DEF IInv,
            Types

\* The end of the workers keeps the invariant.
LEMMA RunKeeps == ASSUME IInv, NEW t \in Tasks, run(t)  PROVE IInv'
<1> USE NoneAssumption, TasksAssumption DEF task, Decision, Answer, Unasked
<1>0. Types /\ ItemTypes /\ TaskTypes /\ PageTypes /\ ServerTypes /\ FewActive
  BY DEF IInv, Types
<1>1. RequestInv /\ LateInv /\ AnswerInv /\ ItemInv /\ StoredInv /\ ListingInv
  BY DEF IInv
<1>2. UNCHANGED <<at, overwrite, cancelRequested, decision, promise, stored, late, answers, history>>
  BY DEF run, runEnds
<1>3. /\ status[t] = "running" /\ status' = [status EXCEPT ![t] = runResult(t)]
      /\ unlisted' = IF history[t].retries = 0 THEN {} ELSE unlisted
  BY DEF run, runEnds, workersReturned
<1>4. /\ runResult(t) \in {"completed", "completed_with_errors", "cancelled"}
      /\ \A f \in FilesOf[t] : item[t][f] # "uploading"
      /\ \A f \in FilesOf[t] : item[t][f] = "queued" => cancelRequested[t]
      /\ runResult(t) = "completed" => ~cancelRequested[t] /\ \A f \in FilesOf[t] : item[t][f] # "failed"
  BY DEF run, workersReturned, runResult, Active, Queued
<1>5. /\ Table(item', ItemStatus)
      /\ \A u \in Tasks : \A g \in FilesOf[u] :
           item'[u][g] = IF u = t /\ item[u][g] = "queued" THEN "cancelled" ELSE item[u][g]
  <2>1. item' = [item EXCEPT ![t] = [f \in FilesOf[t] |-> IF item[t][f] = "queued" THEN "cancelled" ELSE item[t][f]]]
    BY <1>0 DEF run, runEnds
  <2> QED  BY <1>0, <2>1 DEF ItemTypes, Table, ItemStatus
<1>6. ItemTypes'
  <2>1. \A u \in Tasks : \A g \in FilesOf[u] : item'[u][g] = "uploading" <=> at'[u][g] # "idle"
    BY <1>0, <1>2, <1>3, <1>4, <1>5 DEF ItemTypes
  <2> QED  BY <1>0, <1>2, <1>3, <1>4, <1>5, <2>1 DEF ItemTypes, Table
<1>7. TaskTypes'
  BY <1>0, <1>2, <1>3, <1>4 DEF TaskTypes, TaskStatus
<1>8. PageTypes'
  BY <1>0, <1>2, <1>3, <1>4, <1>5 DEF PageTypes, Pages, run, runEnds, emit, TaskStatus
<1>9. ServerTypes'
  BY <1>0, <1>2, <1>3 DEF ServerTypes
<1>10. FewActive'
  BY <1>0, <1>5, NoMoreActive DEF Table
<1>11. RequestInv'
  <2> SUFFICES ASSUME NEW u \in Tasks, NEW g \in FilesOf[u]  PROVE RequestTrue(u, g)'
    BY DEF RequestInv
  <2> QED  BY <1>0, <1>1, <1>2, <1>3, <1>4, <1>5 DEF RequestInv, RequestTrue, TaskTypes
<1>12. LateInv'
  BY <1>1, <1>2 DEF LateInv, ServerTypes
<1>13. AnswerInv'
  BY <1>1, <1>2 DEF AnswerInv, TaskTypes, Histories
<1>14. ItemInv'
  <2> SUFFICES ASSUME NEW u \in Tasks, NEW g \in FilesOf[u]  PROVE ItemTrue(u, g)'
    BY DEF ItemInv
  <2>0. item[u][g] \in ItemStatus /\ ItemTrue(u, g) /\ history[u].retries \in Nat
    BY <1>0, <1>1 DEF ItemInv, ItemTypes, Table, TaskTypes, Histories
  <2>1. CASE u = t
    <3>1. /\ item'[t][g] = IF item[t][g] = "queued" THEN "cancelled" ELSE item[t][g]
          /\ status'[t] = runResult(t) /\ history' = history /\ answers' = answers
      BY <1>0, <1>2, <1>3, <1>5, <2>1 DEF TaskTypes
    <3>2. cancelRequested[t] => history[t].cancelled
      BY <1>0, <1>1 DEF AnswerInv
    <3>3. history[t].cancelled => cancelRequested[t] \/ history[t].retries > 0
      BY <1>0, <1>1 DEF AnswerInv
    <3>4. item[t][g] \notin {"uploading", "queued"} \/ (item[t][g] = "queued" /\ cancelRequested[t])
      BY <1>4, <2>1
    <3>5. runResult(t) = "completed" =>
            ~cancelRequested[t] /\ item[t][g] \in {"succeeded", "skipped", "cancelled"}
      BY <1>4, <2>0, <2>1, <3>4 DEF ItemStatus
    <3> QED  BY <2>0, <2>1, <3>1, <3>2, <3>3, <3>4, <3>5 DEF ItemTrue, Wrote, Answer
  <2>2. CASE u # t
    BY <1>2, <1>3, <1>5, <2>0, <2>2 DEF ItemTrue, TaskTypes, Wrote
  <2> QED  BY <2>1, <2>2
<1>15. StoredInv'
  BY <1>1, <1>2 DEF StoredInv, StoredTrue, ServerTypes, Wrote
<1>16. ListingInv'
  <2> SUFFICES ASSUME NEW g \in unlisted'  PROVE \E u \in Tasks : MissedTrue(u, g)'
    BY DEF ListingInv
  <2>1. g \in unlisted /\ history[t].retries > 0
    BY <1>0, <1>2, <1>3, <1>4, <1>5 DEF TaskTypes, Histories
  <2>2. PICK u \in Tasks : MissedTrue(u, g)
    BY <1>1, <2>1 DEF ListingInv
  <2> QED  BY <1>0, <1>2, <1>3, <1>4, <1>5, <2>1, <2>2 DEF MissedTrue, TaskTypes, Wrote
<1> QED  BY <1>6, <1>7, <1>8, <1>9, <1>10, <1>11, <1>12, <1>13, <1>14, <1>15, <1>16 DEF IInv, Types

\* A retry keeps the invariant.
LEMMA RetryFailedKeeps == ASSUME IInv, retryFailed  PROVE IInv'
<1> USE NoneAssumption, TasksAssumption DEF task, Decision, Answer, Unasked
<1> DEFINE t == page.controller
<1>0. Types /\ ItemTypes /\ TaskTypes /\ PageTypes /\ ServerTypes /\ FewActive
  BY DEF IInv, Types
<1>1. RequestInv /\ LateInv /\ AnswerInv /\ ItemInv /\ StoredInv /\ ListingInv
  BY DEF IInv
<1>2. /\ t \in Tasks /\ status[t] # "running" /\ status' = [status EXCEPT ![t] = "running"]
      /\ cancelRequested' = [cancelRequested EXCEPT ![t] = FALSE]
  BY <1>0 DEF retryFailed, start, PageTypes, Pages
<1>3. /\ history' \in Histories /\ history'[t].retries > 0
      /\ \A u \in Tasks : /\ history'[u].stored = history[u].stored
                          /\ u # t => history'[u].retries = history[u].retries
                          /\ history'[u].cancelled = history[u].cancelled
  <2>1. page.controller \in Tasks /\ history[t].retries \in Nat
    BY <1>0, <1>2 DEF TaskTypes, Histories
  <2> QED  BY <1>0, <2>1, RetryEffect
<1>4. UNCHANGED <<at, overwrite, decision, promise, stored, late, unlisted, answers>>
  BY DEF retryFailed
<1>5. /\ Table(item', ItemStatus)
      /\ \A u \in Tasks : \A g \in FilesOf[u] :
           item'[u][g] = IF u = t /\ item[u][g] = "failed" THEN "queued" ELSE item[u][g]
  <2>1. item' = [item EXCEPT ![t] = [f \in FilesOf[t] |-> IF item[t][f] = "failed" THEN "queued" ELSE item[t][f]]]
    BY <1>0, <1>2 DEF retryFailed
  <2> HIDE DEF t
  <2> QED  BY <1>0, <1>2, <2>1 DEF ItemTypes, Table, ItemStatus
<1> HIDE DEF t
<1>6. ItemTypes'
  <2>1. \A u \in Tasks : \A g \in FilesOf[u] : item'[u][g] = "uploading" <=> at'[u][g] # "idle"
    BY <1>0, <1>2, <1>3, <1>4, <1>5 DEF ItemTypes
  <2> QED  BY <1>0, <1>2, <1>3, <1>4, <1>5, <2>1 DEF ItemTypes, Table
<1>7. TaskTypes'
  BY <1>0, <1>2, <1>3, <1>4 DEF TaskTypes, TaskStatus
<1>8. PageTypes'
  BY <1>0, <1>2, <1>3, <1>4, <1>5 DEF PageTypes, Pages, retryFailed, start, emit, TaskStatus
<1>9. ServerTypes'
  BY <1>0, <1>4 DEF ServerTypes
<1>10. FewActive'
  BY <1>0, <1>5, NoMoreActive DEF Table
<1>11. RequestInv'
  <2> SUFFICES ASSUME NEW u \in Tasks, NEW g \in FilesOf[u]  PROVE RequestTrue(u, g)'
    BY DEF RequestInv
  <2> QED  BY <1>0, <1>1, <1>2, <1>3, <1>4, <1>5 DEF RequestInv, RequestTrue, TaskTypes, AnswerInv,
              ItemTypes
<1>12. LateInv'
  BY <1>0, <1>1, <1>3, <1>4 DEF LateInv, ServerTypes
<1>13. AnswerInv'
  BY <1>0, <1>1, <1>2, <1>3, <1>4 DEF AnswerInv, TaskTypes
<1>14. ItemInv'
  <2> SUFFICES ASSUME NEW u \in Tasks, NEW g \in FilesOf[u]  PROVE ItemTrue(u, g)'
    BY DEF ItemInv
  <2>0. item[u][g] \in ItemStatus /\ ItemTrue(u, g) /\ history[u].retries \in Nat
    BY <1>0, <1>1 DEF ItemInv, ItemTypes, Table, TaskTypes, Histories
  <2>1. CASE u = t
    BY <1>2, <1>3, <1>4, <1>5, <2>0 DEF ItemTrue, TaskTypes, Wrote
  <2>2. CASE u # t
    BY <1>2, <1>3, <1>4, <1>5, <2>0 DEF ItemTrue, TaskTypes, Wrote
  <2> QED  BY <2>1, <2>2
<1>15. StoredInv'
  BY <1>1, <1>3, <1>4 DEF StoredInv, StoredTrue, ServerTypes, Wrote
<1>16. ListingInv'
  BY <1>1, <1>2, <1>3, <1>4 DEF ListingInv, MissedTrue, TaskTypes, Wrote
<1> QED  BY <1>6, <1>7, <1>8, <1>9, <1>10, <1>11, <1>12, <1>13, <1>14, <1>15, <1>16 DEF IInv, Types

\* An aborted request that is carried out late keeps the invariant.
LEMMA AbortedUploadKeeps == ASSUME IInv, NEW r \in late, abortedUpload(r)  PROVE IInv'
<1> USE NoneAssumption, TasksAssumption DEF task, Decision, Answer, Unasked
<1> DEFINE t == r.task
           f == r.file
<1>0. Types /\ ItemTypes /\ TaskTypes /\ PageTypes /\ ServerTypes /\ FewActive
  BY DEF IInv, Types
<1>1. RequestInv /\ LateInv /\ AnswerInv /\ ItemInv /\ StoredInv /\ ListingInv
  BY DEF IInv
<1>2. /\ t \in Tasks /\ f \in Files /\ Store(t, f) /\ late' \subseteq late
      /\ stored[f] = None \/ Answer(t, "overwrite")
      /\ history[t].cancelled
  BY <1>0, <1>1 DEF abortedUpload, ServerTypes, LateInv
<1> HIDE DEF t, f
<1>3. stored' = [stored EXCEPT ![f] = t] /\ unlisted' = unlisted \cup {f}
  BY <1>2 DEF Store
<1>4. /\ history' \in Histories
      /\ \A u \in Tasks : /\ \A g \in Files : Wrote(u, g)' <=> Wrote(u, g) \/ (u = t /\ g = f)
                          /\ history'[u].retries = history[u].retries
                          /\ history'[u].cancelled = history[u].cancelled
  BY <1>0, <1>2, StoreEffect
<1>5. UNCHANGED <<task, page, answers>>
  BY DEF abortedUpload
<1>6. \A u \in Tasks : FilesOf[u] \subseteq Files
  BY TaskFiles
<1>7. ItemTypes'
  BY <1>0, <1>5 DEF ItemTypes
<1>8. TaskTypes'
  BY <1>0, <1>4, <1>5 DEF TaskTypes
<1>9. PageTypes'
  BY <1>0, <1>5 DEF PageTypes
<1>10. ServerTypes'
  BY <1>0, <1>2, <1>3, <1>5 DEF ServerTypes
<1>11. FewActive'
  BY <1>0, <1>5, NoMoreActive DEF Table
<1>12. RequestInv'
  BY <1>1, <1>4, <1>5 DEF RequestInv, RequestTrue, TaskTypes
<1>13. LateInv'
  <2> SUFFICES ASSUME NEW q \in late'  PROVE LET T == q.task IN history'[T].cancelled /\ (q.overwrite => <<T, "overwrite">> \in answers')
    BY DEF LateInv
  <2>1. q \in late /\ q.task \in Tasks
    BY <1>0, <1>2 DEF ServerTypes
  <2> QED  BY <1>1, <1>2, <1>3, <1>4, <1>5, <2>1 DEF LateInv
<1>14. AnswerInv'
  BY <1>1, <1>4, <1>5 DEF AnswerInv
<1>15. ItemInv'
  BY <1>1, <1>4, <1>5, <1>6 DEF ItemInv, ItemTrue
<1>16. StoredInv'
  <2> SUFFICES ASSUME NEW g \in Files  PROVE StoredTrue(g)'
    BY DEF StoredInv
  <2>1. CASE g = f
    BY <1>0, <1>1, <1>2, <1>3, <1>4, <1>5 DEF StoredInv, StoredTrue, ServerTypes
  <2>2. CASE g # f
    BY <1>0, <1>1, <1>2, <1>3, <1>4, <1>5 DEF StoredInv, StoredTrue, ServerTypes
  <2> QED  BY <2>1, <2>2
<1>17. ListingInv'
  <2> SUFFICES ASSUME NEW g \in unlisted'  PROVE \E u \in Tasks : MissedTrue(u, g)'
    BY DEF ListingInv
  <2>1. CASE g = f
    BY <1>2, <1>4, <2>1 DEF MissedTrue
  <2>2. CASE g # f
    BY <1>0, <1>1, <1>2, <1>3, <1>4, <1>5 DEF ListingInv, MissedTrue, ServerTypes
  <2> QED  BY <2>1, <2>2
<1> QED  BY <1>7, <1>8, <1>9, <1>10, <1>11, <1>12, <1>13, <1>14, <1>15, <1>16, <1>17 DEF IInv, Types

\* A worker's next request keeps the invariant.
LEMMA TakeNextKeeps == ASSUME IInv, NEW t \in Tasks, takeNext(t)  PROVE IInv'
<1> USE NoneAssumption, TasksAssumption DEF task, Decision, Answer, Unasked
<1> DEFINE f == Min(Queued(t))
<1>0. Types /\ ItemTypes /\ TaskTypes /\ PageTypes /\ ServerTypes /\ FewActive
  BY DEF IInv, Types
<1>1. RequestInv /\ LateInv /\ AnswerInv /\ ItemInv /\ StoredInv /\ ListingInv
  BY DEF IInv
<1>2. UNCHANGED <<status, cancelRequested, decision, promise, stored, late, unlisted, answers, history>>
  BY DEF takeNext
<1>3. /\ f \in FilesOf[t] /\ item[t][f] = "queued" /\ status[t] = "running" /\ ~cancelRequested[t]
  <2>1. Queued(t) \in SUBSET Nat /\ Queued(t) # {}
    BY TaskFiles DEF takeNext, Queued
  <2>2. f \in Queued(t)
    BY <2>1, LeastNumber
  <2> QED  BY <2>2 DEF takeNext, Queued
<1>4. /\ item' = [item EXCEPT ![t][f] = "uploading"] /\ at' = [at EXCEPT ![t][f] = "sent"]
      /\ overwrite' = [overwrite EXCEPT ![t][f] = FALSE]
  BY DEF takeNext
<1>5. /\ Table(item', ItemStatus) /\ item'[t][f] = "uploading"
      /\ \A u \in Tasks : \A g \in FilesOf[u] : u # t \/ g # f => item'[u][g] = item[u][g]
  <2> HIDE DEF f
  <2> QED  BY <1>0, <1>3, <1>4, ItemUpdate DEF ItemStatus
<1>6. /\ Table(at', Phase) /\ at'[t][f] = "sent"
      /\ \A u \in Tasks : \A g \in FilesOf[u] : u # t \/ g # f => at'[u][g] = at[u][g]
  <2> HIDE DEF f
  <2> QED  BY <1>0, <1>3, <1>4, PhaseUpdate DEF Phase
<1>7. /\ Table(overwrite', BOOLEAN) /\ ~overwrite'[t][f]
      /\ \A u \in Tasks : \A g \in FilesOf[u] : u # t \/ g # f => overwrite'[u][g] = overwrite[u][g]
  <2> HIDE DEF f
  <2> QED  BY <1>0, <1>3, <1>4 DEF ItemTypes, Table
<1> HIDE DEF f
<1>8. ItemTypes'
  BY <1>0, <1>2, <1>4, <1>5, <1>6, <1>7 DEF ItemTypes, Table
<1>9. TaskTypes'
  BY <1>0, <1>2 DEF TaskTypes
<1>10. PageTypes'
  BY <1>0 DEF PageTypes, Pages, takeNext, emit, TaskStatus
<1>11. ServerTypes'
  BY <1>0, <1>2 DEF ServerTypes
<1>12. FewActive'
  <2> SUFFICES ASSUME NEW u \in Tasks  PROVE Cardinality(Active(u)') <= Concurrency
    BY DEF FewActive
  <2>1. CASE u # t
    <3>1. Active(u)' = Active(u)
      BY <1>4, <2>1 DEF Active
    <3> QED  BY <1>0, <3>1 DEF FewActive
  <2>2. CASE u = t
    <3>1. Active(t)' = Active(t) \cup {f} /\ f \notin Active(t)
      BY <1>3, <1>5 DEF Active
    <3>2. IsFiniteSet(Active(t))
      BY FS_Subset DEF Active
    <3>3. Cardinality(Active(t)') = Cardinality(Active(t)) + 1 /\ Cardinality(Active(t)) \in Nat
      BY <3>1, <3>2, FS_AddElement, FS_CardinalityType
    <3>4. Cardinality(Active(t)) < Concurrency
      BY DEF takeNext
    <3> QED  BY <2>2, <3>3, <3>4
  <2> QED  BY <2>1, <2>2
<1>13. RequestInv'
  <2> SUFFICES ASSUME NEW u \in Tasks, NEW g \in FilesOf[u]  PROVE RequestTrue(u, g)'
    BY DEF RequestInv
  <2>1. CASE u = t /\ g = f
    BY <1>1, <1>2, <1>3, <1>4, <1>7 DEF RequestInv, RequestTrue, TaskTypes
  <2>2. CASE u # t \/ g # f
    BY <1>1, <1>2, <1>3, <1>4, <1>7 DEF RequestInv, RequestTrue, TaskTypes
  <2> QED  BY <2>1, <2>2
<1>14. LateInv'
  BY <1>1, <1>2 DEF LateInv, ServerTypes
<1>15. AnswerInv'
  BY <1>1, <1>2 DEF AnswerInv, TaskTypes, Histories
<1>16. ItemInv'
  <2> SUFFICES ASSUME NEW u \in Tasks, NEW g \in FilesOf[u]  PROVE ItemTrue(u, g)'
    BY DEF ItemInv
  <2>1. CASE u = t /\ g = f
    BY <1>1, <1>2, <1>3, <1>4 DEF ItemInv, ItemTrue, TaskTypes, Wrote
  <2>2. CASE u # t \/ g # f
    BY <1>1, <1>2, <1>3, <1>4 DEF ItemInv, ItemTrue, TaskTypes, Wrote
  <2> QED  BY <2>1, <2>2
<1>17. StoredInv'
  BY <1>1, <1>2 DEF StoredInv, StoredTrue, ServerTypes, Wrote
<1>18. ListingInv'
  BY <1>1, <1>2 DEF ListingInv, MissedTrue, TaskTypes, Wrote
<1> QED  BY <1>8, <1>9, <1>10, <1>11, <1>12, <1>13, <1>14, <1>15, <1>16, <1>17, <1>18 DEF IInv,
            Types

\* cancel() does nothing to a task that has ended, and cancels any other.
LEMMA CancelWorks ==
  ASSUME ItemTypes, TaskTypes, PageTypes, NEW p, cancel(page.controller, p)
  PROVE  /\ UNCHANGED <<status, overwrite, decision, promise, stored, unlisted, answers>>
         /\ \/ UNCHANGED <<cancelRequested, item, at, late, history>> /\ page' = p
            \/ \E t \in Tasks :
                 /\ ~Ended(t) /\ page' = emit(p, t, status[t])
                 /\ cancelRequested' = [cancelRequested EXCEPT ![t] = TRUE]
                 /\ item' = [item EXCEPT ![t] = [f \in FilesOf[t] |-> IF item[t][f] = "queued" THEN "cancelled" ELSE item[t][f]]]
                 /\ history' = [history EXCEPT ![t].cancelled = TRUE]
                 /\ Abort(t, {})
BY DEF cancel, PageTypes, Pages

\* The cancelling of a task that has not ended keeps the invariant.
LEMMA CancelKeeps ==
  ASSUME IInv, NEW t \in Tasks, NEW p,
         p \in Pages, ~Ended(t), page' = emit(p, t, status[t]),
         cancelRequested' = [cancelRequested EXCEPT ![t] = TRUE],
         item' = [item EXCEPT ![t] = [f \in FilesOf[t] |-> IF item[t][f] = "queued" THEN "cancelled" ELSE item[t][f]]],
         history' = [history EXCEPT ![t].cancelled = TRUE], Abort(t, {}),
         UNCHANGED <<status, overwrite, decision, promise, stored, unlisted, answers>>
  PROVE  IInv'
<1> USE NoneAssumption, TasksAssumption DEF task, Decision, Answer, Unasked
<1>0. Types /\ ItemTypes /\ TaskTypes /\ PageTypes /\ ServerTypes /\ FewActive
  BY DEF IInv, Types
<1>1. RequestInv /\ LateInv /\ AnswerInv /\ ItemInv /\ StoredInv /\ ListingInv
  BY DEF IInv
<1>2. /\ status[t] # "completed" /\ UNCHANGED <<status, overwrite, decision, promise, stored, unlisted, answers>>
      /\ cancelRequested' = [cancelRequested EXCEPT ![t] = TRUE]
  BY DEF Ended
<1>3. /\ Table(at', Phase)
      /\ \A u \in Tasks : \A g \in FilesOf[u] :
           at'[u][g] = IF u # t THEN at[u][g] ELSE IF at[t][g] = "sent" THEN "aborted" ELSE at[t][g]
  BY <1>0, AbortEffect
<1>4. \A r \in late' \ late : /\ r.task = t /\ r.file \in FilesOf[t] /\ at[t][r.file] = "sent"
                             /\ r.overwrite = overwrite[t][r.file]
                             /\ r \in [task : Tasks, file : Files, overwrite : BOOLEAN]
  BY <1>0, AbortEffect
<1>5. /\ history' \in Histories
      /\ \A u \in Tasks : /\ history'[u].stored = history[u].stored
                          /\ history'[u].retries = history[u].retries
                          /\ history'[u].cancelled <=> u = t \/ history[u].cancelled
  BY <1>0, CancelEffect
<1>6. /\ Table(item', ItemStatus)
      /\ \A u \in Tasks : \A g \in FilesOf[u] :
           item'[u][g] = IF u = t /\ item[u][g] = "queued" THEN "cancelled" ELSE item[u][g]
  BY <1>0 DEF ItemTypes, Table, ItemStatus
<1>7. ItemTypes'
  BY <1>0, <1>2, <1>3, <1>4, <1>5, <1>6 DEF ItemTypes, Table
<1>8. TaskTypes'
  BY <1>0, <1>5 DEF TaskTypes
<1>9. PageTypes'
  BY <1>0 DEF PageTypes, Pages, emit, TaskTypes
<1>10. ServerTypes'
  BY <1>0, <1>4 DEF ServerTypes
<1>11. FewActive'
  BY <1>0, NoMoreActive DEF Table
<1>12. RequestInv'
  <2> SUFFICES ASSUME NEW u \in Tasks, NEW g \in FilesOf[u]  PROVE RequestTrue(u, g)'
    BY DEF RequestInv
  <2> QED  BY <1>0, <1>1, <1>2, <1>3, <1>4, <1>5, <1>6 DEF RequestInv, RequestTrue, TaskTypes,
              ItemTypes
<1>13. LateInv'
  <2> SUFFICES ASSUME NEW r \in late'
               PROVE  history'[r.task].cancelled /\ (r.overwrite => <<r.task, "overwrite">> \in answers')
    BY DEF LateInv
  <2>1. CASE r \in late
    BY <1>1, <2>1 DEF LateInv, ServerTypes
  <2>2. CASE r \notin late
    BY <1>1, <1>4, <1>5, <2>2 DEF RequestInv, RequestTrue
  <2> QED  BY <2>1, <2>2
<1>14. AnswerInv'
  <2>1. \A u \in Tasks : (cancelRequested'[u] => history'[u].cancelled)
                       /\ (history'[u].cancelled => cancelRequested'[u] \/ history'[u].retries > 0)
    <3> TAKE u \in Tasks
    <3>1. CASE u = t
      BY <1>0, <1>5, <3>1 DEF TaskTypes
    <3>2. CASE u # t
      BY <1>0, <1>1, <1>5, <1>6, <3>2 DEF AnswerInv, TaskTypes
    <3> QED  BY <3>1, <3>2
  <2> QED  BY <1>1, <1>2, <1>3, <1>4, <1>5, <1>6, <2>1 DEF AnswerInv
<1>15. ItemInv'
  <2> SUFFICES ASSUME NEW u \in Tasks, NEW g \in FilesOf[u]  PROVE ItemTrue(u, g)'
    BY DEF ItemInv
  <2>0. item[u][g] \in ItemStatus /\ ItemTrue(u, g) /\ history[u].retries \in Nat
    BY <1>0, <1>1 DEF ItemInv, ItemTypes, Table, TaskTypes, Histories
  <2>1. CASE u = t
    BY <1>5, <2>0 DEF ItemTrue, TaskTypes, Wrote
  <2>2. CASE u # t
    BY <1>5, <2>0 DEF ItemTrue, TaskTypes, Wrote
  <2> QED  BY <2>1, <2>2
<1>16. StoredInv'
  BY <1>1 DEF StoredInv, StoredTrue, ServerTypes, Wrote
<1>17. ListingInv'
  BY <1>1 DEF ListingInv, MissedTrue, TaskTypes, Wrote
<1> QED  BY <1>7, <1>8, <1>9, <1>10, <1>11, <1>12, <1>13, <1>14, <1>15, <1>16, <1>17 DEF IInv, Types

\* A stuttering step keeps the invariant.
LEMMA UnchangedKeeps == ASSUME IInv, UNCHANGED vars  PROVE IInv'
<1> USE NoneAssumption, TasksAssumption DEF vars, task, Decision, Answer, Unasked
<1>0. Types /\ ItemTypes /\ TaskTypes /\ PageTypes /\ ServerTypes /\ FewActive
  BY DEF IInv, Types
<1>1. RequestInv /\ LateInv /\ AnswerInv /\ ItemInv /\ StoredInv /\ ListingInv
  BY DEF IInv
<1>2. UNCHANGED vars
  OBVIOUS
<1>3. ItemTypes'
  BY <1>0, <1>1, <1>2 DEF ItemTypes
<1>4. TaskTypes'
  BY <1>0, <1>1, <1>2 DEF TaskTypes
<1>5. PageTypes'
  BY <1>0, <1>1, <1>2 DEF PageTypes
<1>6. ServerTypes'
  BY <1>0, <1>1, <1>2 DEF ServerTypes
<1>7. FewActive'
  BY <1>0, <1>2, NoMoreActive DEF Table
<1>8. RequestInv'
  BY <1>1, <1>2 DEF RequestInv, RequestTrue
<1>9. LateInv'
  BY <1>0, <1>1, <1>2 DEF LateInv
<1>10. AnswerInv'
  BY <1>0, <1>1, <1>2 DEF AnswerInv
<1>11. ItemInv'
  BY <1>1, <1>2 DEF ItemInv, ItemTrue, Wrote
<1>12. StoredInv'
  BY <1>0, <1>1, <1>2 DEF StoredInv, StoredTrue, Wrote
<1>13. ListingInv'
  BY <1>0, <1>1, <1>2 DEF ListingInv, MissedTrue, Wrote
<1> QED  BY <1>3, <1>4, <1>5, <1>6, <1>7, <1>8, <1>9, <1>10, <1>11, <1>12, <1>13 DEF IInv, Types

-----------------------------------------------------------------------------
\* cancel() keeps the invariant whichever task the page controls.
LEMMA CancelAnyhowKeeps == ASSUME IInv, NEW p, p \in Pages, cancel(page.controller, p)  PROVE IInv'
<1>0. ItemTypes /\ TaskTypes /\ PageTypes
  BY DEF IInv, Types
<1>1. CASE UNCHANGED <<cancelRequested, item, at, late, history>> /\ page' = p
  <2>1. UNCHANGED <<status, overwrite, decision, promise, stored, unlisted, answers>>
    BY <1>0, CancelWorks
  <2>2. Types'
    BY <1>1, <2>1 DEF IInv, Types, ItemTypes, TaskTypes, PageTypes, ServerTypes, FewActive, Active
  <2>3. RequestInv' /\ ItemInv'
    BY <1>1, <2>1 DEF IInv, RequestInv, RequestTrue, ItemInv, ItemTrue, Wrote, Answer
  <2>4. LateInv' /\ AnswerInv'
    BY <1>1, <2>1 DEF IInv, LateInv, AnswerInv, Answer
  <2>5. StoredInv' /\ ListingInv'
    BY <1>1, <2>1 DEF IInv, StoredInv, StoredTrue, ListingInv, MissedTrue, Wrote, Unasked, Answer
  <2> QED  BY <2>2, <2>3, <2>4, <2>5 DEF IInv
<1>2. CASE ~(UNCHANGED <<cancelRequested, item, at, late, history>> /\ page' = p)
  BY <1>0, <1>2, CancelWorks, CancelKeeps
<1> QED  BY <1>1, <1>2

\* The cancel button and leaving the page keep the invariant.
LEMMA CancelledFromPage == ASSUME IInv, onCancel \/ unmount  PROVE IInv'
<1>1. PICK p \in Pages : cancel(page.controller, p)
  BY DEF IInv, Types, PageTypes, Pages, onCancel, unmount
<1> QED  BY <1>1, CancelAnyhowKeeps

\* Every step keeps the invariant.
LEMMA TaskStep == IInv /\ [Next]_vars => IInv'
<1> SUFFICES ASSUME IInv, [Next]_vars  PROVE IInv'
  OBVIOUS
<1>1. ASSUME NEW t \in Tasks, NEW f \in FilesOf[t], Coroutine(t, f)  PROVE IInv'
  BY <1>1, UploadSucceedsKeeps, UploadFailsKeeps, UploadConflictsKeeps, UploadAbortsKeeps,
     SkipItemKeeps, CancelByDecisionKeeps, OverwriteItemKeeps DEF Coroutine
<1>2. ASSUME NEW t \in Tasks, collectDroppedUpload(t) \/ takeNext(t) \/ run(t)  PROVE IInv'
  BY <1>2, CollectDroppedUploadKeeps, TakeNextKeeps, RunKeeps
<1>3. CASE UserStarts \/ UserActs \/ Answered
  BY <1>3, StartUploadKeeps, HandleDropKeeps, CancelledFromPage, RetryFailedKeeps, OnCloseKeeps,
     OnDecisionKeeps DEF UserStarts, UserActs, Answered
<1>4. ASSUME NEW r \in late, abortedUpload(r)  PROVE IInv'
  BY <1>4, AbortedUploadKeeps
<1>5. CASE UNCHANGED vars
  BY <1>5, UnchangedKeeps
<1> QED  BY <1>1, <1>2, <1>3, <1>4, <1>5 DEF Next

\* The invariant holds at the start.
LEMMA TaskInit == Init => IInv
<1> SUFFICES ASSUME Init  PROVE IInv
  OBVIOUS
<1> USE NoneAssumption, TasksAssumption DEF Init
<1>1. ItemTypes
  BY DEF ItemTypes, Table, ItemStatus, Phase
<1>2. TaskTypes /\ PageTypes /\ ServerTypes
  BY DEF TaskTypes, Histories, PageTypes, Pages, ServerTypes
<1>3. FewActive
  <2> SUFFICES ASSUME NEW t \in Tasks  PROVE Cardinality(Active(t)) <= Concurrency
    BY DEF FewActive
  <2>1. Active(t) = {}
    BY DEF Active
  <2> QED  BY <2>1, FS_EmptySet
<1>4. RequestInv /\ LateInv /\ AnswerInv /\ ItemInv
  BY DEF RequestInv, RequestTrue, LateInv, AnswerInv, ItemInv, ItemTrue, Decision
<1>5. StoredInv /\ ListingInv
  BY DEF StoredInv, StoredTrue, ListingInv, Wrote, Unasked
<1> QED  BY <1>1, <1>2, <1>3, <1>4, <1>5 DEF IInv, Types

\* The invariant holds in every reachable state.
THEOREM TaskInvariant == Spec => []IInv
BY TaskInit, TaskStep, PTL DEF Spec

\* After UploadTaskController.cancel no request of the task is left to run
\* unaborted, neither a worker's nor one sent after a conflict was decided.
THEOREM CancelIsObeyed == Spec => []CancelStops
<1>1. IInv => CancelStops
  BY DEF IInv, RequestInv, RequestTrue, CancelStops
<1> QED  BY <1>1, TaskInvariant, PTL

\* A file is replaced only by a task whose user answered "overwrite" in
\* conflictDecisionFor, whatever requests, retries and aborted requests do.
THEOREM OverwritesAreAsked == Spec => []OverwriteNeedsAnswer
<1>1. IInv => OverwriteNeedsAnswer
  <2> SUFFICES ASSUME IInv, NEW f \in Files  PROVE
        LET writers == {t \in Tasks : f \in history[t].stored}
            unasked == {t \in writers : <<t, "overwrite">> \notin answers}
        IN Cardinality(unasked) <= IF f \in Old THEN 0 ELSE 1
    BY DEF OverwriteNeedsAnswer
  <2> DEFINE unasked == {t \in {t \in Tasks : f \in history[t].stored} : <<t, "overwrite">> \notin answers}
  <2>1. /\ \A t \in unasked : f \notin Old
        /\ \A t, u \in unasked : t = u
    BY DEF IInv, StoredInv, StoredTrue, Unasked, Wrote, Answer
  <2>2. Cardinality(unasked) <= IF f \in Old THEN 0 ELSE 1
    <3> HIDE DEF unasked
    <3>1. CASE unasked = {}
      BY <3>1, FS_EmptySet
    <3>2. CASE unasked # {}
      <4>1. PICK t \in unasked : unasked = {t}
        BY <2>1, <3>2
      <4> QED  BY <2>1, <4>1, FS_Singleton
    <3> QED  BY <3>1, <3>2
  <2> QED  BY <2>2
<1> QED  BY <1>1, TaskInvariant, PTL

\* The items, the result and the listing that the task card and the page show
\* agree with what the server stored and what the user chose.
THEOREM CardTellsTruth == Spec => []ReportTrue
<1>1. IInv => ReportTrue
  <2> SUFFICES ASSUME IInv  PROVE ReportTrue
    OBVIOUS
  <2>1. TypeOK
    BY TypesImplyTypeOK DEF IInv
  <2>2. ASSUME NEW t \in Tasks, NEW f \in FilesOf[t]
        PROVE  /\ item[t][f] = "succeeded" => f \in history[t].stored
               /\ status[t] = "completed" =>
                    \/ item[t][f] = "succeeded"
                    \/ item[t][f] = "skipped" /\ <<t, "skip">> \in answers
                    \/ item[t][f] = "cancelled" /\ history[t].cancelled /\ history[t].retries > 0
    BY DEF IInv, ItemInv, ItemTrue, Wrote, Answer
  <2>3. ASSUME \A t \in Tasks : status[t] # "running", NEW f \in unlisted
        PROVE  \E t \in Tasks : f \in history[t].stored /\ (history[t].retries > 0 \/ history[t].cancelled)
    BY <2>3 DEF IInv, ListingInv, MissedTrue, Wrote
  <2> QED  BY <2>1, <2>2, <2>3 DEF ReportTrue
<1> QED  BY <1>1, TaskInvariant, PTL

-----------------------------------------------------------------------------
(* Settings forms.                                                         *)

\* A form would be saved with the revision it showed; each part of the console
\* has its own forms.
OpenFormInv ==
  form # None => form.shown = form.revision /\ part = PartOf(form.of)

\* So is every request of the two kinds that carry one.
SavedInv ==
  \A q \in requests : /\ q.of \in {"service", "static"} => q.shown = q.revision
                      /\ q.of = "preflight-publish" => part = "static"

\* A form that cannot be closed while it saves is there until it is answered,
\* and one whose fields are locked holds no other edits.
LockedInv ==
  \A q \in requests : own(q) /\ q.of \in Locked \cup {"branding"} =>
    Is(q.of) /\ (q.of \in Locked => form.edits # "unsaved")

\* What is kept of a target is about the one on the screen.
PathInv ==
  /\ path.whole # None => path.whole = path.typed
  /\ Is("create") /\ path.preview # None => path.preview = path.requested

\* What the checkbox shows, or will show if its request fails, is in force
\* unless an answer was lost.
CheckboxInv ==
  checkbox.lost \/ checkbox.server = IF checkbox.phase = "sent" THEN checkbox.previous ELSE checkbox.shown

FormsInv ==
  /\ FormsTypeOK /\ OpenFormInv /\ SavedInv /\ LockedInv /\ PathInv
  /\ blind \cap Revised = {} /\ dropped \cap Locked = {} /\ CheckboxInv /\ TargetConfirmed

\* What the requests after a step are: requests from before, told to nobody
\* but the list that opened their form, if they have lost it.
Left(rs) ==
  \A q \in rs : \/ q \in requests
                \/ /\ q \in Request /\ ~own(q)
                   /\ \E r \in requests : q.of = r.of /\ q.shown = r.shown /\ q.revision = r.revision

\* A path that is not about anything yet.
LEMMA EmptyPath == Empty \in Path /\ Empty.whole = None /\ Empty.preview = None
<1>1. PICK t \in Target : t[2] # Whole
  BY FormsAssumption
<1>2. (CHOOSE x \in Target : x[2] # Whole) \in Target
  BY <1>1
<1> QED  BY <1>2 DEF Empty, Path

\* Fewer requests keep what is said of them.
LEMMA LeftKeeps ==
  ASSUME FormsInv, part' = part, Left(requests')
  PROVE  /\ requests' \in SUBSET Request
         /\ \A q, r \in requests' : own(q) /\ own(r) /\ q.of = r.of => q = r
         /\ SavedInv'
<1>1. \A q \in requests' : own(q) => q \in requests
  BY DEF Left
<1>2. requests' \in SUBSET Request
  BY DEF Left, FormsInv, FormsTypeOK
<1>3. \A q, r \in requests' : own(q) /\ own(r) /\ q.of = r.of => q = r
  BY <1>1 DEF FormsInv, FormsTypeOK
<1>4. SavedInv'
  BY DEF Left, FormsInv, SavedInv
<1> QED  BY <1>2, <1>3, <1>4

LEMMA OrphansLeft ==
  ASSUME FormsInv, NEW kinds
  PROVE  /\ Left(Orphaned(kinds))
         /\ \A q \in Orphaned(kinds) : own(q) => q \in requests /\ q.of \notin kinds
         /\ Left({[q EXCEPT !.keeper = "none"] : q \in Heard(Kind)})
         /\ \A q \in {[q EXCEPT !.keeper = "none"] : q \in Heard(Kind)} : ~own(q)
<1>1. requests \in SUBSET Request
  BY DEF FormsInv, FormsTypeOK
<1>2. ASSUME NEW r \in requests, NEW k \in {"list", "none"}
      PROVE  LET q == [r EXCEPT !.keeper = k] IN
             /\ q \in Request /\ ~own(q) /\ q.of = r.of /\ q.shown = r.shown /\ q.revision = r.revision
  BY <1>1 DEF Request, own
<1>3. \A q \in Heard(kinds) \cup Heard(Kind) : q \in requests
  BY DEF Heard
<1>4. ASSUME NEW q \in Orphaned(kinds)
      PROVE  /\ \/ q \in requests
                \/ /\ q \in Request /\ ~own(q)
                   /\ \E r \in requests : q.of = r.of /\ q.shown = r.shown /\ q.revision = r.revision
             /\ own(q) => q \in requests /\ q.of \notin kinds
  <2>1. PICK r \in Heard(kinds) :
          q = IF r.of \in kinds THEN [r EXCEPT !.keeper = IF r.of \in Listed THEN "list" ELSE "none"] ELSE r
    BY DEF Orphaned
  <2>2. r \in requests
    BY <1>3
  <2>3. CASE r.of \in kinds
    <3>1. PICK k \in {"list", "none"} : q = [r EXCEPT !.keeper = k]
      BY <2>1, <2>3
    <3> QED  BY <1>2, <2>2, <3>1
  <2>4. CASE r.of \notin kinds
    BY <2>1, <2>2, <2>4
  <2> QED  BY <2>3, <2>4
<1>5. Left(Orphaned(kinds)) /\ \A q \in Orphaned(kinds) : own(q) => q \in requests /\ q.of \notin kinds
  BY <1>4 DEF Left
<1>6. ASSUME NEW q \in {[r EXCEPT !.keeper = "none"] : r \in Heard(Kind)}
      PROVE  /\ q \in Request /\ ~own(q)
             /\ \E r \in requests : q.of = r.of /\ q.shown = r.shown /\ q.revision = r.revision
  <2>1. PICK r \in Heard(Kind) : q = [r EXCEPT !.keeper = "none"]
    BY <1>6
  <2> QED  BY <1>2, <1>3, <2>1
<1> QED  BY <1>5, <1>6 DEF Left

\* A form is opened.
LEMMA OpensStep == ASSUME FormsInv, part' = part, Opens  PROVE FormsInv'
<1>1. ASSUME NEW kind \in Record \cup Checked, Show(kind)  PROVE FormsInv'
  <2>1. Form(kind, cache) \in OpenForm /\ Form(kind, cache).shown = Form(kind, cache).revision
    BY <1>1, FormsAssumption DEF FormsInv, FormsTypeOK, OpenForm, Form
  <2>2. FormsTypeOK'
    BY <1>1, <2>1, EmptyPath, FormsAssumption DEF FormsInv, FormsTypeOK, Show, ghosts
  <2>3. OpenFormInv' /\ PathInv'
    BY <1>1, <2>1, EmptyPath DEF Show, OpenFormInv, PathInv, Form
  <2>4. LockedInv'
    BY <1>1 DEF FormsInv, LockedInv, Show, Is
  <2> QED  BY <1>1, <2>2, <2>3, <2>4 DEF FormsInv, Show, SavedInv, CheckboxInv, TargetConfirmed, ghosts
<1>2. CASE StaticAssetsRebindDialog
  <2>1. form \in OpenForm /\ form.of = "static"
    BY <1>2 DEF FormsInv, FormsTypeOK, StaticAssetsRebindDialog, Is
  <2>2. /\ form' \in OpenForm /\ form'.of = "rebind" /\ form'.shown = form.shown
        /\ form'.revision = form.revision /\ form # None
    BY <1>2, <2>1, FormsAssumption DEF StaticAssetsRebindDialog, OpenForm
  <2>3. FormsTypeOK'
    BY <1>2, <2>2, EmptyPath DEF FormsInv, FormsTypeOK, StaticAssetsRebindDialog, ghosts
  <2>4. OpenFormInv' /\ PathInv'
    BY <1>2, <2>1, <2>2, EmptyPath DEF FormsInv, OpenFormInv, PathInv, StaticAssetsRebindDialog, PartOf
  <2>5. LockedInv'
    BY <1>2, <2>1 DEF FormsInv, LockedInv, StaticAssetsRebindDialog, Is, Locked
  <2> QED  BY <1>2, <2>3, <2>4, <2>5 DEF FormsInv, StaticAssetsRebindDialog, SavedInv, CheckboxInv, TargetConfirmed, ghosts
<1>3. \A kind \in {"service", "retention", "branding", "source", "policy", "quota", "create", "static", "publish"} :
        kind \in Record \cup Checked
  BY DEF Record, Checked
<1> QED
  BY <1>1, <1>2, <1>3 DEF Opens, SiteServiceDialog, ImageRetentionDialog, BrandingSection, EditSourceDialog,
     PolicyDialog, UserQuotaDialog, CreateSourceDialog, StaticAssetsSection

\* A form is closed, or its page left.
LEMMA ClosingsStep == ASSUME FormsInv, part' = part, Closings  PROVE FormsInv'
<1>1. CASE closeForm
  <2> DEFINE kinds == Kind \ {"quota", "create", "preflight-create", "branding"}
  <2>1. requests' = Orphaned(kinds) /\ form' = None /\ path' = Empty /\ form # None
    BY <1>1 DEF closeForm
  <2>2. /\ requests' \in SUBSET Request /\ SavedInv'
        /\ \A q, r \in requests' : own(q) /\ own(r) /\ q.of = r.of => q = r
    BY <2>1, OrphansLeft, LeftKeeps
  <2>3. LockedInv'
    <3> SUFFICES ASSUME NEW q \in requests', own(q), q.of \in Locked \cup {"branding"}  PROVE FALSE
      BY DEF LockedInv, own
    <3>1. q \in requests /\ q.of \notin kinds
      BY <2>1, OrphansLeft
    <3>2. Is(q.of)
      BY <3>1 DEF FormsInv, LockedInv
    <3> QED  BY <1>1, <3>1, <3>2 DEF closeForm, Is, saving
  <2>4. FormsTypeOK'
    BY <1>1, <2>1, <2>2, EmptyPath DEF FormsInv, FormsTypeOK, closeForm, ghosts, own
  <2> QED  BY <1>1, <2>1, <2>2, <2>3, <2>4, EmptyPath
           DEF FormsInv, closeForm, OpenFormInv, PathInv, Is, CheckboxInv, TargetConfirmed, ghosts
<1>2. CASE leave
  <2>1. /\ requests' = {[q EXCEPT !.keeper = "none"] : q \in Heard(Kind)}
        /\ form' = None /\ path' = Empty
    BY <1>2 DEF leave
  <2>2. Left(requests') /\ \A q \in requests' : ~own(q)
    BY <2>1, OrphansLeft
  <2>3. /\ requests' \in SUBSET Request /\ SavedInv'
        /\ \A q, r \in requests' : own(q) /\ own(r) /\ q.of = r.of => q = r
    BY <2>2, LeftKeeps
  <2>4. LockedInv'
    BY <2>2 DEF LockedInv, own
  <2>5. FormsTypeOK'
    BY <1>2, <2>1, <2>3, EmptyPath DEF FormsInv, FormsTypeOK, leave, ghosts, own
  <2> QED  BY <1>2, <2>1, <2>3, <2>4, <2>5, EmptyPath
           DEF FormsInv, leave, OpenFormInv, PathInv, Is, CheckboxInv, TargetConfirmed, ghosts
<1>3. CASE closeRebind
  <2>1. form \in OpenForm /\ form.of = "rebind"
    BY <1>3 DEF FormsInv, FormsTypeOK, closeRebind, Is
  <2>2. /\ form' \in OpenForm /\ form'.of = "static" /\ form'.shown = form.shown
        /\ form'.revision = form.revision /\ form # None
    BY <1>3, <2>1, FormsAssumption DEF closeRebind, OpenForm, Record
  <2>3. FormsTypeOK'
    BY <1>3, <2>2, EmptyPath DEF FormsInv, FormsTypeOK, closeRebind, ghosts
  <2>4. OpenFormInv' /\ PathInv'
    BY <1>3, <2>1, <2>2, EmptyPath DEF FormsInv, OpenFormInv, PathInv, closeRebind, PartOf
  <2>5. LockedInv'
    BY <1>3, <2>1 DEF FormsInv, LockedInv, closeRebind, Is, Locked
  <2> QED  BY <1>3, <2>3, <2>4, <2>5 DEF FormsInv, closeRebind, SavedInv, CheckboxInv, TargetConfirmed, ghosts
<1> QED  BY <1>1, <1>2, <1>3 DEF Closings

\* A new target, checked or not, takes a confirmation back or keeps it with
\* the path it was given for.
LEMMA PathStep ==
  ASSUME FormsInv, part' = part, path' \in Path, PathInv', UNCHANGED <<form, requests>>,
         UNCHANGED <<server, cache, published, checkbox, opened, ghosts>>
  PROVE  FormsInv'
<1>1. FormsTypeOK'
  BY DEF FormsInv, FormsTypeOK, ghosts
<1>2. OpenFormInv' /\ SavedInv' /\ LockedInv'
  BY DEF FormsInv, OpenFormInv, SavedInv, LockedInv, Is
<1> QED  BY <1>1, <1>2 DEF FormsInv, CheckboxInv, TargetConfirmed, ghosts

\* The user types, chooses or confirms.
LEMMA EditsStep == ASSUME FormsInv, part' = part, Edits  PROVE FormsInv'
<1>0. path \in Path /\ PathInv /\ FormsTypeOK
  BY DEF FormsInv, FormsTypeOK
<1>1. CASE edit
  <2>1. form \in OpenForm /\ form # None
    BY <1>0, <1>1 DEF FormsTypeOK, edit
  <2>2. /\ form' \in OpenForm /\ form'.of = form.of /\ form'.shown = form.shown
        /\ form'.revision = form.revision /\ form' # None
    BY <1>1, <2>1, FormsAssumption DEF edit, OpenForm
  <2>3. FormsTypeOK'
    BY <1>1, <2>2 DEF FormsInv, FormsTypeOK, edit, ghosts
  <2>4. OpenFormInv' /\ PathInv' /\ SavedInv'
    BY <1>1, <2>1, <2>2 DEF FormsInv, OpenFormInv, PathInv, SavedInv, edit, Is
  <2>5. LockedInv'
    BY <1>1, <2>1, <2>2 DEF FormsInv, LockedInv, edit, Is, saving
  <2> QED  BY <1>1, <2>3, <2>4, <2>5 DEF FormsInv, edit, CheckboxInv, TargetConfirmed, ghosts
<1>2. CASE confirmRoot
  <2>1. path' \in Path /\ PathInv'
    BY <1>0, <1>2 DEF confirmRoot, Path, PathInv, Is
  <2> QED  BY <1>2, <2>1, PathStep DEF confirmRoot
<1>3. CASE confirmRelocate
  <2>1. path' \in Path /\ PathInv'
    BY <1>0, <1>3 DEF confirmRelocate, Path, PathInv, Is
  <2> QED  BY <1>3, <2>1, PathStep DEF confirmRelocate
<1>4. ASSUME NEW t \in Target, typePath(t)  PROVE FormsInv'
  <2>1. path' \in Path /\ PathInv'
    <3>1. path' = [Empty EXCEPT !.typed = t]
      BY <1>4 DEF typePath
    <3> QED  BY <3>1, EmptyPath DEF Path, PathInv, Is
  <2> QED  BY <1>4, <2>1, PathStep DEF typePath
<1>5. ASSUME NEW t \in Target, NEW moves \in BOOLEAN, chooseTarget(t, moves)  PROVE FormsInv'
  <2>1. path' \in Path /\ PathInv'
    BY <1>0, <1>5 DEF chooseTarget, Path, PathInv, Is
  <2> QED  BY <1>5, <2>1, PathStep DEF chooseTarget
<1> QED  BY <1>1, <1>2, <1>3, <1>4, <1>5 DEF Edits

\* A request sent by a form that has none of its kind under way.
LEMMA SendKeeps ==
  ASSUME FormsInv, part' = part, form # None, NEW kind \in Kind,
         NEW revision \in 0..MaxVersion \cup {None}, NEW target \in Target \cup {None},
         Send(kind, revision, target), ~saving(kind),
         kind \in {"service", "static"} => revision = form.revision,
         kind = "preflight-publish" => part = "static"
  PROVE  /\ requests' \in SUBSET Request
         /\ \A q, r \in requests' : own(q) /\ own(r) /\ q.of = r.of => q = r
         /\ SavedInv'
         /\ \A q \in requests' : q \in requests \/ q.of = kind
<1> DEFINE new == [of |-> kind, shown |-> form.shown, revision |-> revision,
                   target |-> target, keeper |-> "form"]
<1>1. requests' = requests \cup {new}
  BY DEF Send
<1>2. form \in OpenForm /\ form.shown \in 0..MaxVersion
  BY DEF FormsInv, FormsTypeOK, OpenForm
<1>3. new \in Request /\ new.of = kind /\ new.shown = form.shown /\ new.revision = revision
  BY <1>2 DEF Request
<1> HIDE DEF new
<1>4. requests' \in SUBSET Request
  BY <1>1, <1>3 DEF FormsInv, FormsTypeOK
<1>5. \A q, r \in requests' : own(q) /\ own(r) /\ q.of = r.of => q = r
  BY <1>1, <1>3 DEF FormsInv, FormsTypeOK, saving
<1>6. SavedInv'
  BY <1>1, <1>3 DEF FormsInv, SavedInv, OpenFormInv
<1> QED  BY <1>1, <1>3, <1>4, <1>5, <1>6

\* A form is saved.
LEMMA SaveStep ==
  ASSUME FormsInv, part' = part, NEW kind \in Record, NEW revision \in {form.revision, None},
         Save(kind, revision), kind \in {"service", "static"} => revision = form.revision
  PROVE  FormsInv'
<1>1. form \in OpenForm /\ form # None /\ form.of = kind /\ kind \in Kind
  BY DEF FormsInv, FormsTypeOK, Save, Is, Kind
<1>2. form.revision \in 0..MaxVersion
  BY <1>1 DEF OpenForm
<1>3. /\ requests' \in SUBSET Request /\ SavedInv' /\ (\A q \in requests' : q \in requests \/ q.of = kind)
      /\ \A q, r \in requests' : own(q) /\ own(r) /\ q.of = r.of => q = r
  BY <1>1, <1>2, SendKeeps DEF Save, Record
<1>4. /\ form' \in OpenForm /\ form'.of = kind /\ form'.shown = form.shown
      /\ form'.revision = form.revision /\ form' # None /\ form'.edits # "unsaved"
  BY <1>1, FormsAssumption DEF Save, OpenForm
<1>5. FormsTypeOK'
  BY <1>3, <1>4 DEF FormsInv, FormsTypeOK, Save, ghosts, own
<1>6. OpenFormInv' /\ PathInv'
  BY <1>1, <1>4 DEF FormsInv, OpenFormInv, PathInv, Save, Is
<1>7. LockedInv'
  BY <1>1, <1>3, <1>4 DEF FormsInv, LockedInv, Is, own
<1> QED  BY <1>3, <1>5, <1>6, <1>7 DEF FormsInv, Save, CheckboxInv, TargetConfirmed, ghosts

\* A request about a target or the publication is sent; the form stays.
LEMMA AskStep ==
  ASSUME FormsInv, part' = part, form # None, NEW kind \in {"remove", "rebind", "create", "publish",
                                                "preflight-create", "preflight-publish"},
         NEW revision \in {form.revision, None}, NEW target \in Target \cup {None},
         Send(kind, revision, target), ~saving(kind),
         kind = "preflight-publish" => part = "static",
         path' \in Path, PathInv', unconfirmed' \subseteq {"relocate"},
         UNCHANGED <<server, cache, published, form, checkbox, opened, blind, dropped>>
  PROVE  FormsInv'
<1>1. form \in OpenForm /\ kind \in Kind /\ kind \notin Record \cup Locked \cup {"branding"}
  BY DEF FormsInv, FormsTypeOK, Kind, Revised, Checked, Record, Locked
<1>2. form.revision \in 0..MaxVersion
  BY <1>1 DEF OpenForm
<1>3. /\ requests' \in SUBSET Request /\ SavedInv' /\ (\A q \in requests' : q \in requests \/ q.of = kind)
      /\ \A q, r \in requests' : own(q) /\ own(r) /\ q.of = r.of => q = r
  BY <1>1, <1>2, SendKeeps DEF Record
<1>4. FormsTypeOK'
  BY <1>3 DEF FormsInv, FormsTypeOK, own
<1>5. OpenFormInv'
  BY DEF FormsInv, OpenFormInv
<1>6. LockedInv'
  BY <1>1, <1>3 DEF FormsInv, LockedInv, Is, own
<1> QED  BY <1>3, <1>4, <1>5, <1>6 DEF FormsInv, CheckboxInv, TargetConfirmed

LEMMA SubmitsStep == ASSUME FormsInv, part' = part, Submits  PROVE FormsInv'
<1>0. path \in Path /\ PathInv /\ OpenFormInv /\ unconfirmed \subseteq {"relocate"}
  BY DEF FormsInv, FormsTypeOK, TargetConfirmed
<1>1. CASE submitService \/ submitRetention \/ submitBranding \/ saveSettings \/ savePolicy \/ saveQuota \/ saveStatic
  BY <1>1, SaveStep DEF submitService, submitRetention, submitBranding, saveSettings, savePolicy, saveQuota,
     saveStatic, Record
<1>2. CASE removeStatic
  <2>1. form # None /\ PathInv' /\ UNCHANGED <<path, unconfirmed>>
    BY <1>0, <1>2 DEF removeStatic, Is, PathInv, ghosts
  <2> QED  BY <1>0, <1>2, <2>1, AskStep DEF removeStatic, ghosts
<1>3. CASE runPreflight
  <2>1. form # None /\ form.of \in Checked /\ Preflight(form.of) \in {"preflight-create", "preflight-publish"}
    BY <1>3 DEF runPreflight, Preflight
  <2>2. Preflight(form.of) = "preflight-publish" => part = "static"
    BY <1>0, <2>1 DEF OpenFormInv, Preflight, Checked, PartOf
  <2>3. path' \in Path /\ PathInv' /\ path.typed \in Target
    BY <1>0, <1>3 DEF runPreflight, Path, PathInv, Is
  <2> QED  BY <1>0, <1>3, <2>1, <2>2, <2>3, AskStep DEF runPreflight, ghosts
<1>4. CASE createSource
  <2>1. form # None /\ PathInv' /\ path' = path /\ path.preview = path.typed
    BY <1>0, <1>4 DEF createSource, Is, PathInv
  <2>2. unconfirmed' \subseteq {"relocate"}
    BY <1>0, <1>4, <2>1 DEF createSource, Astray, Checked
  <2> QED  BY <1>0, <1>4, <2>1, <2>2, AskStep DEF createSource
<1>5. CASE configureStatic
  <2>1. form # None /\ PathInv' /\ path' = path /\ path.preview = path.typed
    BY <1>0, <1>5 DEF configureStatic, Is, PathInv
  <2>2. unconfirmed' \subseteq {"relocate"}
    BY <1>0, <1>5, <2>1 DEF configureStatic, Astray, PathInv, Checked
  <2> QED  BY <1>0, <1>5, <2>1, <2>2, AskStep DEF configureStatic
<1>6. CASE submitRebind
  <2>1. form # None /\ PathInv' /\ path' = path
    BY <1>0, <1>6 DEF submitRebind, Is, PathInv
  <2>2. unconfirmed' \subseteq {"relocate"}
    BY <1>0, <1>6, <2>1 DEF submitRebind, Astray, PathInv, Checked
  <2> QED  BY <1>0, <1>6, <2>1, <2>2, AskStep DEF submitRebind
<1> QED  BY <1>1, <1>2, <1>3, <1>4, <1>5, <1>6 DEF Submits

-----------------------------------------------------------------------------
(* Answers.                                                                *)

\* A request is answered.
LEMMA GoneKeeps ==
  ASSUME FormsInv, part' = part, NEW q \in requests, Gone(q)
  PROVE  /\ requests' \in SUBSET Request /\ SavedInv'
         /\ \A p, r \in requests' : own(p) /\ own(r) /\ p.of = r.of => p = r
         /\ \A r \in requests' : r \in requests /\ r # q
         /\ \A r \in requests' : own(r) /\ own(q) => r.of # q.of
<1>1. requests' = requests \ {q}
  BY DEF Gone
<1>2. \A r \in requests' : r \in requests /\ r # q
  BY <1>1
<1>3. requests' \in SUBSET Request /\ \A p, r \in requests' : own(p) /\ own(r) /\ p.of = r.of => p = r
  BY <1>2 DEF FormsInv, FormsTypeOK
<1>4. SavedInv'
  BY <1>2 DEF FormsInv, SavedInv
<1>5. \A r \in requests' : own(r) /\ own(q) => r.of # q.of
  BY <1>2 DEF FormsInv, FormsTypeOK
<1> QED  BY <1>2, <1>3, <1>4, <1>5

\* A save that the server accepts replaces only what its form has shown, if it
\* carries a revision.
LEMMA CarriedKeeps ==
  ASSUME FormsInv, NEW q \in requests, Accepts(q), Carried(q)
  PROVE  /\ server' \in 0..MaxVersion /\ cache \in 0..server' /\ server' \in 0..server'
         /\ blind' \in SUBSET Kind /\ blind' \cap Revised = {}
<1>1. q \in Request /\ server \in 0..MaxVersion /\ cache \in 0..server /\ server < MaxVersion
  BY DEF FormsInv, FormsTypeOK, Accepts
<1>2. server' \in 0..MaxVersion /\ cache \in 0..server' /\ server' \in 0..server'
  BY <1>1, FormsAssumption DEF Carried
<1>3. q.of \in Record /\ q.of \in Revised => q.shown = server
  <2> SUFFICES ASSUME q.of \in Record, q.of \in Revised  PROVE q.shown = server
    OBVIOUS
  <2>1. q.of \in {"service", "static"}
    BY DEF Record, Revised
  <2>2. q.shown = q.revision /\ q.shown \in 0..MaxVersion
    BY <1>1, <2>1 DEF FormsInv, SavedInv, Request
  <2> QED  BY <2>2, FormsAssumption DEF Accepts
<1>4. blind \in SUBSET Kind /\ blind \cap Revised = {} /\ q.of \in Kind
  BY <1>1 DEF FormsInv, FormsTypeOK, Request
<1> QED  BY <1>2, <1>3, <1>4 DEF Carried

\* An answer may close a form or leave it; what it closes is the form of its
\* request, or one that is not locked while it saves.
LEMMA AnswerStep ==
  ASSUME FormsInv, part' = part, NEW q \in requests, Gone(q),
         server' \in 0..MaxVersion, cache' \in 0..server',
         published' \in [server: BOOLEAN, cached: BOOLEAN],
         blind' \in SUBSET Kind, blind' \cap Revised = {},
         path' \in Path, PathInv', UNCHANGED <<checkbox, opened, unconfirmed>>,
         \/ form' = form /\ dropped' = dropped
         \/ /\ form # None /\ form' = None /\ (own(q) \/ form.of \notin Locked \cup {"branding"})
            /\ dropped' = IF form.edits = "unsaved" THEN dropped \cup {form.of} ELSE dropped
            /\ q.of = form.of
         \/ form # None /\ form.of = "create" /\ form' = None /\ dropped' = dropped
  PROVE  FormsInv'
<1>1. /\ requests' \in SUBSET Request /\ SavedInv'
      /\ \A p, r \in requests' : own(p) /\ own(r) /\ p.of = r.of => p = r
      /\ \A r \in requests' : r \in requests /\ r # q
      /\ \A r \in requests' : own(r) /\ own(q) => r.of # q.of
  BY GoneKeeps
<1>2. form # None => form \in OpenForm /\ form.of \in Kind
  BY DEF FormsInv, FormsTypeOK, OpenForm, Kind, Revised
<1>3. dropped' \in SUBSET Kind /\ dropped' \cap Locked = {}
  <2>1. dropped \in SUBSET Kind /\ dropped \cap Locked = {}
    BY DEF FormsInv, FormsTypeOK, CheckboxInv
  <2>2. form # None /\ form.edits = "unsaved" /\ own(q) /\ q.of = form.of => form.of \notin Locked
    BY DEF FormsInv, LockedInv
  <2> QED  BY <1>2, <2>1, <2>2
<1>4. FormsTypeOK'
  BY <1>1, <1>2, <1>3 DEF FormsInv, FormsTypeOK, own
<1>5. OpenFormInv'
  BY DEF FormsInv, OpenFormInv
<1>6. LockedInv'
  <2> SUFFICES ASSUME NEW r \in requests', own(r), r.of \in Locked \cup {"branding"}
               PROVE  Is(r.of)' /\ (r.of \in Locked => form'.edits # "unsaved")
    BY DEF LockedInv, own
  <2>1. r \in requests /\ Is(r.of) /\ (r.of \in Locked => form.edits # "unsaved")
    BY <1>1 DEF FormsInv, LockedInv
  <2>2. form' = form
    BY <1>1, <2>1 DEF Is, Locked
  <2> QED  BY <2>1, <2>2 DEF Is
<1> QED  BY <1>1, <1>3, <1>4, <1>5, <1>6 DEF FormsInv, CheckboxInv, TargetConfirmed

\* An answer may change the form it is about, which has nothing more under way.
LEMMA DraftStep ==
  ASSUME FormsInv, part' = part, NEW q \in requests, Gone(q),
         server' \in 0..MaxVersion, cache' \in 0..server',
         published' \in [server: BOOLEAN, cached: BOOLEAN],
         blind' \in SUBSET Kind, blind' \cap Revised = {},
         UNCHANGED <<path, checkbox, opened, dropped, unconfirmed>>,
         \/ form' = form
         \/ /\ own(q) /\ Is(q.of) /\ form' \in OpenForm /\ form'.of = form.of
            /\ form'.shown = form'.revision
  PROVE  FormsInv'
<1>1. /\ requests' \in SUBSET Request /\ SavedInv'
      /\ \A p, r \in requests' : own(p) /\ own(r) /\ p.of = r.of => p = r
      /\ \A r \in requests' : r \in requests /\ r # q
      /\ \A r \in requests' : own(r) /\ own(q) => r.of # q.of
  BY GoneKeeps
<1>2. FormsTypeOK'
  BY <1>1 DEF FormsInv, FormsTypeOK, own
<1>3. OpenFormInv' /\ PathInv'
  BY FormsAssumption DEF FormsInv, OpenFormInv, PathInv, Is
<1>4. LockedInv'
  <2> SUFFICES ASSUME NEW r \in requests', own(r), r.of \in Locked \cup {"branding"}
               PROVE  Is(r.of)' /\ (r.of \in Locked => form'.edits # "unsaved")
    BY DEF LockedInv, own
  <2>1. r \in requests /\ Is(r.of) /\ (r.of \in Locked => form.edits # "unsaved")
    BY <1>1 DEF FormsInv, LockedInv
  <2>2. form' = form
    BY <1>1, <2>1 DEF Is
  <2> QED  BY <2>1, <2>2 DEF Is
<1> QED  BY <1>1, <1>2, <1>3, <1>4 DEF FormsInv, CheckboxInv, TargetConfirmed

LEMMA AnswersStep == ASSUME FormsInv, part' = part, Answers  PROVE FormsInv'
<1>0. PICK q \in requests :
        \/ serviceSaved(q) \/ serviceConflict(q) \/ optionSaved(q) \/ entrySaved(q) \/ staticSaved(q)
        \/ saveFails(q) \/ createPreview(q) \/ publishPreview(q) \/ preflightFails(q)
        \/ rebindSaved(q) \/ targetSaved(q) \/ targetFails(q)
  BY DEF Answers
<1>1. /\ path \in Path /\ PathInv /\ OpenFormInv /\ LockedInv /\ SavedInv /\ q \in Request
      /\ server \in 0..MaxVersion /\ cache \in 0..server /\ published \in [server: BOOLEAN, cached: BOOLEAN]
      /\ blind \in SUBSET Kind /\ blind \cap Revised = {}
      /\ form # None => form \in OpenForm
  BY DEF FormsInv, FormsTypeOK
<1>2. ASSUME Accepts(q), Carried(q)
      PROVE  /\ server' \in 0..MaxVersion /\ cache \in 0..server' /\ server' \in 0..server'
             /\ blind' \in SUBSET Kind /\ blind' \cap Revised = {}
  BY <1>2, CarriedKeeps
\* Gone from here on: a form that is closed no longer has a path.
<1>3. ASSUME UNCHANGED path, form' = form \/ form' = None  PROVE path' \in Path /\ PathInv'
  BY <1>1, <1>3 DEF PathInv, Is
<1>4. CASE serviceSaved(q) \/ optionSaved(q)
  <2>1. /\ q.of \in Locked \cup {"branding"} /\ Gone(q) /\ Accepts(q) /\ Carried(q) /\ cache' = server'
        /\ Closes(own(q)) /\ UNCHANGED <<published, path, checkbox, opened, unconfirmed>>
    BY <1>4 DEF serviceSaved, optionSaved, Locked
  <2>2. own(q) => form # None /\ form.of = q.of
    BY <1>1, <2>1 DEF LockedInv, Is
  <2> QED  BY <1>1, <1>2, <1>3, <2>1, <2>2, AnswerStep DEF Closes
<1>5. CASE entrySaved(q)
  <2>1. /\ q.of \in {"source", "policy", "quota"} /\ Gone(q) /\ Accepts(q) /\ Carried(q) /\ cache' = cache
        /\ Closes(q.keeper # "none" /\ Is(q.of)) /\ UNCHANGED <<published, path, checkbox, opened, unconfirmed>>
    BY <1>5 DEF entrySaved
  <2> QED  BY <1>1, <1>2, <1>3, <2>1, AnswerStep DEF Closes, Is, Locked
<1>6. CASE staticSaved(q)
  <2>1. published' \in [server: BOOLEAN, cached: BOOLEAN]
    BY <1>1, <1>6 DEF staticSaved
  <2> QED  BY <1>1, <1>2, <1>3, <1>6, <2>1, AnswerStep DEF staticSaved
<1>7. CASE serviceConflict(q)
  <2>1. cache' \in 0..server' /\ server' = server
    BY <1>1, <1>7 DEF serviceConflict
  <2>2. \/ form' = form
        \/ own(q) /\ Is(q.of) /\ form' \in OpenForm /\ form'.of = form.of /\ form'.shown = form'.revision
    <3>1. own(q) => Is(q.of) /\ form \in OpenForm
      BY <1>1, <1>7 DEF serviceConflict, LockedInv, Locked, Is
    <3>2. CASE own(q)
      <4>1. \/ form' = [form EXCEPT !.revision = server, !.shown = server, !.edits = "unsaved"]
            \/ form' = [form EXCEPT !.edits = "unsaved"]
        BY <1>7, <3>2 DEF serviceConflict
      <4> QED  BY <1>1, <3>1, <3>2, <4>1 DEF OpenForm, OpenFormInv, Is
    <3>3. CASE ~own(q)
      BY <1>7, <3>3 DEF serviceConflict
    <3> QED  BY <3>2, <3>3
  <2> QED  BY <1>1, <1>7, <2>1, <2>2, DraftStep DEF serviceConflict, ghosts
<1>8. CASE saveFails(q)
  <2>1. /\ server' \in 0..MaxVersion /\ cache' \in 0..server' /\ blind' \in SUBSET Kind
        /\ blind' \cap Revised = {} /\ published' \in [server: BOOLEAN, cached: BOOLEAN]
    BY <1>1, <1>2, <1>8 DEF saveFails
  <2>2. \/ form' = form
        \/ own(q) /\ Is(q.of) /\ form' \in OpenForm /\ form'.of = form.of /\ form'.shown = form'.revision
    BY <1>1, <1>8 DEF saveFails, OpenForm, OpenFormInv, Is
  <2> QED  BY <1>8, <2>1, <2>2, DraftStep DEF saveFails
<1>9. CASE createPreview(q)
  <2>1. path' \in Path
    BY <1>1, <1>9 DEF createPreview, Path, Request
  <2>2. PathInv'
    BY <1>1, <1>9 DEF createPreview, Path, PathInv, Is, ghosts
  <2> QED  BY <1>1, <1>9, <2>1, <2>2, AnswerStep DEF createPreview, ghosts
<1>10. CASE publishPreview(q)
  <2>1. path' \in Path
    BY <1>1, <1>10 DEF publishPreview, Path, Request
  <2>2. ~Is("create")
    BY <1>1, <1>10 DEF publishPreview, SavedInv, OpenFormInv, Is, PartOf
  <2>3. PathInv'
    BY <1>1, <1>10, <2>2 DEF publishPreview, Path, PathInv, Is
  <2> QED  BY <1>1, <1>10, <2>1, <2>3, AnswerStep DEF publishPreview, ghosts
<1>11. CASE preflightFails(q) \/ targetFails(q)
  <2>1. Gone(q) /\ UNCHANGED <<server, cache, published, form, path, checkbox, opened, ghosts>>
    BY <1>11 DEF preflightFails, targetFails
  <2> QED  BY <1>1, <1>3, <2>1, AnswerStep DEF ghosts
<1>12. CASE rebindSaved(q)
  <2>1. CASE own(q) /\ Is("rebind")
    <3>1. form \in OpenForm /\ form.of = "rebind" /\ q.of = "rebind" /\ form # None
      BY <1>1, <1>12, <2>1 DEF rebindSaved, Is
    <3>2. /\ form' \in OpenForm /\ form'.of = "static" /\ form'.shown = form.shown
          /\ form'.revision = form.revision /\ path' = Empty
      BY <1>12, <2>1, <3>1 DEF rebindSaved, OpenForm, Record
    <3>3. /\ requests' \in SUBSET Request /\ SavedInv' /\ \A r \in requests' : r \in requests
          /\ \A p, r \in requests' : own(p) /\ own(r) /\ p.of = r.of => p = r
      BY <1>12, GoneKeeps DEF rebindSaved
    <3>4. FormsTypeOK'
      BY <1>2, <1>12, <3>2, <3>3, EmptyPath DEF FormsInv, FormsTypeOK, rebindSaved, own
    <3>5. OpenFormInv' /\ PathInv'
      BY <1>1, <3>1, <3>2, EmptyPath DEF OpenFormInv, PathInv, PartOf
    <3>6. LockedInv'
      BY <1>1, <3>1, <3>3 DEF LockedInv, Is, Locked, own
    <3> QED  BY <1>2, <1>12, <3>3, <3>4, <3>5, <3>6 DEF FormsInv, rebindSaved, CheckboxInv, TargetConfirmed
  <2>2. CASE ~(own(q) /\ Is("rebind"))
    BY <1>1, <1>2, <1>3, <1>12, <2>2, AnswerStep DEF rebindSaved
  <2> QED  BY <2>1, <2>2
<1>13. CASE targetSaved(q)
  <2>1. CASE q.of = "publish"
    <3>1. published' \in [server: BOOLEAN, cached: BOOLEAN]
      BY <1>1, <1>13, <2>1 DEF targetSaved
    <3> QED  BY <1>1, <1>2, <1>3, <1>13, <2>1, <3>1, AnswerStep DEF targetSaved
  <2>2. CASE q.of # "publish" /\ q.keeper # "none" /\ Is("create")
    <3>1. form' = None /\ path' = Empty /\ form # None /\ form.of = "create"
          /\ UNCHANGED <<server, blind, published, cache, checkbox, opened, dropped, unconfirmed>> /\ Gone(q)
      BY <1>13, <2>2 DEF targetSaved, Is
    <3>2. path' \in Path /\ PathInv'
      BY <3>1, EmptyPath DEF PathInv
    <3> QED  BY <1>1, <3>1, <3>2, AnswerStep
  <2>3. CASE q.of # "publish" /\ ~(q.keeper # "none" /\ Is("create"))
    BY <1>1, <1>3, <1>13, <2>3, AnswerStep DEF targetSaved
  <2> QED  BY <2>1, <2>2, <2>3
<1> QED  BY <1>0, <1>4, <1>5, <1>6, <1>7, <1>8, <1>9, <1>10, <1>11, <1>12, <1>13

-----------------------------------------------------------------------------
(* Everything else.                                                        *)

\* Another administrator changes the record, or a list is read again.
LEMMA ElsewhereStep == ASSUME FormsInv, part' = part, Elsewhere  PROVE FormsInv'
<1>1. CASE otherAdministrator
  <2>1. FormsTypeOK'
    BY <1>1, FormsAssumption DEF FormsInv, FormsTypeOK, otherAdministrator, ghosts
  <2> QED  BY <1>1, <2>1 DEF FormsInv, otherAdministrator, OpenFormInv, SavedInv, LockedInv, PathInv, Is,
           CheckboxInv, TargetConfirmed, ghosts
<1>2. CASE refetch
  <2>0. /\ server' = server /\ cache' = server /\ published' \in [server: BOOLEAN, cached: BOOLEAN]
        /\ UNCHANGED <<checkbox, opened, blind, unconfirmed>> /\ server \in 0..MaxVersion
    BY <1>2 DEF FormsInv, FormsTypeOK, refetch
  <2>1. ASSUME NEW kind \in {"source", "static", "publish"}, Refilled(kind), part = PartOf(kind), form # None,
               form.of \in {"source", "static", "rebind", "publish"}, Left(requests'),
               path' \in Path, PathInv'
        PROVE  FormsInv'
    <3>1. /\ requests' \in SUBSET Request /\ SavedInv'
          /\ \A q, r \in requests' : own(q) /\ own(r) /\ q.of = r.of => q = r
      BY <2>1, LeftKeeps
    <3>2. /\ form' \in OpenForm /\ form'.of = kind /\ form'.shown = form'.revision
      BY <2>0, <2>1 DEF Refilled, Form, OpenForm, Record, Checked
    <3>3. dropped' \in SUBSET Kind /\ dropped' \cap Locked = {}
      BY <2>1 DEF FormsInv, FormsTypeOK, CheckboxInv, Refilled, Locked, Kind, Record, Revised, Checked
    <3>4. FormsTypeOK'
      BY <2>0, <2>1, <3>1, <3>2, <3>3 DEF FormsInv, FormsTypeOK, own
    <3>5. OpenFormInv'
      BY <2>1, <3>2 DEF OpenFormInv
    <3>6. LockedInv'
      <4> SUFFICES ASSUME NEW q \in requests', own(q), q.of \in Locked \cup {"branding"}  PROVE FALSE
        BY DEF LockedInv, own
      <4>1. q \in requests
        BY <2>1 DEF Left
      <4> QED  BY <2>1, <4>1 DEF FormsInv, LockedInv, Is, Locked
    <3> QED  BY <2>0, <2>1, <3>1, <3>3, <3>4, <3>5, <3>6 DEF FormsInv, CheckboxInv, TargetConfirmed
  <2> DEFINE static == Is("static") \/ Is("rebind") \/ (Is("publish") /\ published.server)
             kinds == {"static", "remove", "rebind", "publish", "preflight-publish"}
  <2>2. CASE Is("source")
    <3>1. Refilled("source") /\ UNCHANGED <<path, requests>>
      BY <1>2, <2>2 DEF refetch, Is
    <3>2. Left(requests')
      BY <3>1 DEF Left
    <3>3. path' \in Path /\ PathInv'
      BY <2>0, <3>1 DEF FormsInv, FormsTypeOK, PathInv, Refilled, Form, Is
    <3>4. part = "source" /\ form # None /\ form.of = "source"
      BY <2>2 DEF FormsInv, OpenFormInv, PartOf, Is
    <3> QED  BY <2>1, <3>1, <3>2, <3>3, <3>4 DEF PartOf
  <2>3. CASE static /\ ~Is("source")
    <3>1. /\ Refilled(IF published.server THEN "static" ELSE "publish") /\ path' = Empty
          /\ requests' = Orphaned(kinds)
      BY <1>2, <2>3 DEF refetch
    <3>2. Left(requests') /\ path' \in Path /\ PathInv'
      BY <3>1, OrphansLeft, EmptyPath DEF PathInv
    <3>3. part = "static" /\ form # None /\ form.of \in {"static", "rebind", "publish"}
      BY <2>3 DEF FormsInv, OpenFormInv, PartOf, Is
    <3> QED  BY <2>1, <3>1, <3>2, <3>3 DEF PartOf
  <2>4. CASE ~static /\ ~Is("source")
    <3>1. UNCHANGED <<form, path, requests, dropped>>
      BY <1>2, <2>4 DEF refetch
    <3>2. FormsTypeOK'
      BY <2>0, <3>1 DEF FormsInv, FormsTypeOK
    <3> QED  BY <2>0, <3>1, <3>2 DEF FormsInv, OpenFormInv, SavedInv, LockedInv, PathInv, Is, CheckboxInv, TargetConfirmed
  <2> QED  BY <2>2, <2>3, <2>4
<1> QED  BY <1>1, <1>2 DEF Elsewhere

\* A click, an answer and a read keep what is said of the checkbox.
LEMMA CheckboxStep == ASSUME FormsInv, part' = part, Checkbox  PROVE FormsInv'
<1> DEFINE Boxes == [server: BOOLEAN, shown: BOOLEAN, previous: BOOLEAN, lost: BOOLEAN,
                     phase: {"idle", "sent", "settling"}]
<1>0. checkbox \in Boxes /\ opened \in 0..MaxOpened
  BY DEF FormsInv, FormsTypeOK
<1>1. checkbox' \in Boxes /\ CheckboxInv'
  BY <1>0 DEF Checkbox, toggleAnonymous, anonymousSaved, anonymousFails, anonymousSettled, anonymousUnread,
     FormsInv, CheckboxInv
<1>2. opened' \in 0..MaxOpened /\ UNCHANGED others
  BY <1>0, FormsAssumption
  DEF Checkbox, toggleAnonymous, anonymousSaved, anonymousFails, anonymousSettled, anonymousUnread
<1>3. FormsTypeOK'
  BY <1>1, <1>2 DEF FormsInv, FormsTypeOK, others, ghosts
<1> QED  BY <1>1, <1>2, <1>3
         DEF FormsInv, OpenFormInv, SavedInv, LockedInv, PathInv, Is, TargetConfirmed, others, ghosts

LEMMA FormsStart == ASSUME FormsInit  PROVE FormsInv
<1>1. FormsTypeOK
  BY EmptyPath, FormsAssumption DEF FormsInit, FormsTypeOK
<1> QED  BY <1>1, EmptyPath
         DEF FormsInit, FormsInv, OpenFormInv, SavedInv, LockedInv, PathInv, Is, CheckboxInv, TargetConfirmed

\* The inductive invariant of the settings forms.
THEOREM FormsInvariant == FormsSpec => []FormsInv
<1>1. FormsInv /\ [FormsNext]_formVars => FormsInv'
  <2> SUFFICES ASSUME FormsInv, [FormsNext]_formVars  PROVE FormsInv'
    OBVIOUS
  <2>1. CASE UNCHANGED formVars
    <3>1. FormsTypeOK'
      BY <2>1 DEF FormsInv, FormsTypeOK, formVars, own
    <3> QED  BY <2>1, <3>1
             DEF FormsInv, OpenFormInv, SavedInv, LockedInv, PathInv, Is, CheckboxInv, TargetConfirmed, formVars, own
  <2>2. CASE FormsNext
    BY <2>2, OpensStep, ClosingsStep, EditsStep, SubmitsStep, AnswersStep, ElsewhereStep, CheckboxStep DEF FormsNext
  <2> QED  BY <2>1, <2>2
<1> QED  BY <1>1, FormsStart, PTL DEF FormsSpec

\* A save of a site service or of the static view never replaces a change its
\* form has not shown, whoever saves meanwhile and whatever is read again.
THEOREM SavesAreSeen == FormsSpec => []NoBlindOverwrite
<1>1. FormsInv => NoBlindOverwrite
  BY DEF FormsInv, NoBlindOverwrite
<1> QED  BY <1>1, FormsInvariant, PTL

\* A locked dialog loses what was typed only when the user leaves it, and the
\* checkbox shows the setting in force when nothing is under way, unless an
\* answer and the read after it were lost.
THEOREM DraftsAreKept == FormsSpec => []DraftKept
<1>1. FormsInv => DraftKept
  BY DEF FormsInv, FormsTypeOK, CheckboxInv, DraftKept
<1> QED  BY <1>1, FormsInvariant, PTL

\* A source is created, and a whole source published, only for the path on the
\* screen, checked and confirmed.
THEOREM TargetsAreConfirmed == FormsSpec => []TargetConfirmed
<1>1. FormsInv => TargetConfirmed
  BY DEF FormsInv
<1> QED  BY <1>1, FormsInvariant, PTL

-----------------------------------------------------------------------------
(* The file page.                                                          *)

\* A mount is one of the user's actions.
MountInv == mount <= started + 1

\* A dialog about one entry names it.
DialogInv == dialog # None /\ dialog.kind \in {"rename", "delete", "share"} => dialog.name \in Names

\* A request for a share is the one of the open dialog: nobody waits for that
\* of a closed one.
ShareInv ==
  /\ \A r \in mutations : r.kind = "share" =>
       dialog # None /\ dialog.kind = "share" /\ r.item[2] = dialog.name
  /\ \A q, r \in mutations : q.kind = "share" /\ r.kind = "share" => q = r

\* So is the loop that creates several shares.
BatchInv ==
  \A l \in loops : l.kind = "batchShare" =>
    l.mount = mount /\ dialog # None /\ dialog.kind = "batchShare"

\* The listing of k is out of date, or will be, and nobody has asked for a
\* refresh yet.
Waits(q, k) == (\E j \in Keys : q[j].fetch = "dirty") \/ (q[k].data = "stale" /\ q[k].fetch = None)

\* A loop that changes files is under way then: its end refreshes.
StaleInv == Waits(query, shown) => \E l \in loops : l.kind \in LoopKind

PageInv ==
  PageTypeOK /\ MountInv /\ DialogInv /\ ShareInv /\ BatchInv /\ StaleInv

\* None is no value a listing, a clipboard or a dialog has.
LEMMA NoneIsNoPageValue ==
  /\ None \notin {"fresh", "stale", "late", "clean", "dirty", "copy", "cut"}
  /\ None \notin Dialog
BY PageAssumption

\* What the page computes from its state has the types it should.
LEMMA EntriesTyped ==
  ASSUME PageTypeOK
  PROVE  currentPath \in Dirs /\ entries \in SUBSET Names /\ selectedEntries \in SUBSET Names
<1>1. currentPath \in Dirs
  BY PageAssumption DEF PageTypeOK, currentPath
<1>2. entries \in SUBSET Names
  BY <1>1 DEF PageTypeOK, entries
<1> QED  BY <1>1, <1>2 DEF selectedEntries

\* Changed files leave a cache of listings; if nothing changed, the same one.
LEMMA OutdatedTyped ==
  ASSUME NEW q \in [Keys -> Listing], NEW changed
  PROVE  /\ Outdated(q, changed) \in [Keys -> Listing]
         /\ changed = {} => Outdated(q, changed) = q
<1>1. ASSUME NEW k \in Keys
      PROVE  [data |-> IF q[k].data = "fresh" THEN "stale" ELSE q[k].data,
              fetch |-> IF q[k].fetch = "clean" THEN "dirty" ELSE q[k].fetch] \in Listing
  BY DEF Listing
<1> QED  BY <1>1 DEF Outdated

\* After a refresh nothing waits for one.
LEMMA RefreshSettles ==
  ASSUME NEW q \in [Keys -> Listing], shown \in Keys
  PROVE  refresh(q) \in [Keys -> Listing] /\ ~Waits(refresh(q), shown)
<1>1. ASSUME NEW k \in Keys
      PROVE  /\ refresh(q)[k] \in Listing /\ refresh(q)[k].fetch # "dirty"
             /\ k = shown => refresh(q)[k].fetch # None
  BY NoneIsNoPageValue DEF refresh, Listing
<1>2. refresh(q) = [k \in Keys |-> refresh(q)[k]]
  BY DEF refresh
<1>3. refresh(q) \in [Keys -> Listing]
  BY <1>1, <1>2
<1> QED  BY <1>1, <1>3 DEF Waits

\* Nor after a change that is passed over.
LEMMA PassedOverSettles ==
  ASSUME NEW q \in [Keys -> Listing], shown \in Keys
  PROVE  PassedOver(q) \in [Keys -> Listing] /\ ~Waits(PassedOver(q), shown)
<1>1. ASSUME NEW k \in Keys
      PROVE  /\ PassedOver(q)[k] \in Listing /\ PassedOver(q)[k].fetch # "dirty"
             /\ k = shown => PassedOver(q)[k].data # "stale"
  BY NoneIsNoPageValue DEF PassedOver, Listing
<1>2. PassedOver(q) = [k \in Keys |-> PassedOver(q)[k]]
  BY DEF PassedOver
<1>3. PassedOver(q) \in [Keys -> Listing]
  BY <1>1, <1>2
<1> QED  BY <1>1, <1>3 DEF Waits

\* A listing that is shown is being fetched; it waits only for a fetch that
\* was under way before.
LEMMA ObservedTyped ==
  ASSUME NEW q \in [Keys -> Listing], NEW k \in Keys, NEW j \in Keys
  PROVE  /\ Observed(q, k) \in [Keys -> Listing]
         /\ Waits(Observed(q, k), k) => Waits(q, j)
<1>1. ASSUME NEW i \in Keys
      PROVE  /\ Observed(q, k)[i] \in Listing
             /\ Observed(q, k)[i].fetch = "dirty" => q[i].fetch = "dirty"
             /\ i = k => Observed(q, k)[i].fetch # None
  BY NoneIsNoPageValue DEF Observed, Listing
<1>2. Observed(q, k) = [i \in Keys |-> Observed(q, k)[i]]
  BY DEF Observed
<1>3. Observed(q, k) \in [Keys -> Listing]
  BY <1>1, <1>2
<1> QED  BY <1>1, <1>3 DEF Waits

\* A request leaves files; the one of a share does not change them.
LEMMA EffectsTyped ==
  ASSUME PageTypeOK, NEW kind, NEW i \in Item, NEW into \in Dirs, NEW new \in Names
  PROVE  /\ Effects(kind, i, into, new) \subseteq [Dirs -> SUBSET Names]
         /\ kind = "batchShare" => Effects(kind, i, into, new) \subseteq {files}
         /\ kind = "share" => Effects(kind, i, into, new) = {}
<1>1. files \in [Dirs -> SUBSET Names] /\ i[1] \in Dirs /\ i[2] \in Names
  BY DEF PageTypeOK, Item
<1>2. \A f \in [Dirs -> SUBSET Names], d \in Dirs, n \in Names :
        Add(f, d, n) \in [Dirs -> SUBSET Names] /\ Remove(f, d, n) \in [Dirs -> SUBSET Names]
  BY DEF Add, Remove
<1>3. kind = "batchShare" => Effects(kind, i, into, new) \subseteq {files}
  BY DEF Effects
<1>4. kind = "share" => Effects(kind, i, into, new) = {}
  BY DEF Effects
<1>5. \A f \in Effects(kind, i, into, new) :
        \/ f = files
        \/ f \in {Remove(files, i[1], i[2]), Add(files, into, i[2]), Add(files, i[1], new)}
        \/ \E d \in {into, i[1]}, n \in {i[2], new} : f = Add(Remove(files, i[1], i[2]), d, n)
  BY DEF Effects
<1>6. Remove(files, i[1], i[2]) \in [Dirs -> SUBSET Names]
  BY <1>1, <1>2
<1>7. ASSUME NEW f \in Effects(kind, i, into, new)  PROVE f \in [Dirs -> SUBSET Names]
  <2>1. CASE \E d \in {into, i[1]}, n \in {i[2], new} : f = Add(Remove(files, i[1], i[2]), d, n)
    BY <1>1, <1>2, <1>6, <2>1
  <2> QED  BY <1>1, <1>2, <1>5, <1>6, <1>7, <2>1
<1> QED  BY <1>3, <1>4, <1>7

\* A step that touches only the listing and the selection.
LEMMA BesidesKept ==
  ASSUME PageInv, UNCHANGED besides, shown' \in Keys, query' \in [Keys -> Listing],
         selected' \in SUBSET Names, Waits(query', shown') => Waits(query, shown)
  PROVE  PageInv'
<1>1. PageTypeOK'
  BY DEF besides, PageInv, PageTypeOK
<1>2. MountInv' /\ DialogInv' /\ ShareInv' /\ BatchInv'
  BY DEF besides, PageInv, MountInv, DialogInv, ShareInv, BatchInv
<1>3. StaleInv'
  BY DEF besides, PageInv, StaleInv
<1> QED  BY <1>1, <1>2, <1>3 DEF PageInv

LEMMA NavigatesStep == ASSUME PageInv, Navigates  PROVE PageInv'
<1>0. /\ shown \in Keys /\ query \in [Keys -> Listing] /\ selected \in SUBSET Names
      /\ PageTypeOK
  BY DEF PageInv, PageTypeOK
<1>1. CASE refreshButton
  BY <1>0, <1>1, RefreshSettles, BesidesKept DEF refreshButton
<1>2. ASSUME NEW k \in Keys, To(k)
      PROVE  /\ shown' \in Keys /\ query' \in [Keys -> Listing] /\ selected' \in SUBSET Names
             /\ Waits(query', shown') => Waits(query, shown)
  BY <1>0, <1>2, ObservedTyped DEF To, NoSelection
<1>3. ASSUME NEW k \in Keys, goTo(k) \/ goBack(k)  PROVE PageInv'
  BY <1>2, <1>3, BesidesKept DEF goTo, goBack
<1>4. ASSUME NEW k \in Keys, reopen(k)  PROVE PageInv'
  <2>1. To(k) /\ dialog = None /\ mount' = mount + 1 /\ archive' = FALSE
        /\ started < MaxActions /\ started' = started + 1
        /\ UNCHANGED <<files, dialog, mutations, loops, clipboard>>
    BY <1>4 DEF reopen, Free, Counted
  <2>2. /\ mount' \in 1..MaxActions + 1 /\ started' \in 0..MaxActions
        /\ MountInv'
    BY <2>1, PageAssumption DEF PageInv, MountInv, PageTypeOK
  <2>3. PageTypeOK'
    BY <1>0, <1>2, <2>1, <2>2 DEF PageTypeOK
  <2>4. DialogInv' /\ ShareInv' /\ BatchInv'
    BY <2>1 DEF PageInv, DialogInv, ShareInv, BatchInv
  <2>5. StaleInv'
    BY <1>2, <2>1 DEF PageInv, StaleInv
  <2> QED  BY <2>2, <2>3, <2>4, <2>5 DEF PageInv
<1> QED  BY <1>1, <1>3, <1>4 DEF Navigates

\* The answer of a fetch waits only if files changed meanwhile.
LEMMA QueryStep == ASSUME PageInv, Query  PROVE PageInv'
<1>0. /\ shown \in Keys /\ query \in [Keys -> Listing] /\ selected \in SUBSET Names
  BY DEF PageInv, PageTypeOK
<1>1. PICK k \in Keys : listFiles(k)
  BY DEF Query
<1>2. PICK data \in {"fresh", "stale", "late"} :
        /\ query' = [query EXCEPT ![k] = [data |-> IF k = shown THEN data ELSE "stale", fetch |-> None]]
        /\ data = "stale" => query[k].fetch = "dirty"
  BY <1>0, <1>1 DEF listFiles, Listing
<1>3. query' \in [Keys -> Listing]
  BY <1>0, <1>2 DEF Listing
<1>4. shown' = shown /\ selected' = selected /\ UNCHANGED besides
  BY <1>1 DEF listFiles
<1>5. Waits(query', shown') => Waits(query, shown)
  BY <1>0, <1>2, <1>4, NoneIsNoPageValue DEF Waits
<1> QED  BY <1>0, <1>3, <1>4, <1>5, BesidesKept

\* What is put on the clipboard is of the operation named.
LEMMA PutTyped ==
  ASSUME NEW operation \in {None, "copy", "cut"}, NEW items \in SUBSET Item,
         operation = None => items = {}, Put(operation, items)
  PROVE  /\ clipboard' \in [operation: {None, "copy", "cut"}, items: SUBSET Item]
         /\ (clipboard'.operation = None) = (clipboard'.items = {})
BY NoneIsNoPageValue DEF Put

\* The page was opened no oftener than the user acted.
LEMMA MountKept ==
  ASSUME PageInv, mount' = mount, started' \in {started, started + 1}
  PROVE  MountInv'
<1>1. mount \in Nat /\ started \in Nat /\ mount <= started + 1
  BY PageAssumption DEF PageInv, PageTypeOK, MountInv
<1>2. mount <= (started + 1) + 1
  BY <1>1
<1> QED  BY <1>1, <1>2 DEF MountInv

\* A step that leaves the listing, the dialog and what is under way alone.
LEMMA ActionKept ==
  ASSUME PageInv, PageTypeOK',
         UNCHANGED <<shown, query, dialog, mutations, loops, mount>>,
         started' \in {started, started + 1}
  PROVE  PageInv'
<1>1. MountInv'
  BY MountKept
<1>2. DialogInv' /\ ShareInv' /\ BatchInv'
  BY DEF PageInv, DialogInv, ShareInv, BatchInv
<1>3. StaleInv'
  BY DEF PageInv, StaleInv
<1> QED  BY <1>1, <1>2, <1>3 DEF PageInv

LEMMA CountedTyped ==
  ASSUME PageTypeOK, Counted  PROVE started' \in 0..MaxActions /\ started' = started + 1
BY PageAssumption DEF PageTypeOK, Counted

LEMMA SelectsStep == ASSUME PageInv, Selects  PROVE PageInv'
<1>0. /\ shown \in Keys /\ query \in [Keys -> Listing] /\ selected \in SUBSET Names
      /\ PageTypeOK /\ started \in 0..MaxActions
  BY DEF PageInv, PageTypeOK
<1>1. ASSUME NEW n \in Names, toggleSelected(n)  PROVE PageInv'
  BY <1>0, <1>1, BesidesKept DEF toggleSelected
<1>2. CASE toggleAllSelected
  BY <1>0, <1>2, EntriesTyped, BesidesKept DEF toggleAllSelected
<1>3. CASE clearSelection
  BY <1>0, <1>3, BesidesKept DEF clearSelection, NoSelection
<1>4. {currentPath} \X selectedEntries \in SUBSET Item
  BY <1>0, EntriesTyped DEF Item
<1>5. CASE copyEntries
  <2>1. /\ clipboard' \in [operation: {None, "copy", "cut"}, items: SUBSET Item]
        /\ (clipboard'.operation = None) = (clipboard'.items = {})
    BY <1>4, <1>5, NoneIsNoPageValue, PutTyped DEF copyEntries
  <2>2. PageTypeOK' /\ started' = started + 1
    BY <1>0, <1>5, <2>1, CountedTyped DEF copyEntries, NoSelection, PageTypeOK
  <2> QED  BY <1>5, <2>2, ActionKept DEF copyEntries
<1>6. CASE cutEntries
  <2>1. /\ clipboard' \in [operation: {None, "copy", "cut"}, items: SUBSET Item]
        /\ (clipboard'.operation = None) = (clipboard'.items = {})
    BY <1>4, <1>6, NoneIsNoPageValue, PutTyped DEF cutEntries
  <2>2. PageTypeOK' /\ started' = started + 1
    BY <1>0, <1>6, <2>1, CountedTyped DEF cutEntries, NoSelection, PageTypeOK
  <2> QED  BY <1>6, <2>2, ActionKept DEF cutEntries
<1>7. CASE clearClipboard
  <2>1. /\ clipboard' \in [operation: {None, "copy", "cut"}, items: SUBSET Item]
        /\ (clipboard'.operation = None) = (clipboard'.items = {})
    BY <1>7, PutTyped DEF clearClipboard
  <2>2. PageTypeOK'
    BY <1>0, <1>7, <2>1 DEF clearClipboard, PageTypeOK
  <2> QED  BY <1>7, <2>2, ActionKept DEF clearClipboard
<1> QED  BY <1>1, <1>2, <1>3, <1>5, <1>6, <1>7 DEF Selects

\* A task that starts belongs to the page as it is.
LEMMA StartTyped ==
  ASSUME PageTypeOK, NEW kind \in LoopKind \cup {"batchShare"}, NEW items \in SUBSET Item,
         NEW into \in Dirs, Start(kind, items, into)
  PROVE  /\ loops' \in SUBSET Loop /\ loops \subseteq loops'
         /\ \A l \in loops' : l \in loops \/ (l.kind = kind /\ l.mount = mount)
<1>1. [kind |-> kind, todo |-> items, failed |-> {}, from |-> currentPath, into |-> into,
       mount |-> mount] \in Loop
  BY EntriesTyped DEF PageTypeOK, Loop
<1>2. loops \in SUBSET Loop
  BY DEF PageTypeOK
<1> QED  BY <1>1, <1>2 DEF Start

\* A step that starts a loop over files, and may close a dialog that no share
\* waits for.
LEMMA LoopStarted ==
  ASSUME PageInv, PageTypeOK', UNCHANGED <<shown, query, mutations, mount>>,
         started' \in {started, started + 1}, loops \subseteq loops',
         \A l \in loops' : l \in loops \/ l.kind # "batchShare",
         dialog' = dialog \/ (dialog' = None /\ dialog # None /\ dialog.kind = "batchDelete")
  PROVE  PageInv'
<1>1. MountInv'
  BY MountKept
<1>2. DialogInv' /\ ShareInv' /\ BatchInv'
  BY DEF PageInv, DialogInv, ShareInv, BatchInv
<1>3. StaleInv'
  BY DEF PageInv, StaleInv
<1> QED  BY <1>1, <1>2, <1>3 DEF PageInv

LEMMA StartsStep == ASSUME PageInv, Starts  PROVE PageInv'
<1>0. PageTypeOK /\ currentPath \in Dirs /\ clipboard.items \in SUBSET Item
  BY EntriesTyped DEF PageInv, PageTypeOK
<1>1. CASE downloadSelectedEntries
  <2>1. PageTypeOK' /\ started' = started + 1
    BY <1>0, <1>1, CountedTyped DEF downloadSelectedEntries, PageTypeOK
  <2> QED  BY <1>1, <2>1, ActionKept DEF downloadSelectedEntries
<1>2. CASE pasteClipboard
  <2>1. clipboard.operation \in {"copy", "cut"}
    BY <1>0, <1>2 DEF pasteClipboard, pasteDisabledReason, PageTypeOK
  <2>2. /\ loops' \in SUBSET Loop /\ loops \subseteq loops'
        /\ \A l \in loops' : l \in loops \/ l.kind = clipboard.operation
    BY <1>0, <1>2, <2>1, StartTyped DEF pasteClipboard, LoopKind
  <2>3. PageTypeOK' /\ started' = started + 1
    BY <1>0, <1>2, <2>2, CountedTyped DEF pasteClipboard, PageTypeOK
  <2> QED  BY <1>2, <2>1, <2>2, <2>3, LoopStarted DEF pasteClipboard
<1>3. ASSUME NEW n \in Names, NEW d \in Dirs, dropEntriesOnDirectory(n, d)  PROVE PageInv'
  <2>1. {currentPath} \X (IF n \in selected THEN selectedEntries ELSE {n}) \in SUBSET Item
    BY <1>0, EntriesTyped DEF Item
  <2>2. /\ loops' \in SUBSET Loop /\ loops \subseteq loops'
        /\ \A l \in loops' : l \in loops \/ l.kind = "drag"
    BY <1>0, <1>3, <2>1, StartTyped DEF dropEntriesOnDirectory, LoopKind
  <2>3. PageTypeOK' /\ started' = started + 1
    BY <1>0, <1>3, <2>2, CountedTyped DEF dropEntriesOnDirectory, PageTypeOK
  <2> QED  BY <1>3, <2>2, <2>3, LoopStarted DEF dropEntriesOnDirectory
<1>4. CASE deleteSelectedEntries
  <2>1. {currentPath} \X selectedEntries \in SUBSET Item
    BY <1>0, EntriesTyped DEF Item
  <2>2. /\ loops' \in SUBSET Loop /\ loops \subseteq loops'
        /\ \A l \in loops' : l \in loops \/ l.kind = "batchDelete"
    BY <1>0, <1>4, <2>1, StartTyped DEF deleteSelectedEntries, LoopKind
  <2>3. PageTypeOK'
    BY <1>0, <1>4, <2>2 DEF deleteSelectedEntries, PageTypeOK
  <2> QED  BY <1>4, <2>2, <2>3, LoopStarted DEF deleteSelectedEntries
<1> QED  BY <1>1, <1>2, <1>3, <1>4 DEF Starts

\* The entry a loop asks about is one of those left to do.
LEMMA NextEntry ==
  ASSUME NEW todo \in SUBSET Item, todo # {}
  PROVE  (CHOOSE x \in todo : \A y \in todo : x[2] <= y[2]) \in todo
<1> DEFINE S == {x[2] : x \in todo}
<1>1. S \in SUBSET Nat /\ S # {}
  <2>1. \A x \in todo : x[2] \in Names
    BY DEF Item
  <2>2. \A x \in todo : x[2] \in Nat
    BY <2>1, PageAssumption
  <2>3. PICK x \in todo : TRUE
    OBVIOUS
  <2>4. x[2] \in S
    OBVIOUS
  <2> QED  BY <2>2, <2>4
<1>2. Min(S) \in S /\ \A n \in S : Min(S) <= n
  <2> HIDE DEF S
  <2> QED  BY <1>1, LeastNumber
<1>3. PICK x \in todo : \A y \in todo : x[2] <= y[2]
  BY <1>2
<1> QED  BY <1>3

\* A pass of a loop: the loop goes on, and its request leaves files.
LEMMA loopStepEffect ==
  ASSUME PageInv, NEW l \in loops, loopStep(l)
  PROVE  /\ files' \in [Dirs -> SUBSET Names]
         /\ l.kind = "batchShare" => files' = files
         /\ loops' \in SUBSET Loop
         /\ \E m \in loops' : m.kind = l.kind
         /\ \A m \in loops \ {l} : m \in loops'
         /\ \A m \in loops' : m \in loops \/ (m.kind = l.kind /\ m.mount = l.mount)
<1> DEFINE i == CHOOSE x \in l.todo : \A y \in l.todo : x[2] <= y[2]
           m(lost) == [l EXCEPT !.todo = @ \ {i}, !.failed = @ \cup lost]
<1>1. l \in Loop /\ l.todo # {} /\ PageTypeOK
  BY DEF loopStep, PageInv, PageTypeOK
<1>2. i \in l.todo /\ i \in Item /\ i[2] \in Names
  <2>1. l.todo \in SUBSET Item
    BY <1>1 DEF Loop
  <2>2. i \in l.todo
    BY <1>1, <2>1, NextEntry
  <2> HIDE DEF i
  <2> QED  BY <2>1, <2>2 DEF Item
<1>3. \/ /\ files' \in Effects(l.kind, targetOf(l, i), l.into, targetOf(l, i)[2])
         /\ loops' = (loops \ {l}) \cup {m({})}
      \/ /\ files' \in Effects(l.kind, targetOf(l, i), l.into, targetOf(l, i)[2]) \cup {files}
         /\ loops' = (loops \ {l}) \cup {m({i})}
  BY DEF loopStep
<1>4. PICK lost \in SUBSET {i} : loops' = (loops \ {l}) \cup {m(lost)}
  BY <1>3
<1>5. m(lost) \in Loop /\ m(lost).kind = l.kind /\ m(lost).mount = l.mount
  <2> HIDE DEF i
  <2> QED  BY <1>1, <1>2 DEF Loop
<1>6. l.into \in Dirs /\ files \in [Dirs -> SUBSET Names]
  BY <1>1 DEF Loop, PageTypeOK
<1>7. files' \in [Dirs -> SUBSET Names] /\ (l.kind = "batchShare" => files' = files)
  <2>1. files' \in Effects(l.kind, targetOf(l, i), l.into, targetOf(l, i)[2]) \cup {files}
    BY <1>3
  <2> HIDE DEF i
  <2>2. targetOf(l, i) \in Item /\ targetOf(l, i)[2] \in Names
    BY <1>1, <1>2 DEF targetOf, Item, Loop
  <2> QED  BY <1>1, <1>6, <2>1, <2>2, EffectsTyped
<1> HIDE DEF m, i
<1> QED  BY <1>1, <1>4, <1>5, <1>7 DEF PageTypeOK

LEMMA loopStepStep == ASSUME PageInv, NEW l \in loops, loopStep(l)  PROVE PageInv'
<1>0. PageTypeOK /\ query \in [Keys -> Listing]
  BY DEF PageInv, PageTypeOK
<1>1. /\ query' = Outdated(query, Changed)
      /\ UNCHANGED <<shown, selected, dialog, mutations, archive, clipboard, mount, started>>
  BY DEF loopStep
<1>2. query' \in [Keys -> Listing]
  BY <1>0, <1>1, OutdatedTyped
<1>3. PageTypeOK'
  BY <1>0, <1>1, <1>2, loopStepEffect DEF PageTypeOK
<1>4. MountInv' /\ DialogInv' /\ ShareInv'
  BY <1>1, loopStepEffect DEF PageInv, MountInv, DialogInv, ShareInv
<1>5. BatchInv'
  BY <1>1, loopStepEffect DEF PageInv, BatchInv
<1>6. StaleInv'
  <2>1. CASE l.kind \in LoopKind
    BY <2>1, loopStepEffect DEF StaleInv
  <2>2. CASE l.kind = "batchShare"
    <3>1. Changed = {}
      BY <2>2, loopStepEffect DEF Changed
    <3>2. query' = query
      BY <1>0, <1>1, <3>1, OutdatedTyped
    <3>3. \A m \in loops : m.kind \in LoopKind => m \in loops'
      BY <2>2, loopStepEffect DEF LoopKind
    <3> QED  BY <1>1, <3>2, <3>3 DEF PageInv, StaleInv
  <2> QED  BY <1>0, <2>1, <2>2 DEF PageTypeOK, Loop
<1> QED  BY <1>3, <1>4, <1>5, <1>6 DEF PageInv

\* The end of a loop that changed files: the listing is refreshed.
LEMMA FilesLoopEnds ==
  ASSUME PageInv, NEW l \in loops, l.kind # "batchShare", Ends(l), query' = refresh(query),
         selected' \in SUBSET Names,
         clipboard' \in [operation: {None, "copy", "cut"}, items: SUBSET Item],
         (clipboard'.operation = None) = (clipboard'.items = {}),
         UNCHANGED <<files, shown, dialog, mutations, archive, mount, started>>
  PROVE  PageInv'
<1>1. query' \in [Keys -> Listing] /\ ~Waits(query', shown')
  BY RefreshSettles DEF PageInv, PageTypeOK
<1>2. loops' \in SUBSET Loop /\ \A m \in loops' : m \in loops
  BY DEF Ends, PageInv, PageTypeOK
<1>3. PageTypeOK'
  BY <1>1, <1>2 DEF PageInv, PageTypeOK
<1>4. MountInv' /\ DialogInv' /\ ShareInv' /\ BatchInv'
  BY <1>2 DEF PageInv, MountInv, DialogInv, ShareInv, BatchInv
<1>5. StaleInv'
  BY <1>1 DEF StaleInv
<1> QED  BY <1>3, <1>4, <1>5 DEF PageInv

LEMMA LoopsStep == ASSUME PageInv, Loops  PROVE PageInv'
<1>1. PICK l \in loops :
        loopStep(l) \/ pasteEnds(l) \/ dragEnds(l) \/ deleteEnds(l) \/ sharesEnd(l)
  BY DEF Loops
<1>2. /\ PageTypeOK /\ l \in Loop
      /\ selected \in SUBSET Names
      /\ clipboard \in [operation: {None, "copy", "cut"}, items: SUBSET Item]
      /\ (clipboard.operation = None) = (clipboard.items = {})
  BY DEF PageInv, PageTypeOK
<1>3. l.failed \in SUBSET Item /\ {i[2] : i \in l.failed} \in SUBSET Names
  BY <1>2 DEF Loop, Item
<1>4. CASE loopStep(l)
  BY <1>4, loopStepStep
<1>5. CASE pasteEnds(l)
  <2>1. /\ clipboard' \in [operation: {None, "copy", "cut"}, items: SUBSET Item]
        /\ (clipboard'.operation = None) = (clipboard'.items = {})
    <3>1. CASE Put(l.kind, l.failed)
      BY <1>3, <1>5, <3>1, PutTyped, NoneIsNoPageValue DEF pasteEnds
    <3>2. CASE clipboard' = clipboard
      BY <1>2, <3>2
    <3> QED  BY <1>5, <3>1, <3>2 DEF pasteEnds
  <2>2. l.kind # "batchShare"
    BY <1>5 DEF pasteEnds
  <2> QED  BY <1>2, <1>5, <2>1, <2>2, FilesLoopEnds DEF pasteEnds
<1>6. CASE dragEnds(l)
  <2>1. selected' \in SUBSET Names /\ l.kind # "batchShare"
    BY <1>2, <1>3, <1>6 DEF dragEnds, SelectFailed
  <2> QED  BY <1>2, <1>6, <2>1, FilesLoopEnds DEF dragEnds
<1>7. CASE deleteEnds(l)
  <2>1. selected' \in SUBSET Names /\ l.kind # "batchShare"
    BY <1>2, <1>3, <1>7 DEF deleteEnds, SelectFailed
  <2> QED  BY <1>2, <1>7, <2>1, FilesLoopEnds DEF deleteEnds
<1>8. CASE sharesEnd(l)
  <2>1. dialog # None /\ dialog \in Dialog /\ dialog.kind = "batchShare"
    BY <1>2, <1>8 DEF sharesEnd, PageInv, BatchInv, PageTypeOK
  <2>2. /\ dialog' \in Dialog /\ dialog'.kind = "batchShare"
    BY <1>3, <1>8, <2>1 DEF sharesEnd, Dialog
  <2>3. loops' \in SUBSET Loop /\ loops' = loops \ {l} /\ l.kind = "batchShare"
    BY <1>2, <1>8 DEF sharesEnd, Ends, PageTypeOK
  <2>4. PageTypeOK'
    BY <1>2, <1>8, <2>2, <2>3 DEF sharesEnd, PageTypeOK
  <2>5. dialog' # None
    BY <2>2, NoneIsNoPageValue
  <2>6. MountInv' /\ DialogInv' /\ ShareInv' /\ BatchInv'
    BY <1>8, <2>1, <2>2, <2>3, <2>5
    DEF sharesEnd, PageInv, MountInv, DialogInv, ShareInv, BatchInv
  <2>7. StaleInv'
    BY <1>8, <2>3 DEF sharesEnd, PageInv, StaleInv, LoopKind
  <2> QED  BY <2>4, <2>6, <2>7 DEF PageInv
<1> QED  BY <1>1, <1>4, <1>5, <1>6, <1>7, <1>8

\* A step that leaves the files and the listing alone, and of the loops those
\* that change files.
LEMMA DialogKept ==
  ASSUME PageInv, PageTypeOK', DialogInv', ShareInv', BatchInv',
         UNCHANGED <<files, shown, query, mount>>, started' \in {started, started + 1},
         loops \subseteq loops'
  PROVE  PageInv'
<1>1. MountInv'
  BY MountKept
<1>2. StaleInv'
  BY DEF PageInv, StaleInv
<1> QED  BY <1>1, <1>2 DEF PageInv

\* A dialog is opened when no other is: nothing waits for it yet.
LEMMA OpenStep ==
  ASSUME PageInv, Free, NEW kind \in DialogKind \cup {"batchDelete", "batchShare"},
         NEW name \in Names \cup {None}, NEW chosen \in SUBSET Names,
         kind \in {"rename", "delete", "share"} => name \in Names, Open(kind, name, chosen)
  PROVE  PageInv'
<1>0. PageTypeOK
  BY DEF PageInv
<1>1. /\ dialog' = [kind |-> kind, name |-> name, entries |-> chosen]
      /\ dialog' \in Dialog
  BY <1>0, EntriesTyped DEF Open, Dialog
<1>2. /\ UNCHANGED <<files, shown, query, selected, mutations, loops, archive, clipboard, mount>>
      /\ started' \in 0..MaxActions /\ started' = started + 1
  BY <1>0, CountedTyped DEF Open
<1>3. PageTypeOK'
  BY <1>0, <1>1, <1>2 DEF PageTypeOK
<1>4. DialogInv'
  BY <1>1, <1>2 DEF DialogInv, PageInv
<1>5. ShareInv' /\ BatchInv'
  BY <1>2 DEF PageInv, ShareInv, BatchInv, Free
<1> QED  BY <1>2, <1>3, <1>4, <1>5, DialogKept

\* Closing a dialog: nobody waits for its share any more.
LEMMA closeDialogStep == ASSUME PageInv, closeDialog  PROVE PageInv'
<1>0. PageTypeOK
  BY DEF PageInv
<1>1. /\ dialog' = None /\ mutations' = {r \in mutations : r.kind # "share"}
      /\ UNCHANGED <<files, shown, query, selected, loops, archive, clipboard, mount, started>>
  BY DEF closeDialog
<1>2. PageTypeOK'
  BY <1>0, <1>1 DEF PageTypeOK
<1>3. DialogInv' /\ ShareInv'
  BY <1>1 DEF PageInv, DialogInv, ShareInv
<1>4. BatchInv'
  BY <1>1 DEF PageInv, BatchInv, closeDialog, Running
<1> QED  BY <1>1, <1>2, <1>3, <1>4, DialogKept

\* submit adds the one request of its kind and entry.
LEMMA submitStep == ASSUME PageInv, NEW new \in Names, submit(new)  PROVE PageInv'
<1> DEFINE n == IF dialog.kind = "mkdir" THEN new ELSE dialog.name
           q == [kind |-> dialog.kind, item |-> <<currentPath, n>>, new |-> new]
<1>0. PageTypeOK /\ dialog # None /\ dialog \in Dialog /\ dialog.kind \in DialogKind
  BY DEF PageInv, PageTypeOK, submit
<1>1. /\ mutations' = mutations \cup {q}
      /\ UNCHANGED <<files, shown, query, selected, dialog, loops, archive, clipboard, mount, started>>
      /\ ~\E r \in mutations : r.kind = dialog.kind /\ (dialog.kind = "mkdir" \/ r.item[2] = dialog.name)
  BY DEF submit
<1>2. n \in Names
  BY <1>0 DEF PageInv, DialogInv, DialogKind
<1>3. q \in Mutation /\ q.kind = dialog.kind /\ q.item[2] = n
  <2> HIDE DEF n
  <2> QED  BY <1>0, <1>2, EntriesTyped DEF Mutation, Item
<1>4. dialog.kind = "share" => n = dialog.name
  OBVIOUS
<1> HIDE DEF n, q
<1>5. mutations' \in SUBSET Mutation
  BY <1>0, <1>1, <1>3 DEF PageTypeOK
<1>6. PageTypeOK'
  BY <1>0, <1>1, <1>5 DEF PageTypeOK
<1>7. DialogInv' /\ BatchInv'
  BY <1>1 DEF PageInv, DialogInv, BatchInv
<1>8. ShareInv'
  <2>1. ASSUME NEW r \in mutations', r.kind = "share"
        PROVE  dialog # None /\ dialog.kind = "share" /\ r.item[2] = dialog.name
    BY <1>0, <1>1, <1>3, <1>4, <2>1 DEF PageInv, ShareInv
  <2>2. ASSUME NEW r \in mutations', NEW s \in mutations', r.kind = "share", s.kind = "share"
        PROVE  r = s
    BY <1>1, <1>3, <2>1, <2>2 DEF PageInv, ShareInv
  <2> QED  BY <1>1, <2>1, <2>2 DEF ShareInv
<1> QED  BY <1>1, <1>6, <1>7, <1>8, DialogKept

\* The loop of several shares starts in its open dialog.
LEMMA createSharesStep == ASSUME PageInv, createShares  PROVE PageInv'
<1>0. PageTypeOK /\ dialog # None /\ dialog \in Dialog /\ dialog.kind = "batchShare"
  BY DEF PageInv, PageTypeOK, createShares
<1>1. /\ Start("batchShare", {currentPath} \X dialog.entries, currentPath)
      /\ dialog' = [dialog EXCEPT !.entries = {}]
      /\ UNCHANGED <<files, shown, query, selected, mutations, archive, clipboard, mount, started>>
  BY DEF createShares
<1>2. dialog' \in Dialog /\ dialog'.kind = "batchShare" /\ dialog' # None
  BY <1>0, <1>1, NoneIsNoPageValue DEF Dialog
<1>3. {currentPath} \X dialog.entries \in SUBSET Item /\ currentPath \in Dirs
  BY <1>0, EntriesTyped DEF Dialog, Item
<1>4. /\ loops' \in SUBSET Loop /\ loops \subseteq loops'
      /\ \A l \in loops' : l \in loops \/ (l.kind = "batchShare" /\ l.mount = mount)
  BY <1>0, <1>1, <1>3, StartTyped
<1>5. PageTypeOK'
  BY <1>0, <1>1, <1>2, <1>4 DEF PageTypeOK
<1>6. DialogInv' /\ BatchInv'
  BY <1>1, <1>2, <1>4 DEF PageInv, DialogInv, BatchInv
<1>7. ShareInv'
  BY <1>0, <1>1 DEF PageInv, ShareInv
<1> QED  BY <1>1, <1>4, <1>5, <1>6, <1>7, DialogKept

LEMMA DialogsStep == ASSUME PageInv, Dialogs  PROVE PageInv'
<1>0. PageTypeOK
  BY DEF PageInv
<1>1. CASE openMkdir
  BY <1>1, OpenStep DEF openMkdir, DialogKind
<1>2. CASE openBatchDelete
  BY <1>2, OpenStep DEF openBatchDelete
<1>3. CASE openBatchShare
  BY <1>0, <1>3, EntriesTyped, OpenStep DEF openBatchShare
<1>4. ASSUME NEW n \in Names, NEW kind \in DialogKind, openEntryDialog(kind, n)  PROVE PageInv'
  BY <1>4, OpenStep DEF openEntryDialog
<1> QED  BY <1>1, <1>2, <1>3, <1>4, createSharesStep, closeDialogStep, submitStep DEF Dialogs

\* An answer: its request is gone, and if the files changed nothing waits for
\* a refresh.
LEMMA AnswerKept ==
  ASSUME PageInv, files' \in [Dirs -> SUBSET Names],
         query' \in [Keys -> Listing], Waits(query', shown') => Waits(query, shown),
         mutations' \subseteq mutations,
         dialog' = dialog \/ (dialog' = None /\ dialog.kind \in DialogKind \ {"share"}),
         UNCHANGED <<shown, selected, loops, archive, clipboard, mount, started>>
  PROVE  PageInv'
<1>1. PageTypeOK'
  BY DEF PageInv, PageTypeOK
<1>2. MountInv' /\ DialogInv' /\ ShareInv'
  BY DEF PageInv, MountInv, DialogInv, ShareInv
<1>3. BatchInv'
  BY DEF PageInv, BatchInv, DialogKind
<1>4. StaleInv'
  BY DEF PageInv, StaleInv
<1> QED  BY <1>1, <1>2, <1>3, <1>4 DEF PageInv

LEMMA PageAnswersStep == ASSUME PageInv, PageAnswers  PROVE PageInv'
<1>0. PageTypeOK /\ query \in [Keys -> Listing] /\ shown \in Keys /\ files \in [Dirs -> SUBSET Names]
  BY DEF PageInv, PageTypeOK
<1>1. ASSUME NEW r \in mutations
      PROVE  /\ r \in Mutation /\ r.kind \in DialogKind /\ r.item \in Item /\ r.item[1] \in Dirs
             /\ r.new \in Names
             /\ Effects(r.kind, r.item, r.item[1], r.new) \subseteq [Dirs -> SUBSET Names]
             /\ r.kind = "share" => Effects(r.kind, r.item, r.item[1], r.new) = {}
  <2>1. r \in Mutation /\ r.kind \in DialogKind /\ r.item \in Item /\ r.item[1] \in Dirs /\ r.new \in Names
    BY <1>0 DEF PageTypeOK, Mutation, Item
  <2> QED  BY <1>0, <2>1, EffectsTyped
<1>2. CASE archiveDone \/ archiveFails
  <2>1. PageTypeOK'
    BY <1>0, <1>2 DEF archiveDone, archiveFails, NoSelection, PageTypeOK
  <2> QED  BY <1>2, <2>1, ActionKept DEF archiveDone, archiveFails
<1>3. ASSUME NEW r \in mutations, succeeded(r)  PROVE PageInv'
  <2>1. files' \in Effects(r.kind, r.item, r.item[1], r.new)
    BY <1>3 DEF succeeded
  <2>2. files' \in [Dirs -> SUBSET Names] /\ r.kind # "share" /\ r.kind \in DialogKind
    BY <1>1, <2>1
  <2>3. query' = refresh(Outdated(query, Changed)) /\ shown' = shown
    BY <1>3 DEF succeeded
  <2>4. query' \in [Keys -> Listing] /\ ~Waits(query', shown')
    BY <1>0, <2>3, OutdatedTyped, RefreshSettles
  <2>5. mutations' \subseteq mutations
        /\ UNCHANGED <<shown, selected, loops, archive, clipboard, mount, started>>
    BY <1>3 DEF succeeded
  <2>6. dialog' = dialog \/ (dialog' = None /\ dialog.kind \in DialogKind \ {"share"})
    BY <1>3, <2>2 DEF succeeded
  <2> QED  BY <2>2, <2>4, <2>5, <2>6, AnswerKept
<1>4. ASSUME NEW r \in mutations, failed(r)  PROVE PageInv'
  <2>1. /\ mutations' \subseteq mutations /\ dialog' = dialog
        /\ UNCHANGED <<shown, selected, loops, archive, clipboard, mount, started>>
    BY <1>4 DEF failed
  <2>2. CASE UNCHANGED <<files, query>>
    BY <1>0, <2>1, <2>2, AnswerKept
  <2>3. CASE /\ files' \in Effects(r.kind, r.item, r.item[1], r.new)
             /\ query' = PassedOver(Outdated(query, Changed))
    <3>1. files' \in [Dirs -> SUBSET Names]
      BY <1>1, <2>3
    <3>2. query' \in [Keys -> Listing] /\ ~Waits(query', shown')
      BY <1>0, <2>1, <2>3, OutdatedTyped, PassedOverSettles
    <3> QED  BY <2>1, <3>1, <3>2, AnswerKept
  <2> QED  BY <1>4, <2>2, <2>3 DEF failed
<1>5. ASSUME NEW r \in mutations, shareCreated(r)  PROVE PageInv'
  <2>1. /\ r.kind = "share" /\ mutations' = mutations \ {r}
        /\ dialog' = [dialog EXCEPT !.kind = "shared"]
        /\ UNCHANGED <<files, shown, query, selected, loops, archive, clipboard, mount, started>>
    BY <1>5 DEF shareCreated
  <2>2. dialog \in Dialog /\ dialog.kind = "share" /\ \A q \in mutations' : q.kind # "share"
    BY <1>0, <2>1 DEF PageInv, ShareInv, PageTypeOK
  <2>3. dialog' \in Dialog /\ dialog'.kind = "shared"
    BY <2>1, <2>2 DEF Dialog
  <2>4. PageTypeOK'
    BY <1>0, <2>1, <2>3 DEF PageTypeOK
  <2>5. DialogInv' /\ ShareInv'
    BY <2>1, <2>2, <2>3 DEF PageInv, DialogInv, ShareInv
  <2>6. BatchInv'
    BY <2>1, <2>2 DEF PageInv, BatchInv
  <2> QED  BY <2>1, <2>4, <2>5, <2>6, DialogKept
<1> QED  BY <1>2, <1>3, <1>4, <1>5 DEF PageAnswers

LEMMA PageStart == ASSUME PageInit  PROVE PageInv
<1>1. query \in [Keys -> Listing] /\ ~Waits(query, shown)
  BY NoneIsNoPageValue DEF PageInit, Listing, Waits
<1>2. PageTypeOK
  <2>1. mount \in 1..MaxActions + 1 /\ started \in 0..MaxActions
    BY PageAssumption DEF PageInit
  <2>2. /\ clipboard \in [operation: {None, "copy", "cut"}, items: SUBSET Item]
        /\ (clipboard.operation = None) = (clipboard.items = {})
    BY DEF PageInit
  <2>3. files \in [Dirs -> SUBSET Names] /\ shown \in Keys
    BY PageAssumption DEF PageInit
  <2> QED  BY <1>1, <2>1, <2>2, <2>3 DEF PageInit, PageTypeOK
<1>3. MountInv /\ DialogInv /\ ShareInv /\ BatchInv
  BY DEF PageInit, MountInv, DialogInv, ShareInv, BatchInv
<1> QED  BY <1>1, <1>2, <1>3 DEF StaleInv, PageInv

LEMMA PageStep == ASSUME PageInv, [PageNext]_pageVars  PROVE PageInv'
<1>1. CASE UNCHANGED pageVars
  BY <1>1 DEF pageVars, PageInv, PageTypeOK, MountInv, DialogInv, ShareInv, BatchInv, StaleInv
<1> QED  BY <1>1, NavigatesStep, SelectsStep, StartsStep, DialogsStep, QueryStep, LoopsStep,
            PageAnswersStep DEF PageNext

\* The file page keeps its invariant, for any directories, names and orders of
\* the listing, and however many actions.
THEOREM PageInvariant == PageSpec => []PageInv
<1>1. PageInit => PageInv
  BY PageStart
<1>2. PageInv /\ [PageNext]_pageVars => PageInv'
  BY PageStep
<1> QED  BY <1>1, <1>2, PTL DEF PageSpec

\* When nothing is under way, what the page shows never waits for a refresh
\* that nobody asks for.
THEOREM ListingsEndFresh == PageSpec => []ListingFresh
<1>1. PageInv => ListingFresh
  BY DEF PageInv, StaleInv, Waits, ListingFresh
<1> QED  BY <1>1, PageInvariant, PTL

-----------------------------------------------------------------------------
(* What the user asked for.                                                *)

\* The page's selection is what is marked on the screen, in the directory shown.
MarksInv == marked = {currentPath} \X selected

\* What is on the clipboard was asked for.
ClipInv == {clipboard.operation} \X clipboard.items \subseteq asked

\* So was all that a task works on, and what it failed on, which goes back to the
\* clipboard; a deletion works in the directory its closure kept.
Consented(l) ==
  l.kind \in LoopKind =>
    /\ {l.kind} \X (l.todo \cup l.failed) \subseteq asked
    /\ l.kind = "batchDelete" => l.todo \subseteq {l.from} \X Names

TasksInv == \A l \in loops : Consented(l)

ConsentInv == MarksInv /\ ClipInv /\ TasksInv

\* What is selected and listed is marked.
LEMMA SelectedMarked ==
  ASSUME ConsentInv  PROVE {currentPath} \X selectedEntries \subseteq marked
BY DEF ConsentInv, MarksInv, selectedEntries

\* More may be asked for while no task starts.
LEMMA ConsentKept ==
  ASSUME ConsentInv, asked \subseteq asked', clipboard' = clipboard,
         \A l \in loops' : l \in loops \/ l.kind \notin LoopKind
  PROVE  ClipInv' /\ TasksInv'
<1>1. ClipInv'
  BY DEF ConsentInv, ClipInv
<1>2. ASSUME NEW l \in loops'  PROVE Consented(l)'
  BY <1>2 DEF ConsentInv, TasksInv, Consented
<1> QED  BY <1>1, <1>2 DEF TasksInv

\* A task that starts with what was asked for.
LEMMA ConsentStart ==
  ASSUME ConsentInv, asked \subseteq asked', clipboard' = clipboard,
         NEW kind, NEW items, NEW into, Start(kind, items, into), {kind} \X items \subseteq asked',
         kind = "batchDelete" => items \subseteq {currentPath} \X Names
  PROVE  ClipInv' /\ TasksInv'
<1>1. PICK new : /\ new = [kind |-> kind, todo |-> items, failed |-> {}, from |-> currentPath,
                            into |-> into, mount |-> mount]
                 /\ loops' = loops \cup {new}
  BY DEF Start
<1>2. Consented(new)'
  BY <1>1 DEF Consented
<1>3. ASSUME NEW l \in loops  PROVE Consented(l)'
  BY DEF ConsentInv, TasksInv, Consented
<1>4. TasksInv'
  BY <1>1, <1>2, <1>3 DEF TasksInv
<1>5. ClipInv'
  BY DEF ConsentInv, ClipInv
<1> QED  BY <1>4, <1>5

\* The user walks into another directory, marks or unmarks.
LEMMA MarkingStep ==
  ASSUME PageInv, ConsentInv,
         Walks \/ MarksAll \/ Unmarks \/ \E n \in Names : Toggles(n)
  PROVE  ConsentInv'
<1>1. UNCHANGED <<loops, clipboard, asked>>
  BY DEF Walks, goTo, goBack, reopen, besides, MarksAll, toggleAllSelected, Unmarks, clearSelection,
         archiveDone, Toggles, toggleSelected
<1>2. ClipInv' /\ TasksInv'
  BY <1>1, ConsentKept
<1>3. marked = {currentPath} \X selected
  BY DEF ConsentInv, MarksInv
<1>4. MarksInv'
  <2>1. CASE Walks
    BY <2>1 DEF Walks, goTo, goBack, reopen, To, NoSelection, MarksInv
  <2>2. CASE MarksAll
    BY <1>3, <2>2 DEF MarksAll, toggleAllSelected, Here, MarksInv, currentPath
  <2>3. CASE Unmarks
    BY <2>3 DEF Unmarks, clearSelection, archiveDone, NoSelection, MarksInv
  <2>4. ASSUME NEW n \in Names, Toggles(n)  PROVE MarksInv'
    <3>1. /\ selected' = IF n \in selected THEN selected \ {n} ELSE selected \cup {n}
          /\ marked' = IF n \in selected THEN marked \ ({currentPath} \X {n})
                                         ELSE marked \cup ({currentPath} \X {n})
          /\ currentPath' = currentPath
      BY <1>3, <2>4 DEF Toggles, toggleSelected, Here, currentPath
    <3>2. CASE n \in selected
      BY <1>3, <3>1, <3>2 DEF MarksInv
    <3>3. CASE n \notin selected
      BY <1>3, <3>1, <3>3 DEF MarksInv
    <3> QED  BY <3>2, <3>3
  <2> QED  BY <2>1, <2>2, <2>3, <2>4
<1> QED  BY <1>2, <1>4 DEF ConsentInv

\* Copying, cutting, deleting and dragging ask for what is marked.
LEMMA AskingStep ==
  ASSUME PageInv, ConsentInv,
         Collects \/ Deletes \/ \E n \in Names, d \in Dirs : Drags(n, d)
  PROVE  ConsentInv'
<1>0. selectedEntries \in SUBSET Names
  BY EntriesTyped DEF PageInv
<1>1. ASSUME NEW operation \in {"copy", "cut"}, Put(operation, {currentPath} \X selectedEntries),
             Asks(operation, marked), NoSelection, marked' = {}, UNCHANGED <<shown, loops>>
      PROVE  ConsentInv'
  <2>1. /\ asked' = asked \cup ({operation} \X marked)
        /\ clipboard'.items = {currentPath} \X selectedEntries
        /\ clipboard'.items # {} => clipboard'.operation = operation
    BY <1>1 DEF Put, Asks
  <2>2. ClipInv'
    BY <2>1, SelectedMarked DEF ClipInv
  <2>3. TasksInv'
    BY <1>1, <2>1 DEF ConsentInv, TasksInv, Consented
  <2>4. MarksInv'
    BY <1>1 DEF NoSelection, MarksInv
  <2> QED  BY <2>2, <2>3, <2>4 DEF ConsentInv
<1>2. CASE Collects
  <2>1. CASE copyEntries /\ Asks("copy", marked)
    BY <1>1, <1>2, <2>1 DEF Collects, copyEntries
  <2>2. CASE cutEntries /\ Asks("cut", marked)
    BY <1>1, <1>2, <2>2 DEF Collects, cutEntries
  <2> QED  BY <1>2, <2>1, <2>2 DEF Collects
<1>3. ASSUME UNCHANGED <<shown, selected, marked>>  PROVE MarksInv'
  BY <1>3 DEF ConsentInv, MarksInv, currentPath
<1>4. CASE Deletes
  <2>1. /\ Start("batchDelete", {currentPath} \X selectedEntries, currentPath)
        /\ asked' = asked \cup ({"batchDelete"} \X marked)
        /\ UNCHANGED <<shown, selected, clipboard, marked>>
    BY <1>4 DEF Deletes, deleteSelectedEntries, Asks
  <2>2. {"batchDelete"} \X ({currentPath} \X selectedEntries) \subseteq asked'
    BY <2>1, SelectedMarked
  <2>3. {currentPath} \X selectedEntries \subseteq {currentPath} \X Names
    BY <1>0
  <2>4. ClipInv' /\ TasksInv'
    BY <2>1, <2>2, <2>3, ConsentStart
  <2> QED  BY <1>3, <2>1, <2>4 DEF ConsentInv
<1>5. ASSUME NEW n \in Names, NEW d \in Dirs, Drags(n, d)  PROVE ConsentInv'
  <2> DEFINE items == {currentPath} \X (IF n \in selected THEN selectedEntries ELSE {n})
             meant == IF <<currentPath, n>> \in marked THEN marked ELSE Here({n})
  <2>1. /\ Start("drag", items, d) /\ asked' = asked \cup ({"drag"} \X meant)
        /\ UNCHANGED <<shown, selected, clipboard, marked>>
    BY <1>5 DEF Drags, dropEntriesOnDirectory, Asks
  <2>2. items \subseteq meant
    BY SelectedMarked DEF ConsentInv, MarksInv, Here
  <2> HIDE DEF items, meant
  <2>3. {"drag"} \X items \subseteq asked'
    BY <2>1, <2>2
  <2>4. ClipInv' /\ TasksInv'
    BY <2>1, <2>3, ConsentStart
  <2> QED  BY <1>3, <2>1, <2>4 DEF ConsentInv
<1> QED  BY <1>2, <1>4, <1>5

\* The end of a task: what it failed on is marked, or goes back to the clipboard.
LEMMA EndingStep ==
  ASSUME ConsentInv, NEW l \in loops, Remarks(l) \/ (pasteEnds(l) /\ UNCHANGED <<marked, asked>>)
  PROVE  ConsentInv'
<1>1. asked' = asked /\ loops' = loops \ {l} /\ currentPath' = currentPath
  BY DEF Remarks, dragEnds, deleteEnds, pasteEnds, Ends, currentPath
<1>2. TasksInv'
  BY <1>1 DEF ConsentInv, TasksInv, Consented
<1>3. CASE Remarks(l)
  <2>1. /\ clipboard' = clipboard
        /\ selected' = IF l.mount = mount THEN {i[2] : i \in l.failed} ELSE selected
        /\ marked' = IF l.mount = mount THEN {currentPath} \X {i[2] : i \in l.failed} ELSE marked
    BY <1>3 DEF Remarks, dragEnds, deleteEnds, SelectFailed, Here
  <2>2. MarksInv' /\ ClipInv'
    BY <1>1, <2>1 DEF ConsentInv, MarksInv, ClipInv
  <2> QED  BY <1>2, <2>2 DEF ConsentInv
<1>4. CASE pasteEnds(l) /\ UNCHANGED <<marked, asked>>
  <2>1. /\ clipboard' = clipboard \/ Put(l.kind, l.failed)
        /\ l.kind \in LoopKind /\ selected' = selected /\ marked' = marked
    BY <1>4 DEF pasteEnds, LoopKind
  <2>2. {l.kind} \X l.failed \subseteq asked
    BY <2>1 DEF ConsentInv, TasksInv, Consented
  <2>3. ClipInv'
    BY <1>1, <2>1, <2>2 DEF ConsentInv, ClipInv, Put
  <2>4. MarksInv'
    BY <1>1, <2>1 DEF ConsentInv, MarksInv
  <2> QED  BY <1>2, <2>3, <2>4 DEF ConsentInv
<1> QED  BY <1>3, <1>4

\* A pass of a loop moves an entry at most from what is to do to what failed.
LEMMA PassingStep ==
  ASSUME PageInv, ConsentInv, NEW l \in loops, loopStep(l), UNCHANGED <<marked, asked>>
  PROVE  ConsentInv'
<1> DEFINE i == CHOOSE x \in l.todo : \A y \in l.todo : x[2] <= y[2]
           m(lost) == [l EXCEPT !.todo = @ \ {i}, !.failed = @ \cup lost]
<1>1. l \in Loop /\ l.todo # {}
  BY DEF loopStep, PageInv, PageTypeOK
<1>2. i \in l.todo
  BY <1>1, NextEntry DEF Loop
<1>3. PICK lost \in SUBSET {i} : loops' = (loops \ {l}) \cup {m(lost)}
  BY DEF loopStep
<1>4. Consented(m(lost))
  <2> HIDE DEF i
  <2> QED  BY <1>1, <1>2 DEF ConsentInv, TasksInv, Consented, Loop
<1> HIDE DEF m, i
<1>5. TasksInv'
  BY <1>3, <1>4 DEF ConsentInv, TasksInv, Consented
<1>6. ClipInv' /\ MarksInv'
  BY DEF loopStep, ConsentInv, ClipInv, MarksInv, currentPath
<1> QED  BY <1>5, <1>6 DEF ConsentInv

\* Whatever else happens leaves selection, clipboard and tasks alone, empties the
\* clipboard, or starts and ends what the clipboard and the dialogs hold.
LEMMA OthersStep == ASSUME PageInv, ConsentInv, Others  PROVE ConsentInv'
<1>0. /\ asked' = asked /\ marked' = marked
      /\ clipboard.operation \in {None, "copy", "cut"}
  BY DEF Others, PageInv, PageTypeOK
<1>1. ASSUME UNCHANGED <<shown, selected>>  PROVE MarksInv'
  BY <1>0, <1>1 DEF ConsentInv, MarksInv, currentPath
<1>2. ASSUME UNCHANGED <<shown, selected, clipboard>>,
             \A l \in loops' : l \in loops \/ l.kind \notin LoopKind
      PROVE  ConsentInv'
  BY <1>0, <1>1, <1>2, ConsentKept DEF ConsentInv
<1>3. CASE refreshButton \/ downloadSelectedEntries \/ Query \/ archiveFails
  BY <1>2, <1>3 DEF refreshButton, besides, downloadSelectedEntries, Query, listFiles, archiveFails
<1>4. ASSUME NEW r \in mutations, succeeded(r) \/ shareCreated(r) \/ failed(r)  PROVE ConsentInv'
  BY <1>2, <1>4 DEF succeeded, shareCreated, failed
<1>5. CASE clearClipboard
  <2>1. UNCHANGED <<shown, selected, loops>> /\ clipboard'.items = {}
    BY <1>5 DEF clearClipboard, Put
  <2>2. ClipInv' /\ TasksInv'
    BY <1>0, <2>1 DEF ConsentInv, ClipInv, TasksInv, Consented
  <2> QED  BY <1>1, <2>1, <2>2 DEF ConsentInv
<1>6. CASE pasteClipboard
  <2>1. /\ Start(clipboard.operation, clipboard.items, currentPath)
        /\ clipboard.operation # "batchDelete" /\ UNCHANGED <<shown, selected, clipboard>>
    BY <1>0, <1>6 DEF pasteClipboard, pasteDisabledReason
  <2>2. ClipInv' /\ TasksInv'
    BY <1>0, <2>1, ConsentStart DEF ConsentInv, ClipInv
  <2> QED  BY <1>1, <2>1, <2>2 DEF ConsentInv
<1>7. CASE Dialogs
  <2>1. CASE createShares
    <3>1. /\ Start("batchShare", {currentPath} \X dialog.entries, currentPath)
          /\ UNCHANGED <<shown, selected, clipboard>>
      BY <2>1 DEF createShares
    <3>2. \A l \in loops' : l \in loops \/ l.kind \notin LoopKind
      BY <3>1 DEF Start, LoopKind
    <3> QED  BY <1>2, <3>1, <3>2
  <2>2. CASE \/ openMkdir \/ openBatchDelete \/ openBatchShare \/ closeDialog
             \/ \E n \in Names, kind \in DialogKind : openEntryDialog(kind, n)
             \/ \E n \in Names : submit(n)
    BY <1>2, <2>2 DEF openMkdir, openBatchDelete, openBatchShare, openEntryDialog, Open, closeDialog,
                      submit
  <2> QED  BY <1>7, <2>1, <2>2 DEF Dialogs
<1>8. ASSUME NEW l \in loops, loopStep(l) \/ pasteEnds(l) \/ sharesEnd(l)  PROVE ConsentInv'
  <2>1. CASE loopStep(l)
    BY <1>0, <2>1, PassingStep
  <2>2. CASE pasteEnds(l)
    BY <1>0, <2>2, EndingStep
  <2>3. CASE sharesEnd(l)
    BY <1>2, <2>3 DEF sharesEnd, Ends
  <2> QED  BY <1>8, <2>1, <2>2, <2>3
<1> QED  BY <1>3, <1>4, <1>5, <1>6, <1>7, <1>8 DEF Others

\* With the history the page still behaves as before.
LEMMA ConsentIsPage == ASSUME ConsentNext  PROVE PageNext
BY DEF ConsentNext, Walks, Toggles, MarksAll, Unmarks, Collects, Deletes, Drags, Remarks, Others,
       PageNext, Navigates, Selects, Starts, Loops, PageAnswers

\* Every request that a task over several entries has yet to send is about one
\* that was marked when the user asked for it (pasteClipboard,
\* dropEntriesOnDirectory and deleteSelectedEntries), wherever the user has gone
\* since, on any page with any directories and names.
THEOREM OnlyConfirmed == ConsentSpec => []ConfirmedOnly
<1>1. ConsentInit => PageInv /\ ConsentInv
  <2> SUFFICES ASSUME ConsentInit  PROVE PageInv /\ ConsentInv
    OBVIOUS
  <2>1. PageInv
    BY PageStart DEF ConsentInit
  <2>2. selected = {} /\ loops = {} /\ clipboard.items = {} /\ marked = {}
    BY DEF ConsentInit, PageInit
  <2>3. ConsentInv
    BY <2>2 DEF ConsentInv, MarksInv, ClipInv, TasksInv
  <2> QED  BY <2>1, <2>3
<1>2. PageInv /\ ConsentInv /\ [ConsentNext]_consentVars => PageInv' /\ ConsentInv'
  <2> SUFFICES ASSUME PageInv, ConsentInv, [ConsentNext]_consentVars
               PROVE  PageInv' /\ ConsentInv'
    OBVIOUS
  <2>1. PageInv'
    <3>1. [PageNext]_pageVars
      BY ConsentIsPage DEF consentVars
    <3> QED  BY <3>1, PageStep
  <2>2. CASE ConsentNext
    <3>1. ASSUME NEW l \in loops, Remarks(l)  PROVE ConsentInv'
      BY <3>1, EndingStep
    <3>2. CASE Walks \/ MarksAll \/ Unmarks \/ \E n \in Names : Toggles(n)
      BY <2>1, <3>2, MarkingStep
    <3>3. CASE Collects \/ Deletes \/ \E n \in Names, d \in Dirs : Drags(n, d)
      BY <2>1, <3>3, AskingStep
    <3> QED  BY <2>1, <2>2, <3>1, <3>2, <3>3, OthersStep DEF ConsentNext
  <2>3. CASE UNCHANGED consentVars
    <3>1. UNCHANGED <<shown, selected, clipboard, loops, marked, asked>>
      BY <2>3 DEF consentVars, pageVars
    <3>2. ClipInv' /\ TasksInv'
      BY <3>1, ConsentKept
    <3>3. MarksInv'
      BY <3>1 DEF ConsentInv, MarksInv, currentPath
    <3> QED  BY <2>1, <3>2, <3>3 DEF ConsentInv
  <2> QED  BY <2>1, <2>2, <2>3
<1>3. PageInv /\ ConsentInv => ConfirmedOnly
  <2> SUFFICES ASSUME PageInv, ConsentInv, NEW l \in loops, l.kind \in LoopKind, NEW i \in l.todo
               PROVE  <<l.kind, targetOf(l, i)>> \in asked
    BY DEF ConfirmedOnly
  <2>1. <<l.kind, i>> \in asked /\ (l.kind = "batchDelete" => i \in {l.from} \X Names)
    BY DEF ConsentInv, TasksInv, Consented
  <2>2. targetOf(l, i) = i
    BY <2>1 DEF targetOf, LoopKind
  <2> QED  BY <2>1, <2>2
<1> QED  BY <1>1, <1>2, <1>3, PTL DEF ConsentSpec
=============================================================================
