------------------------------ MODULE FilePage ------------------------------
(***************************************************************************)
(* The file page (pages/FileManager.tsx with its dialogs): what it shows,  *)
(* what is selected, its dialogs, and the tasks that run while the user    *)
(* goes on.  A task is a loop over entries, one request at a time; its      *)
(* closure keeps the directory it was started in, while a dialog always     *)
(* takes the directory of the latest render.                               *)
(*                                                                         *)
(* The listings live in the query cache.  A key stands for the listing of  *)
(* one directory in one order.  Of its data only this is kept: does it     *)
(* show the files as they are, and if not, is a refresh still due?  What   *)
(* an outdated listing shows may be anything.  Uploads are modelled in     *)
(* UploadTask.                                                             *)
(***************************************************************************)
EXTENDS Console, Naturals, FiniteSets, FiniteSetsExt

CONSTANTS
  Dirs,        \* directories of the source
  Keys,        \* query keys of listings
  Dir,         \* Dir[k]: the directory a key lists
  Names,       \* entry names, numbers: their order in a listing
  InitFiles,   \* InitFiles[d]: the entries at the start
  Writable,    \* directories the user may write to
  MaxActions   \* bound on the user's actions, apart from navigating, selecting and answering a dialog

VARIABLES
  files,       \* on the server
  shown,       \* the key of the listing shown
  query,       \* per key its data and its fetch, see below
  selected,    \* selectedNames
  dialog,      \* the open dialog, or None
  mutations,   \* single mutations under way
  loops,       \* tasks under way
  archive,     \* archiveDownloading
  clipboard,
  mount,       \* how often the page was opened
  started      \* actions so far

pageVars == <<files, shown, query, selected, dialog, mutations, loops, archive, clipboard,
              mount, started>>

Item == Dirs \X Names
DialogKind == {"rename", "delete", "mkdir", "share"}
LoopKind == {"batchDelete", "copy", "cut", "drag"}
Dialog == [kind: DialogKind \cup {"batchDelete", "batchShare", "shared"}, name: Names \cup {None},
           entries: SUBSET Names]
Mutation == [kind: DialogKind, item: Item, new: Names]
Loop == [kind: LoopKind \cup {"batchShare"}, todo: SUBSET Item, failed: SUBSET Item, from: Dirs,
         into: Dirs, mount: 1..MaxActions + 1]
Listing == [data: {None, "fresh", "stale", "late"}, fetch: {None, "clean", "dirty", "late"}]

ASSUME PageAssumption ==
  /\ Dir \in [Keys -> Dirs] /\ InitFiles \in [Dirs -> SUBSET Names]
  /\ Names \subseteq Nat /\ MaxActions \in Nat
  /\ None \notin Dialog \cup {"fresh", "stale", "late", "clean", "dirty", "copy", "cut"}

PageTypeOK ==
  /\ files \in [Dirs -> SUBSET Names]
  /\ shown \in Keys
  /\ query \in [Keys -> Listing]
  /\ selected \in SUBSET Names
  /\ \/ dialog = None
     \/ dialog \in Dialog
  /\ mutations \in SUBSET Mutation
  /\ loops \in SUBSET Loop
  /\ archive \in BOOLEAN
  /\ clipboard \in [operation: {None, "copy", "cut"}, items: SUBSET Item]
  /\ (clipboard.operation = None) = (clipboard.items = {})
  /\ mount \in 1..MaxActions + 1
  /\ started \in 0..MaxActions

PageInit ==
  /\ files = InitFiles
  /\ shown \in {k \in Keys : Dir[k] \in Writable}
  /\ query = [k \in Keys |-> [data |-> None, fetch |-> IF k = shown THEN "clean" ELSE None]]
  /\ selected = {}
  /\ dialog = None
  /\ mutations = {} /\ loops = {}
  /\ archive = FALSE
  /\ clipboard = [operation |-> None, items |-> {}]
  /\ mount = 1 /\ started = 0

-----------------------------------------------------------------------------
(* What a render computes.                                                 *)

currentPath == Dir[shown]
canWrite == currentPath \in Writable
entries ==
  CASE query[shown].data = None -> {}
    [] query[shown].data = "fresh" -> files[currentPath]
    [] OTHER -> Names
selectedEntries == entries \cap selected
Running(kinds) == \E l \in loops : l.mount = mount /\ l.kind \in kinds
runningFileTask == Running(LoopKind) \/ archive

\* No modal dialog is in the way.
Free == dialog = None

\* setSelectedNames(new Set()).
NoSelection == selected' = {}

\* What navigating leaves alone, apart from the listing and the selection.
besides == <<files, dialog, mutations, loops, archive, clipboard, mount, started>>

-----------------------------------------------------------------------------
(* The query cache.  data: None before the first answer; "stale": older    *)
(* than the files, while a refresh is due; "late": older, and none is due. *)
(* fetch: None; "clean": the files have not changed since it was sent;     *)
(* "dirty": they have; "late": they have, and a refresh passed it over.    *)

\* The files of these directories change.
Outdated(q, changed) ==
  [k \in Keys |->
     IF Dir[k] \notin changed THEN q[k]
     ELSE [data |-> IF q[k].data = "fresh" THEN "stale" ELSE q[k].data,
           fetch |-> IF q[k].fetch = "clean" THEN "dirty" ELSE q[k].fetch]]

\* No refresh is due for what has changed so far.
PassedOver(q) ==
  [k \in Keys |-> [data |-> IF k = shown /\ q[k].data = "stale" THEN "late" ELSE q[k].data,
                   fetch |-> IF q[k].fetch = "dirty" THEN "late" ELSE q[k].fetch]]

\* A query that gets an observer is fetched, or joins the fetch under way; one
\* that lost its observer is fetched when it is shown again, so that its data
\* counts as stale.
Observed(q, k) ==
  [j \in Keys |-> IF j = k THEN [q[j] EXCEPT !.fetch = IF @ = None THEN "clean" ELSE @]
                ELSE [q[j] EXCEPT !.data = IF @ = None THEN None ELSE "stale"]]

\* refresh: invalidateQueries of all listings.  Only the one shown is fetched;
\* a fetch under way is replaced, but not the first one of its key.
refresh(q) ==
  [k \in Keys |->
     IF k = shown /\ (q[k].fetch = None \/ q[k].data # None)
     THEN [q[k] EXCEPT !.fetch = "clean", !.data = IF @ = "late" THEN "stale" ELSE @]
     ELSE [q[k] EXCEPT !.fetch = IF @ = "dirty" THEN "late" ELSE @]]

\* The answer arrives: of a fetch during which the files changed it may
\* have been read before or after.
listFiles(k) ==
  /\ query[k].fetch # None
  /\ \E data \in CASE query[k].fetch = "clean" -> {"fresh"}
                    [] query[k].fetch = "dirty" -> {"fresh", "stale"}
                    [] query[k].fetch = "late" -> {"fresh", "late"} :
       query' = [query EXCEPT ![k] = [data |-> IF k = shown THEN data ELSE "stale", fetch |-> None]]
  /\ UNCHANGED <<besides, shown, selected>>

-----------------------------------------------------------------------------
(* Navigation.  The Back button works while a dialog is open.              *)

\* Fault: the selection stays while another directory comes.
ToKeepingSelection(k) == shown' = k /\ query' = Observed(query, k) /\ UNCHANGED selected

To(k) == shown' = k /\ query' = Observed(query, k) /\ NoSelection

\* A directory, or another page or order of the listing.
goTo(k) == Free /\ k # shown /\ To(k) /\ UNCHANGED besides
goBack(k) == ~Free /\ k # shown /\ To(k) /\ UNCHANGED besides

Counted == started < MaxActions /\ started' = started + 1

\* Another page, or another source, is opened and this one again: the state of
\* the page is gone, the loops of its closures go on.  (With no loop under way
\* this is the page at its start.)
reopen(k) ==
  /\ Free /\ loops # {} /\ Counted /\ To(k)
  /\ mount' = mount + 1 /\ archive' = FALSE
  /\ UNCHANGED <<files, dialog, mutations, loops, clipboard>>

refreshButton ==
  /\ Free
  /\ query' = refresh(query)
  /\ UNCHANGED <<besides, shown, selected>>

-----------------------------------------------------------------------------
(* Selection and clipboard.                                                *)

toggleSelected(n) ==
  /\ Free /\ n \in entries
  /\ selected' = IF n \in selected THEN selected \ {n} ELSE selected \cup {n}
  /\ UNCHANGED <<besides, shown, query>>

toggleAllSelected ==
  /\ Free /\ ~(entries \subseteq selected)
  /\ selected' = selected \cup entries
  /\ UNCHANGED <<besides, shown, query>>

clearSelection ==
  /\ Free /\ selectedEntries # {}
  /\ NoSelection
  /\ UNCHANGED <<besides, shown, query>>

\* copy, cut and clear of the clipboard, which outlives the page.
Put(operation, items) ==
  clipboard' = [operation |-> IF items = {} THEN None ELSE operation, items |-> items]

\* The toolbar button or Ctrl+C, Ctrl+X, which works while a dialog is open.
copyEntries ==
  /\ selectedEntries # {}
  /\ Counted
  /\ Put("copy", {currentPath} \X selectedEntries)
  /\ NoSelection
  /\ UNCHANGED <<files, shown, query, dialog, mutations, loops, archive, mount>>

cutEntries ==
  /\ canWrite /\ selectedEntries # {}
  /\ Counted
  /\ Put("cut", {currentPath} \X selectedEntries)
  /\ NoSelection
  /\ UNCHANGED <<files, shown, query, dialog, mutations, loops, archive, mount>>

clearClipboard ==
  /\ Free /\ clipboard.items # {} /\ selectedEntries = {}
  /\ Put(None, {})
  /\ UNCHANGED <<files, shown, query, selected, dialog, mutations, loops, archive, mount,
                 started>>

downloadSelectedEntries ==
  /\ Free /\ selectedEntries # {} /\ ~runningFileTask /\ Counted
  /\ archive' = TRUE
  /\ UNCHANGED <<files, shown, query, selected, dialog, mutations, loops, clipboard, mount>>

archiveDone ==
  /\ archive
  /\ archive' = FALSE
  /\ NoSelection
  /\ UNCHANGED <<files, shown, query, dialog, mutations, loops, clipboard, mount, started>>

archiveFails ==
  /\ archive
  /\ archive' = FALSE
  /\ UNCHANGED <<files, shown, query, selected, dialog, mutations, loops, clipboard, mount, started>>

-----------------------------------------------------------------------------
(* Tasks over several entries.                                             *)

Start(kind, items, into) ==
  /\ items # {}
  /\ loops' = loops \cup {[kind |-> kind, todo |-> items, failed |-> {}, from |-> currentPath,
                           into |-> into, mount |-> mount]}

\* getPasteDisabledReason, for entries that are files.
pasteDisabledReason ==
  \/ runningFileTask \/ clipboard.operation = None \/ ~canWrite
  \/ \E i \in clipboard.items : i[1] = currentPath

\* Button "paste here", shown while nothing is selected, or Ctrl+V.
pasteClipboard ==
  /\ ~pasteDisabledReason
  /\ Counted
  /\ Start(clipboard.operation, clipboard.items, currentPath)
  /\ UNCHANGED <<files, shown, query, selected, dialog, mutations, archive, clipboard, mount>>

\* An entry, or the selection it is part of, is dropped on a directory shown.
dropEntriesOnDirectory(n, d) ==
  /\ Free /\ canWrite /\ n \in entries /\ d # currentPath /\ ~runningFileTask
  /\ Counted
  /\ Start("drag", {currentPath} \X (IF n \in selected THEN selectedEntries ELSE {n}), d)
  /\ UNCHANGED <<files, shown, query, selected, dialog, mutations, archive, clipboard, mount>>

deleteSelectedEntries ==
  /\ dialog # None /\ dialog.kind = "batchDelete"
  /\ canWrite /\ ~Running({"batchDelete"})
  /\ Start("batchDelete", {currentPath} \X selectedEntries, currentPath)
  /\ dialog' = None
  /\ UNCHANGED <<files, shown, query, selected, mutations, archive, clipboard, mount, started>>

\* The entry the loop asks the server about: deletions and shares join its name
\* to the directory their closure kept, moves and copies name its path.
targetOf(l, i) == IF l.kind \in {"batchDelete", "batchShare"} THEN <<l.from, i[2]>> ELSE i

Add(f, d, n) == [f EXCEPT ![d] = @ \cup {n}]
Remove(f, d, n) == [f EXCEPT ![d] = @ \ {n}]

\* What a request does to the files when the server carries it out.
Effects(kind, i, into, new) ==
  LET d == i[1]
      n == i[2]
  IN
  CASE kind \in {"delete", "batchDelete"} /\ n \in files[d] -> {Remove(files, d, n)}
    [] kind = "copy" /\ n \in files[d] \ files[into] -> {Add(files, into, n)}
    [] kind \in {"cut", "drag"} /\ n \in files[d] \ files[into] -> {Add(Remove(files, d, n), into, n)}
    [] kind = "rename" /\ n \in files[d] /\ new \notin files[d] -> {Add(Remove(files, d, n), d, new)}
    [] kind = "mkdir" /\ new \notin files[d] -> {Add(files, d, new)}
    [] kind = "batchShare" /\ n \in files[d] -> {files}
    [] OTHER -> {}

Changed == {d \in Dirs : files'[d] # files[d]}

\* One pass of the loop.  Its request is carried out, refused, or carried out
\* while its answer is lost.
loopStep(l) ==
  /\ l \in loops /\ l.todo # {}
  /\ LET i == CHOOSE x \in l.todo : \A y \in l.todo : x[2] <= y[2]
         t == targetOf(l, i)
         done == Effects(l.kind, t, l.into, t[2])
         next(failed) == [l EXCEPT !.todo = @ \ {i}, !.failed = @ \cup failed]
     IN
     /\ \/ files' \in done /\ loops' = (loops \ {l}) \cup {next({})}
        \/ files' \in done \cup {files} /\ loops' = (loops \ {l}) \cup {next({i})}
     /\ query' = Outdated(query, Changed)
  /\ UNCHANGED <<shown, selected, dialog, mutations, archive, clipboard, mount, started>>

Ends(l) == l \in loops /\ l.todo = {} /\ loops' = loops \ {l}

\* setSelectedNames(failed), by the loop of a page that is still mounted.
SelectFailed(l) ==
  selected' = IF l.mount = mount THEN {i[2] : i \in l.failed} ELSE selected

pasteEnds(l) ==
  /\ l.kind \in {"copy", "cut"} /\ Ends(l) /\ query' = refresh(query)
  /\ IF l.kind = "cut" \/ l.failed # {} THEN Put(l.kind, l.failed) ELSE clipboard' = clipboard
  /\ UNCHANGED <<files, shown, selected, dialog, mutations, archive, mount, started>>

dragEnds(l) ==
  /\ l.kind = "drag" /\ Ends(l) /\ query' = refresh(query) /\ SelectFailed(l)
  /\ UNCHANGED <<files, shown, dialog, mutations, archive, clipboard, mount, started>>

\* Fault: the failed entries stay selected, but nothing is refreshed.
deleteEndsUnlisted(l) ==
  /\ l.kind = "batchDelete" /\ Ends(l) /\ query' = query /\ SelectFailed(l)
  /\ UNCHANGED <<files, shown, dialog, mutations, archive, clipboard, mount, started>>

deleteEnds(l) ==
  /\ l.kind = "batchDelete" /\ Ends(l) /\ query' = refresh(query) /\ SelectFailed(l)
  /\ UNCHANGED <<files, shown, dialog, mutations, archive, clipboard, mount, started>>

-----------------------------------------------------------------------------
(* Dialogs.                                                                *)

Open(kind, name, chosen) ==
  /\ Counted
  /\ dialog' = [kind |-> kind, name |-> name, entries |-> chosen]
  /\ UNCHANGED <<files, shown, query, selected, mutations, loops, archive, clipboard, mount>>

openEntryDialog(kind, n) ==
  Free /\ canWrite /\ n \in entries /\ kind \in {"rename", "delete", "share"} /\ Open(kind, n, {})
openMkdir == Free /\ canWrite /\ ~runningFileTask /\ Open("mkdir", None, {})
openBatchDelete ==
  Free /\ canWrite /\ ~runningFileTask /\ selectedEntries # {} /\ Open("batchDelete", None, {})

\* The entries to share are kept as they were selected.
openBatchShare ==
  Free /\ canWrite /\ ~runningFileTask /\ selectedEntries # {} /\ Open("batchShare", None, selectedEntries)

\* Nobody hears whether a share of a closed dialog was created; the dialog of
\* several shares stays until its loop has ended.
closeDialog ==
  /\ dialog # None /\ ~Running({"batchShare"})
  /\ dialog' = None
  /\ mutations' = {r \in mutations : r.kind # "share"}
  /\ UNCHANGED <<files, shown, query, selected, loops, archive, clipboard, mount, started>>

\* submit: the request names the directory of the latest render.  A dialog has
\* one request at a time, but one that was closed and opened again has its own.
submit(new) ==
  /\ dialog # None /\ dialog.kind \in DialogKind
  /\ ~\E r \in mutations : r.kind = dialog.kind /\ (dialog.kind = "mkdir" \/ r.item[2] = dialog.name)
  /\ LET n == IF dialog.kind = "mkdir" THEN new ELSE dialog.name
     IN
     /\ (dialog.kind # "rename") = (new = n)
     /\ mutations' = mutations \cup {[kind |-> dialog.kind, item |-> <<currentPath, n>>, new |-> new]}
  /\ UNCHANGED <<files, shown, query, selected, dialog, loops, archive, clipboard, mount, started>>

\* onSuccess closes the dialog, whichever entry it is about by now, and
\* refreshes the listing.
succeeded(r) ==
  /\ r \in mutations
  /\ mutations' = mutations \ {r}
  /\ files' \in Effects(r.kind, r.item, r.item[1], r.new)
  /\ query' = refresh(Outdated(query, Changed))
  /\ dialog' = IF dialog # None /\ dialog.kind = r.kind THEN None ELSE dialog
  /\ UNCHANGED <<shown, selected, loops, archive, clipboard, mount, started>>

\* onError shows a message; the request may have been carried out.
failed(r) ==
  /\ r \in mutations
  /\ mutations' = mutations \ {r}
  /\ \/ UNCHANGED <<files, query>>
     \/ /\ files' \in Effects(r.kind, r.item, r.item[1], r.new)
        /\ query' = PassedOver(Outdated(query, Changed))
  /\ UNCHANGED <<shown, selected, dialog, loops, archive, clipboard, mount, started>>

\* The dialog shows the link and is not submitted again; no listing is refreshed.
shareCreated(r) ==
  /\ r \in mutations /\ r.kind = "share" /\ r.item[2] \in files[r.item[1]]
  /\ mutations' = mutations \ {r}
  /\ dialog' = [dialog EXCEPT !.kind = "shared"]
  /\ UNCHANGED <<files, shown, query, selected, loops, archive, clipboard, mount, started>>

\* createShares: one request per entry, about the directory on the screen when
\* the button was pressed; "retry" starts it again for those that failed.
createShares ==
  /\ dialog # None /\ dialog.kind = "batchShare" /\ ~Running({"batchShare"})
  /\ Start("batchShare", {currentPath} \X dialog.entries, currentPath)
  /\ dialog' = [dialog EXCEPT !.entries = {}]
  /\ UNCHANGED <<files, shown, query, selected, mutations, archive, clipboard, mount, started>>

sharesEnd(l) ==
  /\ l.kind = "batchShare" /\ Ends(l)
  /\ dialog' = [dialog EXCEPT !.entries = {i[2] : i \in l.failed}]
  /\ UNCHANGED <<files, shown, query, selected, mutations, archive, clipboard, mount, started>>

-----------------------------------------------------------------------------
Navigates == refreshButton \/ \E k \in Keys : goTo(k) \/ goBack(k) \/ reopen(k)
Selects ==
  \/ toggleAllSelected \/ clearSelection \/ copyEntries \/ cutEntries \/ clearClipboard
  \/ \E n \in Names : toggleSelected(n)
Starts ==
  \/ downloadSelectedEntries \/ pasteClipboard \/ deleteSelectedEntries
  \/ \E n \in Names, d \in Dirs : dropEntriesOnDirectory(n, d)
Dialogs ==
  \/ openMkdir \/ openBatchDelete \/ openBatchShare \/ createShares \/ closeDialog
  \/ \E n \in Names, kind \in DialogKind : openEntryDialog(kind, n)
  \/ \E n \in Names : submit(n)
Query == \E k \in Keys : listFiles(k)
Loops ==
  \E l \in loops : loopStep(l) \/ pasteEnds(l) \/ dragEnds(l) \/ deleteEnds(l) \/ sharesEnd(l)
PageAnswers == archiveDone \/ archiveFails \/ \E r \in mutations : succeeded(r) \/ shareCreated(r) \/ failed(r)

PageNext == Navigates \/ Selects \/ Starts \/ Dialogs \/ Query \/ Loops \/ PageAnswers

PageSpec == PageInit /\ [][PageNext]_pageVars

-----------------------------------------------------------------------------
\* When nothing is under way the page shows the files as they are, unless the
\* refresh after the last change found a fetch it could not replace, its fetch
\* failed, or the answer of a dialog's request was lost: what is shown never
\* waits for a refresh that nobody will ask for.  (The state is well typed.)
ListingFresh ==
  /\ PageTypeOK
  /\ query[shown].fetch = None /\ loops = {} /\ mutations = {} => query[shown].data # "stale"
=============================================================================
