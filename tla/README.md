# Verification of omni-store

omni-store is a self-hosted file service: one Go process that serves storage sources (directories of the host)
through a web API, WebDAV and S3, with an image bed, shares and static sites on top, and a web console written in
TypeScript with React. Rows live in one SQLite database, files in the sources; a data directory holds the journals of
unfinished operations, the trash and the parts of multipart uploads. The console keeps nothing of its own beyond a
page's memory, but its tasks, dialogs and cached lists run beside the server and beside other users. This directory
holds TLA+ models of the parts of both in which order, failure and concurrency matter, the TLC configurations that
check them and the TLAPS proofs.

## 1. Inventory

### The server

| Component (source) | State | Operations | Talks to |
|---|---|---|---|
| Path locks (`internal/locks/locks.go`) | counters per key, a queue, a condition variable | RLock, RLockMany, Lock, LockPair and their release | every file operation; also the quota and multipart locks |
| Lifecycle leases (`internal/lifecycle`) | an RWMutex per source and user | Read, Write | held by every request on a source; Write by its deletion |
| WebDAV locks (`internal/locks/persistent.go`, `internal/webdav/lock_handlers.go`) | rows of `webdav_locks`, one mutex | LOCK, refresh, UNLOCK, expiry, GuardMutations | every file operation runs between GuardMutations and its release |
| Uploads (`internal/files/service.go`, `upload_recovery.go`) | target, temporary and backup file, plan, `.prepared`, `.database-ready`, a row of `file_records` | upload, its roll-back, recovery | quota, locks, ledger |
| Move and permanent delete (`service.go`, `path_recovery.go`) | files, rows, journal and markers | move, delete, managed delete, recovery | uploads (same paths), WebDAV locks |
| Multipart parts (`internal/s3api/multipart.go`, `multipart_part_recovery.go`) | part file, backup, temporary files, journal, rows | UploadPart, Abort, hourly expiry, recovery | Complete reads the parts |
| Multipart completion (`multipart.go`, `multipart_recovery.go`) | completion journal, object, ETag row | Complete, recovery | uploads through the file service, parts |
| Trash (`internal/files/trash.go`, `trash_recovery.go`) | payload directories, `trash_entries`, journal and markers | move to trash, restore, purge, recovery | ledger, shares, images, WebDAV locks |
| Copy and move between sources (`transfer.go`, `copy_recovery.go`, `transfer_recovery.go`) | files on two sources, staging tree, journal and markers, rows | copy, move, recovery | both sources' locks and quotas |
| Quotas (`service.go`, `internal/users`) | limits in rows, usage measured on the disk and in the ledger | reserve, change the limit | all writers |
| File ledger (`records.go`, `search.go`, `archive.go`) | `file_records` | register, reconcile, assign owners | written by every operation |
| Image bed (`internal/imagebed`) | plan and prepared journal, files, rows, thumbnail cache | upload, delete, retention, recovery | managed root, quotas, ledger |
| Managed root (`internal/managedroot`) | marker file, registration row | initialise, adopt, verify | image bed |
| Shares (`internal/shares`) | rows, access sessions, unlock limiter | create, unlock, download, delete | file service, trash |
| Static assets and site capabilities (`internal/staticassets`, `internal/capabilities`) | configuration rows with a revision, bindings | configure, update, rebind, remove | source deletion |
| Sources and permissions, users, tokens, sessions, login limiter | rows; the limiter's event lists | single-row changes; begin, fail, succeed, cancel | HTTP, WebDAV and S3 entry points |
| Start-up (`cmd/omnistore/main.go`) | – | the recoveries in a fixed order: path operations, copies, transfers, trash, uploads, parts, completions, images | any error ends the process |
| Others | audit log, backup and restore, operations centre, configuration, path normalisation | | |

### The web console (`src/web/src`)

| Component | State | Operations | Talks to |
|---|---|---|---|
| Upload tasks (`utils/uploadTask.ts`, `FileManager.tsx`) | items and their requests, the shared conflict decision, the page's controller, card and dialog | start, read a drop, send, answer, conflict, cancel, retry, close, leave | the upload route; the page's listing |
| File page (`FileManager.tsx`, `file-manager/`, `FileClipboard.tsx`) | the query cache of listings, selection, dialog, clipboard, running tasks | navigate, Back, select, paste, drag, delete, rename, share, archive, their answers | upload tasks, preview, file routes |
| Settings forms (`pages/admin`) | draft, revision, preflight, confirmation, checkbox | open, edit, check, confirm, save, conflict, close | records other administrators change too |
| Entry lists (`pages/admin/sections`, `Trash`, `Shares`, `Favorites`, `ImageBed`) | cached list, dialog, a secret shown once, requests | create, switch, reset, delete, restore, purge, upload, maintenance | the routes of each record |
| Anonymous image page (`AnonymousUpload.tsx`) | images, queue, count of uploads under way | add a batch, settle, finally, leave | the anonymous upload route |
| Previews (`preview/`, `PublicBrowse.tsx`, `PublicShare.tsx`) | listing, index, renderer, fetches | unlock, open, move, retry, abort, read to a cap | content routes |
| Session, login, set-up, theme, search, home, audit, profile and password forms | CSRF token, cookie, form fields | log in and out, read | – |

In the console everything runs on one thread, so that hazards sit between callbacks: an answer arrives after the
dialog was closed, the directory left or the page unmounted; the query cache reads a list again in the background, or
does not; a closure keeps an earlier render's directory while a dialog uses the latest one; and a request that failed
for the page may have been carried out.

What is hard in the server: handlers run concurrently and hold up to six locks of four kinds; every write is a
sequence of file system and database calls, each of which can fail with or without its effect, and the process can be
killed between any two; the journal of an interrupted operation is judged at the next start from the files it finds;
and what a failed call left behind meets the operations that came after it.

What makes each component correct: locks exclude, keep order and wake up whoever can go on; leases and locks never
close a circle and nobody works on a deleted source; a WebDAV lock protects its resource and lives as long as it;
whatever a client was told is stored survives every crash, failure and recovery, files and rows agree, and the service
starts again. In the console: nothing is replaced, deleted or published that the user did not see and confirm; cards,
lists, secrets and previews tell the truth once nothing is under way; cancelling stops; and a task ends.

The hazards behind these, with the line where each bites, are in `PROJECT.json`. These belong to components that are
not modelled and are listed only here: a restore moving files inside an open transaction (`trash.go:366`) and a purge of
an entry restored meanwhile (`trash.go:507`); the staged copy at recovery (`copy_recovery.go:252`); a completion
judged by size, time and digest (`multipart_recovery.go:358`); the plan of an image upload
(`imagebed/upload_recovery.go:437`); a share's download limit (`shares/service.go:319`); the login limiter's reservations
(`login_limiter.go:115`); the deletion of a source with bindings (`source_handlers.go:209`); the marker and row of a
managed root (`managedroot.go:167`).

## 2. Modules

| Module | Models | Extends or instantiates |
|---|---|---|
| `ScopeLock` | abstract specification: scopes are held; a grant excludes overlapping ones | – |
| `PathLocks` | `locks.Manager`: counters, queue, condition variable | refines `ScopeLock` |
| `ArrivalOrder` | who came before whom: a history variable for it | `PathLocks` |
| `PathLocksProofs` | the proofs about both | `ArrivalOrder`, TLAPS |
| `OperationLocks` | all locks of a request, in the order each handler takes them | instantiates `PathLocks` |
| `OperationLocksProofs` | the proofs about it | `OperationLocks`, TLAPS |
| `WebdavLocks` | PersistentStore, LOCK handlers, GuardMutations | – |
| `WebdavLocksProofs` | the proofs about it | `WebdavLocks`, TLAPS |
| `FileUpload` | one path: uploads, roll-back, recovery | – |
| `FileUploadProofs` | the proofs about it | `FileUpload`, TLAPS |
| `PathOperations` | move and permanent delete, roll-back, recovery, and writes between them | – |
| `PathOperationsProofs` | the proofs about it | `PathOperations`, TLAPS |
| `MultipartPart` | one part number: attempts, abort, expiry, recovery | – |
| `MultipartPartProofs` | the proofs about it | `MultipartPart`, TLAPS |
| `Console` | the value the console's code uses for nothing | – |
| `UploadTask` | the upload tasks of the file page | `Console` |
| `FilePage` | listing, selection, clipboard, batch tasks and dialogs of the file page | `Console` |
| `Consent` | what was marked on the screen and asked for: history variables for it | `FilePage` |
| `SettingsForms` | the forms of the administrator's console | `Console` |
| `ConsoleProofs` | the proofs about these | `UploadTask`, `SettingsForms`, `Consent`, TLAPS |
| `EntryLists` | twelve kinds of lists whose rows are acted on one by one | – |
| `AnonymousUpload` | the anonymous image page | – |
| `PublicPreview` | the pages with previews, the preview dialog and its renderer | – |
| `Pages` | a browser tab at one of the three kinds of pages above | `EntryLists`, `AnonymousUpload`, `PublicPreview` |
| `PagesProofs` | the proofs about it and the three it joins | `Pages`, TLAPS |
| `MC*` | sets and operators for TLC, symmetry | the module of that name; `MCPathLocks` and `MCFilePage` their history modules |

**PathLocks.** `entries` is the counter map, `waiters` the queue, `req` and `pc` the locals of each
goroutine. `AcquireAtOnce`, `EnqueueAndWait`, `AcquireAfterWait` and `WaitAgain` are the ways through the
loop of `acquire`, `Release` is the returned closure with its Broadcast. A sleeping goroutine is woken
only by a release, and a grant wakes nobody: that this is enough although a grant shortens the queue others
wait for is `NoLostWakeup`, a part of `LocksConsistent`. `ArrivalOrder` adds `ahead`, the pairs of requests of which
one has been waiting since before the other arrived. It is computed from the arrivals and never from the queue, so that
`ServedInTurn` compares the order in which requests are served with the order in which they came.

**OperationLocks.** A handler is a sequence of lock steps (`Read`, `Write`, `Mutex`, `RLock`, `Lock`), of
checks of the row, and of `Work`; it is built from the operators named for the Go functions it calls, so
`UploadWithLockTokens` is `guardLifecycle`, the mutex, `quotaGuard` twice and the path lock, and `Complete` calls it and
`Mkdir` and has their locks back when they return (`returned`). `lease` is the
sync.RWMutex: a writer announces itself, keeps new readers out, waits for those inside, and admits all it
kept out when it unlocks; leases are taken in the order in which `normalizedKeys` sorts them (`Order`). A request has at
most one call of each kind to `PathLocks`: the quota of a source, that of a user, a multipart upload, paths.
`journal` stands for the completion row which the deletion counts. `Rosters` says which requests meet.

**WebdavLocks.** `locks` are the rows, `mu` the owner of the mutex and `work` the mutation it does in the
critical section; `stage` follows a LOCK request from its new row to the second Stat and the empty file for an
unmapped name. `answered` are the tokens a response has delivered: only these are promises. The first Stat
decides nothing and is left out. `files` is the set of existing paths. An expired row is dropped at the
beginning of any operation, refused ones included (`CleanupExpired`).

**FileUpload**, **PathOperations**, **MultipartPart.** One action per file system or database call, with a
failing variant which may have had the effect or not. The locks make the operations of a path sequential
(PathLocks and WebdavLocks are why), so `step` is the next call of the one that runs. `mode` tells a
serving process from one that is down, recovering, or `refused`: start-up ended with an error that it would
meet again. The content of a file is a number or a model value. In `FileUpload` two contents differ always, since
`uploadFileMatches` compares size, time and digest; in `MultipartPart` they may be equal, since only size and
MD5 are compared there and a client may send again what is stored already.
History variables (`promised`, `live`, `place`, `succeeded`, `acked`) hold what clients were told; `tangled` are
paths used while an earlier journal still named them.

**UploadTask.** A task is a controller; `item` is what its card counts, `at` the phase of the coroutine `uploadItem`,
`decision` and `promise` the conflict decision the workers share, `page` what the component holds: the controller
its buttons act on, the snapshot shown, the one dialog, and the directories being read before a start. The guard of a
drop is the one of the render in which reading began. Carrying out a request and handling its answer are one step,
and what may come between them is separate: an abort, after which the server may still carry the request out
(`late`), and an answer that is lost.

**FilePage.** A key of `query` is one directory in one order. Of the cached data only this is kept: is it what the
server has, and if not, is a refresh due? `PassedOver`, `Observed` and `refresh` are what the query library does when a
query is invalidated, shown or fetched: only a shown list is fetched, and a first fetch is not restarted. A loop
(`loops`) keeps the directory of the render it was started in, a dialog takes the one of the latest render. A loop
whose page has been left goes on. `selected` is the page's set of names, which says nothing of a directory. `Consent`
sets beside it what the user sees: `marked` are the entries that carry a mark, each in its directory, and `asked` what
was asked for while they did. Both follow from the clicks alone: whoever goes to another directory sees no mark there.

**SettingsForms.** A behaviour is about one part of the console. Of a record only its version is kept, of a form the
version it showed, the revision it will send, and whether it holds edits. The dialogs differ in what throws a draft
away: a conflict, a late answer, a background read, a reset on closing; each is an action of its own name. `path` is
the target of a new source or publication, with what was checked (`preview`) and confirmed (`whole`, `relocate`) of it.

**EntryLists.** Sending, carrying out and answering a request are three steps, so that two may overtake each other
where the page lets two be sent. `reading` is the list being read again; a read still under way when the list is
invalidated is given up. `kept` is the secret the component holds, `inForce` the WebDAV token the server accepts.

**AnonymousUpload.** `.then`/`.catch` (`settled`) writes the outcome of an image and `.finally` gives its place back
and calls `pump`: two callbacks, so a batch may be added between them. Leaving the page stops nothing.

**PublicPreview.** A list is the set of its entries, in the order of their names: the index of an entry is the number
of those before it. `preview` is such an index into a list that the public page filters anew at every render and the other
pages keep as it was. `content` is what the renderer holds; an effect runs with the step that changes the file,
and `fetches` are those it has not aborted. A stream comes in chunks and is cut at `Cap`.

**Pages** puts the last three behind one tab, so that one run explores them as alternatives: they share no state,
and a page that is left is unmounted.

## 3. Runs

| Run | What it checks | Bounds |
|---|---|---|
| `path_locks` | `LocksConsistent`, `ServedInTurn`, `ImplementsScopeLock`, `EveryWaiterServed` | 4 goroutines; a directory, its child, a sibling, another source: a queue of three and every relation of two scopes |
| `operation_locks` | `NoCircularWait`, `NoWorkAfterDelete`, `EveryRequestEnds` | 3 requests: a move between sources, any of twelve handlers and the deletion of the source; or a completion, one of four requests and the deletion; or a completion, an upload and one of three administrative requests |
| `operation_locks_part` | violation, finding 2 | 3 requests on one multipart upload and a deletion |
| `webdav_locks` | `LocksDisjoint`, `MutationsRespectLocks`, `LockedResourceExists`, `LocksEndRightly` | 2 users, 2 locks, five paths of depth up to two; put, delete, move; one time-out or one fault |
| `file_upload` | `AckedSurvives`, `NoOrphans`, `OneCrashStartsUp`, `SuccessIsCommitted`, `Recovers` | 3 uploads, 2 crashes, 3 failing calls |
| `path_operations` | `MetaFollowsFile`, `PlaceHonoured`, `RefusalNeedsFailure`, `LostOnlyByReplay` | 2 ordinary paths and a managed one, 2 writes, 3 operations, 2 crashes, 2 failing calls |
| `path_operations_ordinary` | violation, finding 1 | one failing call |
| `multipart_part` | `RecordedPartUsable`, `AckedStays`, `RefusalNeedsEqualContent`, `LeftoversGo` | 4 attempts of 2 contents, 2 crashes, 2 failing calls |
| `upload_task` | `ReportTrue`, `OverwriteNeedsAnswer`, `CancelStops`, `TaskEnds` | 2 tasks of two files and one, one of them there already, 2 workers, 1 retry, 1 failed item |
| `file_page` | `ConfirmedOnly`, `ListingFresh` | 2 directories of two names, 2 tasks, requests or visits at a time or in a row |
| `settings_forms` | `NoBlindOverwrite`, `DraftKept`, `TargetConfirmed` | 3 changes of a record, 2 requests, 2 forms, 2 sources and 2 directories |
| `pages` | `SecretTrue`, `LastClickHolds`, `ListTrue`, `PlacesUsed`, `ContentOfItem`, `NoSilentCut`, `ShownIsOpened` | 2 rows, 2 requests (3 on sources), one return; 4 images, 2 places; 2 directories of up to 4 files, cap of 2, 1 change, 1 retry |

The names of the runs are those of `PROJECT.json`, where each property also has a mutant: a change of one
definition as a plausible bug would make it, marked `Fault:` in the modules, which TLC finds to violate the
property. The definitions marked so are no part of any specification. A module's type invariant is a conjunct of
one of its properties.

**Why the bounds are enough.** A crash bound of two lets a recovery be interrupted and repeated, which is where
the roll-backs differ from one crash; two failing calls let a call fail and its undoing fail, a third lets
another operation fail too. Three operations on three paths include the one that meets what another left. Two
locks suffice for anything a property says about a pair of locks, and a tree with a directory, its child and a
second name holds every relation the prefix rule can tell apart. A circular wait needs as many requests as it
has members; the circle of finding 2 has three. In the console a hazard is one thing overtaking another, which two
tasks, two requests or two forms show, with one more only where two changes must overtake a third (the sources,
whose list is read again between clicks); two files and two workers let conflicts meet, a third task adds no
dialog the second does not take; four images on two places make a queue that a batch and an answer both pump.

**Deadlock** is checked in the runs of the server. In those of the console it is not (`CHECK_DEADLOCK FALSE`): a user may
stop at any time, and the bounds on clicks make that a state without successors. **Symmetry** is used only over model values no definition
tells apart (clients and tokens, ordinary paths), and in no run with a liveness property. The constraint `OneTrouble`
of `webdav_locks` keeps a time-out and a fault from meeting in one behaviour.

**Fairness.** `PathLocks`: a goroutine that was woken runs again and a holder ends, weak fairness of each; the
queue gives the rest. `OperationLocks`: weak fairness of each request's next step, and strong fairness for
the mutex and for announcing a deletion, because Go hands a contended sync.Mutex over in arrival order after a waiter
starved for a millisecond. `FileUpload`, `MultipartPart`: calls return, and a stopped service is started
again (the container's restart policy); the hourly expiry gets its turn if the service keeps running
(strong fairness, since it is disabled while a request holds the lock of the upload). `UploadTask`: weak fairness of
`Progress`, because a request is answered or fails, a resolved promise resumes its coroutine, and an open conflict dialog is modal,
so that the user answers it. Nothing else is assumed about users or clients.

## 4. What the runs found

1. `path_operations_ordinary`: a delete that fails keeps its journal; an upload that succeeds on the same ordinary
   path later is deleted at the next start. Managed paths are guarded against this, ordinary ones are not.
   `LostOnlyByReplay` shows that it is the only way in which content is lost.
2. `operation_locks_part`: Complete releases its leases before the nested upload so that it cannot block itself
   behind a deletion, but keeps the lock of the multipart upload. A second request on this upload waits for that lock with
   its leases held, the deletion waits for that request, and the nested upload for the deletion.

The passing properties carry conditions. Each condition is a known behaviour of the program, and the property
without it has a counterexample that shows it.

In the server:

- `OneCrashStartsUp`: the roll-back of a new upload removes the temporary file before the journal. Killed between
  the two in the upload, or in a recovery that followed a first kill, the next start finds a prepared journal
  with neither file and no case for it (`upload_recovery.go:747`). So does a plan that was linked
  although writing it reported an error, once a later upload has made the file.
- `RefusalNeedsEqualContent`: a part is sent again with the same content and the process is killed after the journal
  was written: the old file is taken for the new one and the roll-back finds no backup (`multipart_part_recovery.go:332`).
- `RefusalNeedsFailure`: `markPathDatabaseReady` (`service.go:1317`) creates the marker and still fails, the move is
  undone although its journal says committed, and a crash before the journal is removed makes the next start
  refuse it. A successful move whose journal could not be removed (`service.go:1325`) is refused as well once its target is moved
  on or deleted (`path_recovery.go:513`), although the comment at `service.go:1324` expects the recovery to remove it. The
  rows of two paths that two journals name may also violate the UNIQUE constraint in recovery.
- `MetaFollowsFile` and `PlaceHonoured` leave out `tangled` paths: ordinary ones used again while the journal of
  a failed operation named them. There start-up may move newer content back, or delete its rows.
- `LockedResourceExists` and `MutationsRespectLocks` require `faults = 0`: a locked resource whose deletion is finished
  by start-up recovery (`path_recovery.go:478`), or fails after the files are gone (`service.go:1157`), leaves its lock
  behind; the name stays locked until the lock expires.

In the console:

- `TaskEnds`: a drop judges whether a task runs before it reads its directories (`FileManager.tsx:378`). A second
  task started meanwhile takes the controller and its question takes the dialog; the first then can neither be cancelled nor
  answered, and waits for good. Answering "cancel" stays in the task's promise, so a retry after it cancels again at the first conflict.
- `ReportTrue`: the end of a retry refreshes no listing, nor does a request carried out after its abort.
- `ConfirmedOnly` is about the tasks that paste, move and delete. A dialog of one entry stays open over Back and then acts
  in the directory that came, the share dialogs included. The entries a task failed on count as marked in the
  directory shown when it ends, for there the page marks them (see below).
- `ListingFresh`: the first fetch of a listing is not restarted by a refresh, so an answer older than the change may
  stay. Further: the end of a paste clears a clipboard set meanwhile; reopening the page forgets the paste that runs,
  so that the same clipboard can be pasted twice; the late answer of a dismissed dialog closes the one opened
  since; Ctrl+V works under a dialog; the entries that failed are selected even in another directory
  (`FileManager.tsx:594,632`).
- `NoBlindOverwrite`: sources, policies and quotas have no revision; the last writer wins, and saving a policy
  drops sources missing from the list that was shown. `DraftKept`: the draft of a source or of the static view is reset by
  a background read, and late answers close a form opened since; and the checkbox shows the former setting when its
  request was carried out unheard and the read after it fails as well (`SiteSettings.tsx:187,204`). `TargetConfirmed`: confirming a
  relocation is not reset when the target changes (`StaticAssetsSection.tsx:349,355`).
- `SecretTrue`: the secret of an image-bed or S3 credential is lost when the manager's window is closed before the
  answer. `LastClickHolds`: leaving the page forgets that a switch is under way, so two of them may be carried out
  in the other order. An image-bed batch that fails half way leaves the stored images out of the list shown until it is read again
  (`ImageBed.tsx:150`).
- `ContentOfItem`: the failure of an image or player is not reset for the next file (`PreviewContent.tsx:174`), and an
  SVG's error covers the next image with a retry that does nothing (`:81`). `NoSilentCut` has no converse: a file of exactly
  the cap is called truncated (`content.ts:35`). `ShownIsOpened`: the index of the public page survives Back and a
  refresh (`PublicBrowse.tsx:66,203`).

## 5. Proofs

Every property of a passing run that is not about liveness is proved for any value of the constants, `NoCircularWait`
under the hypothesis named below. The theorems are listed in `PROJECT.json`. Each component with theorems has one
theorem that its inductive invariant holds in every reachable state, and one for each property that follows from it. A
lemma per action, or per group of actions that disturb the same parts, shows that the action keeps the invariant. What
the constants are assumed to be is named in the modules, and TLC evaluates it in the runs.

**Path locks** (`PathLocksProofs`), for any set of callers, keys and requests: `LocksStayConsistent` (types,
exclusion, counters, no lost wake-up; `LocksExclude` and `LocksLoseNoWakeup` state two of these alone),
`LocksKeepOrder`, and `LocksImplementScopeLock`, the refinement of `ScopeLock`. Callers are a finite set (the counters
need it), and a request names at least one key. The inductive invariant `LockInv` joins five parts. Exclusion is
decided by the counters, so it needs the counters to equal the numbers of holders; the counters change by one per key,
so that equality needs the cardinalities of the holder sets before and after a grant (`HolderSetsGrow`,
`HolderSetsShrink`); the queue must name each waiting caller exactly once, or a removal would drop another
(`QueueStep`, `RemoveAtShifts`). The wake-up argument is the interesting one: a grant removes a queue entry without a
broadcast, which might free a sleeper behind it. `GrantTakesOverBlocking` shows that it cannot: the granted request
now holds the scopes it blocked the sleeper with as a waiter.

`LocksKeepOrder` states `ServedInTurn` of `OrderSpec`, PathLocks with its history of arrivals. `canAcquire` compares a
request with the queue, not with the arrivals; so `QueueOrder` says that the queue keeps the order of arrival: who
arrived first stands first (`QueueOrderStep`), because a request joins at the end and a grant takes out exactly the
caller's own entry, wherever it stands. `GrantInTurn` then shows that a conflicting waiter that came before would be
among the earlier ones the guard looks at: the earlier of a pair still waits (`ArrivalInv`), so it is queued. A grant that
took the head of the queue instead of its own entry is the fault that the run finds, eight steps deep.

**Lock order and deletions** (`OperationLocksProofs`): `DeletedIsLeftAlone` states `NoWorkAfterDelete` for any number
of requests, any sources, users and keys, and any handlers that keep a discipline. `ProgramsAssumption` names it: work
on a source or user follows its shared lease and, under that, a look at its row, or is covered by a completion row
written before; the row is settled last; a deletion erases after the exclusive lease, which it takes once and keeps.
Each program of the module is a translated handler, and TLC evaluates the assumption for those on the rosters of the
runs. A new handler that keeps it is covered without a new run. The invariant says what the steps a request has done
have given it (`ProgramInv`: the leases it holds, the rows known to be there), that a writer is alone with its lease
(`HeldInv`), and that completion rows name only what exists (`JournalInv`): a deletion looks at these rows under its
exclusive lease, which is why a completion may give up its leases before the nested upload.

`OneOrderNoCircle` states `NoCircularWait` for any number of requests under a second hypothesis, `Ordered`: a program
takes leases as they are sorted, then the mutex, then one scope of each kind, and none that it does not outrank. TLC
evaluates this for every handler (`HandlersInOrder` in `MCOperationLocks`): all keep the order but `Complete`, which
starts over with leases under the lock of the multipart upload. That is what the second run finds, and with a
completion `NoCircularWait` is only model-checked, in the first. The argument: of a circle, take the requests that
have come furthest by the rank of the lock they wait for, and of those the one at the earliest place in the queue or
the announced writer; whom it waits for would have to have come further still. For that, what is held must rank below
what is taken (`OrderInv`), what the lock manager holds or queues must be what a request has taken or takes next
(`CallInv`), and an owner of a lease or of the mutex must have it or be about to (`OwnerInv`).

**WebDAV locks** (`WebdavLocksProofs`), for any tree of paths closed under prefixes, any number of clients and users,
and any clock: `LocksAreExclusive`, `LockedStaysThere`, `GuardsProtect` and, as an action property,
`LocksEndByTheirOwner`. `RowInv` says more than `LocksDisjoint`, of expired rows too, because a row is checked against
all that are there. `TreeInv` (what lies below something existing exists above) is what makes the guard of a move
sufficient: it compares the lock with the target's path, and a lock below a target that does not exist would have made
it exist. `WorkInv` carries the guard's verdict through the mutation, during which no row changes; `ResourceInv` keeps
what was locked in the tree.

**Uploads** (`FileUploadProofs`), for any number of uploads, crashes and failing calls: `AckedStaysStored`,
`NothingOrphaned`, `OneCrashIsSurvived`, `SuccessMeansCommitted`. The properties look at the ends of operations;
recovery meets the states between. So `StepInv` and `FilesInv` say for each step of the handler and of start-up what
target, backup, temporary file, journal and plan may be, and `RowInv` which file the row describes. `Safe` is stronger
than `AckedSurvives`: the content that keeps the promise must not be that of an upload that may yet be rolled back.
`CrashInv` adds, while one crash and no failure has happened, that what start-up finds is a state it has a case for.

**Deletes and moves** (`PathOperationsProofs`), for any set of ordinary and managed paths and any number of writes,
operations, crashes and failing calls: `RowsFollowFiles`, `PlacesAreHonoured`, `CrashesAreResolved` and, as an action
property, `OnlyReplayDestroys`. After failing calls several journals may be pending. `TangleInv` says that the paths
of two pending operations are disjoint or tangled, so on a path that is not tangled one operation alone decides what
is there (`FileInv`, `StepInv`), and the frame lemmas show that the others leave it alone. `AloneInv` says what a step
may rely on of the place it is about to fill or empty; `LiveInv` and `PlaceInv` tie what clients were told to the two
places of an operation; `CrashInv` says that without a failing call there is one journal at most, and that start-up
has a case for it; `CalmInv` that without a crash nothing is left behind.

**Multipart parts** (`MultipartPartProofs`), for any contents and any number of attempts, crashes and failing calls:
`RecordedStaysUsable`, `AckedPartStays`, `RefusalIsAmbiguity`. `Layout` lists which of the new and the previous part
may be where when a journal is there; `FilesInv` says so in every state in which a recovery can begin, `StepInv` what
the steps of handler and recovery have established since. The third theorem is the deep one: start-up judges the files
by size and MD5 alone, and every other layout is told apart.

**Upload tasks** (`ConsoleProofs`), for any finite set of tasks with finitely many files and any number of workers
and retries: `CancelIsObeyed`, `OverwritesAreAsked`, `CardTellsTruth`. A request under way belongs to a task that runs
and carries `overwrite` only after the user's answer (`RequestInv`); the same is true of one that was aborted and is
carried out late (`LateInv`); what a coroutine reads as the decision is an answer (`AnswerInv`); the first to store a
file is the only one that need not have asked (`StoredInv`); an item counted as uploaded was stored (`ItemInv`), and
what is not in the listing yet is known (`ListingInv`).

**Settings forms** (`ConsoleProofs`), for any number of versions, requests, sources and directories: `SavesAreSeen`,
`DraftsAreKept`, `TargetsAreConfirmed`. A form would be saved with the revision whose values it shows, and it belongs to
the part of the console that is open (`OpenFormInv`); of a service or of the static view the request says the same
after the form has gone (`SavedInv`). While a service, retention or branding form saves, it cannot be closed and, but
for branding, not be edited (`LockedInv`): the late answer that closes it finds nothing typed since. What the
checkbox falls back to, or shows, is in force unless an answer was lost (`CheckboxInv`). A
preview and the confirmation of a whole source are about the target on the screen (`PathInv`), since every change of
it takes them back; a preflight that answers late finds another target requested. Requests whose component is gone keep their
revision and lose only whom they tell (`OrphansLeft`). `FormsAssumption` says that bounds are numbers, that there
is a directory to publish other than a whole source, and that `None` is no value of another kind.

**File page** (`ConsoleProofs`), for any directories, orders of a listing, entries and number of actions:
`OnlyConfirmed`, `ListingsEndFresh`. The first is a theorem of `ConsentSpec`. A task gets its entries from the page's
selection, by way of the clipboard or a confirmation, and asks about them by name and directory long after; so
`ConsentInv` says that the names selected are marked in the directory shown (`MarksInv`, which every way into another
directory must keep), that the clipboard holds what was copied or cut while marked (`ClipInv`), and that each entry a
task has yet to ask about, or has failed on, was asked for (`TasksInv`). The second speaks of a page with nothing under way; `StaleInv` says what holds
before: whenever the listing shown is outdated with no fetch under way, or any fetch overlaps a change, a loop that changes
files is still there, and its end refreshes. Single requests need no such clause, since their answer refreshes in the same
step or leaves the change passed over, and neither do the loops of shares, which change no files (`EffectsTyped`).
`RefreshSettles` and `PassedOverSettles` say that after either nothing waits. That the answer of a share finds
its own dialog open (`ShareInv`, `BatchInv`) is not obvious from the code, which replaces the dialog's content
without looking at it: it holds because closing the dialog drops the request's callbacks, because it has one request at a
time, and because the window of several shares cannot be closed while they run. `PageAssumption` says that keys list directories, that names
are numbers, which stand for their order, and that `None` is no other value.

**Lists, anonymous page and previews** (`PagesProofs`), for any rows, images, files, sizes and bounds.
`SecretsAreShown`, `ClicksAreObeyed` and `ListsEndTrue` rest on `ListInv`, which says which requests may be under way
on which page and who is told their answers. A list is true at the end because a change not yet read is covered by a
read to come or by the answer of a request (`UnreadInv`), a click because at most one switch is under way that the
page still listens to, and nothing overtakes it until the page is left (`ClickInv`). `PlacesAreUsed`: the code decides
by a counter and a queue, so `PlacesInv` says that the counter is the number of uploads under way (sent, or settled
with `.finally` still to come), and that the queue holds waiting images once each; `PumpFills` says what one pump does
from any count of free places. `ContentIsOfItem`, `CutsAreTold` and `OpenedStaysShown` rest on `PreviewInv`: every
read that nobody aborted is one of the file shown. That an index finds the entry it was taken from is a fact about
finite sets (`IndexesGrow`, `IndexFinds`): two entries have different numbers of entries before them.
`ListAssumption`, `UploadAssumption` and `PreviewAssumption` say that there are rows, that bounds and sizes are
numbers and that the limit of concurrent uploads is positive.

**Only model-checked**, at the bounds above: `NoCircularWait` of `OperationLocks` where a completion takes part,
and all liveness, which is out of reach of the prover (fairness and ENABLED): `EveryWaiterServed`,
`EveryRequestEnds`, `Recovers`, `LeftoversGo`, `TaskEnds`.

## 6. What is not modelled

- Inside modelled components of the server: data that reaches the disk out of order after a power loss (the code syncs files
  and directories; a crash here is a kill); a directory deleted half way by `RemoveAll` (`PathOperations` has
  single paths; `WebdavLocks` does have partial deletions); an SQLite commit that reports an error and is
  nevertheless durable; the `.filesystem-ready` marker, which nothing reads; the registry clean-up of the leases; the
  check at start-up that a managed path belongs to the program, which ends it like a removal that fails.
  `PathOperations` treats an upload between two operations as one step, which `FileUpload` justifies.
- Inside modelled components of the console: layout, wording, progress bars, filter boxes and copy buttons; the fields of a form, which
  are one draft; favourites and the quota bar of the file page; the rendering of a previewed content (of which only a text shows that it was cut short), and a
  response without a body, which a browser that streams does not give (`content.ts:22`). React's effects run
  with the step that causes them, and the query library is modelled by what the pages rely on.
- Profile and password forms: each is a request and a dialog. A timer of 600 ms closes a dialog
  reopened since, and cancelling keeps the typed password in the component (`ProfileSection.tsx:61-80`).
- The session: logging out clears the clipboard before it awaits and removes only the user's query; a `fetchMe` under way may
  put the old CSRF token back; theme changes may overtake one another.
- Strings, hashes, XML and HTTP: paths are sequences of names after normalisation, tokens are model values.
- Components with status `not_modelled` in `PROJECT.json`, each with its reason: those that only read or parse,
  those whose state changes are single statements, and those the plan below still has.

## 7. Plan

Built so far: path locks, the lock order of all handlers over them, WebDAV locks, the three journaled operations closest
to user data, and the web console, with proofs about all of them. Next, in this order:

1. `MultipartCompletion`: Complete, its journal and recovery, over the promise of `FileUpload` (an upload is
   installed, rolled back or left to start-up); another writer between the upload and the check of the
   object. Abstract specification: an object and its parts change hands in one step.
2. `Trash`: move, restore and purge with journal, `ready` and `rollback-ready` markers and the open
   transaction; an entry is in exactly one place.
3. `SourceTransfer` and `SourceCopy`: two sources, staging, roll-back of records and files, recovery;
   abstract specification: a file is at the source, at both, or at the target.
4. `QuotaGuard` over the locks of `PathLocks`: the limit holds through concurrent writers and changes of it.
5. `Reconcile`: scan and transaction against deletions, moves and the trash.
6. `ImageUpload` and `ManagedRoot`; `Startup` composing the recoveries in their order.
7. `Shares` (download limit), `LoginLimiter`, `SiteBindings`; permission evaluation and exclusion rules as
   operators compared with a reference definition; the web session and the profile forms.

Theorems planned: `NoCircularWait` with completions; then, with their modules, the quota limit and the refinements of the
abstract specifications above.
