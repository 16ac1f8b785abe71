--------------------------- MODULE SettingsForms ---------------------------
(***************************************************************************)
(* The forms of the administrator's console (pages/admin): site services,  *)
(* image retention, branding, storage sources with their static            *)
(* publication, access policies and user quotas.  Other administrators      *)
(* change the same records meanwhile.                                      *)
(*                                                                         *)
(* The forms share nothing: a behaviour is about one part of the console.   *)
(* Of its record only a version is kept, 0 at the start and one more at    *)
(* every change; of a form which version it showed, which revision it will *)
(* send, and whether it holds edits.  A request is carried out and its     *)
(* answer handled in one step, as late as it likes.                        *)
(***************************************************************************)
EXTENDS Console, Naturals, FiniteSets

CONSTANTS
  Sources,     \* where a publication may be moved to
  Publishable, \* directories that may be published,
  Whole,       \* one of them: the whole source
  MaxVersion,  \* bound on the changes of the record
  MaxRequests, \* bound on the requests under way
  MaxOpened    \* bound on the forms opened and the checkbox clicked

VARIABLES
  part,        \* the part of the console this behaviour is about
  server,      \* the version of its record
  cache,       \* the version in the query cache
  published,   \* the static publication exists: on the server, in the cache
  form,        \* the form on the screen
  path,        \* its target, and what was checked and confirmed of it
  requests,    \* under way
  checkbox,    \* "anonymous uploads allowed", which is saved at once
  opened,
  blind,       \* kinds of saves that replaced a version never shown in the form
  dropped,     \* kinds of forms whose edits were thrown away
  unconfirmed  \* kinds of requests about a target other than the one confirmed

Record == {"service", "retention", "branding", "static", "source", "policy", "quota"}
Revised == {"service", "static", "rebind", "remove"}    \* saved with expected_revision
Checked == {"create", "publish"}                        \* need a preflight
Part == Record \cup {"create", "anonymous"}
Kind == Record \cup Revised \cup Checked \cup {"preflight-create", "preflight-publish"}
PartOf(kind) == IF kind \in {"rebind", "remove", "publish"} THEN "static" ELSE kind
Target == Sources \X Publishable
OpenForm == [of: Record \cup Checked \cup {"rebind"}, shown: 0..MaxVersion,
             revision: 0..MaxVersion, edits: {"none", "unsaved", "sent"}]
Path == [typed: Target, requested: Target \cup {None}, preview: Target \cup {None},
         whole: Target \cup {None}, relocate: Target \cup {None}, moves: BOOLEAN]
Request == [of: Kind, shown: 0..MaxVersion, revision: 0..MaxVersion \cup {None},
            target: Target \cup {None}, keeper: {"form", "list", "none"}]

ASSUME FormsAssumption ==
  /\ MaxVersion \in Nat /\ MaxOpened \in Nat
  /\ \E t \in Target : t[2] # Whole
  /\ None \notin 0..MaxVersion \cup Target \cup OpenForm

formVars == <<part, server, cache, published, form, path, requests, checkbox, opened,
              blind, dropped, unconfirmed>>
ghosts == <<blind, dropped, unconfirmed>>

own(q) == q.keeper = "form"

Empty == [typed |-> CHOOSE t \in Target : t[2] # Whole, requested |-> None, preview |-> None,
          whole |-> None, relocate |-> None, moves |-> FALSE]

FormsTypeOK ==
  /\ part \in Part
  /\ server \in 0..MaxVersion /\ cache \in 0..server
  /\ published \in [server: BOOLEAN, cached: BOOLEAN]
  /\ \/ form = None
     \/ form \in OpenForm
  /\ path \in Path
  /\ requests \in SUBSET Request
  /\ \A p, q \in requests : own(p) /\ own(q) /\ p.of = q.of => p = q
  /\ checkbox \in [server: BOOLEAN, shown: BOOLEAN, previous: BOOLEAN, lost: BOOLEAN,
                   phase: {"idle", "sent", "settling"}]
  /\ opened \in 0..MaxOpened
  /\ blind \in SUBSET Kind /\ dropped \in SUBSET Kind /\ unconfirmed \in SUBSET {"create", "whole", "relocate"}

FormsInit ==
  /\ part \in Part
  /\ server = 0 /\ cache = 0
  /\ \E b \in BOOLEAN : published = [server |-> b, cached |-> b] /\ (b => part = "static")
  /\ form = None /\ path = Empty
  /\ requests = {}
  /\ checkbox = [server |-> FALSE, shown |-> FALSE, previous |-> FALSE, lost |-> FALSE,
                 phase |-> "idle"]
  /\ opened = 0
  /\ blind = {} /\ dropped = {} /\ unconfirmed = {}

-----------------------------------------------------------------------------
(* Opening, editing and closing.                                           *)

Is(kind) == form # None /\ form.of = kind
Form(kind, version) == [of |-> kind, shown |-> version, revision |-> version, edits |-> "none"]

Show(kind) ==
  /\ part = PartOf(kind) /\ form = None /\ opened < MaxOpened
  /\ form' = Form(kind, cache)
  /\ path' = Empty
  /\ opened' = opened + 1
  /\ UNCHANGED <<server, cache, published, requests, checkbox, ghosts>>

SiteServiceDialog == Show("service")
ImageRetentionDialog == Show("retention")
BrandingSection == Show("branding")
EditSourceDialog == Show("source")
PolicyDialog == Show("policy")
UserQuotaDialog == Show("quota")
CreateSourceDialog == Show("create")
StaticAssetsSection == Show(IF published.cached THEN "static" ELSE "publish")

\* A request of the form on the screen: its mutation isPending.
saving(kind) == \E q \in requests : q.of = kind /\ own(q)

\* The inputs of two dialogs are disabled while they save.
Locked == {"service", "retention"}

\* Fault: they are not.
editAnyway ==
  /\ form # None /\ form.of \in Record
  /\ form' = [form EXCEPT !.edits = "unsaved"]
  /\ UNCHANGED <<server, cache, published, path, requests, checkbox, opened, ghosts>>

edit ==
  /\ form # None /\ form.of \in Record
  /\ form.of \in Locked => ~saving(form.of)
  /\ form' = [form EXCEPT !.edits = "unsaved"]
  /\ UNCHANGED <<server, cache, published, path, requests, checkbox, opened, ghosts>>

\* What becomes of the requests when their form is gone: a list that opened the
\* form still handles the answer, and a dialog that is always mounted keeps its
\* mutation.  Nobody hears the answer of a preflight.
Listed == {"source", "policy", "quota", "create"}
Heard(kinds) == {q \in requests : q.of \notin kinds \cap {"preflight-create", "preflight-publish"}}
Orphaned(kinds) ==
  {IF q.of \in kinds THEN [q EXCEPT !.keeper = IF q.of \in Listed THEN "list" ELSE "none"] ELSE q : q \in Heard(kinds)}

\* Cancel, Escape or the backdrop; the dialogs above and the branding form
\* refuse while they save.
closeForm ==
  /\ form # None /\ form.of # "rebind"
  /\ form.of \in Locked \cup {"branding"} => ~saving(form.of)
  /\ requests' = Orphaned(Kind \ {"quota", "create", "preflight-create", "branding"})
  /\ form' = None /\ path' = Empty
  /\ UNCHANGED <<server, cache, published, checkbox, opened, ghosts>>

\* Another section or page is opened, by Back even while a dialog is open.
leave ==
  /\ form # None
  /\ requests' = {[q EXCEPT !.keeper = "none"] : q \in Heard(Kind)}
  /\ form' = None /\ path' = Empty
  /\ UNCHANGED <<server, cache, published, checkbox, opened, ghosts>>

Send(kind, revision, target) ==
  /\ Cardinality(requests) < MaxRequests
  /\ requests' = requests \cup {[of |-> kind, shown |-> form.shown, revision |-> revision,
                              target |-> target, keeper |-> "form"]}

-----------------------------------------------------------------------------
(* Saving.                                                                 *)

Save(kind, revision) ==
  /\ Is(kind) /\ ~saving(kind)
  /\ Send(kind, revision, None)
  /\ form' = [form EXCEPT !.edits = IF @ = "none" THEN "none" ELSE "sent"]
  /\ UNCHANGED <<server, cache, published, path, checkbox, opened, ghosts>>

\* Fault: the revision of the latest list, not the one the dialog has shown.
submitLatest == Save("service", cache)

submitService == Is("service") /\ Save("service", form.revision)
submitRetention == Save("retention", None)
submitBranding == Save("branding", None)
saveSettings == Is("source") /\ form.edits # "none" /\ Save("source", None)
savePolicy == Save("policy", None)
saveQuota == Save("quota", None)
saveStatic == Is("static") /\ Save("static", form.revision)

removeStatic ==
  /\ Is("static") /\ ~saving("remove")
  /\ Send("remove", form.revision, None)
  /\ UNCHANGED <<server, cache, published, form, path, checkbox, opened, ghosts>>

Accepts(q) == server < MaxVersion /\ q.revision \in {None, server}

Carried(q) ==
  /\ server' = server + 1
  /\ blind' = IF q.of \in Record /\ q.shown # server THEN blind \cup {q.of} ELSE blind

Gone(q) == q \in requests /\ requests' = requests \ {q}

\* The answer closes a form; edits it does not carry are lost.
Closes(yes) ==
  IF yes
  THEN /\ form' = None
       /\ dropped' = IF form.edits = "unsaved" THEN dropped \cup {form.of} ELSE dropped
  ELSE UNCHANGED <<form, dropped>>

\* onSaved: the lists are read again before the dialog is closed.
serviceSaved(q) ==
  /\ q.of = "service" /\ Gone(q) /\ Accepts(q) /\ Carried(q)
  /\ cache' = server'
  /\ Closes(own(q))
  /\ UNCHANGED <<published, path, checkbox, opened, unconfirmed>>

\* CONFLICT: the latest setting is read and shown beside the draft, which will
\* be saved with its revision; or it cannot be read.
serviceConflict(q) ==
  /\ q.of = "service" /\ Gone(q) /\ q.revision # server
  /\ \/ /\ cache' = server
        /\ form' = IF own(q) THEN [form EXCEPT !.revision = server, !.shown = server, !.edits = "unsaved"] ELSE form
     \/ UNCHANGED cache /\ form' = IF own(q) THEN [form EXCEPT !.edits = "unsaved"] ELSE form
  /\ UNCHANGED <<server, published, path, checkbox, opened, ghosts>>

\* Retention waits for its list and closes itself, branding its own form.
optionSaved(q) ==
  /\ q.of \in {"retention", "branding"} /\ Gone(q) /\ Accepts(q) /\ Carried(q)
  /\ cache' = server'
  /\ Closes(own(q))
  /\ UNCHANGED <<published, path, checkbox, opened, unconfirmed>>

\* The list closes its dialog, whichever entry it is about by now.
entrySaved(q) ==
  /\ q.of \in {"source", "policy", "quota"} /\ Gone(q) /\ Accepts(q) /\ Carried(q)
  /\ Closes(q.keeper # "none" /\ Is(q.of))
  /\ UNCHANGED <<cache, published, path, checkbox, opened, unconfirmed>>

\* The view of the new revision replaces the form when the list is read.
staticSaved(q) ==
  /\ q.of \in {"static", "remove"} /\ Gone(q) /\ published.server /\ Accepts(q) /\ Carried(q)
  /\ published' = [published EXCEPT !.server = q.of = "static"]
  /\ UNCHANGED <<cache, form, path, checkbox, opened, dropped, unconfirmed>>

\* The request is refused or fails, or is carried out and its answer is lost.
\* The draft stays, with a message.
saveFails(q) ==
  /\ q.of \in Record \cup {"rebind", "remove"} /\ Gone(q)
  /\ \/ Accepts(q) /\ Carried(q) /\ published' = [published EXCEPT !.server = @ /\ q.of # "remove"]
     \/ UNCHANGED <<server, blind, published>>
  /\ form' = IF own(q) /\ Is(q.of) /\ form.edits = "sent" THEN [form EXCEPT !.edits = "unsaved"] ELSE form
  /\ UNCHANGED <<cache, path, checkbox, opened, dropped, unconfirmed>>

otherAdministrator ==
  /\ part \in Record /\ server < MaxVersion
  /\ server' = server + 1
  /\ UNCHANGED <<cache, published, form, path, requests, checkbox, opened, ghosts>>

-----------------------------------------------------------------------------
(* Reading.                                                                *)

\* A list is read again.  The source dialog fills its fields from new data;
\* the static view is keyed by its revision and starts afresh.
Refilled(kind) ==
  /\ form' = Form(kind, server)
  /\ dropped' = IF form.edits = "none" THEN dropped ELSE dropped \cup {form.of}

refetch ==
  /\ cache # server
  /\ cache' = server
  /\ published' = [published EXCEPT !.cached = published.server]
  /\ CASE Is("source") ->
            Refilled("source") /\ UNCHANGED <<path, requests>>
       [] Is("static") \/ Is("rebind") \/ (Is("publish") /\ published.server) ->
            /\ Refilled(IF published.server THEN "static" ELSE "publish")
            /\ path' = Empty
            /\ requests' = Orphaned({"static", "remove", "rebind", "publish", "preflight-publish"})
       [] OTHER -> UNCHANGED <<form, path, requests, dropped>>
  /\ UNCHANGED <<server, checkbox, opened, blind, unconfirmed>>

-----------------------------------------------------------------------------
(* Targets: creating a source, publishing a directory, moving a            *)
(* publication.                                                            *)

\* What was found for the old path is forgotten.
typePath(t) ==
  /\ form # None /\ form.of \in Checked /\ t # path.typed /\ t[1] = path.typed[1]
  /\ path' = [Empty EXCEPT !.typed = t]
  /\ UNCHANGED <<server, cache, published, form, requests, checkbox, opened, ghosts>>

Preflight(kind) == IF kind = "create" THEN "preflight-create" ELSE "preflight-publish"

runPreflight ==
  /\ form # None /\ form.of \in Checked /\ ~saving(Preflight(form.of))
  /\ path.preview # None => ~saving("create")
  /\ path' = [path EXCEPT !.requested = path.typed, !.preview = IF form.of = "create" THEN None ELSE @]
  /\ Send(Preflight(form.of), None, path.typed)
  /\ UNCHANGED <<server, cache, published, form, checkbox, opened, ghosts>>

\* Shown only if the path is still the one it was asked for.
createPreview(q) ==
  /\ q.of = "preflight-create" /\ Gone(q)
  /\ path' = IF own(q) /\ path.requested = q.target THEN [path EXCEPT !.preview = q.target] ELSE path
  /\ UNCHANGED <<server, cache, published, form, checkbox, opened, ghosts>>

\* Kept whatever was typed since; a failure removes what is kept.
publishPreview(q) ==
  /\ q.of = "preflight-publish" /\ Gone(q)
  /\ \E found \in {q.target, None} :
       path' = IF own(q) THEN [path EXCEPT !.preview = found] ELSE path
  /\ UNCHANGED <<server, cache, published, form, checkbox, opened, ghosts>>

preflightFails(q) ==
  /\ q.of = "preflight-create" /\ Gone(q)
  /\ UNCHANGED <<server, cache, published, form, path, checkbox, opened, ghosts>>

\* The checkbox for the whole source, and the one of a relocation.
confirmRoot ==
  /\ form # None /\ form.of \in {"publish", "rebind"} /\ path.typed[2] = Whole
  /\ path' = [path EXCEPT !.whole = IF @ = None THEN path.typed ELSE None]
  /\ UNCHANGED <<server, cache, published, form, requests, checkbox, opened, ghosts>>

confirmRelocate ==
  /\ Is("rebind") /\ path.moves
  /\ path' = [path EXCEPT !.relocate = IF @ = None THEN path.typed ELSE None]
  /\ UNCHANGED <<server, cache, published, form, requests, checkbox, opened, ghosts>>

\* Requests that name another target than was checked or confirmed.
Astray(kind) ==
  LET whole == path.typed[2] = Whole /\ kind # "create" /\ path.whole # path.typed
      other == kind \in Checked /\ path.preview # path.typed
      moved == kind = "rebind" /\ path.moves /\ path.relocate # path.typed
  IN  unconfirmed' = unconfirmed \cup (IF whole THEN {"whole"} ELSE {})
                       \cup (IF other THEN {"create"} ELSE {}) \cup (IF moved THEN {"relocate"} ELSE {})

createSource ==
  /\ Is("create") /\ ~saving("create")
  /\ path.preview # None /\ path.requested = path.typed
  /\ Send("create", None, None)
  /\ Astray("create")
  /\ UNCHANGED <<server, cache, published, form, path, checkbox, opened, blind, dropped>>

configureStatic ==
  /\ Is("publish") /\ ~saving("publish")
  /\ path.preview = path.typed /\ (path.typed[2] = Whole => path.whole # None)
  /\ Send("publish", None, None)
  /\ Astray("publish")
  /\ UNCHANGED <<server, cache, published, form, path, checkbox, opened, blind, dropped>>

StaticAssetsRebindDialog ==
  /\ Is("static")
  /\ form' = [form EXCEPT !.of = "rebind"] /\ path' = Empty
  /\ UNCHANGED <<server, cache, published, requests, checkbox, opened, ghosts>>

\* Fault: a new target keeps the confirmation.
chooseTargetConfirmed(t, moves) ==
  /\ Is("rebind") /\ (t # path.typed \/ moves # path.moves)
  /\ path' = [path EXCEPT !.typed = t, !.moves = moves]
  /\ UNCHANGED <<server, cache, published, form, requests, checkbox, opened, ghosts>>

\* A new source or directory takes back confirmRoot, and only that.
chooseTarget(t, moves) ==
  /\ Is("rebind") /\ (t # path.typed \/ moves # path.moves)
  /\ path' = [path EXCEPT !.typed = t, !.moves = moves, !.whole = IF t = path.typed THEN @ ELSE None]
  /\ UNCHANGED <<server, cache, published, form, requests, checkbox, opened, ghosts>>

submitRebind ==
  /\ Is("rebind") /\ ~saving("rebind")
  /\ path.moves => path.relocate # None
  /\ path.typed[2] = Whole => path.whole # None
  /\ Send("rebind", form.revision, None)
  /\ Astray("rebind")
  /\ UNCHANGED <<server, cache, published, form, path, checkbox, opened, blind, dropped>>

closeRebind ==
  /\ Is("rebind")
  /\ form' = [form EXCEPT !.of = "static"] /\ path' = Empty
  /\ UNCHANGED <<server, cache, published, requests, checkbox, opened, ghosts>>

rebindSaved(q) ==
  /\ q.of = "rebind" /\ Gone(q) /\ published.server /\ Accepts(q) /\ Carried(q)
  /\ IF own(q) /\ Is("rebind")
     THEN form' = [form EXCEPT !.of = "static"] /\ path' = Empty
     ELSE UNCHANGED <<form, path>>
  /\ UNCHANGED <<cache, published, checkbox, opened, dropped, unconfirmed>>

\* The publication exists, or the source is created; only the latter closes
\* its dialog, also one opened again since.
targetSaved(q) ==
  /\ q.of \in Checked /\ Gone(q)
  /\ IF q.of = "publish"
     THEN /\ ~published.server /\ Accepts(q) /\ Carried(q)
          /\ published' = [published EXCEPT !.server = TRUE]
          /\ UNCHANGED <<form, path>>
     ELSE /\ UNCHANGED <<server, blind, published>>
          /\ IF q.keeper # "none" /\ Is("create") THEN form' = None /\ path' = Empty ELSE UNCHANGED <<form, path>>
  /\ UNCHANGED <<cache, checkbox, opened, dropped, unconfirmed>>

targetFails(q) ==
  /\ q.of \in Checked /\ Gone(q)
  /\ UNCHANGED <<server, cache, published, form, path, checkbox, opened, ghosts>>

-----------------------------------------------------------------------------
(* The checkbox shows the new value at once (onMutate).                    *)

others == <<server, cache, published, form, path, requests, ghosts>>

toggleAnonymous ==
  /\ part = "anonymous" /\ checkbox.phase = "idle" /\ opened < MaxOpened
  /\ checkbox' = [checkbox EXCEPT !.previous = checkbox.shown, !.shown = ~@, !.phase = "sent"]
  /\ opened' = opened + 1
  /\ UNCHANGED others

anonymousSaved ==
  /\ checkbox.phase = "sent"
  /\ checkbox' = [checkbox EXCEPT !.server = checkbox.shown, !.lost = FALSE, !.phase = "settling"]
  /\ UNCHANGED <<others, opened>>

\* Refused, or carried out unheard; what was shown before comes back.
anonymousFails ==
  /\ checkbox.phase = "sent"
  /\ \E carried \in {checkbox.server, checkbox.shown} :
       checkbox' = [checkbox EXCEPT !.server = carried, !.shown = checkbox.previous,
                                    !.lost = @ \/ carried # checkbox.server, !.phase = "settling"]
  /\ UNCHANGED <<others, opened>>

\* onSettled: disabled until the setting has been read again.
anonymousSettled ==
  /\ checkbox.phase = "settling"
  /\ checkbox' = [checkbox EXCEPT !.shown = checkbox.server, !.lost = FALSE, !.phase = "idle"]
  /\ UNCHANGED <<others, opened>>

\* Or until reading it has failed, which is not tried again and leaves what is
\* shown.
anonymousUnread ==
  /\ checkbox.phase = "settling"
  /\ checkbox' = [checkbox EXCEPT !.phase = "idle"]
  /\ UNCHANGED <<others, opened>>

-----------------------------------------------------------------------------
Opens ==
  \/ SiteServiceDialog \/ ImageRetentionDialog \/ BrandingSection \/ EditSourceDialog
  \/ PolicyDialog \/ UserQuotaDialog \/ CreateSourceDialog \/ StaticAssetsSection
  \/ StaticAssetsRebindDialog
Closings == closeForm \/ leave \/ closeRebind
Edits ==
  \/ edit \/ confirmRoot \/ confirmRelocate
  \/ \E t \in Target : typePath(t) \/ chooseTarget(t, TRUE) \/ chooseTarget(t, FALSE)
Submits ==
  \/ submitService \/ submitRetention \/ submitBranding \/ saveSettings \/ savePolicy
  \/ saveQuota \/ saveStatic \/ removeStatic \/ runPreflight \/ createSource
  \/ configureStatic \/ submitRebind
Answers ==
  \E q \in requests :
    \/ serviceSaved(q) \/ serviceConflict(q) \/ optionSaved(q) \/ entrySaved(q) \/ staticSaved(q)
    \/ saveFails(q) \/ createPreview(q) \/ publishPreview(q) \/ preflightFails(q)
    \/ rebindSaved(q) \/ targetSaved(q) \/ targetFails(q)
Elsewhere == otherAdministrator \/ refetch
Checkbox ==
  toggleAnonymous \/ anonymousSaved \/ anonymousFails \/ anonymousSettled \/ anonymousUnread

FormsNext ==
  /\ Opens \/ Closings \/ Edits \/ Submits \/ Answers \/ Elsewhere \/ Checkbox
  /\ UNCHANGED part

FormsSpec == FormsInit /\ [][FormsNext]_formVars

-----------------------------------------------------------------------------
\* A save of a site service or of the static view never replaces a change the
\* administrator was not shown, whatever was read in the background and
\* whoever saved meanwhile.  (Sources, policies and quotas carry no revision:
\* there the last one wins.  The state is well typed all along.)
NoBlindOverwrite == FormsTypeOK /\ blind \cap Revised = {}

\* What the screen shows can be relied on: what was typed into a service or
\* retention dialog is lost only if the user closes it or leaves, not to a
\* conflict, a late answer or a background read; and the checkbox shows the
\* setting in force once nothing is under way, whether its request succeeded
\* or failed and whether it could be read again; only if both fail, the request
\* after it was carried out, does the screen show the former setting.
DraftKept ==
  /\ dropped \cap Locked = {}
  /\ checkbox.phase = "idle" /\ ~checkbox.lost => checkbox.shown = checkbox.server

\* A source is created, and a whole source published, only for the path on the
\* screen, after a check and a confirmation of that very path.
TargetConfirmed == unconfirmed \subseteq {"relocate"}
=============================================================================
