----------------------------- MODULE EntryLists -----------------------------
(***************************************************************************)
(* The pages that list entries and act on them one by one: the account's   *)
(* credentials (ProfileSection), trash, shares, favourites, the users,     *)
(* policies and sources of the administrator, the image bed, and the       *)
(* maintenance buttons of the dashboard.  They share nothing: a behaviour  *)
(* is about one of them.                                                   *)
(*                                                                         *)
(* A request is sent, carried out and answered in separate steps; a list   *)
(* that is invalidated is read again, and a read still under way then is   *)
(* given up.  Entries are being there or not, and enabled or not.          *)
(***************************************************************************)
EXTENDS Naturals, FiniteSets

CONSTANTS
  Entries,     \* rows there is room for: the limit of 10 credentials
  MaxRequests, \* bound on the requests under way
  MaxSent,     \* bound on the requests sent from each page
  MaxVisits,   \* bound on coming back to the page
  None

VARIABLES
  page,        \* the page this behaviour is about
  server,      \* its entries: "on", "off" or "gone"
  cache,       \* as the list shows them
  reading,     \* the list is being read
  dialog,      \* the dialog that is open, None or [kind, entry]
  modal,       \* the window around the managers of credentials is open
  kept,        \* a secret the page still holds; it is shown while the window is open
  inForce,     \* the WebDAV token the server accepts
  requests,    \* under way
  sent, visits,
  wanted,      \* what the last click on each row asked for
  disturbed,   \* why the rest may be otherwise: "others", "lost", "left", some "none"
  lost         \* secrets nobody was shown: "replaced", "unheard"

listVars == <<page, server, cache, reading, dialog, modal, kept, inForce, requests, sent, visits,
          wanted, disturbed, lost>>
ghosts == <<wanted, disturbed, lost>>

Managers == {"tokens", "s3"}
Credentials == Managers \cup {"webdav"}
Page == Credentials \cup {"users", "policies", "sources", "trash", "shares", "favorites", "images", "dashboard"}
Kind == {"create", "toggle", "delete", "revoke", "reset", "restore", "purge", "remove", "upload",
         "integrity", "cleanup", "reconcile"}
Removing == {"delete", "restore", "purge", "remove"}
Maintenance == {"integrity", "cleanup", "reconcile"}
Row == Entries \cup {None}

ASSUME ListAssumption == Entries # {} /\ MaxSent \in [Page -> Nat] /\ MaxVisits \in Nat

ListTypeOK ==
  /\ page \in Page
  /\ server \in [Entries -> {"on", "off", "gone"}] /\ cache \in [Entries -> {"on", "off", "gone"}]
  /\ reading \in BOOLEAN /\ modal \in BOOLEAN
  /\ dialog \in [kind : Kind, entry : Row] \cup {None}
  /\ kept \in 1..MaxSent[page] \cup {None} /\ inForce \in 0..MaxSent[page]
  /\ requests \subseteq [kind : Kind, entry : Row, value : {"on", "off", None}, keeper : {"dialog", "page", "none"},
                         carried : BOOLEAN, secret : 1..MaxSent[page]]
  /\ sent \in 0..MaxSent[page] /\ visits \in 0..MaxVisits
  /\ wanted \in [Entries -> {"on", "off", None}]
  /\ disturbed \subseteq {"others", "lost", "left"} /\ lost \subseteq {"replaced", "unheard"}

ListInit ==
  /\ page \in Page
  /\ server \in [Entries -> IF page = "dashboard" THEN {"on", "off"} ELSE {"on", "gone"}]
  /\ cache = server /\ reading = FALSE
  /\ dialog = None /\ modal = FALSE
  /\ kept = None /\ inForce = 0
  /\ requests = {} /\ sent = 0 /\ visits = 0
  /\ wanted = [e \in Entries |-> None] /\ disturbed = {} /\ lost = {}

-----------------------------------------------------------------------------
(* What the user does.  Dialogs are modal, a secret is shown above them.   *)

showing == kept # None /\ (modal \/ page \notin Credentials)
Free == dialog = None /\ ~showing /\ (page \in Credentials => modal)
Listed(e) == cache[e] # "gone"
atLimit == \A e \in Entries : Listed(e)

\* The mutation isPending: it belongs to the page, that of a trash dialog to
\* the dialog.
Holder(kind) == IF kind \in {"restore", "purge"} THEN "dialog" ELSE "page"
isPending(kinds) == \E q \in requests : q.kind \in kinds /\ q.keeper = Holder(q.kind)

Open(kind, e) ==
  /\ Free
  /\ dialog' = [kind |-> kind, entry |-> e]
  /\ UNCHANGED <<server, cache, reading, modal, kept, inForce, requests, sent, visits, ghosts>>

Ask(kind) == \E e \in Entries : Listed(e) /\ Open(kind, e)

Send(kind, e, value) ==
  /\ Cardinality(requests) < MaxRequests /\ sent < MaxSent[page]
  /\ sent' = sent + 1
  /\ requests' = requests \cup {[kind |-> kind, entry |-> e, value |-> value,
                              keeper |-> Holder(kind), carried |-> FALSE, secret |-> sent + 1]}

\* The dialog stays until the answer comes.
Confirm(kind) ==
  /\ dialog # None /\ dialog.kind = kind /\ ~showing
  /\ ~isPending({kind})
  /\ Send(kind, dialog.entry, None)
  /\ UNCHANGED <<server, cache, reading, dialog, modal, kept, inForce, visits, ghosts>>

\* Fault: a second secret may be asked for while the first is being made.
createAgain ==
  \/ ~atLimit /\ Open("create", None)
  \/ /\ dialog # None /\ dialog.kind = "create"
     /\ Send("create", None, None)
     /\ UNCHANGED <<server, cache, reading, dialog, modal, kept, inForce, visits, ghosts>>

create ==
  \/ (page = "users" \/ ~atLimit) /\ Open("create", None)
  \/ Confirm("create")

delete == Ask("delete") \/ Confirm("delete")

Now(kind, e, value) ==
  /\ Free
  /\ Send(kind, e, value)
  /\ UNCHANGED <<server, cache, reading, dialog, modal, kept, inForce, visits, disturbed, lost>>

\* Fault: the rows' buttons stay enabled while a change is under way.
toggleAny ==
  \E e \in Entries :
    /\ Listed(e)
    /\ LET value == IF cache[e] = "on" THEN "off" ELSE "on"
       IN  Now("toggle", e, value) /\ wanted' = [wanted EXCEPT ![e] = value]

\* The button of every row asks for the opposite of what the row shows.
toggle ==
  \E e \in Entries :
    /\ Listed(e) /\ ~isPending({"toggle"})
    /\ LET value == IF cache[e] = "on" THEN "off" ELSE "on"
       IN  Now("toggle", e, value) /\ wanted' = [wanted EXCEPT ![e] = value]

remove ==
  \E e \in Entries :
    Listed(e) /\ ~isPending({"remove"}) /\ Now("remove", e, None) /\ UNCHANGED wanted

\* Images are sent one after the other; the drop zone is disabled meanwhile.
upload == ~isPending({"upload"}) /\ Now("upload", None, None) /\ UNCHANGED wanted

maintain ==
  \E kind \in Maintenance, e \in Entries :
    ~isPending(Maintenance) /\ Now(kind, e, None) /\ UNCHANGED wanted

\* A token that exists is reset after a confirmation; the dialog closes at once.
reset ==
  LET token == CHOOSE e \in Entries : TRUE IN
  \/ /\ ~isPending({"reset"})
     /\ IF Listed(token) THEN Open("reset", token)
        ELSE Now("reset", token, None) /\ UNCHANGED wanted
  \/ /\ dialog # None /\ dialog.kind = "reset" /\ ~showing
     /\ Send("reset", dialog.entry, None)
     /\ dialog' = None
     /\ UNCHANGED <<server, cache, reading, modal, kept, inForce, visits, ghosts>>

\* A trash dialog takes its mutation with it; its callback is the page's.
cancel ==
  /\ dialog # None /\ ~showing
  /\ dialog' = None
  /\ requests' = {IF q.keeper = "dialog" THEN [q EXCEPT !.keeper = "page"] ELSE q : q \in requests}
  /\ UNCHANGED <<server, cache, reading, modal, kept, inForce, sent, visits, ghosts>>

\* "I have saved it": the secret is forgotten.
dismiss ==
  /\ showing
  /\ kept' = None
  /\ UNCHANGED <<server, cache, reading, dialog, modal, inForce, requests, sent, visits, ghosts>>

Unheard(qs) == {[q EXCEPT !.keeper = "none"] : q \in qs}

openCredentialModal ==
  /\ page \in Credentials /\ ~modal
  /\ modal' = TRUE /\ reading' = (reading \/ page \in Managers)
  /\ UNCHANGED <<server, cache, dialog, kept, inForce, requests, sent, visits, ghosts>>

\* The managers go with the window; the WebDAV token is the page's.
closeCredentialModal ==
  /\ Free /\ modal
  /\ modal' = FALSE
  /\ IF page \in Managers /\ requests # {}
     THEN requests' = Unheard(requests) /\ disturbed' = disturbed \cup {"left"}
     ELSE UNCHANGED <<requests, disturbed>>
  /\ UNCHANGED <<server, cache, reading, dialog, kept, inForce, sent, visits, wanted, lost>>

\* The page is left and opened again: its list is read again.
revisit ==
  /\ visits < MaxVisits /\ visits' = visits + 1
  /\ dialog' = None /\ modal' = FALSE /\ kept' = None
  /\ requests' = Unheard(requests)
  /\ disturbed' = disturbed \cup (IF requests = {} THEN {} ELSE {"left"})
  /\ reading' = TRUE
  /\ UNCHANGED <<server, cache, inForce, sent, wanted, lost>>

-----------------------------------------------------------------------------
(* The server.                                                             *)

\* A new entry takes a row nobody sees or means.
Vacant(e) ==
  /\ server[e] = "gone" /\ cache[e] = "gone"
  /\ \A q \in requests : q.entry # e
  /\ dialog # None => dialog.entry # e

\* What a request makes of the entries.
Carries(q) ==
  CASE q.kind \in Removing -> server[q.entry] # "gone" /\ server' = [server EXCEPT ![q.entry] = "gone"]
    [] q.kind = "toggle" -> server[q.entry] # "gone" /\ server' = [server EXCEPT ![q.entry] = q.value]
    [] q.kind = "create" -> \E e \in Entries : Vacant(e) /\ server' = [server EXCEPT ![e] = "on"]
    [] q.kind = "upload" -> \E new \in SUBSET {e \in Entries : Vacant(e)} :
                              server' = [e \in Entries |-> IF e \in new THEN "on" ELSE server[e]]
    [] q.kind \in {"reset", "reconcile"} -> server' = [server EXCEPT ![q.entry] = "on"]
    [] q.kind = "cleanup" -> \E done \in SUBSET Entries :
                               server' = [e \in Entries |-> IF e \in done THEN "on" ELSE server[e]]
    [] OTHER -> UNCHANGED server

carryOut(q) ==
  /\ ~q.carried /\ Carries(q)
  /\ requests' = (requests \ {q}) \cup {[q EXCEPT !.carried = TRUE]}
  /\ inForce' = IF q.kind = "reset" THEN q.secret ELSE inForce
  /\ wanted' = [e \in Entries |-> IF server[e] = "gone" THEN None ELSE wanted[e]]
  /\ UNCHANGED <<cache, reading, dialog, modal, kept, sent, visits, disturbed, lost>>

\* Another page or another administrator, once.
others ==
  /\ "others" \notin disturbed
  /\ \E e \in Entries, now \in {"on", "off", "gone"} :
       /\ now # server[e] /\ (server[e] = "gone" => Vacant(e))
       /\ server' = [server EXCEPT ![e] = now]
  /\ inForce' = 0
  /\ disturbed' = disturbed \cup {"others"}
  /\ UNCHANGED <<cache, reading, dialog, modal, kept, requests, sent, visits, wanted, lost>>

-----------------------------------------------------------------------------
(* Answers.                                                                *)

Closed(kinds) == IF dialog # None /\ dialog.kind \in kinds THEN None ELSE dialog

\* Fault: the list is not read again after a removal.
removedUnread(q) ==
  /\ q.kind \in Removing /\ q.carried
  /\ requests' = requests \ {q}
  /\ dialog' = IF q.keeper = "none" THEN dialog ELSE Closed({q.kind})
  /\ UNCHANGED <<server, cache, reading, modal, kept, inForce, sent, visits, ghosts>>

\* onSuccess: the dialog is closed, whichever entry it is about by now, and
\* the list is read again, even if the page has been left since.
removed(q) ==
  /\ q.kind \in Removing \cup {"revoke"} /\ q.carried
  /\ requests' = requests \ {q}
  /\ dialog' = IF q.keeper = "none" THEN dialog ELSE Closed({q.kind})
  /\ reading' = (reading \/ q.kind # "revoke")
  /\ UNCHANGED <<server, cache, modal, kept, inForce, sent, visits, ghosts>>

changed(q) ==
  /\ q.kind \in {"toggle", "upload"} \cup Maintenance /\ q.carried
  /\ requests' = requests \ {q}
  /\ reading' = TRUE
  /\ UNCHANGED <<server, cache, dialog, modal, kept, inForce, sent, visits, ghosts>>

\* The secret is shown once, to the manager that asked for it.
Reveal(q) ==
  /\ kept' = IF q.keeper = "none" THEN kept ELSE q.secret
  /\ lost' = lost \cup (IF q.keeper = "none" THEN {"unheard"} ELSE IF kept # None THEN {"replaced"} ELSE {})

created(q) ==
  /\ q.kind \in {"create", "reset"} /\ q.carried
  /\ requests' = requests \ {q}
  /\ dialog' = IF q.keeper = "none" THEN dialog ELSE Closed({"create"})
  /\ reading' = TRUE
  /\ IF page \in Credentials THEN Reveal(q) ELSE UNCHANGED <<kept, lost>>
  /\ UNCHANGED <<server, cache, modal, inForce, sent, visits, wanted, disturbed>>

\* Refused, failed, or carried out and the answer lost: a message, and only
\* cleaning up and reconciling read the state again.  An upload that fails
\* half way has stored the images before.
failed(q) ==
  /\ requests' = requests \ {q}
  /\ reading' = (reading \/ q.kind \in {"cleanup", "reconcile"})
  /\ wanted' = IF q.kind = "toggle" THEN [wanted EXCEPT ![q.entry] = None] ELSE wanted
  /\ disturbed' = IF q.carried /\ q.kind \notin {"cleanup", "reconcile"}
                  THEN disturbed \cup {"lost"} ELSE disturbed
  /\ UNCHANGED <<server, cache, dialog, modal, kept, inForce, sent, visits, lost>>

listRead ==
  /\ reading /\ reading' = FALSE
  /\ cache' = server
  /\ UNCHANGED <<server, dialog, modal, kept, inForce, requests, sent, visits, ghosts>>

\* The refresh buttons of the trash and the images, the half-minute of the dashboard.
refetch ==
  /\ page \in {"trash", "images", "dashboard"} /\ ~reading
  /\ reading' = TRUE
  /\ UNCHANGED <<server, cache, dialog, modal, kept, inForce, requests, sent, visits, ghosts>>

-----------------------------------------------------------------------------
(* The pages.                                                              *)

TokenBlock == page = "webdav" /\ reset
ImageBedTokenManager == page = "tokens" /\ (create \/ delete)
S3CredentialManager == page = "s3" /\ (create \/ toggle \/ delete)
UsersSection == page = "users" /\ (create \/ toggle \/ delete \/ Ask("revoke") \/ Confirm("revoke"))
PoliciesSection == page = "policies" /\ delete
SourcesSection == page = "sources" /\ (toggle \/ delete)
RestoreDialog == page = "trash" /\ (Ask("restore") \/ Confirm("restore"))
PurgeDialog == page = "trash" /\ (Ask("purge") \/ Confirm("purge"))
SharesPage == page = "shares" /\ delete
FavoritesPage == page = "favorites" /\ remove
ImageBedPage == page = "images" /\ (delete \/ upload)
DashboardSection == page = "dashboard" /\ maintain

ListNext ==
  /\ \/ TokenBlock \/ ImageBedTokenManager \/ S3CredentialManager
     \/ UsersSection \/ PoliciesSection \/ SourcesSection
     \/ RestoreDialog \/ PurgeDialog \/ SharesPage \/ FavoritesPage \/ ImageBedPage
     \/ DashboardSection
     \/ cancel \/ dismiss \/ openCredentialModal \/ closeCredentialModal \/ revisit
     \/ \E q \in requests : carryOut(q) \/ removed(q) \/ changed(q) \/ created(q) \/ failed(q)
     \/ others \/ refetch \/ listRead
  /\ UNCHANGED page

ListSpec == ListInit /\ [][ListNext]_listVars

-----------------------------------------------------------------------------
\* A secret that was made for this page is shown until the user puts it away:
\* no other secret replaces it, and the WebDAV token waits for its window to
\* be opened again; it is lost only if the page is left, or a manager's window
\* closed, before the answer.  The WebDAV token shown is the one the server
\* accepts, unless it was reset elsewhere: of two resets the later answer is
\* that of the later one.
SecretTrue ==
  /\ "replaced" \notin lost
  /\ page = "webdav" /\ "left" \notin disturbed => "unheard" \notin lost
  /\ page = "webdav" /\ kept # None /\ disturbed = {} => kept = inForce

\* When nothing is under way, an entry is enabled or disabled as the last
\* successful click on its row asked: clicks are not carried out out of order.
LastClickHolds ==
  requests = {} /\ disturbed = {} =>
    \A e \in Entries : wanted[e] # None /\ server[e] # "gone" => server[e] = wanted[e]

\* When nothing is under way a list shows the entries there are, after
\* requests of a page left meanwhile and failed cleanups, too.  (The state is
\* well typed all along.)
ListTrue ==
  /\ ListTypeOK
  /\ requests = {} /\ ~reading /\ disturbed \subseteq {"left"} => cache = server
=============================================================================
