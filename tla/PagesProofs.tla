---------------------------- MODULE PagesProofs ----------------------------
(***************************************************************************)
(* Proofs about the pages of Pages, for any entries, images, files and     *)
(* sizes and any bounds.  Each page has an inductive invariant of its own: *)
(*                                                                         *)
(* ListInv says which requests may be under way on which page, who is told *)
(* their answers, and what the list, the last click on a row and the       *)
(* secret shown have to do with them.                                      *)
(*                                                                         *)
(* PlacesInv says that the counter of the anonymous page counts the        *)
(* uploads under way, an image whose outcome is known being told from one  *)
(* that is sent, and that the queue holds images that wait, once each.     *)
(*                                                                         *)
(* PreviewInv says that every read that was not aborted is one of the file *)
(* shown; that an index finds its entry again is a fact about finite sets. *)
(***************************************************************************)
EXTENDS Pages, FiniteSetTheorems, SequenceTheorems, TLAPS

(* Lists of entries.                                                       *)

\* The requests for a secret whose answer somebody waits for.
Heard == {q \in requests : q.kind \in {"create", "reset"} /\ q.keeper # "none"}

\* Which page sends what, and who is told the answer.
RequestsInv ==
  \A q \in requests :
    /\ q.keeper = "dialog" => q.kind \in {"restore", "purge"}
    /\ q.keeper = "none" => "left" \in disturbed
    /\ q.kind = "reset" => page = "webdav"
    /\ q.kind = "create" => page # "webdav"
    /\ q.kind \in {"cleanup", "reconcile"} => page = "dashboard"
    /\ q.kind = "toggle" => page \in {"s3", "users", "sources"} /\ q.value \in {"on", "off"}

DialogInv ==
  dialog # None => /\ page \in Credentials => modal
                   /\ dialog.kind = "reset" => Heard = {}

\* One secret is asked for at a time, and only when none is shown.
SecretInv ==
  /\ "replaced" \notin lost
  /\ "unheard" \in lost => "left" \in disturbed
  /\ \A q, r \in Heard : q = r
  /\ page \in Credentials /\ Heard # {} => kept = None
  /\ page = "webdav" /\ disturbed = {} =>
       /\ kept # None => kept = inForce
       /\ \A q \in Heard : q.carried => inForce = q.secret

\* The request that will make an entry what the last click on it asked for.
Coming(e) ==
  \E q \in requests : q.kind = "toggle" /\ q.entry = e /\ ~q.carried /\ q.value = wanted[e]

ClickInv ==
  /\ \A q, r \in requests :
       q.kind = "toggle" /\ r.kind = "toggle" /\ q.keeper = "page" /\ r.keeper = "page" => q = r
  /\ \A e \in Entries : wanted[e] # None => page \in {"s3", "users", "sources"}
  /\ disturbed = {} =>
       /\ \A e \in Entries :
            wanted[e] # None /\ server[e] # "gone" => server[e] = wanted[e] \/ Coming(e)
       /\ \A q \in requests :
            q.kind = "toggle" /\ ~q.carried /\ q.entry \in Entries => wanted[q.entry] \in {None, q.value}

\* A list that is not true is being read, or about to be.
UnreadInv ==
  disturbed \subseteq {"left"} /\ ~reading /\ cache # server =>
    \E q \in requests : q.carried /\ q.kind # "revoke"

ListInv == ListTypeOK /\ RequestsInv /\ DialogInv /\ SecretInv /\ ClickInv /\ UnreadInv

LEMMA ListsStart == ListAssumption /\ ListInit => ListInv
<1> SUFFICES ASSUME ListAssumption, ListInit  PROVE ListInv
  OBVIOUS
<1>1. ListTypeOK
  <2>1. MaxSent[page] \in Nat /\ MaxVisits \in Nat
    BY DEF ListAssumption, ListInit
  <2>2. server \in [Entries -> {"on", "off", "gone"}] /\ wanted \in [Entries -> {"on", "off", None}]
    BY DEF ListInit
  <2>3. 0 \in 0..MaxSent[page] /\ 0 \in 0..MaxVisits
    BY <2>1
  <2> QED  BY <2>2, <2>3 DEF ListInit, ListTypeOK
<1>2. requests = {} /\ dialog = None /\ kept = None /\ lost = {} /\ cache = server
      /\ \A e \in Entries : wanted[e] = None
  BY DEF ListInit
<1> QED
  BY <1>1, <1>2 DEF ListInv, RequestsInv, DialogInv, SecretInv, ClickInv, UnreadInv, Heard

(* A step that sends, carries out and answers nothing.                     *)
LEMMA ListFrame ==
  ASSUME ListInv, ListTypeOK', DialogInv',
         UNCHANGED <<page, server, inForce, requests, wanted, disturbed, lost>>,
         kept' \in {kept, None},
         reading' \/ cache' = server \/ (reading' = reading /\ cache' = cache)
  PROVE  ListInv'
<1> USE DEF ListInv, Heard
<1>1. RequestsInv'
  BY DEF RequestsInv
<1>2. SecretInv'
  BY DEF SecretInv
<1>3. ClickInv'
  BY DEF ClickInv, Coming
<1>4. UnreadInv'
  BY DEF UnreadInv
<1> QED  BY <1>1, <1>2, <1>3, <1>4

(* What Send needs to keep the invariant, page by page.                    *)
Sendable(kind, e, value) ==
  /\ kind \in Kind /\ e \in Row /\ value \in {"on", "off", None}
  /\ kind = "reset" => page = "webdav"
  /\ kind = "create" => page # "webdav"
  /\ kind \in {"cleanup", "reconcile"} => page = "dashboard"
  /\ kind \in {"create", "reset"} => Heard = {} /\ (page \in Credentials => kept = None)
  /\ kind = "toggle" => /\ page \in {"s3", "users", "sources"} /\ value \in {"on", "off"} /\ e \in Entries
                        /\ ~isPending({"toggle"})

LEMMA SendKeeps ==
  ASSUME ListAssumption, ListInv, NEW kind, NEW e, NEW value,
         Sendable(kind, e, value), Send(kind, e, value),
         wanted' = IF kind = "toggle" THEN [wanted EXCEPT ![e] = value] ELSE wanted,
         dialog' \in {dialog, None},
         kind \in {"create", "reset"} => dialog' = None \/ dialog.kind # "reset",
         UNCHANGED <<page, server, cache, reading, modal, kept, inForce, visits, disturbed, lost>>
  PROVE  ListInv'
<1> DEFINE new == [kind |-> kind, entry |-> e, value |-> value, keeper |-> Holder(kind),
                   carried |-> FALSE, secret |-> sent + 1]
<1> USE DEF ListInv
<1>1. /\ requests' = requests \cup {new} /\ sent' = sent + 1 /\ sent' \in 1..MaxSent[page]
  BY DEF Send, ListTypeOK, ListAssumption
<1>2. /\ new.kind = kind /\ new.entry = e /\ new.value = value /\ new.keeper = Holder(kind) /\ ~new.carried
      /\ new \in [kind : Kind, entry : Row, value : {"on", "off", None}, keeper : {"dialog", "page", "none"},
                  carried : BOOLEAN, secret : 1..MaxSent[page]]
      /\ Holder(kind) # "none" /\ (Holder(kind) = "dialog" => kind \in {"restore", "purge"})
  BY <1>1 DEF Sendable, Holder
<1> HIDE DEF new
<1>3. ListTypeOK'
  <2>1. wanted' \in [Entries -> {"on", "off", None}]
    BY DEF ListTypeOK, Sendable
  <2>2. sent' \in 0..MaxSent[page]
    BY <1>1, <1>2 DEF ListTypeOK, ListAssumption
  <2> QED  BY <1>1, <1>2, <2>1, <2>2 DEF ListTypeOK
<1>4. RequestsInv'
  BY <1>1, <1>2 DEF RequestsInv, Sendable
<1>5. Heard' = IF kind \in {"create", "reset"} THEN Heard \cup {new} ELSE Heard
  BY <1>1, <1>2 DEF Heard
<1>6. DialogInv'
  BY <1>5 DEF DialogInv
<1>7. SecretInv'
  BY <1>2, <1>5 DEF SecretInv, Sendable
<1>8. ClickInv'
  <2>1. ASSUME NEW q \in requests', NEW r \in requests',
               q.kind = "toggle", r.kind = "toggle", q.keeper = "page", r.keeper = "page"
        PROVE  q = r
    BY <1>1, <1>2, <2>1 DEF ClickInv, Sendable, isPending, Holder
  <2>2. ASSUME NEW x \in Entries, wanted'[x] # None  PROVE page' \in {"s3", "users", "sources"}
    BY <2>2 DEF ClickInv, Sendable, ListTypeOK
  <2>3. ASSUME disturbed' = {}, NEW x \in Entries, wanted'[x] # None, server'[x] # "gone"
        PROVE  server'[x] = wanted'[x] \/ Coming(x)'
    <3>1. CASE kind = "toggle" /\ x = e
      <4>1. wanted'[x] = value
        BY <3>1 DEF ListTypeOK
      <4> QED  BY <1>1, <1>2, <3>1, <4>1 DEF Coming
    <3>2. CASE ~(kind = "toggle" /\ x = e)
      <4>1. wanted'[x] = wanted[x]
        BY <3>2 DEF ListTypeOK
      <4>2. server[x] = wanted[x] \/ Coming(x)
        BY <2>3, <4>1 DEF ClickInv
      <4> QED  BY <1>1, <4>1, <4>2 DEF Coming
    <3> QED  BY <3>1, <3>2
  <2>4. ASSUME disturbed' = {}, NEW q \in requests', q.kind = "toggle", ~q.carried, q.entry \in Entries
        PROVE  wanted'[q.entry] \in {None, q.value}
    <3>1. CASE q = new
      BY <1>2, <2>4, <3>1 DEF ListTypeOK
    <3>2. CASE q # new
      <4>1. q \in requests /\ q.keeper = "page"
        BY <1>1, <2>4, <3>2 DEF RequestsInv, ListTypeOK
      <4>2. kind # "toggle"
        BY <2>4, <4>1 DEF Sendable, isPending, Holder
      <4> QED  BY <2>4, <4>1, <4>2 DEF ClickInv
    <3> QED  BY <3>1, <3>2
  <2> QED  BY <2>1, <2>2, <2>3, <2>4 DEF ClickInv
<1>9. UnreadInv'
  BY <1>1 DEF UnreadInv
<1> QED  BY <1>3, <1>4, <1>6, <1>7, <1>8, <1>9

(* Nobody waits any more for the answers of the requests under way.        *)
LEMMA LeftKeeps ==
  ASSUME ListInv, requests' = Unheard(requests),
         disturbed' = disturbed \cup {"left"} \/ (requests = {} /\ disturbed' = disturbed),
         dialog' = None, modal' \in BOOLEAN, kept' = None \/ (kept' = kept /\ modal /\ page \in Credentials),
         UNCHANGED <<page, server, cache, inForce, sent, wanted, lost>>,
         reading' = TRUE \/ reading' = reading, visits' \in 0..MaxVisits
  PROVE  ListInv'
<1> USE DEF ListInv
<1>1. \A q \in requests' : \E r \in requests : q = [r EXCEPT !.keeper = "none"]
  BY DEF Unheard
<1>2. \A q \in requests' :
        /\ q.keeper = "none"
        /\ \E r \in requests : /\ q.kind = r.kind /\ q.entry = r.entry /\ q.value = r.value
                               /\ q.carried = r.carried /\ q.secret = r.secret
        /\ q \in [kind : Kind, entry : Row, value : {"on", "off", None}, keeper : {"dialog", "page", "none"},
                  carried : BOOLEAN, secret : 1..MaxSent[page]]
  BY <1>1 DEF ListTypeOK
<1>3. requests = {} <=> requests' = {}
  BY DEF Unheard
<1>4. ListTypeOK'
  <2>1. kept' \in 1..MaxSent[page] \cup {None} /\ disturbed' \subseteq {"others", "lost", "left"}
        /\ reading' \in BOOLEAN
    BY DEF ListTypeOK
  <2> QED  BY <1>2, <2>1 DEF ListTypeOK
<1>5. RequestsInv'
  BY <1>2, <1>3 DEF RequestsInv
<1>6. Heard' = {}
  BY <1>2 DEF Heard
<1>7. DialogInv'
  BY DEF DialogInv
<1>8. SecretInv'
  <2>1. disturbed' = {} => disturbed = {}
    OBVIOUS
  <2>2. "unheard" \in lost' => "left" \in disturbed'
    BY DEF SecretInv
  <2> QED  BY <1>6, <2>1, <2>2 DEF SecretInv
<1>9. ClickInv'
  <2>1. disturbed' = {} => disturbed = {} /\ requests = {} /\ requests' = {}
    BY <1>3
  <2>2. \A q \in requests' : q.keeper # "page"
    BY <1>2
  <2> QED  BY <2>1, <2>2 DEF ClickInv, Coming
<1>10. UnreadInv'
  <2> SUFFICES ASSUME disturbed' \subseteq {"left"}, ~reading', cache' # server'
               PROVE  \E q \in requests' : q.carried /\ q.kind # "revoke"
    BY DEF UnreadInv
  <2>1. PICK q \in requests : q.carried /\ q.kind # "revoke"
    BY DEF UnreadInv
  <2>2. [q EXCEPT !.keeper = "none"] \in requests'
    BY DEF Unheard
  <2>3. [q EXCEPT !.keeper = "none"].carried /\ [q EXCEPT !.keeper = "none"].kind # "revoke"
    BY <2>1 DEF ListTypeOK
  <2> QED  BY <2>2, <2>3
<1> QED  BY <1>4, <1>5, <1>7, <1>8, <1>9, <1>10

(* The mutation of a trash dialog that is cancelled is the page's.         *)
LEMMA CancelKeeps == ASSUME ListInv, cancel, page' = page  PROVE ListInv'
<1> DEFINE R(q) == IF q.keeper = "dialog" THEN [q EXCEPT !.keeper = "page"] ELSE q
<1> USE DEF ListInv
<1>1. /\ requests' = {R(q) : q \in requests} /\ dialog' = None
      /\ UNCHANGED <<server, cache, reading, modal, kept, inForce, sent, visits, wanted, disturbed, lost>>
  BY DEF cancel, ghosts
<1>2. ASSUME NEW q \in requests
      PROVE  /\ R(q).kind = q.kind /\ R(q).entry = q.entry /\ R(q).value = q.value
             /\ R(q).carried = q.carried /\ R(q).secret = q.secret /\ R(q).keeper # "dialog"
             /\ R(q).keeper = "none" => q.keeper = "none"
             /\ q.kind \notin {"restore", "purge"} => R(q) = q
             /\ R(q) \in [kind : Kind, entry : Row, value : {"on", "off", None},
                          keeper : {"dialog", "page", "none"}, carried : BOOLEAN, secret : 1..MaxSent[page]]
  BY <1>2 DEF ListTypeOK, RequestsInv
<1> HIDE DEF R
<1>3. \A q \in requests' : q.kind \notin {"restore", "purge"} => q \in requests
  BY <1>1, <1>2
<1>4. \A q \in requests : q.kind \notin {"restore", "purge"} => q \in requests'
  BY <1>1, <1>2
<1>5. Heard' = Heard
  BY <1>3, <1>4 DEF Heard
<1>6. ListTypeOK'
  BY <1>1, <1>2 DEF ListTypeOK
<1>7. RequestsInv'
  <2>1. \A q \in requests' : q.keeper # "dialog" /\ (q.keeper = "none" => "left" \in disturbed)
    BY <1>1, <1>2 DEF RequestsInv
  <2> QED  BY <1>1, <1>3, <2>1 DEF RequestsInv
<1>8. DialogInv' /\ SecretInv'
  BY <1>1, <1>5 DEF DialogInv, SecretInv
<1>9. ClickInv'
  <2>1. \A e \in Entries : Coming(e) => Coming(e)'
    BY <1>1, <1>4 DEF Coming
  <2> QED  BY <1>1, <1>3, <2>1 DEF ClickInv
<1>10. UnreadInv'
  BY <1>1, <1>2 DEF UnreadInv
<1> QED  BY <1>6, <1>7, <1>8, <1>9, <1>10

LEMMA OthersKeep == ASSUME ListAssumption, ListInv, others, page' = page  PROVE ListInv'
<1> USE DEF ListInv
<1>1. /\ server' \in [Entries -> {"on", "off", "gone"}] /\ inForce' = 0
      /\ disturbed' = disturbed \cup {"others"}
      /\ UNCHANGED <<cache, reading, dialog, modal, kept, requests, sent, visits, wanted, lost>>
  BY DEF others, ListTypeOK
<1>2. ListTypeOK'
  <2>1. 0 \in 0..MaxSent[page]
    BY DEF ListAssumption, ListTypeOK
  <2> QED  BY <1>1, <2>1 DEF ListTypeOK
<1> QED  BY <1>1, <1>2 DEF RequestsInv, DialogInv, SecretInv, ClickInv, UnreadInv, Heard

(* The server carries a request out: the token in force is that of the     *)
(* request, and a switch does what the last click on the row asked for.    *)
LEMMA CarriedTypes ==
  ASSUME ListInv, NEW q \in requests, Carries(q)
  PROVE  server' \in [Entries -> {"on", "off", "gone"}]
<1>1. /\ server \in [Entries -> {"on", "off", "gone"}] /\ q.kind \in Kind
      /\ q.kind = "toggle" => q.value \in {"on", "off"}
  BY DEF ListInv, ListTypeOK, RequestsInv
<1>2. CASE q.kind \in Removing
  BY <1>1, <1>2 DEF Carries, Removing
<1>3. CASE q.kind = "toggle"
  BY <1>1, <1>3 DEF Carries, Removing
<1>4. CASE q.kind = "create"
  <2>1. \E e \in Entries : server' = [server EXCEPT ![e] = "on"]
    BY <1>4 DEF Carries, Removing
  <2> QED  BY <1>1, <2>1
<1>5. CASE q.kind = "upload"
  <2>1. \E new \in SUBSET {e \in Entries : Vacant(e)} :
          server' = [e \in Entries |-> IF e \in new THEN "on" ELSE server[e]]
    BY <1>5 DEF Carries, Removing
  <2> QED  BY <1>1, <2>1
<1>6. CASE q.kind \in {"reset", "reconcile"}
  BY <1>1, <1>6 DEF Carries, Removing
<1>7. CASE q.kind = "cleanup"
  <2>1. \E done \in SUBSET Entries :
          server' = [e \in Entries |-> IF e \in done THEN "on" ELSE server[e]]
    BY <1>7 DEF Carries, Removing
  <2> QED  BY <1>1, <2>1
<1>8. CASE q.kind \notin Removing \cup {"toggle", "create", "upload", "reset", "reconcile", "cleanup"}
  BY <1>1, <1>8 DEF Carries, Removing
<1> QED  BY <1>2, <1>3, <1>4, <1>5, <1>6, <1>7, <1>8

\* What becomes of an entry that was there.
LEMMA CarriedEntry ==
  ASSUME ListInv, NEW q \in requests, Carries(q), NEW e \in Entries, server[e] # "gone"
  PROVE  \/ server'[e] \in {server[e], "gone"}
         \/ q.kind = "toggle" /\ q.entry = e /\ server'[e] = q.value
         \/ q.kind \in {"reset", "reconcile", "cleanup"}
<1>1. server \in [Entries -> {"on", "off", "gone"}]
  BY DEF ListInv, ListTypeOK
<1>2. CASE q.kind \in Removing
  BY <1>1, <1>2 DEF Carries, Removing
<1>3. CASE q.kind = "toggle"
  BY <1>1, <1>3 DEF Carries, Removing
<1>4. CASE q.kind = "create"
  <2>1. \E x \in Entries : server[x] = "gone" /\ server' = [server EXCEPT ![x] = "on"]
    BY <1>4 DEF Carries, Removing, Vacant
  <2> QED  BY <1>1, <2>1
<1>5. CASE q.kind = "upload"
  <2>1. \E new \in SUBSET {x \in Entries : server[x] = "gone"} :
          server' = [x \in Entries |-> IF x \in new THEN "on" ELSE server[x]]
    BY <1>5 DEF Carries, Removing, Vacant
  <2> QED  BY <1>1, <2>1
<1>6. CASE q.kind \notin Removing \cup {"toggle", "create", "upload", "reset", "reconcile", "cleanup"}
  BY <1>1, <1>6 DEF Carries, Removing
<1> QED  BY <1>2, <1>3, <1>4, <1>5, <1>6

LEMMA CarryKeeps ==
  ASSUME ListAssumption, ListInv, NEW q \in requests, carryOut(q), page' = page
  PROVE  ListInv'
<1> DEFINE done == [q EXCEPT !.carried = TRUE]
<1> USE DEF ListInv
<1>1. /\ ~q.carried /\ Carries(q)
      /\ requests' = (requests \ {q}) \cup {done}
      /\ inForce' = IF q.kind = "reset" THEN q.secret ELSE inForce
      /\ wanted' = [e \in Entries |-> IF server[e] = "gone" THEN None ELSE wanted[e]]
      /\ UNCHANGED <<cache, reading, dialog, modal, kept, sent, visits, disturbed, lost>>
  BY DEF carryOut
<1>2. /\ done.kind = q.kind /\ done.entry = q.entry /\ done.value = q.value /\ done.keeper = q.keeper
      /\ done.carried /\ done.secret = q.secret
      /\ done \in [kind : Kind, entry : Row, value : {"on", "off", None}, keeper : {"dialog", "page", "none"},
                   carried : BOOLEAN, secret : 1..MaxSent[page]]
  BY DEF ListTypeOK
<1> HIDE DEF done
<1>3. server' \in [Entries -> {"on", "off", "gone"}]
  BY <1>1, CarriedTypes
<1>4. ListTypeOK'
  <2>1. wanted' \in [Entries -> {"on", "off", None}]
    BY <1>1 DEF ListTypeOK
  <2>2. inForce' \in 0..MaxSent[page]
    <3>1. q.secret \in 0..MaxSent[page]
      BY DEF ListTypeOK, ListAssumption
    <3> QED  BY <1>1, <3>1 DEF ListTypeOK
  <2> QED  BY <1>1, <1>2, <1>3, <2>1, <2>2 DEF ListTypeOK
<1>5. RequestsInv'
  BY <1>1, <1>2 DEF RequestsInv
<1>6. Heard' = IF q \in Heard THEN (Heard \ {q}) \cup {done} ELSE Heard
  BY <1>1, <1>2 DEF Heard
<1>7. DialogInv'
  BY <1>1, <1>6 DEF DialogInv
<1>8. SecretInv'
  <2>1. \A r, s \in Heard' : r = s
    BY <1>6 DEF SecretInv
  <2>2. page' \in Credentials /\ Heard' # {} => kept' = None
    BY <1>1, <1>6 DEF SecretInv
  <2>3. ASSUME page' = "webdav", disturbed' = {}
        PROVE  (kept' # None => kept' = inForce') /\ (\A r \in Heard' : r.carried => inForce' = r.secret)
    <3>1. disturbed = {} /\ page = "webdav" /\ page \in Credentials
      BY <1>1, <2>3 DEF Credentials
    <3>2. q.kind = "reset" => q \in Heard
      BY <3>1 DEF RequestsInv, Heard
    <3>3. CASE q \in Heard
      <4>1. q.kind = "reset" /\ kept' = None /\ Heard' = {done}
        BY <1>1, <1>6, <2>2, <3>1, <3>3 DEF RequestsInv, Heard, SecretInv
      <4> QED  BY <1>1, <1>2, <4>1
    <3>4. CASE q \notin Heard
      BY <1>1, <1>6, <3>1, <3>2, <3>4 DEF SecretInv
    <3> QED  BY <3>3, <3>4
  <2> QED  BY <1>1, <2>1, <2>2, <2>3 DEF SecretInv
<1>9. ClickInv'
  <2>1. ASSUME NEW r \in requests', NEW s \in requests',
               r.kind = "toggle", s.kind = "toggle", r.keeper = "page", s.keeper = "page"
        PROVE  r = s
    BY <1>1, <1>2, <2>1 DEF ClickInv
  <2>2. ASSUME NEW e \in Entries, wanted'[e] # None  PROVE page' \in {"s3", "users", "sources"}
    BY <1>1, <2>2 DEF ClickInv
  <2>3. ASSUME disturbed' = {}, NEW e \in Entries, wanted'[e] # None, server'[e] # "gone"
        PROVE  server'[e] = wanted'[e] \/ Coming(e)'
    <3>1. server[e] # "gone" /\ wanted'[e] = wanted[e] /\ disturbed = {}
      BY <1>1, <2>3
    <3>2. server[e] = wanted[e] \/ Coming(e)
      BY <2>3, <3>1 DEF ClickInv
    <3>3. page \notin {"webdav", "dashboard"} /\ q.kind \notin {"reset", "reconcile", "cleanup"}
      BY <2>2, <2>3 DEF RequestsInv
    <3>4. CASE q.kind = "toggle" /\ q.entry = e /\ server'[e] = q.value
      BY <1>1, <3>1, <3>4, <2>3 DEF ClickInv
    <3>5. CASE ~(q.kind = "toggle" /\ q.entry = e) /\ server'[e] = server[e]
      <4>1. CASE server[e] = wanted[e]
        BY <3>1, <3>5, <4>1
      <4>2. CASE Coming(e)
        BY <1>1, <3>1, <3>5, <4>2 DEF Coming
      <4> QED  BY <3>2, <4>1, <4>2
    <3>6. \/ server'[e] = server[e]
          \/ q.kind = "toggle" /\ q.entry = e /\ server'[e] = q.value
      BY <1>1, <2>3, <3>1, <3>3, CarriedEntry
    <3>7. q.kind = "toggle" /\ q.entry = e => server'[e] = q.value
      BY <1>1 DEF Carries, Removing, ListTypeOK
    <3> QED  BY <3>4, <3>5, <3>6, <3>7
  <2>4. ASSUME disturbed' = {}, NEW r \in requests', r.kind = "toggle", ~r.carried, r.entry \in Entries
        PROVE  wanted'[r.entry] \in {None, r.value}
    BY <1>1, <1>2, <2>4 DEF ClickInv
  <2> QED  BY <2>1, <2>2, <2>3, <2>4 DEF ClickInv
<1>10. UnreadInv'
  <2> SUFFICES ASSUME disturbed' \subseteq {"left"}, ~reading', cache' # server'
               PROVE  \E r \in requests' : r.carried /\ r.kind # "revoke"
    BY DEF UnreadInv
  <2>1. CASE q.kind = "revoke"
    <3>1. server' = server
      BY <1>1, <2>1 DEF Carries, Removing
    <3> QED  BY <1>1, <3>1 DEF UnreadInv
  <2>2. CASE q.kind # "revoke"
    BY <1>1, <1>2, <2>2
  <2> QED  BY <2>1, <2>2
<1> QED  BY <1>4, <1>5, <1>7, <1>8, <1>9, <1>10

(* An answer: the request is no longer under way.                          *)
LEMMA AnswerKeeps ==
  ASSUME ListInv, NEW q \in requests, requests' = requests \ {q}, page' = page,
         dialog' \in {dialog, None}, reading' \in BOOLEAN, reading => reading',
         UNCHANGED <<server, cache, modal, inForce, sent, visits>>,
         q.carried /\ q.kind # "revoke" => reading' \/ "lost" \in disturbed',
         \/ UNCHANGED <<wanted, disturbed>> /\ q.carried
         \/ UNCHANGED <<wanted, disturbed>> /\ q.kind # "toggle"
         \/ /\ q.kind = "toggle" /\ wanted' = [wanted EXCEPT ![q.entry] = None]
            /\ disturbed' = IF q.carried THEN disturbed \cup {"lost"} ELSE disturbed
         \/ UNCHANGED wanted /\ disturbed' = disturbed \cup {"lost"},
         \/ UNCHANGED <<kept, lost>>
         \/ /\ page \in Credentials /\ q.kind \in {"create", "reset"} /\ q.keeper # "none" /\ q.carried
            /\ kept' = q.secret /\ lost' = lost \cup (IF kept # None THEN {"replaced"} ELSE {})
         \/ q.keeper = "none" /\ kept' = kept /\ lost' = lost \cup {"unheard"}
  PROVE  ListInv'
<1> USE DEF ListInv
<1>0. /\ q \in [kind : Kind, entry : Row, value : {"on", "off", None}, keeper : {"dialog", "page", "none"},
                carried : BOOLEAN, secret : 1..MaxSent[page]]
      /\ disturbed \subseteq disturbed' /\ disturbed' \subseteq disturbed \cup {"lost"}
  BY DEF ListTypeOK
<1>1. Heard' \subseteq Heard /\ (q \in Heard => Heard' = {})
  BY DEF Heard, SecretInv
<1>2. ListTypeOK'
  <2>1. wanted' \in [Entries -> {"on", "off", None}]
    BY DEF ListTypeOK
  <2>2. kept' \in 1..MaxSent[page] \cup {None} /\ lost' \subseteq {"replaced", "unheard"}
    BY <1>0 DEF ListTypeOK
  <2> QED  BY <1>0, <2>1, <2>2 DEF ListTypeOK
<1>3. RequestsInv'
  BY <1>0 DEF RequestsInv
<1>4. DialogInv'
  BY <1>1 DEF DialogInv
<1>5. SecretInv'
  <2>1. CASE UNCHANGED <<kept, lost>>
    BY <1>0, <1>1, <2>1 DEF SecretInv
  <2>2. CASE /\ page \in Credentials /\ q.kind \in {"create", "reset"} /\ q.keeper # "none" /\ q.carried
             /\ kept' = q.secret /\ lost' = lost \cup (IF kept # None THEN {"replaced"} ELSE {})
    <3>1. q \in Heard /\ kept = None /\ Heard' = {} /\ lost' = lost
      BY <1>1, <2>2 DEF Heard, SecretInv
    <3> QED  BY <1>0, <2>2, <3>1 DEF SecretInv
  <2>3. CASE q.keeper = "none" /\ kept' = kept /\ lost' = lost \cup {"unheard"}
    BY <1>0, <1>1, <2>3 DEF SecretInv, RequestsInv
  <2> QED  BY <2>1, <2>2, <2>3
<1>6. ClickInv'
  <2>1. ASSUME NEW e \in Entries, wanted'[e] # None
        PROVE  wanted'[e] = wanted[e] /\ page' \in {"s3", "users", "sources"}
    BY <2>1 DEF ClickInv, ListTypeOK
  <2>2. ASSUME disturbed' = {}, NEW e \in Entries, wanted'[e] # None, server'[e] # "gone"
        PROVE  server'[e] = wanted'[e] \/ Coming(e)'
    <3>1. disturbed = {} /\ (server[e] = wanted[e] \/ Coming(e)) /\ wanted'[e] = wanted[e]
      BY <1>0, <2>1, <2>2 DEF ClickInv
    <3>2. q.kind = "toggle" /\ ~q.carried => q.entry # e
      BY <2>2 DEF ListTypeOK
    <3> QED  BY <3>1, <3>2 DEF Coming
  <2>3. ASSUME disturbed' = {}, NEW r \in requests', r.kind = "toggle", ~r.carried, r.entry \in Entries
        PROVE  wanted'[r.entry] \in {None, r.value}
    BY <1>0, <2>1, <2>3 DEF ClickInv
  <2> QED  BY <2>1, <2>2, <2>3 DEF ClickInv
<1>7. UnreadInv'
  BY <1>0 DEF UnreadInv
<1> QED  BY <1>2, <1>3, <1>4, <1>5, <1>6, <1>7

LEMMA OpenKeeps ==
  ASSUME ListInv, page' = page, NEW kind \in Kind, NEW e \in Row, Open(kind, e),
         kind = "reset" => Heard = {}
  PROVE  ListInv'
<1>1. /\ dialog' = [kind |-> kind, entry |-> e] /\ (page \in Credentials => modal)
      /\ UNCHANGED <<server, cache, reading, modal, kept, inForce, requests, sent, visits, wanted, disturbed, lost>>
  BY DEF Open, Free, ghosts
<1>2. ListTypeOK'
  BY <1>1 DEF ListInv, ListTypeOK
<1>3. DialogInv'
  BY <1>1 DEF DialogInv, Heard
<1> QED  BY <1>1, <1>2, <1>3, ListFrame

\* A confirmation sends what its dialog is about.
LEMMA ConfirmKeeps ==
  ASSUME ListAssumption, ListInv, page' = page, NEW kind \in Kind, Confirm(kind),
         kind \notin {"reset", "toggle", "cleanup", "reconcile"}, kind = "create" => page # "webdav"
  PROVE  ListInv'
<1>1. /\ dialog # None /\ dialog.kind = kind /\ ~showing /\ ~isPending({kind})
      /\ Send(kind, dialog.entry, None)
      /\ UNCHANGED <<server, cache, reading, dialog, modal, kept, inForce, visits, wanted, disturbed, lost>>
  BY DEF Confirm, ghosts
<1>2. dialog.entry \in Row
  BY <1>1 DEF ListInv, ListTypeOK
<1>3. ASSUME kind = "create"  PROVE Heard = {} /\ (page \in Credentials => kept = None)
  <2>1. \A q \in Heard : q.kind = "create" /\ q.keeper = "page"
    BY <1>3 DEF ListInv, RequestsInv, ListTypeOK, Heard
  <2>2. Heard = {}
    BY <1>1, <1>3, <2>1 DEF isPending, Holder, Heard
  <2>3. page \in Credentials => modal
    BY <1>1 DEF ListInv, DialogInv
  <2> QED  BY <1>1, <2>2, <2>3 DEF showing
<1>4. Sendable(kind, dialog.entry, None)
  BY <1>2, <1>3 DEF Sendable
<1> QED  BY <1>1, <1>4, SendKeeps

LEMMA NowKeeps ==
  ASSUME ListAssumption, ListInv, page' = page, NEW kind, NEW e, NEW value, Now(kind, e, value),
         kind \in {"create", "reset"} => Heard = {},
         kind \in Kind, e \in Row, value \in {"on", "off", None},
         kind = "reset" => page = "webdav", kind # "create",
         kind \in {"cleanup", "reconcile"} => page = "dashboard",
         kind = "toggle" => /\ page \in {"s3", "users", "sources"} /\ value \in {"on", "off"} /\ e \in Entries
                            /\ ~isPending({"toggle"}),
         wanted' = IF kind = "toggle" THEN [wanted EXCEPT ![e] = value] ELSE wanted
  PROVE  ListInv'
<1>1. /\ dialog = None /\ (page \in Credentials => kept = None)
      /\ Send(kind, e, value)
      /\ UNCHANGED <<server, cache, reading, dialog, modal, kept, inForce, visits, disturbed, lost>>
  BY DEF Now, Free, showing
<1>2. Sendable(kind, e, value)
  BY <1>1 DEF Sendable
<1> QED  BY <1>1, <1>2, SendKeeps

LEMMA NotPending ==
  ASSUME ListInv, page = "webdav", ~isPending({"reset"})
  PROVE  Heard = {}
<1>1. \A q \in Heard : q.kind = "reset" /\ q.keeper = "page"
  BY DEF ListInv, RequestsInv, ListTypeOK, Heard
<1> QED  BY <1>1 DEF isPending, Holder, Heard

LEMMA ResetKeeps == ASSUME ListAssumption, ListInv, page' = page, TokenBlock  PROVE ListInv'
<1> DEFINE token == CHOOSE e \in Entries : TRUE
<1>1. page = "webdav" /\ reset /\ token \in Entries /\ token \in Row /\ "reset" \in Kind
  BY DEF TokenBlock, ListAssumption, Row, Kind
<1>2. CASE ~isPending({"reset"}) /\ Open("reset", token)
  BY <1>1, <1>2, NotPending, OpenKeeps
<1>3. CASE ~isPending({"reset"}) /\ Now("reset", token, None) /\ UNCHANGED wanted
  <2> HIDE DEF token
  <2> QED  BY <1>1, <1>3, NotPending, NowKeeps
<1>4. CASE /\ dialog # None /\ dialog.kind = "reset" /\ ~showing
           /\ Send("reset", dialog.entry, None) /\ dialog' = None
           /\ UNCHANGED <<server, cache, reading, modal, kept, inForce, visits, ghosts>>
  <2>1. Heard = {} /\ modal /\ dialog.entry \in Row
    BY <1>1, <1>4 DEF ListInv, DialogInv, ListTypeOK, Credentials
  <2>2. Sendable("reset", dialog.entry, None)
    BY <1>1, <1>4, <2>1 DEF Sendable, showing
  <2> QED  BY <1>4, <2>2, SendKeeps DEF ghosts
<1> QED  BY <1>1, <1>2, <1>3, <1>4 DEF reset

\* What the pages' buttons and dialogs do.
LEMMA PagesKeep ==
  ASSUME ListAssumption, ListInv, page' = page,
         \/ ImageBedTokenManager \/ S3CredentialManager \/ UsersSection \/ PoliciesSection
         \/ SourcesSection \/ RestoreDialog \/ PurgeDialog \/ SharesPage \/ FavoritesPage
         \/ ImageBedPage \/ DashboardSection
  PROVE  ListInv'
<1>0. {"create", "toggle", "delete", "revoke", "restore", "purge", "remove", "upload", "integrity",
       "cleanup", "reconcile"} \subseteq Kind /\ None \in Row /\ Entries \subseteq Row
  BY DEF Kind, Row
<1>1. ASSUME NEW kind \in {"delete", "revoke", "restore", "purge"}, Ask(kind) \/ Confirm(kind)  PROVE ListInv'
  <2>1. ASSUME Ask(kind)  PROVE ListInv'
    <3>1. PICK e \in Entries : Open(kind, e)
      BY <2>1 DEF Ask
    <3> QED  BY <1>0, <3>1, OpenKeeps
  <2>2. ASSUME Confirm(kind)  PROVE ListInv'
    BY <1>0, <2>2, ConfirmKeeps
  <2> QED  BY <1>1, <2>1, <2>2
<1>2. ASSUME create, page # "webdav"  PROVE ListInv'
  <2>1. Open("create", None) \/ Confirm("create")
    BY <1>2 DEF create
  <2> QED  BY <1>0, <1>2, <2>1, OpenKeeps, ConfirmKeeps
<1>3. ASSUME toggle, page \in {"s3", "users", "sources"}  PROVE ListInv'
  <2>1. PICK e \in Entries, value \in {"on", "off"} :
          ~isPending({"toggle"}) /\ Now("toggle", e, value) /\ wanted' = [wanted EXCEPT ![e] = value]
    BY <1>3 DEF toggle
  <2> QED  BY <1>0, <1>3, <2>1, NowKeeps
<1>4. ASSUME remove \/ upload  PROVE ListInv'
  <2>1. PICK kind \in {"remove", "upload"}, e \in Row : Now(kind, e, None) /\ UNCHANGED wanted
    BY <1>0, <1>4 DEF remove, upload
  <2> QED  BY <1>0, <2>1, NowKeeps
<1>5. ASSUME maintain, page = "dashboard"  PROVE ListInv'
  <2>1. PICK kind \in Maintenance, e \in Entries : Now(kind, e, None) /\ UNCHANGED wanted
    BY <1>5 DEF maintain
  <2> QED  BY <1>0, <1>5, <2>1, NowKeeps DEF Maintenance
<1> QED
  BY <1>1, <1>2, <1>3, <1>4, <1>5
  DEF ImageBedTokenManager, S3CredentialManager, UsersSection, PoliciesSection, SourcesSection, RestoreDialog,
      PurgeDialog, SharesPage, FavoritesPage, ImageBedPage, DashboardSection, delete

LEMMA WindowsKeep ==
  ASSUME ListAssumption, ListInv, page' = page,
         dismiss \/ openCredentialModal \/ closeCredentialModal \/ revisit \/ refetch \/ listRead
  PROVE  ListInv'
<1>0. ListTypeOK /\ DialogInv
  BY DEF ListInv
<1>1. CASE dismiss
  <2>1. /\ kept' = None
        /\ UNCHANGED <<server, cache, reading, dialog, modal, inForce, requests, sent, visits, wanted, disturbed, lost>>
    BY <1>1 DEF dismiss, ghosts
  <2>2. ListTypeOK' /\ DialogInv'
    BY <1>0, <2>1 DEF ListTypeOK, DialogInv, Heard
  <2> QED  BY <2>1, <2>2, ListFrame
<1>2. CASE openCredentialModal
  <2>1. /\ modal' = TRUE /\ reading' = (reading \/ page \in Managers)
        /\ UNCHANGED <<server, cache, dialog, kept, inForce, requests, sent, visits, wanted, disturbed, lost>>
    BY <1>2 DEF openCredentialModal, ghosts
  <2>2. ListTypeOK' /\ DialogInv'
    BY <1>0, <2>1 DEF ListTypeOK, DialogInv, Heard
  <2> QED  BY <1>0, <2>1, <2>2, ListFrame DEF ListTypeOK
<1>3. CASE closeCredentialModal
  <2>1. /\ dialog = None /\ modal /\ modal' = FALSE
        /\ UNCHANGED <<server, cache, reading, dialog, kept, inForce, sent, visits, wanted, lost>>
    BY <1>3 DEF closeCredentialModal, Free
  <2>2. CASE page \in Managers /\ requests # {}
    <3>1. requests' = Unheard(requests) /\ disturbed' = disturbed \cup {"left"} /\ visits' \in 0..MaxVisits
          /\ page \in Credentials
      BY <1>0, <1>3, <2>2 DEF closeCredentialModal, ListTypeOK, Credentials
    <3> QED  BY <2>1, <3>1, LeftKeeps
  <2>3. CASE ~(page \in Managers /\ requests # {})
    <3>1. UNCHANGED <<requests, disturbed>>
      BY <1>3, <2>3 DEF closeCredentialModal
    <3>2. ListTypeOK' /\ DialogInv'
      BY <1>0, <2>1, <3>1 DEF ListTypeOK, DialogInv
    <3> QED  BY <2>1, <3>1, <3>2, ListFrame
  <2> QED  BY <2>2, <2>3
<1>4. CASE revisit
  <2>1. visits' \in 0..MaxVisits
    BY <1>0, <1>4 DEF revisit, ListTypeOK, ListAssumption
  <2>2. /\ dialog' = None /\ modal' = FALSE /\ kept' = None /\ requests' = Unheard(requests) /\ reading' = TRUE
        /\ disturbed' = disturbed \cup {"left"} \/ (requests = {} /\ disturbed' = disturbed)
        /\ UNCHANGED <<server, cache, inForce, sent, wanted, lost>>
    BY <1>4 DEF revisit
  <2> QED  BY <2>1, <2>2, LeftKeeps
<1>5. CASE refetch
  <2>1. /\ reading' = TRUE
        /\ UNCHANGED <<server, cache, dialog, modal, kept, inForce, requests, sent, visits, wanted, disturbed, lost>>
    BY <1>5 DEF refetch, ghosts
  <2>2. ListTypeOK' /\ DialogInv'
    BY <1>0, <2>1 DEF ListTypeOK, DialogInv, Heard
  <2> QED  BY <2>1, <2>2, ListFrame
<1>6. CASE listRead
  <2>1. /\ reading' = FALSE /\ cache' = server
        /\ UNCHANGED <<server, dialog, modal, kept, inForce, requests, sent, visits, wanted, disturbed, lost>>
    BY <1>6 DEF listRead, ghosts
  <2>2. ListTypeOK' /\ DialogInv'
    BY <1>0, <2>1 DEF ListTypeOK, DialogInv, Heard
  <2> QED  BY <2>1, <2>2, ListFrame
<1> QED  BY <1>1, <1>2, <1>3, <1>4, <1>5, <1>6

LEMMA AnswersKeep ==
  ASSUME ListInv, page' = page, NEW q \in requests, removed(q) \/ changed(q) \/ created(q) \/ failed(q)
  PROVE  ListInv'
<1>0. reading \in BOOLEAN
  BY DEF ListInv, ListTypeOK
<1>1. CASE removed(q)
  <2>1. /\ requests' = requests \ {q} /\ dialog' \in {dialog, None} /\ q.carried
        /\ reading' = (reading \/ q.kind # "revoke")
        /\ UNCHANGED <<server, cache, modal, kept, inForce, sent, visits, wanted, disturbed, lost>>
    BY <1>1 DEF removed, Closed, ghosts
  <2>2. reading' \in BOOLEAN /\ (reading => reading') /\ (q.kind # "revoke" => reading')
    BY <1>0, <2>1
  <2> QED  BY <2>1, <2>2, AnswerKeeps
<1>2. CASE changed(q)
  <2>1. /\ requests' = requests \ {q} /\ q.carried /\ reading' = TRUE
        /\ UNCHANGED <<server, cache, dialog, modal, kept, inForce, sent, visits, wanted, disturbed, lost>>
    BY <1>2 DEF changed, ghosts
  <2> QED  BY <2>1, AnswerKeeps
<1>3. CASE created(q)
  <2>1. /\ requests' = requests \ {q} /\ dialog' \in {dialog, None} /\ reading' = TRUE
        /\ q.kind \in {"create", "reset"} /\ q.carried
        /\ UNCHANGED <<server, cache, modal, inForce, sent, visits, wanted, disturbed>>
    BY <1>3 DEF created, Closed
  <2>2. \/ UNCHANGED <<kept, lost>>
        \/ /\ page \in Credentials /\ q.keeper # "none"
           /\ kept' = q.secret /\ lost' = lost \cup (IF kept # None THEN {"replaced"} ELSE {})
        \/ q.keeper = "none" /\ kept' = kept /\ lost' = lost \cup {"unheard"}
    BY <1>3 DEF created, Reveal
  <2> QED  BY <2>1, <2>2, AnswerKeeps
<1>4. CASE failed(q)
  <2>1. /\ requests' = requests \ {q}
        /\ reading' = (reading \/ q.kind \in {"cleanup", "reconcile"})
        /\ wanted' = IF q.kind = "toggle" THEN [wanted EXCEPT ![q.entry] = None] ELSE wanted
        /\ disturbed' = IF q.carried /\ q.kind \notin {"cleanup", "reconcile"}
                        THEN disturbed \cup {"lost"} ELSE disturbed
        /\ UNCHANGED <<server, cache, dialog, modal, kept, inForce, sent, visits, lost>>
    BY <1>4 DEF failed
  <2>2. reading' \in BOOLEAN /\ (reading => reading')
        /\ (q.carried => reading' \/ "lost" \in disturbed')
    BY <1>0, <2>1
  <2>3. \/ UNCHANGED <<wanted, disturbed>> /\ q.kind # "toggle"
        \/ /\ q.kind = "toggle" /\ wanted' = [wanted EXCEPT ![q.entry] = None]
           /\ disturbed' = IF q.carried THEN disturbed \cup {"lost"} ELSE disturbed
        \/ UNCHANGED wanted /\ disturbed' = disturbed \cup {"lost"}
    BY <2>1
  <2> QED  BY <2>1, <2>2, <2>3, AnswerKeeps
<1> QED  BY <1>1, <1>2, <1>3, <1>4

LEMMA ListsKeep == ListAssumption /\ ListInv /\ [ListNext]_listVars => ListInv'
<1> SUFFICES ASSUME ListAssumption, ListInv, [ListNext]_listVars  PROVE ListInv'
  OBVIOUS
<1>1. CASE UNCHANGED listVars
  <2>1. UNCHANGED <<page, server, cache, reading, dialog, modal, kept, inForce, requests, sent, visits, wanted,
                    disturbed, lost>>
    BY <1>1 DEF listVars
  <2>2. ListTypeOK' /\ DialogInv'
    BY <2>1 DEF ListInv, ListTypeOK, DialogInv, Heard
  <2> QED  BY <2>1, <2>2, ListFrame
<1>2. CASE ListNext
  <2>1. page' = page
    BY <1>2 DEF ListNext
  <2>2. ASSUME NEW q \in requests, carryOut(q)  PROVE ListInv'
    BY <2>1, <2>2, CarryKeeps
  <2>3. ASSUME NEW q \in requests, removed(q) \/ changed(q) \/ created(q) \/ failed(q)  PROVE ListInv'
    BY <2>1, <2>3, AnswersKeep
  <2> QED
    BY <1>2, <2>2, <2>3, ResetKeeps, PagesKeep, WindowsKeep, CancelKeeps, OthersKeep DEF ListNext
<1> QED  BY <1>1, <1>2

LEMMA ListsTrue == ListInv => SecretTrue /\ LastClickHolds /\ ListTrue
<1> SUFFICES ASSUME ListInv  PROVE SecretTrue /\ LastClickHolds /\ ListTrue
  OBVIOUS
<1>1. SecretTrue
  BY DEF ListInv, SecretInv, SecretTrue
<1>2. LastClickHolds
  BY DEF ListInv, ClickInv, Coming, LastClickHolds
<1>3. ListTrue
  BY DEF ListInv, UnreadInv, ListTrue
<1> QED  BY <1>1, <1>2, <1>3
-----------------------------------------------------------------------------
(* The anonymous image page.                                               *)

\* q holds images that wait, once each.
Waits(items, q) ==
  /\ \A j, k \in 1..Len(q) : q[j] = q[k] => j = k
  /\ \A k \in 1..Len(q) : items[q[k]] = "queued"

Settled(items, S) == \A i \in S : items[i] \in {"success", "error"}

PlacesInv ==
  /\ UploadTypeOK
  /\ active = Cardinality(UnderWay)
  /\ Settled(item, settling)
  /\ Waits(item, queue)
  /\ queue # <<>> => active = MaxConcurrent
-----------------------------------------------------------------------------
(* The first b images of a queue without repetitions are b images.         *)
LEMMA Heads ==
  ASSUME NEW q \in Seq(Images), NEW b \in 0..Len(q),
         \A j, k \in 1..Len(q) : q[j] = q[k] => j = k
  PROVE  /\ IsFiniteSet({q[k] : k \in 1..b})
         /\ Cardinality({q[k] : k \in 1..b}) = b
<1> DEFINE f == [k \in 1..b |-> q[k]]
           T == {q[k] : k \in 1..b}
<1>1. f \in Bijection(1..b, T)
  BY DEF Bijection, Injection, IsInjective, Surjection
<1>2. IsFiniteSet(1..b) /\ Cardinality(1..b) = b
  BY FS_Interval
<1>3. ExistsBijection(1..b, T)
  BY <1>1 DEF ExistsBijection
<1> QED  BY <1>2, <1>3, FS_Bijection

(* What is left of a queue of images that wait once each is such a queue,  *)
(* and holds none of the first b.                                          *)
LEMMA Tails ==
  ASSUME NEW items, NEW q \in Seq(Images), NEW b \in 0..Len(q), Waits(items, q)
  PROVE  LET t == SubSeq(q, b + 1, Len(q)) IN
         /\ t \in Seq(Images) /\ (t # <<>> => b < Len(q))
         /\ Waits(items, t)
         /\ \A k \in 1..Len(t) : t[k] \notin {q[j] : j \in 1..b}
<1> DEFINE t == SubSeq(q, b + 1, Len(q))
<1>1. b + 1 \in Int /\ Len(q) \in Int /\ \A i \in b + 1..Len(q) : q[i] \in Images
  OBVIOUS
<1>2. /\ t \in Seq(Images)
      /\ Len(t) = IF b + 1 <= Len(q) THEN Len(q) - (b + 1) + 1 ELSE 0
      /\ \A i \in 1..Len(q) - (b + 1) + 1 : t[i] = q[b + 1 + i - 1]
  BY <1>1, SubSeqProperties
<1> HIDE DEF t
<1>3. Len(t) = Len(q) - b
  BY <1>2
<1>4. \A k \in 1..Len(t) : b + k \in 1..Len(q) /\ t[k] = q[b + k]
  BY <1>2, <1>3
<1>5. t # <<>> => b < Len(q)
  BY <1>2, <1>3
<1>6. Waits(items, t)
  BY <1>3, <1>4 DEF Waits
<1>7. ASSUME NEW k \in 1..Len(t), NEW j \in 1..b PROVE t[k] # q[j]
  <2>1. b + k \in 1..Len(q) /\ j \in 1..Len(q) /\ b + k # j /\ t[k] = q[b + k]
    BY <1>3, <1>4
  <2> QED  BY <2>1 DEF Waits
<1> QED  BY <1>2, <1>5, <1>6, <1>7 DEF t

(* pumpUploadQueue keeps the invariant when the count it is given is that  *)
(* of the uploads under way: it fills the free places from the queue.      *)
LEMMA PumpFills ==
  ASSUME UploadAssumption,
         NEW items \in [Images -> ItemState], NEW q \in Seq(Images),
         NEW S \in SUBSET Images, NEW n \in 0..MaxConcurrent,
         Waits(items, q), Settled(items, S),
         n = Cardinality({i \in Images : items[i] = "uploading"} \cup S),
         service' \in Service, open' \in BOOLEAN,
         settling' = S, pump(items, q, n)
  PROVE  PlacesInv'
<1> DEFINE b == Begun(q, n)
           T == {q[k] : k \in 1..b}
           U == {i \in Images : items[i] = "uploading"} \cup S
<1>1. b \in 0..Len(q) /\ n + b \in 0..MaxConcurrent /\ (b < Len(q) => n + b = MaxConcurrent)
  BY DEF Begun, UploadAssumption
<1>2. item' = [i \in Images |-> IF i \in T THEN "uploading" ELSE items[i]]
      /\ queue' = SubSeq(q, b + 1, Len(q)) /\ active' = n + b
  BY DEF pump
<1>3. T \subseteq Images /\ \A i \in T : items[i] = "queued"
  BY <1>1 DEF Waits
<1>4. /\ queue' \in Seq(Images) /\ (queue' # <<>> => b < Len(q))
      /\ Waits(items, queue')
      /\ \A k \in 1..Len(queue') : queue'[k] \notin T
  <2>1. b \in 0..Len(q) /\ queue' = SubSeq(q, b + 1, Len(q))
    BY <1>1, <1>2
  <2> HIDE DEF b
  <2> DEFINE t == SubSeq(q, b + 1, Len(q))
  <2>2. /\ t \in Seq(Images) /\ (t # <<>> => b < Len(q))
        /\ Waits(items, t)
        /\ \A k \in 1..Len(t) : t[k] \notin T
    BY <2>1, Tails, Zenon
  <2> QED  BY <2>1, <2>2
<1> HIDE DEF b, T
<1>7. UploadTypeOK'
  BY <1>1, <1>2, <1>4 DEF UploadTypeOK, ItemState
<1>5. active' = Cardinality(UnderWay')
  <2>1. UnderWay' = U \cup T
    BY <1>2, <1>3 DEF UnderWay, Sending
  <2>2. U \cap T = {}
    BY <1>3 DEF Settled
  <2>3. IsFiniteSet(T) /\ Cardinality(T) = b
    BY <1>1, Heads DEF Waits, T
  <2>4. IsFiniteSet(U)
    BY FS_Subset DEF UploadAssumption
  <2>5. Cardinality(U \cup T) = Cardinality(U) + Cardinality(T) - Cardinality(U \cap T)
    BY <2>3, <2>4, FS_Union
  <2>6. Cardinality(U \cap T) = 0
    BY <2>2, FS_EmptySet
  <2> QED  BY <1>1, <1>2, <2>1, <2>3, <2>5, <2>6
<1>6. Settled(item', settling')
  BY <1>2, <1>3 DEF Settled
<1>8. Waits(item', queue')
  <2>1. ASSUME NEW k \in 1..Len(queue') PROVE item'[queue'[k]] = "queued"
    <3>1. queue'[k] \in Images /\ queue'[k] \notin T /\ items[queue'[k]] = "queued"
      BY <1>4 DEF Waits
    <3> QED  BY <1>2, <3>1
  <2> QED  BY <1>4, <2>1 DEF Waits
<1>9. queue' # <<>> => active' = MaxConcurrent
  BY <1>1, <1>2, <1>4
<1> QED  BY <1>5, <1>6, <1>7, <1>8, <1>9 DEF PlacesInv

(* A batch is appended to the queue in the order its images were chosen.   *)
LEMMA BatchAdded ==
  ASSUME UploadAssumption, PlacesInv,
         NEW batch \in SUBSET Unknown, NEW refused \in SUBSET batch, addFiles(batch, refused)
  PROVE  PlacesInv'
<1> DEFINE items == [i \in Images |-> IF i \in refused THEN "refused"
                                      ELSE IF i \in batch THEN "queued" ELSE item[i]]
<1> USE DEF PlacesInv, UploadTypeOK
<1>1. PICK valid \in InOrder(batch \ refused) : pump(items, queue \o valid, active)
  BY DEF addFiles
<1> DEFINE q == queue \o valid
           N == Cardinality(batch \ refused)
<1>2. valid \in [1..N -> batch \ refused] /\ \A j, k \in 1..N : j < k => valid[j] < valid[k]
  BY <1>1 DEF InOrder
<1>3. batch \ refused \subseteq Images /\ \A i \in batch : i \in Images /\ item[i] = "unknown"
  BY DEF Unknown
<1>4. N \in Nat
  BY <1>3, FS_Subset, FS_CardinalityType DEF UploadAssumption
<1> HIDE DEF N
<1>5. valid \in Seq(Images) /\ Len(valid) = N
  <2>1. valid \in [1..N -> Images]
    BY <1>2, <1>3
  <2> QED  BY <1>4, <2>1
<1>6. q \in Seq(Images) /\ Len(q) = Len(queue) + N
      /\ \A k \in 1..Len(q) : q[k] = IF k <= Len(queue) THEN queue[k] ELSE valid[k - Len(queue)]
  BY <1>5
<1>7. items \in [Images -> ItemState]
  BY DEF ItemState
<1>8. Waits(items, q)
  <2>1. \A j, k \in 1..N : valid[j] = valid[k] => j = k
    <3>1. ASSUME NEW j \in 1..N, NEW k \in 1..N, j < k PROVE valid[j] # valid[k]
      <4>1. valid[j] \in Nat /\ valid[k] \in Nat /\ valid[j] < valid[k]
        BY <1>2, <1>3, <3>1 DEF UploadAssumption
      <4> QED  BY <4>1
    <3>2. \A j, k \in 1..N : j < k \/ k < j \/ j = k
      BY <1>4
    <3> QED  BY <3>1, <3>2
  <2>2. ASSUME NEW k \in 1..Len(q)
        PROVE  items[q[k]] = "queued" /\ (item[q[k]] = "queued" <=> k <= Len(queue))
    <3>1. CASE k <= Len(queue)
      <4>1. q[k] = queue[k] /\ q[k] \in Images /\ item[q[k]] = "queued"
        BY <1>6, <3>1 DEF Waits
      <4> QED  BY <1>3, <3>1, <4>1
    <3>2. CASE ~(k <= Len(queue))
      <4>1. k - Len(queue) \in 1..N
        BY <1>4, <1>6, <3>2
      <4>2. q[k] \in batch \ refused
        BY <1>2, <1>6, <3>2, <4>1
      <4> QED  BY <1>3, <3>2, <4>2
    <3> QED  BY <3>1, <3>2
  <2>3. ASSUME NEW j \in 1..Len(q), NEW k \in 1..Len(q), q[j] = q[k] PROVE j = k
    <3>1. j <= Len(queue) <=> k <= Len(queue)
      BY <2>2, <2>3
    <3>2. CASE j <= Len(queue)
      BY <1>6, <2>3, <3>1, <3>2 DEF Waits
    <3>3. CASE ~(j <= Len(queue))
      <4>1. j - Len(queue) \in 1..N /\ k - Len(queue) \in 1..N
        BY <1>4, <1>6, <3>1, <3>3
      <4>2. valid[j - Len(queue)] = valid[k - Len(queue)]
        BY <1>6, <2>3, <3>1, <3>3
      <4>3. j - Len(queue) = k - Len(queue)
        BY <2>1, <4>1, <4>2
      <4> QED  BY <4>3
    <3> QED  BY <3>2, <3>3
  <2> QED  BY <2>2, <2>3 DEF Waits
<1>9. Settled(items, settling)
  BY <1>3 DEF Settled
<1>10. {i \in Images : items[i] = "uploading"} \cup settling = UnderWay
  BY <1>3 DEF UnderWay, Sending
<1> QED
  BY <1>1, <1>6, <1>7, <1>8, <1>9, <1>10, PumpFills DEF addFiles
-----------------------------------------------------------------------------
LEMMA PlacesInit == UploadAssumption /\ UploadInit => PlacesInv
<1> SUFFICES ASSUME UploadAssumption, UploadInit PROVE PlacesInv
  OBVIOUS
<1>1. UnderWay = {}
  BY DEF UploadInit, UnderWay, Sending
<1>2. Cardinality(UnderWay) = 0
  BY <1>1, FS_EmptySet
<1>3. UploadTypeOK
  BY DEF UploadInit, UploadTypeOK, ItemState, Service, UploadAssumption
<1> QED  BY <1>2, <1>3 DEF UploadInit, PlacesInv, Settled, Waits

LEMMA PlacesNext == UploadAssumption /\ PlacesInv /\ [UploadNext]_uploadVars => PlacesInv'
<1> SUFFICES ASSUME UploadAssumption, PlacesInv, [UploadNext]_uploadVars PROVE PlacesInv'
  OBVIOUS
<1> USE DEF PlacesInv, UploadTypeOK
<1>1. ASSUME statusRead \/ recheck \/ leave PROVE PlacesInv'
  <2>1. service' \in Service /\ open' \in BOOLEAN
        /\ UNCHANGED <<item, queue, settling, active>>
    BY <1>1 DEF statusRead, recheck, leave, Service
  <2>2. UnderWay' = UnderWay
    BY <2>1 DEF UnderWay, Sending
  <2> QED  BY <2>1, <2>2 DEF Settled, Waits
<1>2. ASSUME NEW batch \in SUBSET Unknown, NEW refused \in SUBSET batch, addFiles(batch, refused)
      PROVE  PlacesInv'
  BY <1>2, BatchAdded
<1>3. ASSUME NEW i \in Images, NEW outcome \in {"success", "error"}, settled(i, outcome)
      PROVE  PlacesInv'
  <2>1. UnderWay' = UnderWay
    BY <1>3 DEF settled, UnderWay, Sending
  <2>2. UploadTypeOK'
    BY <1>3 DEF settled, ItemState
  <2>3. Settled(item', settling')
    BY <1>3 DEF settled, Settled
  <2>4. Waits(item', queue')
    BY <1>3 DEF settled, Waits
  <2> QED  BY <1>3, <2>1, <2>2, <2>3, <2>4 DEF settled
<1>4. ASSUME NEW i \in Images, finally(i) PROVE PlacesInv'
  <2> DEFINE S == settling \ {i}
  <2>1. i \in UnderWay /\ {j \in Images : item[j] = "uploading"} \cup S = UnderWay \ {i}
    BY <1>4 DEF finally, UnderWay, Sending, Settled
  <2>2. IsFiniteSet(UnderWay)
    BY FS_Subset DEF UploadAssumption, UnderWay, Sending
  <2>3. Cardinality(UnderWay \ {i}) = Cardinality(UnderWay) - 1
    BY <2>1, <2>2, FS_RemoveElement
  <2>4. Cardinality(UnderWay \ {i}) \in Nat
    BY <2>2, FS_RemoveElement, FS_CardinalityType
  <2>5. active - 1 \in 0..MaxConcurrent
    BY <2>3, <2>4 DEF UploadAssumption
  <2>6. Settled(item, S)
    BY DEF Settled
  <2> QED  BY <1>4, <2>1, <2>3, <2>5, <2>6, PumpFills DEF finally
<1>5. CASE UNCHANGED uploadVars
  BY <1>5 DEF uploadVars, UnderWay, Sending, Settled, Waits
<1> QED  BY <1>1, <1>2, <1>3, <1>4, <1>5 DEF UploadNext
-----------------------------------------------------------------------------
(* Previews.                                                               *)

\* A read that nobody has aborted is one of the file shown.
ReadsShown == \A f \in fetches : shown # Absent /\ f.file = shown.file

\* The entries of a list have different names.
Distinct(items) == \A e, i \in items : e.file.name = i.file.name => e = i

PreviewInv ==
  /\ ContentOfItem
  /\ NoSilentCut
  /\ ShownIsOpened
  /\ ReadsShown
  /\ preview # Absent => Distinct(preview.items)

(* In a list of different names the entries stand at the indices from one  *)
(* on, each at its own: what is at the index of an entry is that entry.    *)
LEMMA IndexesGrow ==
  ASSUME PreviewAssumption, NEW items \in SUBSET Entry, Distinct(items)
  PROVE  /\ IsFiniteSet(items) /\ Cardinality(items) \in Nat
         /\ \A e \in items : Index(items, e) \in 1..Cardinality(items)
         /\ \A e, i \in items : e.file.name < i.file.name => Index(items, e) < Index(items, i)
<1> DEFINE name == [e \in items |-> e.file.name]
           upTo(e) == {i \in items : i.file.name <= e.file.name}
<1>1. IsFiniteSet(Names)
  BY FS_Interval DEF Names, PreviewAssumption
<1>2. name \in [items -> Names] /\ \A e, i \in items : name[e] = name[i] => e = i
  BY DEF Entry, File, Distinct
<1>3. name \in Injection(items, Names)
  BY <1>2 DEF Injection, IsInjective
<1>4. IsFiniteSet(items)
  BY <1>1, <1>3, FS_Injection
<1>5. Cardinality(items) \in Nat
  BY <1>4, FS_CardinalityType
<1>6. \A e \in items : e.file.name \in Nat
  BY DEF Entry, File, Names, PreviewAssumption
<1>7. ASSUME NEW e \in items
      PROVE  IsFiniteSet(upTo(e)) /\ Index(items, e) \in 1..Cardinality(items)
  <2>1. upTo(e) \in SUBSET items /\ e \in upTo(e)
    BY <1>6, <1>7
  <2> HIDE DEF upTo
  <2>2. IsFiniteSet(upTo(e)) /\ Cardinality(upTo(e)) <= Cardinality(items)
    BY <1>4, <2>1, FS_Subset
  <2>3. Cardinality(upTo(e)) \in Nat /\ Cardinality(upTo(e)) # 0
    BY <2>1, <2>2, FS_CardinalityType, FS_EmptySet
  <2>4. Cardinality(upTo(e)) \in 1..Cardinality(items)
    BY <1>5, <2>2, <2>3
  <2> QED  BY <2>2, <2>4 DEF Index, upTo
<1>8. ASSUME NEW e \in items, NEW i \in items, e.file.name < i.file.name
      PROVE  Index(items, e) < Index(items, i)
  <2>1. upTo(e) \in SUBSET upTo(i) /\ i \in upTo(i) /\ i \notin upTo(e)
    BY <1>6, <1>8
  <2>2. IsFiniteSet(upTo(i)) /\ IsFiniteSet(upTo(e))
    BY <1>7
  <2>3. Index(items, e) = Cardinality(upTo(e)) /\ Index(items, i) = Cardinality(upTo(i))
    BY DEF Index
  <2> HIDE DEF upTo
  <2>4. Cardinality(upTo(e)) <= Cardinality(upTo(i)) /\ Cardinality(upTo(e)) # Cardinality(upTo(i))
    BY <2>1, <2>2, FS_Subset
  <2>5. Cardinality(upTo(e)) \in Nat /\ Cardinality(upTo(i)) \in Nat
    BY <2>2, FS_CardinalityType
  <2> QED  BY <2>3, <2>4, <2>5
<1> QED  BY <1>4, <1>5, <1>7, <1>8

LEMMA IndexFinds ==
  ASSUME PreviewAssumption, NEW items \in SUBSET Entry, Distinct(items)
  PROVE  /\ \A e \in items : At(items, Index(items, e)) = e
         /\ \A k \in 1..Cardinality(items) : At(items, k) \in items /\ Index(items, At(items, k)) = k
<1> DEFINE place == [e \in items |-> Index(items, e)]
           N == Cardinality(items)
<1>1. /\ IsFiniteSet(items) /\ N \in Nat
      /\ \A e \in items : Index(items, e) \in 1..N
      /\ \A e, i \in items : e.file.name < i.file.name => Index(items, e) < Index(items, i)
  BY IndexesGrow
<1>2. ASSUME NEW e \in items, NEW i \in items, Index(items, e) = Index(items, i)  PROVE e = i
  <2>1. e.file.name \in Nat /\ i.file.name \in Nat
    BY DEF Entry, File, Names, PreviewAssumption
  <2>2. e.file.name = i.file.name
    BY <1>1, <1>2, <2>1
  <2> QED  BY <2>2 DEF Distinct
<1>3. place \in Injection(items, 1..N)
  BY <1>1, <1>2 DEF Injection, IsInjective
<1>4. IsFiniteSet(1..N) /\ Cardinality(1..N) = N
  BY <1>1, FS_Interval
<1>5. place \in Surjection(items, 1..N)
  <2> HIDE DEF place
  <2> QED  BY <1>3, <1>4, FS_Injection
<1>6. \A k \in 1..N : \E e \in items : Index(items, e) = k
  BY <1>5 DEF Surjection
<1>7. \A k \in 1..N : At(items, k) \in items /\ Index(items, At(items, k)) = k
  BY <1>6 DEF At
<1>8. ASSUME NEW e \in items  PROVE At(items, Index(items, e)) = e
  BY <1>1, <1>2, <1>7, <1>8
<1> QED  BY <1>7, <1>8

(* The list of a directory, and what a preview shows.                      *)
LEMMA RowsAreEntries ==
  ASSUME PreviewAssumption, NEW l \in [Dirs -> Listing \cup {Absent}], NEW d \in Dirs
  PROVE  /\ Rows(l, d) \subseteq Entry /\ Distinct(Rows(l, d))
         /\ previewItems(l, d) \subseteq Rows(l, d) /\ Distinct(previewItems(l, d))
<1>1. ASSUME NEW e \in Rows(l, d)
      PROVE  e \in Entry /\ e.file.dir = d /\ e.size = l[d][e.file.name]
  <2>1. l[d] \in Listing
    BY <1>1 DEF Rows
  <2>2. PICK n \in Names : l[d][n] # Absent /\ e = [file |-> [dir |-> d, name |-> n], size |-> l[d][n]]
    BY <1>1 DEF Rows
  <2> QED  BY <2>1, <2>2 DEF Listing, Entry, File
<1>2. Rows(l, d) \subseteq Entry
  BY <1>1
<1>3. Distinct(Rows(l, d))
  BY <1>1 DEF Distinct, Entry, File
<1>4. previewItems(l, d) \subseteq Rows(l, d)
  BY DEF previewItems
<1> QED  BY <1>2, <1>3, <1>4 DEF Distinct

Previewed(p) == p \in [items : SUBSET Entry, index : Nat \ {0}] \cup {Absent}
                /\ (p # Absent => Distinct(p.items))

LEMMA ItemsAreEntries ==
  ASSUME PreviewAssumption, NEW l \in [Dirs -> Listing \cup {Absent}], NEW d \in Dirs,
         NEW p, Previewed(p), p # Absent
  PROVE  Items(p, l, d) \in SUBSET Entry /\ Distinct(Items(p, l, d))
BY RowsAreEntries DEF Items, Previewed

LEMMA ShownIsItem ==
  ASSUME PreviewAssumption, NEW l \in [Dirs -> Listing \cup {Absent}], NEW d \in Dirs,
         NEW p, Previewed(p), Shown(p, l, d) # Absent
  PROVE  /\ p # Absent /\ Shown(p, l, d) \in Items(p, l, d) /\ Shown(p, l, d) \in Entry
         /\ Clamped(p.index, Items(p, l, d)) \in 1..Cardinality(Items(p, l, d))
<1> DEFINE items == Items(p, l, d)
           k == Clamped(p.index, items)
<1>1. p # Absent /\ items # {} /\ Shown(p, l, d) = At(items, k)
  BY DEF Shown
<1>2. items \in SUBSET Entry /\ Distinct(items)
  BY <1>1, ItemsAreEntries
<1>3. p.index \in Nat \ {0}
  BY <1>1 DEF Previewed
<1> HIDE DEF items
<1>4. Cardinality(items) \in Nat /\ Cardinality(items) # 0
  BY <1>1, <1>2, IndexesGrow, FS_EmptySet
<1>5. k \in 1..Cardinality(items)
  BY <1>3, <1>4 DEF Clamped
<1>6. At(items, k) \in items
  BY <1>2, <1>5, IndexFinds
<1> QED  BY <1>1, <1>2, <1>5, <1>6 DEF items

(* What is opened at an index is what is then shown.                       *)
LEMMA OpenedIsShown ==
  ASSUME PreviewAssumption, NEW l \in [Dirs -> Listing \cup {Absent}], NEW d \in Dirs,
         NEW p, Previewed(p), p # Absent,
         p.index \in 1..Cardinality(Items(p, l, d))
  PROVE  Shown(p, l, d) # Absent /\ Shown(p, l, d) = At(Items(p, l, d), p.index)
<1> DEFINE items == Items(p, l, d)
<1>1. items \in SUBSET Entry /\ Distinct(items)
  BY ItemsAreEntries
<1> HIDE DEF items
<1>2. Cardinality(items) \in Nat
  BY <1>1, IndexesGrow
<1>3. Clamped(p.index, items) = p.index /\ Cardinality(items) # 0 /\ p.index \in 1..Cardinality(items)
  BY <1>2 DEF Clamped, items
<1>4. items # {}
  BY <1>3, FS_EmptySet
<1>5. At(items, p.index) \in items
  BY <1>1, <1>3, IndexFinds
<1>6. At(items, p.index) # Absent
  BY <1>1, <1>5 DEF PreviewAssumption
<1> QED  BY <1>3, <1>4, <1>6 DEF Shown, items

LEMMA ShownAfter ==
  ASSUME viewer' = viewer
  PROVE  shown' = Shown(preview', listed', dir')
BY DEF shown, Shown, Items

LEMMA ShownType == ASSUME PreviewAssumption, PreviewInv  PROVE shown \in Entry \cup {Absent}
<1> SUFFICES ASSUME shown # Absent  PROVE shown \in Entry
  OBVIOUS
<1>1. /\ listed \in [Dirs -> Listing \cup {Absent}] /\ dir \in Dirs
      /\ Previewed(preview)
  BY DEF PreviewInv, ContentOfItem, PreviewTypeOK, Previewed
<1> QED  BY <1>1, ShownIsItem DEF shown

(* A step of the share, the server or a refresh leaves the preview alone.  *)
LEMMA PreviewFrame ==
  ASSUME PreviewInv, PreviewTypeOK',
         UNCHANGED <<viewer, dir, listed, preview, content, fetches, opened, retargeted>>
  PROVE  PreviewInv'
<1>1. shown' = shown
  BY ShownAfter DEF shown
<1> QED  BY <1>1 DEF PreviewInv, ContentOfItem, NoSilentCut, ShownIsOpened, ReadsShown, Distinct

(* The effect, run for the file shown now: the reads are of that file, and *)
(* so is what the renderer holds, the failure of an image or player apart. *)
LEMMA EffectShows ==
  ASSUME PreviewAssumption, PreviewInv, Effect(shown'), shown' \in Entry \cup {Absent}
  PROVE  /\ content' \in [state : {"none", "loading", "shown", "error"}, of : File \cup {Absent},
                          amount : 0..Cap, size : Sizes \cup {0, Absent}, truncated : BOOLEAN]
         /\ fetches' \subseteq [file : File, size : Sizes \cup {Absent}, got : 0..Cap]
         /\ ReadsShown' /\ NoSilentCut'
         /\ content'.of # Absent =>
              /\ shown' # Absent
              /\ \/ content'.of = shown'.file
                 \/ content'.state = "error" /\ KindOf[shown'.file.name] \in {"png", "media"}
<1> USE DEF PreviewInv, ContentOfItem, NoSilentCut, ReadsShown
<1>1. /\ content \in [state : {"none", "loading", "shown", "error"}, of : File \cup {Absent},
                      amount : 0..Cap, size : Sizes \cup {0, Absent}, truncated : BOOLEAN]
      /\ fetches \subseteq [file : File, size : Sizes \cup {Absent}, got : 0..Cap]
  BY DEF PreviewTypeOK
<1>2. 0 \in 0..Cap
  BY DEF PreviewAssumption
<1>3. /\ Nothing \in [state : {"none", "loading", "shown", "error"}, of : File \cup {Absent},
                      amount : 0..Cap, size : Sizes \cup {0, Absent}, truncated : BOOLEAN]
      /\ Nothing.of = Absent /\ Nothing.state = "none"
  BY <1>2 DEF Nothing
<1>4. /\ Loading \in [state : {"none", "loading", "shown", "error"}, of : File \cup {Absent},
                      amount : 0..Cap, size : Sizes \cup {0, Absent}, truncated : BOOLEAN]
      /\ Loading.of = Absent /\ Loading.state = "loading"
  BY <1>2 DEF Nothing, Loading
<1>5. CASE shown' = Absent \/ resolvePreview(shown'.file, shown'.size) = "unsupported"
  <2>1. content' = Nothing /\ fetches' = {}
    BY <1>5 DEF Effect
  <2> QED  BY <1>3, <2>1
<1>6. CASE shown' # Absent /\ resolvePreview(shown'.file, shown'.size) # "unsupported"
  <2>1. shown' \in Entry /\ shown'.file \in File /\ shown'.file.name \in Names
    BY <1>6 DEF Entry, File
  <2>2. CASE shown # Absent /\ shown'.file = shown.file
    <3>1. UNCHANGED <<content, fetches>>
      BY <1>6, <2>2 DEF Effect
    <3> QED  BY <1>1, <1>6, <2>2, <3>1
  <2>3. CASE ~(shown # Absent /\ shown'.file = shown.file)
             /\ resolvePreview(shown'.file, shown'.size) \in Fetched
    <3>1. content' = Loading /\ fetches' = {Fetch(shown')}
      BY <1>6, <2>3 DEF Effect
    <3>2. /\ Fetch(shown') \in [file : File, size : Sizes \cup {Absent}, got : 0..Cap]
          /\ Fetch(shown').file = shown'.file
      BY <1>2, <2>1 DEF Fetch
    <3> QED  BY <1>4, <1>6, <3>1, <3>2
  <2>4. CASE ~(shown # Absent /\ shown'.file = shown.file)
             /\ resolvePreview(shown'.file, shown'.size) \notin Fetched
    <3>1. (content' = Nothing \/ (content.state = "error" /\ content' = content)) /\ fetches' = {}
      BY <1>6, <2>4 DEF Effect
    <3>2. KindOf[shown'.file.name] \in {"png", "media"}
      BY <1>6, <2>1, <2>4 DEF resolvePreview, Fetched, PreviewAssumption
    <3> QED  BY <1>1, <1>3, <1>6, <3>1, <3>2
  <2> QED  BY <2>2, <2>3, <2>4
<1> QED  BY <1>5, <1>6

(* A preview that is opened, closed, or whose list changes.                *)
LEMMA PreviewSteps ==
  ASSUME PreviewAssumption, PreviewInv, viewer' = viewer,
         listed' \in [Dirs -> Listing \cup {Absent}], dir' \in Dirs,
         Previewed(preview'), opened' \in File \cup {Absent}, retargeted' \in BOOLEAN,
         Effect(Shown(preview', listed', dir')),
         access' \in Access, asking' \in {"nothing", "info", "unlock"}, granted' \in BOOLEAN,
         UNCHANGED <<stored, changes, retries>>, beingRead' \subseteq Dirs,
         ShownIsOpened'
  PROVE  PreviewInv'
<1>1. shown' = Shown(preview', listed', dir')
  BY ShownAfter
<1>2. shown' \in Entry \cup {Absent}
  <2> SUFFICES ASSUME shown' # Absent  PROVE shown' \in Entry
    OBVIOUS
  <2>1. Shown(preview', listed', dir') \in Entry
    <3>1. Shown(preview', listed', dir') # Absent
      BY <1>1
    <3>2. \A p : Previewed(p) /\ Shown(p, listed', dir') # Absent => Shown(p, listed', dir') \in Entry
      BY ShownIsItem
    <3> QED  BY <3>1, <3>2 DEF Previewed
  <2> QED  BY <1>1, <2>1
<1>3. Effect(shown')
  BY <1>1
<1>4. /\ content' \in [state : {"none", "loading", "shown", "error"}, of : File \cup {Absent},
                       amount : 0..Cap, size : Sizes \cup {0, Absent}, truncated : BOOLEAN]
      /\ fetches' \subseteq [file : File, size : Sizes \cup {Absent}, got : 0..Cap]
      /\ ReadsShown' /\ NoSilentCut'
      /\ content'.of # Absent =>
           /\ shown' # Absent
           /\ \/ content'.of = shown'.file
              \/ content'.state = "error" /\ KindOf[shown'.file.name] \in {"png", "media"}
  BY <1>2, <1>3, EffectShows
<1>5. PreviewTypeOK'
  BY <1>4 DEF PreviewInv, ContentOfItem, PreviewTypeOK, Previewed
<1>6. ContentOfItem'
  BY <1>4, <1>5 DEF ContentOfItem
<1>7. preview' # Absent => Distinct(preview.items)'
  BY DEF Previewed, Distinct
<1> QED  BY <1>4, <1>6, <1>7 DEF PreviewInv

LEMMA OpenedStays ==
  ASSUME PreviewInv, viewer' = viewer, preview' = preview, opened' = opened, retargeted' = Retargeted
  PROVE  ShownIsOpened'
<1> SUFFICES ASSUME preview' # Absent, ~retargeted'  PROVE shown' # Absent /\ shown'.file = opened'
  BY DEF ShownIsOpened
<1>1. viewer # "browse" /\ ~retargeted /\ preview # Absent
  BY DEF Retargeted
<1>2. shown' = shown
  BY <1>1, ShownAfter DEF shown, Shown, Items
<1> QED  BY <1>1, <1>2 DEF PreviewInv, ShownIsOpened

LEMMA PreviewOpens ==
  ASSUME PreviewAssumption, PreviewInv, NEW items \in SUBSET Entry, NEW k \in Nat \ {0}, NEW file \in File,
         Distinct(items), k \in 1..Cardinality(Items([items |-> items, index |-> k], listed, dir)),
         At(Items([items |-> items, index |-> k], listed, dir), k).file = file,
         Preview(items, k, file)
  PROVE  PreviewInv'
<1> DEFINE p == [items |-> items, index |-> k]
<1>1. p.items = items /\ p.index = k /\ p # Absent
  BY DEF PreviewAssumption
<1>2. Previewed(p)
  BY <1>1 DEF Previewed
<1>3. /\ listed \in [Dirs -> Listing \cup {Absent}] /\ dir \in Dirs
      /\ viewer' = viewer /\ preview' = p /\ listed' = listed /\ dir' = dir
      /\ opened' = file /\ retargeted' = FALSE
      /\ Effect(Shown(preview', listed, dir))
      /\ UNCHANGED <<access, asking, granted, stored, beingRead, changes, retries>>
  BY DEF Preview, PreviewInv, ContentOfItem, PreviewTypeOK
<1> HIDE DEF p
<1>4. Shown(p, listed, dir) # Absent /\ Shown(p, listed, dir).file = file
  <2>1. p.index \in 1..Cardinality(Items(p, listed, dir)) /\ At(Items(p, listed, dir), p.index).file = file
    BY <1>1 DEF p
  <2> QED  BY <1>1, <1>2, <1>3, <2>1, OpenedIsShown
<1>5. ShownIsOpened'
  BY <1>3, <1>4, ShownAfter DEF ShownIsOpened
<1>6. access' \in Access /\ asking' \in {"nothing", "info", "unlock"} /\ granted' \in BOOLEAN
      /\ beingRead' \subseteq Dirs
  BY <1>3 DEF PreviewInv, ContentOfItem, PreviewTypeOK
<1> QED  BY <1>2, <1>3, <1>5, <1>6, PreviewSteps

LEMMA PreviewStarts == PreviewAssumption /\ PreviewInit => PreviewInv
<1> SUFFICES ASSUME PreviewAssumption, PreviewInit  PROVE PreviewInv
  OBVIOUS
<1>1. PreviewTypeOK
  <2>1. /\ 0 \in 0..Cap /\ 0 \in 0..MaxChanges /\ 0 \in 0..MaxRetries
        /\ listed \in [Dirs -> Listing \cup {Absent}] /\ stored \in [Dirs -> Listing]
    BY DEF PreviewAssumption, PreviewInit
  <2>2. access \in Access /\ beingRead \subseteq Dirs
    BY DEF PreviewInit, Access
  <2> QED  BY <2>1, <2>2 DEF PreviewInit, PreviewTypeOK, Nothing
<1>2. content.of = Absent /\ content.state = "none"
  BY DEF PreviewInit, Nothing
<1> QED
  BY <1>1, <1>2 DEF PreviewInit, PreviewInv, ContentOfItem, NoSilentCut, ShownIsOpened, ReadsShown

LEMMA PreviewKeeps == PreviewAssumption /\ PreviewInv /\ [PreviewNext]_previewVars => PreviewInv'
<1> SUFFICES ASSUME PreviewAssumption, PreviewInv, [PreviewNext]_previewVars  PROVE PreviewInv'
  OBVIOUS
<1>0. PreviewTypeOK /\ shown \in Entry \cup {Absent} /\ Previewed(preview)
  BY ShownType DEF PreviewInv, ContentOfItem, PreviewTypeOK, Previewed
<1>1. CASE infoAgain \/ unlock \/ unlocked \/ refreshList
  <2>1. PreviewTypeOK' /\ UNCHANGED <<viewer, dir, listed, preview, content, fetches, opened, retargeted>>
    BY <1>0, <1>1 DEF PreviewTypeOK, infoAgain, unlock, unlocked, refreshList
  <2> QED  BY <2>1, PreviewFrame
<1>2. CASE infoRead
  <2>1. CASE access' = "open"
    <3>1. PreviewTypeOK' /\ UNCHANGED <<viewer, dir, listed, preview, content, fetches, opened, retargeted>>
      BY <1>0, <1>2, <2>1 DEF PreviewTypeOK, infoRead, Access
    <3> QED  BY <3>1, PreviewFrame
  <2>2. CASE access' # "open"
    <3>1. /\ preview' = Absent /\ Effect(Absent) /\ access' \in Access /\ asking' = "nothing"
          /\ UNCHANGED <<viewer, granted, dir, stored, listed, beingRead, changes, retries, opened, retargeted>>
      BY <1>2, <2>2 DEF infoRead, Access
    <3>2. Shown(preview', listed', dir') = Absent /\ ShownIsOpened' /\ Previewed(preview')
      BY <3>1 DEF Shown, ShownIsOpened, Previewed
    <3>3. /\ listed' \in [Dirs -> Listing \cup {Absent}] /\ dir' \in Dirs /\ granted' \in BOOLEAN
          /\ beingRead' \subseteq Dirs /\ opened' \in File \cup {Absent} /\ retargeted' \in BOOLEAN
      BY <1>0, <3>1 DEF PreviewTypeOK
    <3> QED  BY <3>1, <3>2, <3>3, PreviewSteps
  <2> QED  BY <2>1, <2>2
<1>3. ASSUME NEW d \in Dirs, listingRead(d)  PROVE PreviewInv'
  <2>1. PICK now \in {stored[d], Absent} : listed' = [listed EXCEPT ![d] = now]
    BY <1>3 DEF listingRead
  <2>2. /\ listed' \in [Dirs -> Listing \cup {Absent}]
        /\ dir' \in Dirs /\ access' \in Access /\ asking' \in {"nothing", "info", "unlock"}
        /\ granted' \in BOOLEAN /\ beingRead' \subseteq Dirs /\ opened' \in File \cup {Absent}
    BY <1>0, <1>3, <2>1 DEF PreviewTypeOK, listingRead
  <2>3. /\ retargeted' = Retargeted /\ retargeted' \in BOOLEAN
        /\ UNCHANGED <<viewer, dir, stored, preview, changes, retries, opened>>
        /\ Effect(Shown(preview', listed', dir')) /\ Previewed(preview')
    BY <1>0, <1>3 DEF PreviewTypeOK, listingRead, Retargeted
  <2> QED  BY <2>2, <2>3, OpenedStays, PreviewSteps
<1>4. ASSUME NEW d \in Dirs, Visit(d)  PROVE PreviewInv'
  <2>1. /\ listed' \in [Dirs -> Listing \cup {Absent}]
        /\ dir' \in Dirs /\ access' \in Access /\ asking' \in {"nothing", "info", "unlock"}
        /\ granted' \in BOOLEAN /\ beingRead' \subseteq Dirs /\ opened' \in File \cup {Absent}
    BY <1>0, <1>4 DEF PreviewTypeOK, Visit
  <2>2. /\ retargeted' = Retargeted /\ retargeted' \in BOOLEAN
        /\ UNCHANGED <<viewer, stored, listed, preview, changes, retries, opened>>
        /\ Effect(Shown(preview', listed', dir')) /\ Previewed(preview')
    BY <1>0, <1>4 DEF PreviewTypeOK, Visit, Retargeted
  <2> QED  BY <2>1, <2>2, OpenedStays, PreviewSteps
<1>5. ASSUME NEW d \in Dirs, NEW n \in Names, fileChanges(d, n)  PROVE PreviewInv'
  <2>1. PICK size \in Sizes \cup {Absent} : stored' = [stored EXCEPT ![d][n] = size]
    BY <1>5 DEF fileChanges
  <2>2. stored' \in [Dirs -> Listing]
    BY <1>0, <2>1 DEF PreviewTypeOK, Listing
  <2>3. changes' \in 0..MaxChanges
    BY <1>0, <1>5 DEF PreviewTypeOK, fileChanges
  <2>4. UNCHANGED <<viewer, access, asking, granted, dir, listed, beingRead, preview, content, fetches,
                    retries, opened, retargeted>>
    BY <1>5 DEF fileChanges
  <2>5. PreviewTypeOK'
    BY <1>0, <2>2, <2>3, <2>4 DEF PreviewTypeOK
  <2> QED  BY <2>4, <2>5, PreviewFrame
<1>6. ASSUME NEW e \in Rows(listed, dir), openPreview(e)  PROVE PreviewInv'
  <2>1. /\ Rows(listed, dir) \in SUBSET Entry /\ Distinct(Rows(listed, dir))
        /\ previewItems(listed, dir) \in SUBSET Entry /\ Distinct(previewItems(listed, dir))
    BY <1>0, RowsAreEntries DEF PreviewTypeOK
  <2>2. e.file \in File
    BY <2>1 DEF Entry
  <2>3. CASE viewer = "browse"
    <3> DEFINE k == Index(previewItems(listed, dir), e)
    <3>1. e \in previewItems(listed, dir) /\ Preview({}, k, e.file)
      BY <1>6, <2>3 DEF openPreview, previewItems
    <3>2. Items([items |-> {}, index |-> k], listed, dir) = previewItems(listed, dir)
      BY <2>3 DEF Items
    <3>3. k \in 1..Cardinality(previewItems(listed, dir)) /\ At(previewItems(listed, dir), k) = e
          /\ Cardinality(previewItems(listed, dir)) \in Nat
      BY <2>1, <3>1, IndexesGrow, IndexFinds
    <3> HIDE DEF k
    <3>4. k \in Nat \ {0} /\ {} \in SUBSET Entry /\ Distinct({})
      BY <3>3 DEF Distinct
    <3> QED  BY <2>2, <3>1, <3>2, <3>3, <3>4, PreviewOpens
  <2>4. CASE viewer # "browse"
    <3> DEFINE k == Index(Rows(listed, dir), e)
    <3>1. Preview(Rows(listed, dir), k, e.file)
      BY <1>6, <2>4 DEF openPreview
    <3>2. Items([items |-> Rows(listed, dir), index |-> k], listed, dir) = Rows(listed, dir)
      BY <2>4 DEF Items
    <3>3. k \in 1..Cardinality(Rows(listed, dir)) /\ At(Rows(listed, dir), k) = e
          /\ Cardinality(Rows(listed, dir)) \in Nat
      BY <1>6, <2>1, IndexesGrow, IndexFinds
    <3> HIDE DEF k
    <3>4. k \in Nat \ {0}
      BY <3>3
    <3> QED  BY <2>1, <2>2, <3>1, <3>2, <3>3, <3>4, PreviewOpens
  <2> QED  BY <2>3, <2>4
<1>7. CASE onIndexChange
  <2> DEFINE items == Items(preview, listed, dir)
  <2>1. PICK k \in 1..Cardinality(items) : shown # Absent /\ Preview(preview.items, k, At(items, k).file)
    BY <1>7 DEF onIndexChange
  <2>2. preview # Absent /\ items \in SUBSET Entry /\ Distinct(items) /\ preview.items \in SUBSET Entry
        /\ Distinct(preview.items)
    <3>1. preview # Absent
      BY <2>1 DEF shown, Shown
    <3> QED  BY <1>0, <3>1, ItemsAreEntries DEF PreviewTypeOK, Previewed
  <2>3. Items([items |-> preview.items, index |-> k], listed, dir) = items
    BY DEF Items
  <2> HIDE DEF items
  <2>4. At(items, k) \in items /\ Cardinality(items) \in Nat
    BY <2>2, IndexesGrow, IndexFinds
  <2>5. k \in Nat \ {0} /\ At(items, k).file \in File
    BY <2>2, <2>4 DEF Entry
  <2> QED  BY <2>1, <2>2, <2>3, <2>5, PreviewOpens
<1>8. CASE onClose
  <2>1. /\ preview' = Absent /\ opened' = Absent /\ retargeted' = FALSE /\ Effect(Absent)
        /\ UNCHANGED <<viewer, access, asking, granted, dir, stored, listed, beingRead, changes, retries>>
    BY <1>8 DEF onClose
  <2>2. Shown(preview', listed', dir') = Absent /\ ShownIsOpened' /\ Previewed(preview')
    BY <2>1 DEF Shown, ShownIsOpened, Previewed
  <2>3. /\ listed' \in [Dirs -> Listing \cup {Absent}] /\ dir' \in Dirs /\ granted' \in BOOLEAN
        /\ access' \in Access /\ asking' \in {"nothing", "info", "unlock"} /\ beingRead' \subseteq Dirs
        /\ opened' \in File \cup {Absent} /\ retargeted' \in BOOLEAN
    BY <1>0, <2>1 DEF PreviewTypeOK
  <2> QED  BY <2>1, <2>2, <2>3, PreviewSteps
<1>9. ASSUME NEW f \in fetches, response(f) \/ fetchFails(f) \/ readChunk(f)  PROVE PreviewInv'
  <2>1. /\ f \in [file : File, size : Sizes \cup {Absent}, got : 0..Cap]
        /\ shown # Absent /\ f.file = shown.file
    BY <1>0, <1>9 DEF PreviewTypeOK, PreviewInv, ReadsShown
  <2>2. UNCHANGED <<viewer, access, asking, granted, dir, stored, listed, beingRead, preview, changes,
                    retries, opened, retargeted>>
    BY <1>9 DEF response, fetchFails, readChunk, Ends, Reads
  <2>3. shown' = shown
    BY <2>2, ShownAfter DEF shown
  <2>4. \/ content' = content
        \/ \E state \in {"shown", "error"}, amount \in 0..Cap, truncated \in BOOLEAN :
             /\ content' = [state |-> state, of |-> f.file, amount |-> amount, size |-> f.size,
                            truncated |-> truncated]
             /\ state = "shown" => f.size # Absent /\ (amount < f.size => truncated)
    <3>0. 0 \in 0..Cap /\ Cap \in 0..Cap /\ TRUE \in BOOLEAN /\ FALSE \in BOOLEAN
      BY DEF PreviewAssumption
    <3>1. CASE fetchFails(f)
      <4>1. content' = [state |-> "error", of |-> f.file, amount |-> 0, size |-> f.size, truncated |-> FALSE]
        BY <3>1 DEF fetchFails, Ends
      <4> QED  BY <3>0, <4>1
    <3>2. CASE response(f)
      BY <3>1, <3>2 DEF response
    <3>3. CASE readChunk(f)
      <4>1. f.size # Absent /\ f.size \in Nat /\ f.got \in 0..Cap
        BY <2>1, <3>3 DEF readChunk, PreviewAssumption
      <4>2. \/ content' = content
            \/ /\ f.got = f.size
               /\ content' = [state |-> "shown", of |-> f.file, amount |-> f.got, size |-> f.size,
                              truncated |-> FALSE]
            \/ content' = [state |-> "shown", of |-> f.file, amount |-> Cap, size |-> f.size, truncated |-> TRUE]
        BY <3>3 DEF readChunk, Ends
      <4>3. ASSUME f.got = f.size  PROVE ~(f.got < f.size)
        BY <4>1, <4>3
      <4> QED  BY <3>0, <4>1, <4>2, <4>3
    <3> QED  BY <1>9, <3>1, <3>2, <3>3
  <2>5. \A g \in fetches' : g \in [file : File, size : Sizes \cup {Absent}, got : 0..Cap]
                            /\ (g \in fetches \/ g.file = f.file)
    <3>1. CASE fetchFails(f)
      BY <1>0, <3>1 DEF fetchFails, Ends, Reads, PreviewTypeOK
    <3>2. CASE response(f)
      BY <1>0, <2>1, <3>2 DEF response, fetchFails, Ends, Reads, PreviewTypeOK, Listing, File
    <3>3. CASE readChunk(f)
      BY <1>0, <2>1, <3>3 DEF readChunk, Ends, Reads, PreviewTypeOK, PreviewAssumption
    <3> QED  BY <1>9, <3>1, <3>2, <3>3
  <2>6. content' \in [state : {"none", "loading", "shown", "error"}, of : File \cup {Absent},
                      amount : 0..Cap, size : Sizes \cup {0, Absent}, truncated : BOOLEAN]
    BY <1>0, <2>1, <2>4 DEF PreviewTypeOK
  <2>7. PreviewTypeOK'
    BY <1>0, <2>2, <2>5, <2>6 DEF PreviewTypeOK
  <2>8. ContentOfItem'
    BY <2>1, <2>3, <2>4, <2>7 DEF PreviewInv, ContentOfItem
  <2>9. NoSilentCut'
    BY <2>4 DEF PreviewInv, NoSilentCut, PreviewAssumption
  <2>10. ShownIsOpened' /\ ReadsShown' /\ (preview' # Absent => Distinct(preview.items)')
    BY <2>1, <2>2, <2>3, <2>5 DEF PreviewInv, ShownIsOpened, ReadsShown, Distinct
  <2> QED  BY <2>8, <2>9, <2>10 DEF PreviewInv
<1>10. CASE mediaFails
  <2>1. /\ shown # Absent /\ KindOf[shown.file.name] = "media"
        /\ content' = [state |-> "error", of |-> shown.file, amount |-> 0, size |-> 0, truncated |-> FALSE]
        /\ UNCHANGED <<viewer, access, asking, granted, dir, stored, listed, beingRead, preview, fetches,
                       changes, retries, opened, retargeted>>
    BY <1>10 DEF mediaFails, Nothing
  <2>2. shown' = shown
    BY <2>1, ShownAfter DEF shown
  <2>3. PreviewTypeOK'
    <3>1. 0 \in 0..Cap /\ shown.file \in File
      BY <1>0, <2>1 DEF PreviewAssumption, Entry
    <3> QED  BY <1>0, <2>1, <3>1 DEF PreviewTypeOK
  <2> QED
    BY <2>1, <2>2, <2>3 DEF PreviewInv, ContentOfItem, NoSilentCut, ShownIsOpened, ReadsShown, Distinct
<1>11. CASE retry
  <2>1. /\ shown # Absent /\ retries' \in 0..MaxRetries
        /\ content' = Loading /\ fetches' = {Fetch(shown)}
        /\ UNCHANGED <<viewer, access, asking, granted, dir, stored, listed, beingRead, preview, changes,
                       opened, retargeted>>
    BY <1>0, <1>11 DEF retry, PreviewTypeOK
  <2>2. shown' = shown
    BY <2>1, ShownAfter DEF shown
  <2>3. /\ content' = [state |-> "loading", of |-> Absent, amount |-> 0, size |-> 0, truncated |-> FALSE]
        /\ fetches' = {[file |-> shown.file, size |-> Absent, got |-> 0]}
    BY <2>1 DEF Loading, Nothing, Fetch
  <2>4. PreviewTypeOK'
    <3>1. 0 \in 0..Cap /\ shown.file \in File
      BY <1>0, <2>1 DEF PreviewAssumption, Entry
    <3> QED  BY <1>0, <2>1, <2>3, <3>1 DEF PreviewTypeOK
  <2> QED
    BY <2>1, <2>2, <2>3, <2>4 DEF PreviewInv, ContentOfItem, NoSilentCut, ShownIsOpened, ReadsShown, Distinct
<1>12. CASE UNCHANGED previewVars
  <2>1. PreviewTypeOK' /\ UNCHANGED <<viewer, dir, listed, preview, content, fetches, opened, retargeted>>
    BY <1>0, <1>12 DEF PreviewTypeOK, previewVars
  <2> QED  BY <2>1, PreviewFrame
<1> QED
  BY <1>1, <1>2, <1>3, <1>4, <1>5, <1>6, <1>7, <1>8, <1>9, <1>10, <1>11, <1>12 DEF PreviewNext,
     goTo, goBack
-----------------------------------------------------------------------------
(* The pages together.                                                     *)

PagesInv == ListInv /\ PlacesInv /\ PreviewInv

LEMMA PagesStart == Init => PagesInv
BY ListsStart, PlacesInit, PreviewStarts, ListAssumption, UploadAssumption, PreviewAssumption
   DEF Init, PagesInv

LEMMA PagesStep == PagesInv /\ [Next]_vars => PagesInv'
<1> SUFFICES ASSUME PagesInv, [Next]_vars  PROVE PagesInv'
  OBVIOUS
<1>1. [ListNext]_listVars /\ [UploadNext]_uploadVars /\ [PreviewNext]_previewVars
  BY DEF Next, vars, ListPage, AnonymousUploadPage, PreviewPage
<1> QED
  BY <1>1, ListsKeep, PlacesNext, PreviewKeeps, ListAssumption, UploadAssumption, PreviewAssumption
     DEF PagesInv

(* The inductive invariants hold in every state of every page.             *)
THEOREM PagesInvariant == Spec => []PagesInv
BY PagesStart, PagesStep, PTL DEF Spec

(* A secret made for a page is shown until it is put away: no other        *)
(* replaces it, and the WebDAV token shown is the one in force.            *)
THEOREM SecretsAreShown == Spec => []SecretTrue
<1>1. PagesInv => SecretTrue
  BY ListsTrue DEF PagesInv
<1> QED  BY <1>1, PagesInvariant, PTL

(* Once nothing is under way an entry is as the last successful click on   *)
(* its row asked, for any number of rows and requests.                     *)
THEOREM ClicksAreObeyed == Spec => []LastClickHolds
<1>1. PagesInv => LastClickHolds
  BY ListsTrue DEF PagesInv
<1> QED  BY <1>1, PagesInvariant, PTL

(* Once nothing is under way a list shows the entries there are, also      *)
(* after requests whose page was left before they were answered.           *)
THEOREM ListsEndTrue == Spec => []ListTrue
<1>1. PagesInv => ListTrue
  BY ListsTrue DEF PagesInv
<1> QED  BY <1>1, PagesInvariant, PTL

(* pumpUploadQueue, called after every batch and every answer, never sends *)
(* more than the limit at a time and never leaves a place free while an    *)
(* image waits, for any limit and any batches.                             *)
THEOREM PlacesAreUsed == Spec => []PlacesUsed
<1>1. PagesInv => PlacesUsed
  BY DEF PagesInv, PlacesInv, PlacesUsed, UploadTypeOK
<1> QED  BY <1>1, PagesInvariant, PTL

(* However late an answer comes, the renderer holds the content or the     *)
(* failure of the file shown, an image's or a player's failure apart.      *)
THEOREM ContentIsOfItem == Spec => []ContentOfItem
<1>1. PagesInv => ContentOfItem
  BY DEF PagesInv, PreviewInv
<1> QED  BY <1>1, PagesInvariant, PTL

(* A text that is not shown to its end says so, for any sizes, chunks and  *)
(* cap.                                                                    *)
THEOREM CutsAreTold == Spec => []NoSilentCut
<1>1. PagesInv => NoSilentCut
  BY DEF PagesInv, PreviewInv
<1> QED  BY <1>1, PagesInvariant, PTL

(* The index a preview keeps finds the file that was clicked or moved to,  *)
(* unless the public page's list changed under it.                         *)
THEOREM OpenedStaysShown == Spec => []ShownIsOpened
<1>1. PagesInv => ShownIsOpened
  BY DEF PagesInv, PreviewInv
<1> QED  BY <1>1, PagesInvariant, PTL
=============================================================================
