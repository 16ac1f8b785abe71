------------------------------- MODULE Consent -------------------------------
(***************************************************************************)
(* FilePage with two history variables, kept from what the user does and   *)
(* sees and never from the page's own selection: which entries carry a     *)
(* mark on the screen, each in its directory, and what was asked for while *)
(* they did.  Whoever walks into another directory sees no mark there.     *)
(***************************************************************************)
EXTENDS FilePage

VARIABLES
  marked,   \* the entries marked on the screen
  asked     \* <<kind, entry>>: what the user has asked a task to do

consentVars == <<pageVars, marked, asked>>

ConsentInit == PageInit /\ marked = {} /\ asked = {}

Here(names) == {currentPath} \X names

Asks(kind, items) == asked' = asked \cup ({kind} \X items)

Walks ==
  /\ \E k \in Keys : goTo(k) \/ goBack(k) \/ reopen(k)
  /\ marked' = {} /\ UNCHANGED asked

Toggles(n) ==
  /\ toggleSelected(n)
  /\ marked' = IF <<currentPath, n>> \in marked THEN marked \ Here({n}) ELSE marked \cup Here({n})
  /\ UNCHANGED asked

MarksAll == toggleAllSelected /\ marked' = marked \cup Here(entries) /\ UNCHANGED asked

Unmarks == (clearSelection \/ archiveDone) /\ marked' = {} /\ UNCHANGED asked

\* "Copy" and "cut" ask for what a later "paste here" carries out.
Collects ==
  /\ (copyEntries /\ Asks("copy", marked)) \/ (cutEntries /\ Asks("cut", marked))
  /\ marked' = {}

\* The confirmation lists what is marked.
Deletes == deleteSelectedEntries /\ Asks("batchDelete", marked) /\ UNCHANGED marked

Drags(n, d) ==
  /\ dropEntriesOnDirectory(n, d)
  /\ Asks("drag", IF <<currentPath, n>> \in marked THEN marked ELSE Here({n}))
  /\ UNCHANGED marked

\* A task marks the entries it failed on, in whichever directory is shown.
Remarks(l) ==
  /\ dragEnds(l) \/ deleteEnds(l)
  /\ marked' = IF l.mount = mount THEN Here({i[2] : i \in l.failed}) ELSE marked
  /\ UNCHANGED asked

\* What neither marks nor asks a task for anything.
Others ==
  /\ \/ refreshButton \/ clearClipboard \/ downloadSelectedEntries \/ pasteClipboard
     \/ Dialogs \/ Query \/ archiveFails
     \/ \E l \in loops : loopStep(l) \/ pasteEnds(l) \/ sharesEnd(l)
     \/ \E r \in mutations : succeeded(r) \/ shareCreated(r) \/ failed(r)
  /\ UNCHANGED <<marked, asked>>

ConsentNext ==
  \/ Walks \/ MarksAll \/ Unmarks \/ Collects \/ Deletes \/ Others
  \/ \E n \in Names : Toggles(n)
  \/ \E n \in Names, d \in Dirs : Drags(n, d)
  \/ \E l \in loops : Remarks(l)

ConsentSpec == ConsentInit /\ [][ConsentNext]_consentVars
-----------------------------------------------------------------------------
\* Whatever a task that pastes, moves or deletes has yet to ask the server is
\* about an entry that was marked on the screen when the user asked for it: the
\* selection never survives the directory it was made in, the clipboard and
\* the failed entries put back on it keep theirs, and so does a deletion while
\* the user walks away (FileManager.tsx:208, 436, 510, 619).
ConfirmedOnly ==
  \A l \in loops : l.kind \in LoopKind =>
    \A i \in l.todo : <<l.kind, targetOf(l, i)>> \in asked
=============================================================================
