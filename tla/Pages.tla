-------------------------------- MODULE Pages --------------------------------
(***************************************************************************)
(* The pages of the web interface that only list, show or collect: a tab    *)
(* of the browser is at one of the lists of EntryLists, at the page for     *)
(* anonymous images, or at a page that previews files.                      *)
(***************************************************************************)
EXTENDS EntryLists, AnonymousUpload, PublicPreview

VARIABLE tab

vars == <<tab, listVars, uploadVars, previewVars>>

\* A part of the state that is not the tab's page starts in one way only.
Init ==
  /\ tab \in {"lists", "anonymous", "previews"}
  /\ ListInit /\ UploadInit /\ PreviewInit
  /\ tab # "lists" => page = "trash" /\ \A e \in Entries : server[e] = "on"
  /\ tab # "previews" => /\ viewer = "files" /\ ~granted
                         /\ dir = CHOOSE d \in Dirs : TRUE
                         /\ stored = CHOOSE s \in Stores : TRUE

ListPage == tab = "lists" /\ ListNext /\ UNCHANGED <<tab, uploadVars, previewVars>>
AnonymousUploadPage == tab = "anonymous" /\ UploadNext /\ UNCHANGED <<tab, listVars, previewVars>>
PreviewPage == tab = "previews" /\ PreviewNext /\ UNCHANGED <<tab, listVars, uploadVars>>

Next == ListPage \/ AnonymousUploadPage \/ PreviewPage

Spec == Init /\ [][Next]_vars
=============================================================================
