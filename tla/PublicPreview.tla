---------------------------- MODULE PublicPreview ----------------------------
(***************************************************************************)
(* Previews of files: the pages that list a directory and open one of its  *)
(* files (PublicBrowse, PublicShare, FileManager), the dialog that moves   *)
(* from file to file (PreviewModal), and the renderer that fetches what it *)
(* shows (PreviewContent, content.ts, resolver.ts).                        *)
(*                                                                         *)
(* A file is a name in a directory, of one kind, and has a size; a list    *)
(* of files is the set of its entries, in the order of their names.  The   *)
(* public page finds the file at its index in the list as it is now, the   *)
(* others in the list as it was when the preview was opened.  A share      *)
(* first asks whether it may be seen.  An effect of the renderer runs with *)
(* the step that changes the file shown.                                   *)
(***************************************************************************)
EXTENDS Naturals, FiniteSets

CONSTANTS
  Dirs,
  Last,          \* the names are 1..Last, in the order of a listing
  KindOf,        \* of a name
  Cap,           \* PREVIEW_CAPS of the kinds that are fetched
  Stores,        \* what the server may hold at first
  Sizes,
  MaxChanges,    \* bound on the files that change behind the page
  MaxRetries,    \* bound on 重试
  Absent

Names == 1..Last
File == [dir : Dirs, name : Names]
Entry == [file : File, size : Sizes]
Listing == [Names -> Sizes \cup {Absent}]

ASSUME PreviewAssumption ==
  /\ Last \in Nat /\ Cap \in Nat /\ MaxChanges \in Nat /\ MaxRetries \in Nat
  /\ Sizes \subseteq Nat /\ Stores \subseteq [Dirs -> Listing]
  /\ KindOf \in [Names -> {"text", "pdf", "svg", "png", "media", "unsupported"}]
  /\ Absent \notin Nat \cup Listing \cup File \cup Entry \cup [items : SUBSET Entry, index : Nat]

VARIABLES
  viewer,    \* "browse", "share" or "files"
  access,    \* of a share, as the page knows it; "open" on the other pages
  asking,    \* the share is being asked for; the password is being checked
  granted,   \* the server lets this visitor in
  dir,       \* the directory of the address
  stored,    \* stored[d][n]: size of the file on the server, Absent: no such file
  listed,    \* listed[d]: the directory as last read, Absent: not read yet
  beingRead, \* directories being read
  preview,   \* Absent, or items and index
  content,   \* what the renderer holds
  fetches,   \* reads of content that nobody has aborted
  changes, retries,
  opened,    \* the file that was clicked, or moved to
  retargeted \* the public page's list changed under its preview

previewVars == <<viewer, access, asking, granted, dir, stored, listed, beingRead, preview, content, fetches,
                 changes, retries, opened, retargeted>>

Access == {"pending", "locked", "open", "ended", "unreachable"}
Nothing == [state |-> "none", of |-> Absent, amount |-> 0, size |-> 0, truncated |-> FALSE]

PreviewTypeOK ==
  /\ viewer \in {"browse", "share", "files"} /\ access \in Access
  /\ asking \in {"nothing", "info", "unlock"} /\ granted \in BOOLEAN
  /\ dir \in Dirs /\ stored \in [Dirs -> Listing] /\ listed \in [Dirs -> Listing \cup {Absent}]
  /\ beingRead \subseteq Dirs
  /\ preview \in [items : SUBSET Entry, index : Nat \ {0}] \cup {Absent}
  /\ content \in [state : {"none", "loading", "shown", "error"}, of : File \cup {Absent},
                  amount : 0..Cap, size : Sizes \cup {0, Absent}, truncated : BOOLEAN]
  /\ fetches \subseteq [file : File, size : Sizes \cup {Absent}, got : 0..Cap]
  /\ changes \in 0..MaxChanges /\ retries \in 0..MaxRetries
  /\ opened \in File \cup {Absent} /\ retargeted \in BOOLEAN

PreviewInit ==
  /\ viewer \in {"browse", "share", "files"}
  /\ access = IF viewer = "share" THEN "pending" ELSE "open"
  /\ asking = (IF viewer = "share" THEN "info" ELSE "nothing") /\ granted \in BOOLEAN
  /\ dir \in Dirs
  /\ stored \in Stores
  /\ listed = [d \in Dirs |-> Absent] /\ beingRead = IF viewer = "share" THEN {} ELSE {dir}
  /\ preview = Absent /\ content = Nothing /\ fetches = {}
  /\ changes = 0 /\ retries = 0
  /\ opened = Absent /\ retargeted = FALSE

-----------------------------------------------------------------------------
(* Which renderer a file gets.                                             *)

\* resolvePreview: by extension, and by the size the listing tells.
Fetched == {"text", "pdf", "svg"}
resolvePreview(f, size) ==
  IF KindOf[f.name] \in Fetched /\ size > Cap THEN "unsupported" ELSE KindOf[f.name]

\* The component that shows a kind: text, code, JSON and Markdown share one, SVG and other
\* images another, audio and video a third.
Component(kind) == IF kind \in {"svg", "png"} THEN "image" ELSE kind

Rows(l, d) ==
  IF l[d] = Absent THEN {}
  ELSE {[file |-> [dir |-> d, name |-> n], size |-> l[d][n]] : n \in {m \in Names : l[d][m] # Absent}}

\* A list is in the order of the names: the index of an entry, and the entry at an index.
Index(items, e) == Cardinality({i \in items : i.file.name <= e.file.name})
At(items, k) == CHOOSE e \in items : Index(items, e) = k

isPreviewable(e) == resolvePreview(e.file, e.size) # "unsupported"

\* previewItems of the public page: the previewable files of its directory.
previewItems(l, d) == {e \in Rows(l, d) : isPreviewable(e)}

\* The item the dialog shows.  The public page clamps the index, elsewhere it is in range.
Items(p, l, d) == IF viewer = "browse" THEN previewItems(l, d) ELSE p.items
Clamped(index, items) == IF index < Cardinality(items) THEN index ELSE Cardinality(items)
Shown(p, l, d) ==
  IF p = Absent \/ Items(p, l, d) = {} THEN Absent
  ELSE At(Items(p, l, d), Clamped(p.index, Items(p, l, d)))
shown == Shown(preview, listed, dir)

-----------------------------------------------------------------------------
(* The renderer's effects.                                                 *)

Loading == [Nothing EXCEPT !.state = "loading"]
Fetch(e) == [file |-> e.file, size |-> Absent, got |-> 0]

\* Fault: the read of the file before is not aborted.
EffectWithoutAbort(new) ==
  LET kind(e) == resolvePreview(e.file, e.size) IN
  IF new = Absent \/ kind(new) = "unsupported" THEN content' = Nothing /\ UNCHANGED fetches
  ELSE IF shown # Absent /\ new.file = shown.file THEN UNCHANGED <<content, fetches>>
  ELSE IF kind(new) \in Fetched THEN content' = Loading /\ fetches' = fetches \cup {Fetch(new)}
  ELSE content' = Nothing /\ UNCHANGED fetches

\* When the file changes the read under way is aborted, what is held is
\* dropped and the new file is read.  A streamed image keeps what the image
\* before it left, a player the failure of the one before: no effect resets
\* them.
Effect(new) ==
  LET kind(e) == resolvePreview(e.file, e.size)
      same == shown # Absent /\ Component(kind(shown)) = Component(kind(new))
  IN
  IF new = Absent \/ kind(new) = "unsupported" THEN content' = Nothing /\ fetches' = {}
  ELSE IF shown # Absent /\ new.file = shown.file
       THEN UNCHANGED <<content, fetches>>
  ELSE IF kind(new) \in Fetched THEN content' = Loading /\ fetches' = {Fetch(new)}
  ELSE content' = (IF same /\ content.state = "error" THEN content ELSE Nothing) /\ fetches' = {}

-----------------------------------------------------------------------------
(* The share and the directory.                                            *)

Seen == access = "open"

\* A share that has ended, or cannot be reached, takes the place of the page
\* with everything that was open on it.
infoRead ==
  /\ viewer = "share" /\ asking = "info"
  /\ access' \in {"ended", "unreachable", IF granted THEN "open" ELSE "locked"}
  /\ asking' = "nothing"
  /\ IF access' = "open" THEN UNCHANGED <<preview, content, fetches>> /\ beingRead' = beingRead \cup {dir}
     ELSE preview' = Absent /\ Effect(Absent) /\ UNCHANGED beingRead
  /\ UNCHANGED <<viewer, granted, dir, stored, listed, changes, retries, opened, retargeted>>

\* 重新加载, and the query's own reading again when the connection is back.
infoAgain ==
  /\ viewer = "share" /\ asking = "nothing" /\ access \in {"unreachable", "open"}
  /\ asking' = "info"
  /\ UNCHANGED <<viewer, access, granted, dir, stored, listed, beingRead, preview, content, fetches,
                 changes, retries, opened, retargeted>>

unlock ==
  /\ access = "locked" /\ asking = "nothing"
  /\ asking' = "unlock"
  /\ UNCHANGED <<viewer, access, granted, dir, stored, listed, beingRead, preview, content, fetches,
                 changes, retries, opened, retargeted>>

\* Accepted, the share is asked for again; otherwise the form tells why not.
unlocked ==
  /\ asking = "unlock"
  /\ \/ granted' = TRUE /\ asking' = "info"
     \/ asking' = "nothing" /\ UNCHANGED granted
  /\ UNCHANGED <<viewer, access, dir, stored, listed, beingRead, preview, content, fetches,
                 changes, retries, opened, retargeted>>

\* The list changed: the public page may now show another file.
Retargeted == retargeted \/ (viewer = "browse" /\ preview # Absent)

\* A directory that cannot be read is an error in place of its list.
listingRead(d) ==
  /\ d \in beingRead /\ beingRead' = beingRead \ {d}
  /\ \E now \in {stored[d], Absent} :
       listed' = [listed EXCEPT ![d] = now]
  /\ Effect(Shown(preview, listed', dir))
  /\ retargeted' = Retargeted
  /\ UNCHANGED <<viewer, access, asking, granted, dir, stored, preview, changes, retries, opened>>

refreshList ==
  /\ Seen /\ shown = Absent
  /\ beingRead' = beingRead \cup {dir}
  /\ UNCHANGED <<viewer, access, asking, granted, dir, stored, listed, preview, content, fetches,
                 changes, retries, opened, retargeted>>

\* Another directory: behind the dialog nothing can be clicked, but the
\* browser goes back.  The preview stays as it is.
Visit(d) ==
  /\ Seen /\ d # dir
  /\ dir' = d
  /\ beingRead' = beingRead \cup {d}
  /\ Effect(Shown(preview, listed, d))
  /\ retargeted' = Retargeted
  /\ UNCHANGED <<viewer, access, asking, granted, stored, listed, preview, changes, retries, opened>>

goTo(d) == shown = Absent /\ Visit(d)
goBack(d) == shown # Absent /\ Visit(d)

\* A file changes behind the page, or comes and goes.
fileChanges(d, n) ==
  /\ changes < MaxChanges /\ changes' = changes + 1
  /\ \E size \in Sizes \cup {Absent} :
       size # stored[d][n] /\ stored' = [stored EXCEPT ![d][n] = size]
  /\ UNCHANGED <<viewer, access, asking, granted, dir, listed, beingRead, preview, content, fetches,
                 retries, opened, retargeted>>

-----------------------------------------------------------------------------
(* The dialog.                                                             *)

Preview(items, index, file) ==
  /\ preview' = [items |-> items, index |-> index]
  /\ Effect(Shown(preview', listed, dir))
  /\ opened' = file /\ retargeted' = FALSE
  /\ UNCHANGED <<viewer, access, asking, granted, dir, stored, listed, beingRead, changes, retries>>

\* Fault: the index is that of the file among all that are listed.
openPreviewByRow(e) ==
  /\ Seen /\ shown = Absent /\ isPreviewable(e)
  /\ Preview(IF viewer = "browse" THEN {} ELSE Rows(listed, dir), Index(Rows(listed, dir), e), e.file)

\* openPreview: the public page takes the index among its previewable files,
\* the others the files as they are now.  What cannot be shown is downloaded.
openPreview(e) ==
  /\ Seen /\ shown = Absent /\ isPreviewable(e)
  /\ IF viewer = "browse" THEN Preview({}, Index(previewItems(listed, dir), e), e.file)
     ELSE Preview(Rows(listed, dir), Index(Rows(listed, dir), e), e.file)

\* The arrows, from the clamped index.
onIndexChange ==
  LET items == Items(preview, listed, dir)
      at == Clamped(preview.index, items)
  IN  /\ shown # Absent
      /\ \E k \in {at - 1, at + 1} \cap 1..Cardinality(items) :
           Preview(preview.items, k, At(items, k).file)

onClose ==
  /\ shown # Absent
  /\ preview' = Absent /\ opened' = Absent /\ retargeted' = FALSE
  /\ Effect(Absent)
  /\ UNCHANGED <<viewer, access, asking, granted, dir, stored, listed, beingRead, changes, retries>>

-----------------------------------------------------------------------------
(* fetchCapped: chunks are read until there are Cap bytes or no more.      *)

Reads(f, new) ==
  /\ fetches' = (fetches \ {f}) \cup new
  /\ UNCHANGED <<viewer, access, asking, granted, dir, stored, listed, beingRead, preview, changes,
                 retries, opened, retargeted>>

Ends(f, state, amount, truncated) ==
  /\ content' = [state |-> state, of |-> f.file, amount |-> amount, size |-> f.size, truncated |-> truncated]
  /\ Reads(f, {})

fetchFails(f) == Ends(f, "error", 0, FALSE)

response(f) ==
  /\ f.size = Absent
  /\ LET size == stored[f.file.dir][f.file.name] IN
     IF size = Absent THEN fetchFails(f) ELSE Reads(f, {[f EXCEPT !.size = size]}) /\ UNCHANGED content

\* Fault: a file is cut only if more than Cap bytes were read.
readStrictly(f) ==
  /\ f.size # Absent
  /\ \/ f.got = f.size /\ Ends(f, "shown", f.got, FALSE)
     \/ \E n \in 1..(f.size - f.got) :
          IF f.got + n >= Cap THEN Ends(f, "shown", Cap, f.got + n > Cap)
          ELSE Reads(f, {[f EXCEPT !.got = @ + n]}) /\ UNCHANGED content

readChunk(f) ==
  /\ f.size # Absent
  /\ \/ f.got = f.size /\ Ends(f, "shown", f.got, FALSE)
     \/ \E n \in 1..(f.size - f.got) :
          IF f.got + n >= Cap THEN Ends(f, "shown", Cap, TRUE)
          ELSE Reads(f, {[f EXCEPT !.got = @ + n]}) /\ UNCHANGED content

\* The browser cannot play it.
mediaFails ==
  /\ shown # Absent /\ KindOf[shown.file.name] = "media" /\ content = Nothing
  /\ content' = [Nothing EXCEPT !.state = "error", !.of = shown.file]
  /\ UNCHANGED <<viewer, access, asking, granted, dir, stored, listed, beingRead, preview, fetches,
                 changes, retries, opened, retargeted>>

retry ==
  /\ shown # Absent /\ content.state = "error" /\ KindOf[shown.file.name] \in Fetched
  /\ retries < MaxRetries /\ retries' = retries + 1
  /\ content' = Loading /\ fetches' = {Fetch(shown)}
  /\ UNCHANGED <<viewer, access, asking, granted, dir, stored, listed, beingRead, preview, changes,
                 opened, retargeted>>

PreviewNext ==
  \/ infoRead \/ infoAgain \/ unlock \/ unlocked
  \/ refreshList \/ onIndexChange \/ onClose \/ mediaFails \/ retry
  \/ \E d \in Dirs : listingRead(d) \/ goTo(d) \/ goBack(d) \/ \E n \in Names : fileChanges(d, n)
  \/ \E e \in Rows(listed, dir) : openPreview(e)
  \/ \E f \in fetches : response(f) \/ fetchFails(f) \/ readChunk(f)

PreviewSpec == PreviewInit /\ [][PreviewNext]_previewVars

-----------------------------------------------------------------------------
\* What is shown, or said to have failed, is the file of the dialog, however
\* late the answer for the file before comes; an image or a player may still
\* tell the failure of the one before, as nothing resets it.  (The state is
\* well typed all along.)
ContentOfItem ==
  /\ PreviewTypeOK
  /\ content.of # Absent =>
       /\ shown # Absent
       /\ \/ content.of = shown.file
          \/ content.state = "error" /\ KindOf[shown.file.name] \in {"png", "media"}

\* A text that is not shown to its end says so, wherever its chunks end; at
\* most Cap is kept.
NoSilentCut ==
  content.state = "shown" =>
    /\ content.amount <= Cap
    /\ content.amount < content.size => content.truncated

\* The dialog shows the file that was clicked or moved to, except on the
\* public page when its list was read again or another directory opened.
ShownIsOpened ==
  preview # Absent /\ ~retargeted => shown # Absent /\ shown.file = opened
=============================================================================
