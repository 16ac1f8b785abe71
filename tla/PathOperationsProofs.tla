------------------------ MODULE PathOperationsProofs ------------------------
(***************************************************************************)
(* Proofs about PathOperations, for every set of paths and any number of   *)
(* writes, operations, crashes and failing calls: the rows follow the      *)
(* files (MetaFollowsFile), content is where the client last heard it is   *)
(* (PlaceHonoured), only a failing call can make a start refuse            *)
(* (RefusalNeedsFailure), and only the replay of a delete destroys content *)
(* (LostOnlyByReplay).                                                     *)
(*                                                                         *)
(* Several journals may be pending at once when calls have failed.  The    *)
(* argument keeps them apart: the paths of two operations are either       *)
(* disjoint or tangled (TangleInv), so that on a path that is not tangled  *)
(* one operation alone decides what is there (FileInv, StepInv), and what  *)
(* the others do elsewhere leaves it alone (the Frame lemmas).             *)
(***************************************************************************)
EXTENDS PathOperations, TLAPS

\* The paths of an operation, and the operations that are under way or left to
\* the next start.
paths(j) == {j.from, j.to}
Pending == journal \cup (IF step = "idle" THEN {} ELSE {cur})
Named(p) == \E j \in Pending : p \in paths(j)

Late == {"unlink", "undoUnlink"}
Forward == {"journal", "rename", "fsReady", "unlock"}
Back == {"undoMeta", "undoRename", "undoUnlink"}

\* Operations have their own numbers, and their steps suit their kind.
NumberInv ==
  /\ dbReady \subseteq 1..ops /\ live \subseteq 1..puts
  /\ \A p \in Paths : file[p] <= puts
  /\ \A j \in Pending :
       /\ j \in Operations /\ j.id <= ops
       /\ j.kind = "delete" => j.to = j.from
       /\ j.kind = "move" => j.to # j.from /\ paths(j) \subseteq Ordinary
  /\ \A j, k \in Pending : j.id = k.id => j = k
  /\ step = "journal" => cur \notin journal /\ cur.id = ops /\ cur.id \notin dbReady

HolderInv ==
  /\ mode \in {"down", "refused"} => step = "idle"
  /\ step \notin {"idle", "journal"} \cup Late => cur \in journal
  /\ step \in Back \cup {"rename"} => cur.kind = "move"
  /\ step = "remove" => cur.kind = "delete"
  /\ step \in Forward => mode = "serving"
  /\ step = "dbReady" /\ mode = "recovering" => cur.kind = "delete"
  /\ step \in {"unlock", "unlink"} /\ mode = "serving" /\ cur \in journal => cur.id \in dbReady
  /\ step = "remove" /\ mode = "recovering" => cur.id \notin dbReady

\* An operation is tangled with both its paths or with none, and those of two
\* operations that are not are different.
TangleInv ==
  /\ \A j \in Pending : j.from \in tangled <=> j.to \in tangled
  /\ \A j, k \in Pending : paths(j) \cap paths(k) # {} => j = k \/ j.from \in tangled

\* Before the rename, after it, and after the rows have followed.
Unmoved(j) == /\ file[j.from] # Absent /\ file[j.to] = Absent
              /\ meta[j.from] = file[j.from] /\ meta[j.to] = Absent
Renamed(j) == /\ file[j.from] = Absent /\ file[j.to] # Absent
              /\ meta[j.from] = file[j.to] /\ meta[j.to] = Absent
Moved(j) == /\ file[j.from] = Absent /\ file[j.to] # Absent
            /\ meta[j.from] = Absent /\ meta[j.to] = file[j.to]
Gone(j) == file[j.from] = Absent /\ meta[j.from] = Absent

\* Files and rows of the paths that are not tangled.
FileInv ==
  /\ \A p, q \in Paths : file[p] = file[q] /\ file[p] # Absent => p = q
  /\ \A p \in Paths \ tangled : ~Named(p) => meta[p] = file[p]
  /\ \A j \in Pending : j.from \notin tangled =>
       /\ j.kind = "move" => Unmoved(j) \/ Renamed(j) \/ Moved(j)
       /\ j.kind = "delete" /\ j.id \in dbReady => Gone(j)

\* What each step of an operation may rely on: on its own paths ...
StepInv ==
  /\ step # "idle" /\ cur.from \notin tangled /\ cur.kind = "move" =>
       /\ step \in {"journal", "rename", "undoUnlink"} => Unmoved(cur)
       /\ step \in {"fsReady", "undoRename"} => Renamed(cur)
       /\ step = "meta" => Renamed(cur) \/ (mode = "recovering" /\ Moved(cur))
       /\ step \in {"dbReady", "unlock", "unlink"} => Moved(cur)
  /\ step # "idle" /\ cur.from \notin tangled /\ cur.kind = "delete" =>
       /\ step = "journal" => meta[cur.from] = file[cur.from]
       /\ step \in {"fsReady", "meta"} => file[cur.from] = Absent
       /\ step \in {"dbReady", "unlock", "unlink"} => Gone(cur)

\* ... and whatever the others did to them.
AloneInv ==
  /\ step \in {"journal", "rename"} /\ cur.kind = "move" => file[cur.to] = Absent
  /\ step = "undoRename" => file[cur.from] = Absent
  /\ step \in {"fsReady", "meta", "dbReady", "undoMeta"} /\ cur.kind = "move" /\ mode = "serving"
       => file[cur.from] = Absent
  /\ step \in {"journal", "remove"} /\ cur.kind = "delete" /\ mode = "serving"
       => file[cur.from] \notin live

\* A pending delete has nothing to destroy, unless it is tangled and ordinary.
LiveInv ==
  \A j \in Pending :
    /\ j.kind = "delete"
    /\ j.from \notin tangled \/ (j.from \in Managed /\ j.id \notin dbReady)
    => file[j.from] \notin live

\* Content is where the client may expect it ...
Found(c) == place[c] \cap tangled = {} => \E p \in place[c] : file[p] = c

\* ... and the client expects that of a move which is not tangled at one of two
\* paths, or at the new one if the move was answered with success.
Resumed(j) == cur = j => mode = "recovering" /\ step \in {"meta", "unlink"}
Expected(j, c) ==
  \/ place[c] = paths(j)
  \/ place[c] = {j.to} /\ file[j.to] = c /\ j.id \in dbReady /\ Resumed(j)

PlaceInv ==
  /\ \A c \in live : Found(c)
  /\ \A j \in Pending : j.kind = "move" /\ j.from \notin tangled =>
       \A c \in live : c \in {file[j.from], file[j.to]} => Expected(j, c)

\* Without failing calls nothing gets tangled, and a marker is the truth.
CrashInv ==
  failures = 0 =>
    /\ tangled = {} /\ mode # "refused"
    /\ mode = "serving" => journal \subseteq {cur}
    /\ \A j \in Pending : j.kind = "move" /\ j.id \in dbReady => Moved(j)
    /\ step \in Back => cur.id \notin dbReady

\* Without a crash either, nothing is left behind.
CalmInv ==
  crashes + failures = 0 =>
    /\ mode # "serving" => step = "idle"
    /\ step = "idle" => journal = {} /\ dbReady = {}
    /\ step # "idle" => journal \subseteq {cur} /\ dbReady \subseteq {cur.id}

IInv ==
  /\ TypeOK /\ NumberInv /\ HolderInv /\ TangleInv /\ FileInv /\ StepInv /\ AloneInv
  /\ LiveInv /\ PlaceInv /\ CrashInv /\ CalmInv

\* A pending operation has a number, a kind and paths, the running one too.
LEMMA PendingType ==
  TypeOK /\ NumberInv =>
    /\ \A j \in Pending : /\ j.id \in 1..ops /\ j.kind \in {"delete", "move"}
                          /\ j.from \in Paths /\ j.to \in Paths
    /\ step # "idle" => cur \in Pending /\ cur \in Operations
    /\ journal \subseteq Pending /\ ops \in Nat /\ puts \in Nat
BY BoundsAssumption DEF TypeOK, NumberInv, Pending, Operations, NoOp

\* An idle service has only its journals pending.
LEMMA IdlePending == step = "idle" => Pending = journal
BY DEF Pending

\* What using the paths P tangles.
LEMMA UseEffect ==
  ASSUME TypeOK, NumberInv, TangleInv, step = "idle", NEW P \in SUBSET Paths, use(P)
  PROVE  /\ tangled \subseteq tangled' /\ tangled' \subseteq Paths
         /\ P \cap tangled' = {} \/ P \subseteq tangled'
         /\ \A j \in journal : /\ P \cap paths(j) # {} => paths(j) \cup P \subseteq tangled'
                               /\ j.from \in tangled' <=> j.to \in tangled'
         /\ journal = {} /\ tangled = {} => tangled' = {}
<1> DEFINE met == {j \in journal : P \cap {j.from, j.to} # {}}
<1>1. tangled' = IF met = {} /\ P \cap tangled = {} THEN tangled
                 ELSE tangled \cup P \cup UNION {{j.from, j.to} : j \in met}
  BY DEF use
<1>2. \A j \in journal : j.from \in Paths /\ j.to \in Paths
  BY PendingType
<1>3. \A j, k \in journal : paths(j) \cap paths(k) # {} => j = k \/ j.from \in tangled
  BY IdlePending DEF TangleInv
<1>4. \A j \in journal : j.from \in tangled <=> j.to \in tangled
  BY IdlePending DEF TangleInv
<1>5. CASE met = {} /\ P \cap tangled = {}
  BY <1>1, <1>4, <1>5 DEF TypeOK, paths
<1>6. CASE ~(met = {} /\ P \cap tangled = {})
  <2>1. \A x : x \in tangled' <=> x \in tangled \/ x \in P \/ \E j \in met : x \in {j.from, j.to}
    BY <1>1, <1>6
  <2>2. tangled' \subseteq Paths
    BY <1>2, <2>1 DEF TypeOK
  <2>3. \A j \in met : paths(j) \cup P \subseteq tangled'
    BY <2>1 DEF paths
  <2>4. ASSUME NEW j \in journal, j \notin met  PROVE j.from \in tangled' <=> j.to \in tangled'
    <3>1. ASSUME NEW x \in paths(j), x \in tangled'  PROVE j.from \in tangled /\ j.to \in tangled
      BY <1>3, <1>4, <2>1, <2>4, <3>1 DEF paths
    <3> QED  BY <2>1, <3>1 DEF paths
  <2> QED  BY <1>6, <2>1, <2>2, <2>3, <2>4 DEF paths
<1> QED  BY <1>5, <1>6

\* A step of the running operation changes only its own paths.
LEMMA FileFrame ==
  ASSUME TypeOK, NumberInv, TangleInv, FileInv, step # "idle",
         cur' = cur, tangled' = tangled, Pending' = Pending, dbReady' \subseteq dbReady \cup {cur.id},
         \A x \in Paths : x \notin paths(cur) => file'[x] = file[x] /\ meta'[x] = meta[x],
         \A x, y \in Paths : file'[x] = file'[y] /\ file'[x] # Absent => x = y,
         cur.from \notin tangled => (cur.kind = "move" => (Unmoved(cur) \/ Renamed(cur) \/ Moved(cur))'),
         cur.from \notin tangled => ((cur.kind = "delete" /\ cur.id \in dbReady') => Gone(cur)')
  PROVE  FileInv'
<1>1. ASSUME NEW x \in Paths \ tangled, ~Named(x)'  PROVE meta'[x] = file'[x]
  <2>1. ~Named(x) /\ x \notin paths(cur)
    BY <1>1, PendingType DEF Named
  <2> QED  BY <1>1, <2>1 DEF FileInv
<1>2. ASSUME NEW j \in Pending, j.from \notin tangled, j # cur
      PROVE  /\ j.kind = "move" => (Unmoved(j) \/ Renamed(j) \/ Moved(j))'
             /\ j.kind = "delete" /\ j.id \in dbReady' => Gone(j)'
  <2>1. j.from \notin paths(cur) /\ j.to \notin paths(cur)
    BY <1>2, PendingType DEF TangleInv, paths
  <2>2. /\ file'[j.from] = file[j.from] /\ meta'[j.from] = meta[j.from]
        /\ file'[j.to] = file[j.to] /\ meta'[j.to] = meta[j.to]
    BY <2>1, PendingType
  <2>3. j.id # cur.id
    BY <1>2, PendingType DEF NumberInv
  <2>4. /\ j.kind = "move" => Unmoved(j) \/ Renamed(j) \/ Moved(j)
        /\ j.kind = "delete" /\ j.id \in dbReady => Gone(j)
    BY <1>2 DEF FileInv
  <2> QED  BY <2>2, <2>3, <2>4 DEF Unmoved, Renamed, Moved, Gone
<1>3. ASSUME NEW j \in Pending', j.from \notin tangled'
      PROVE  /\ j.kind = "move" => (Unmoved(j) \/ Renamed(j) \/ Moved(j))'
             /\ j.kind = "delete" /\ j.id \in dbReady' => Gone(j)'
  <2>1. CASE j = cur
    BY <1>3, <2>1 DEF Unmoved, Renamed, Moved, Gone
  <2>2. CASE j # cur
    BY <1>2, <1>3, <2>2
  <2> QED  BY <2>1, <2>2
<1> QED  BY <1>1, <1>3 DEF FileInv

\* An operation that returns, or is interrupted, leaves its paths to nobody
\* or to its journal.
LEMMA ReturnFrame ==
  ASSUME TypeOK, NumberInv, HolderInv, TangleInv, FileInv, StepInv, step # "idle", step' = "idle",
         UNCHANGED <<file, meta, journal, dbReady, tangled>>
  PROVE  FileInv'
<1>1. Pending' = journal /\ Pending = journal \cup {cur}
  BY DEF Pending
<1>2. CASE cur \in journal
  <2>1. Pending' = Pending
    BY <1>1, <1>2
  <2> QED  BY <2>1 DEF FileInv, Named, Unmoved, Renamed, Moved, Gone
<1>3. CASE cur \notin journal
  <2>1. step \in {"journal", "unlink", "undoUnlink"}
    BY <1>3 DEF HolderInv, Late
  <2>2. cur.from \notin tangled => meta[cur.from] = file[cur.from] /\ meta[cur.to] = file[cur.to]
    BY <2>1, PendingType DEF HolderInv, NumberInv, StepInv, Back, Unmoved, Moved, Gone
  <2>3. ASSUME NEW x \in Paths \ tangled, ~Named(x)'  PROVE meta[x] = file[x]
    <3>1. x \in paths(cur) \/ ~Named(x)
      BY <1>1, <2>3 DEF Named
    <3>2. x \in paths(cur) => cur.from \notin tangled
      BY <2>3, PendingType DEF TangleInv, paths
    <3> QED  BY <2>2, <2>3, <3>1, <3>2 DEF FileInv, paths
  <2> QED  BY <1>1, <2>3 DEF FileInv, Unmoved, Renamed, Moved, Gone
<1> QED  BY <1>2, <1>3

\* What the client is told is about one of the running operation's paths.
LEMMA ToldType ==
  ASSUME TypeOK, cur \in Operations, NEW P \in SUBSET Paths, Told(P)
  PROVE  place' \in [Contents -> SUBSET Paths]
BY DEF TypeOK, Told

\* A file that stays where it is stays where it is expected.
LEMMA PlaceFrame ==
  ASSUME PlaceInv, UNCHANGED <<file, live, place, tangled>>, Pending' \subseteq Pending,
         \A j \in Pending' : j.kind = "move" /\ j.id \in dbReady /\ Resumed(j) =>
           j.id \in dbReady' /\ Resumed(j)'
  PROVE  PlaceInv'
<1>1. ASSUME NEW c \in live'  PROVE Found(c)'
  BY <1>1 DEF PlaceInv, Found
<1>2. ASSUME NEW j \in Pending', j.kind = "move", j.from \notin tangled',
             NEW c \in live', c \in {file[j.from], file[j.to]}'
      PROVE  Expected(j, c)'
  <2>1. Expected(j, c)
    BY <1>2 DEF PlaceInv
  <2> QED  BY <1>2, <2>1 DEF Expected
<1> QED  BY <1>1, <1>2 DEF PlaceInv

\* The running operation moves or removes files on its own paths: the others
\* stay where they are expected.
LEMMA MoveFrame ==
  ASSUME TypeOK, NumberInv, HolderInv, TangleInv, PlaceInv, step # "idle", step' # "idle", cur' = cur,
         UNCHANGED <<live, place, tangled, journal, dbReady>>,
         \A x \in Paths : x \notin paths(cur) => file'[x] = file[x],
         cur.from \notin tangled => \A c \in live : c \in {file[cur.from], file[cur.to]} => Found(c)',
         cur.from \notin tangled /\ cur.kind = "move" =>
           \A c \in live : c \in {file[cur.from], file[cur.to]}' => Expected(cur, c)'
  PROVE  PlaceInv'
<1>1. Pending' = Pending /\ cur \in Pending /\ cur.from \in Paths /\ cur.to \in Paths
  BY PendingType DEF Pending
<1>2. ASSUME NEW c \in live'  PROVE Found(c)'
  <2>1. ASSUME place[c] \cap tangled = {}  PROVE \E p \in place[c] : file'[p] = c
    <3>1. PICK p \in place[c] : file[p] = c
      BY <1>2, <2>1 DEF PlaceInv, Found
    <3>2. p \in Paths /\ p \notin tangled
      BY <1>2, <2>1, <3>1 DEF TypeOK, NumberInv
    <3>3. CASE p \notin paths(cur)
      BY <3>1, <3>2, <3>3
    <3>4. CASE p \in paths(cur)
      <4>1. cur.from \notin tangled
        BY <1>1, <3>2, <3>4 DEF TangleInv, paths
      <4>2. c \in live /\ c \in {file[cur.from], file[cur.to]}
        BY <1>2, <3>1, <3>4 DEF paths
      <4>3. Found(c)'
        BY <4>1, <4>2
      <4> QED  BY <2>1, <4>3 DEF Found
    <3> QED  BY <3>3, <3>4
  <2> QED  BY <2>1 DEF Found
<1>3. ASSUME NEW j \in Pending', j.kind = "move", j.from \notin tangled',
             NEW c \in live', c \in {file[j.from], file[j.to]}'
      PROVE  Expected(j, c)'
  <2>1. CASE j = cur
    BY <1>3, <2>1 DEF Expected, Resumed
  <2>2. CASE j # cur
    <3>1. j \in Pending /\ j.from \in Paths /\ j.to \in Paths
      BY <1>1, <1>3, PendingType
    <3>2. j.from \notin paths(cur) /\ j.to \notin paths(cur)
      BY <1>1, <1>3, <2>2, <3>1 DEF TangleInv, paths
    <3>3. file'[j.from] = file[j.from] /\ file'[j.to] = file[j.to]
      BY <3>1, <3>2
    <3>4. Expected(j, c)
      BY <1>3, <3>1, <3>3 DEF PlaceInv
    <3> QED  BY <2>2, <3>3, <3>4 DEF Expected, Resumed
  <2> QED  BY <2>1, <2>2
<1> QED  BY <1>2, <1>3 DEF PlaceInv

\* The client is told where the file of the running operation is now.
LEMMA ToldFrame ==
  ASSUME TypeOK, NumberInv, HolderInv, TangleInv, FileInv, StepInv, PlaceInv,
         step \in Late, step' = "idle", cur' = NoOp, UNCHANGED file, journal' \subseteq journal,
         Told(IF step = "unlink" THEN {cur.to} ELSE {cur.from}),
         \A j \in journal' : j.id \in dbReady => j.id \in dbReady',
         cur \in journal' /\ mode = "serving" => step = "unlink" /\ cur.id \in dbReady
  PROVE  PlaceInv'
<1> DEFINE P == IF step = "unlink" THEN {cur.to} ELSE {cur.from}
           Changed == IF cur.kind = "move" /\ mode = "serving"
                      THEN live \cap {file[cur.from], file[cur.to]} ELSE {}
<1>1. /\ Pending' = journal' /\ Pending = journal \cup {cur} /\ cur \in Operations
      /\ cur.from \in Paths /\ cur.to \in Paths
  BY PendingType DEF Pending, Late
<1>2. UNCHANGED <<live, tangled>>
  BY DEF Told
<1>3. \A c \in live : c \in Contents /\ c # Absent
  BY DEF TypeOK, Contents, Absent
<1>4. \A c \in live : place'[c] = IF c \in Changed THEN P ELSE place[c]
  BY <1>3 DEF Told
<1> HIDE DEF P
<1>5. ASSUME NEW c \in Changed, cur.from \notin tangled  PROVE \E p \in P : file[p] = c
  <2>1. IF step = "unlink" THEN Moved(cur) ELSE Unmoved(cur)
    BY <1>5 DEF StepInv, Late
  <2> QED  BY <1>3, <1>5, <2>1 DEF P, Moved, Unmoved
<1>6. ASSUME NEW c \in live'  PROVE Found(c)'
  <2>1. CASE c \in Changed
    <3>1. P \cap tangled = {} => cur.from \notin tangled
      BY <1>1 DEF P, TangleInv
    <3> QED  BY <1>2, <1>4, <1>5, <1>6, <2>1, <3>1 DEF Found
  <2>2. CASE c \notin Changed
    BY <1>2, <1>4, <1>6, <2>2 DEF Found, PlaceInv
  <2> QED  BY <2>1, <2>2
<1>7. ASSUME NEW j \in Pending', j.kind = "move", j.from \notin tangled',
             NEW c \in live', c \in {file[j.from], file[j.to]}'
      PROVE  Expected(j, c)'
  <2>1. /\ j \in journal /\ j \in Pending /\ j.from \in Paths /\ j.to \in Paths /\ j # NoOp
        /\ c \in live /\ c \in {file[j.from], file[j.to]} /\ j.from \notin tangled
    BY <1>1, <1>2, <1>7, PendingType DEF NoOp
  <2>2. Expected(j, c)
    BY <1>7, <2>1 DEF PlaceInv
  <2>3. CASE j = cur /\ mode = "serving"
    <3>1. step = "unlink" /\ cur.id \in dbReady /\ Moved(cur) /\ c \in Changed
      BY <1>1, <1>7, <2>1, <2>3 DEF StepInv
    <3>2. place'[c] = {j.to} /\ file'[j.to] = c /\ j.id \in dbReady'
      BY <1>1, <1>3, <1>4, <2>3, <3>1 DEF P, Moved
    <3> QED  BY <2>1, <3>2 DEF Expected, Resumed
  <2>4. CASE j # cur \/ mode # "serving"
    <3>1. c \notin Changed
      <4>1. CASE j # cur
        <5>1. paths(j) \cap paths(cur) = {}
          BY <1>1, <2>1, <4>1 DEF TangleInv
        <5> QED  BY <1>1, <1>3, <2>1, <5>1 DEF FileInv, paths
      <4> QED  BY <2>4, <4>1
    <3> QED  BY <1>1, <1>4, <1>7, <2>1, <2>2, <3>1 DEF Expected, Resumed
  <2> QED  BY <2>3, <2>4
<1> QED  BY <1>6, <1>7 DEF PlaceInv

\* What LostOnlyByReplay says of a step.
Lost ==
  \A c \in live \cap live' : Exists(c) /\ ~Exists(c)' =>
    mode = "recovering" /\ step = "remove" /\ cur.from \in Ordinary \cap tangled

\* Each step keeps the types.
LEMMA TypeStep == IInv /\ [Next]_vars => TypeOK'
<1> SUFFICES ASSUME IInv, [Next]_vars  PROVE TypeOK'
  OBVIOUS
<1> USE PathsAssumption, BoundsAssumption DEF At, Goto, Running, Fail, Return, ReturnError,
   state, ghosts, counts, Told, use, Operations, NoOp, Contents, Absent, Ordinary
<1>0. TypeOK /\ NumberInv /\ HolderInv /\ CalmInv
  BY DEF IInv
<1>1. ASSUME NEW p \in Paths, Put(p)  PROVE TypeOK'
  BY <1>0, <1>1 DEF TypeOK, Put, guardPendingManagedPathWrite
<1>2. ASSUME NEW kind \in {"delete", "move"}, NEW p \in Paths, NEW q \in Paths,
            Begin(kind, p, q)
     PROVE TypeOK'
  BY <1>0, <1>2 DEF TypeOK, Begin
<1>3. CASE writePathOperation
  BY <1>0, <1>3 DEF TypeOK, NumberInv, HolderInv, Pending, CalmInv, writePathOperation
<1>4. CASE removeTarget
  BY <1>0, <1>4 DEF TypeOK, removeTarget
<1>5. CASE rename
  BY <1>0, <1>5 DEF TypeOK, rename, renameTo
<1>6. CASE markPathFilesystemReady
  BY <1>0, <1>6 DEF TypeOK, markPathFilesystemReady
<1>7. CASE updateMetadata
  BY <1>0, <1>7 DEF TypeOK, updateMetadata, movePathMetadata, rowsCollide
<1>8. CASE markPathDatabaseReady
  BY <1>0, <1>8 DEF TypeOK, markPathDatabaseReady
<1>9. CASE releasePersistent
  BY <1>0, <1>9 DEF TypeOK, releasePersistent
<1>10. CASE removePathOperation
  <2>1. place' \in [Contents -> SUBSET Paths]
    <3>1. cur \in Operations /\ {cur.from} \in SUBSET Paths /\ {cur.to} \in SUBSET Paths
      BY <1>0, PendingType, <1>10 DEF removePathOperation
    <3>2. UNCHANGED place \/ Told({cur.to}) \/ Told({cur.from})
      BY <1>10 DEF removePathOperation
    <3> QED  BY <1>0, <3>1, <3>2, ToldType DEF TypeOK
  <2>2. step' = "idle" <=> cur' = NoOp
    BY <1>0, PendingType, <1>10 DEF TypeOK, NumberInv, HolderInv, Pending, CalmInv,
       removePathOperation
  <2>3. step' = "idle" /\ crashes' + failures' = 0 => dbReady' = {}
    BY <1>0, PendingType, <1>10 DEF TypeOK, NumberInv, HolderInv, Pending, CalmInv,
       removePathOperation
  <2>4. /\ journal' \subseteq journal /\ dbReady' \subseteq dbReady /\ UNCHANGED <<file, meta, live, tangled>>
        /\ mode' \in {mode, "down"} /\ cur' \in {cur, NoOp} /\ step' \in {step, "idle"}
        /\ UNCHANGED <<puts, ops, crashes>> /\ failures' \in 0..MaxFailures
    BY <1>0, <1>10 DEF TypeOK, Told, removePathOperation
  <2> HIDE DEF Operations, NoOp, Contents
  <2> QED  BY <1>0, <2>1, <2>2, <2>3, <2>4 DEF TypeOK
<1>11. CASE undoMove
  BY <1>0, <1>11 DEF TypeOK, undoMove, movePathMetadata, rowsCollide, renameTo
<1>12. CASE writePathOperationFails
  BY <1>0, <1>12 DEF TypeOK, NumberInv, HolderInv, Pending, CalmInv, writePathOperationFails
<1>13. CASE stepFails
  <2>1. place' \in [Contents -> SUBSET Paths]
    <3>1. cur \in Operations /\ {cur.from} \in SUBSET Paths /\ {cur.to} \in SUBSET Paths
      BY <1>0, PendingType, <1>13 DEF stepFails
    <3>2. UNCHANGED place \/ Told({cur.to}) \/ Told({cur.from})
      BY <1>13 DEF stepFails
    <3> QED  BY <1>0, <3>1, <3>2, ToldType DEF TypeOK
  <2>2. step' = "idle" <=> cur' = NoOp
    BY <1>0, PendingType, <1>13 DEF TypeOK, NumberInv, HolderInv, Pending, CalmInv, stepFails
  <2>3. step' = "idle" /\ crashes' + failures' = 0 => dbReady' = {}
    BY <1>0, PendingType, <1>13 DEF TypeOK, NumberInv, HolderInv, Pending, CalmInv, stepFails
  <2>4. /\ journal' \subseteq journal /\ dbReady' \subseteq dbReady /\ UNCHANGED <<file, meta, live, tangled>>
        /\ mode' \in {mode, "down"} /\ cur' \in {cur, NoOp} /\ step' \in {step, "idle"}
        /\ UNCHANGED <<puts, ops, crashes>> /\ failures' \in 0..MaxFailures
    BY <1>0, <1>13 DEF TypeOK, Told, stepFails
  <2> HIDE DEF Operations, NoOp, Contents
  <2> QED  BY <1>0, <2>1, <2>2, <2>3, <2>4 DEF TypeOK
<1>14. CASE moveFails
  BY <1>0, <1>14 DEF TypeOK, moveFails, rowsCollide
<1>15. CASE recoveryDone
  BY <1>0, <1>15 DEF TypeOK, recoveryDone
<1>16. CASE recoveryBlocked
  BY <1>0, <1>16 DEF TypeOK, NumberInv, HolderInv, Pending, CalmInv, recoveryBlocked, rowsCollide
<1>17. ASSUME NEW j \in journal, RecoverPathOperations(j)  PROVE TypeOK'
  BY <1>0, <1>17 DEF TypeOK, RecoverPathOperations, recoverDelete, recoverMove, resume, refuse,
     moved, unmoved
<1>18. CASE Crash
  BY <1>0, <1>18 DEF TypeOK, Crash
<1>19. CASE Shutdown
  BY <1>0, <1>19 DEF TypeOK, Shutdown
<1>20. CASE Restart
  BY <1>0, <1>20 DEF TypeOK, Restart
<1>21. CASE UNCHANGED vars
  BY <1>0, <1>21 DEF TypeOK, vars
<1> QED
  BY <1>1, <1>2, <1>3, <1>4, <1>5, <1>6, <1>7, <1>8, <1>9, <1>10, <1>11, <1>12, <1>13, <1>14,
     <1>15, <1>16, <1>17, <1>18, <1>19, <1>20, <1>21 DEF Next, Step, FailedCall, RecoveryStep
\* Each step keeps the operations numbered and of their kind.
LEMMA NumberStep == IInv /\ [Next]_vars => NumberInv'
<1> SUFFICES ASSUME IInv, [Next]_vars  PROVE NumberInv'
  OBVIOUS
<1> USE PathsAssumption, BoundsAssumption DEF At, Goto, Running, Fail, Return, ReturnError,
   state, ghosts, counts, Told, Operations, NoOp, Contents, Absent, Ordinary
<1>0. TypeOK /\ NumberInv /\ HolderInv /\ TangleInv /\ FileInv /\ StepInv /\ AloneInv
       /\ LiveInv /\ PlaceInv /\ CrashInv /\ CalmInv
  BY DEF IInv
<1>1. ASSUME NEW p \in Paths, Put(p)  PROVE NumberInv'
  <2>1. file' = [file EXCEPT ![p] = puts + 1] /\ puts' = puts + 1 /\ live' \subseteq live \cup {puts + 1}
        /\ puts \in Nat /\ file \in [Paths -> Contents \cup {Absent}]
    BY <1>0, <1>1 DEF TypeOK, Put
  <2>2. live' \subseteq 1..puts' /\ \A x \in Paths : file'[x] <= puts'
    BY <1>0, <2>1 DEF NumberInv
  <2> QED  BY <1>0, <2>2, <1>1 DEF TypeOK, NumberInv, HolderInv, Pending, paths, Late, Forward,
  Back, Put
<1>2. ASSUME NEW kind \in {"delete", "move"}, NEW p \in Paths, NEW q \in Paths,
            Begin(kind, p, q)
     PROVE NumberInv'
  <2>1. /\ cur' \in Operations /\ cur'.id = ops + 1 /\ ops' = ops + 1 /\ cur'.kind = kind
        /\ cur'.from = p /\ cur'.to = q /\ step = "idle" /\ step' = "journal" /\ ops \in Nat
        /\ kind = "delete" => p = q
        /\ kind = "move" => p # q /\ {p, q} \subseteq Ordinary
    BY <1>0, <1>2 DEF TypeOK, Begin
  <2>2. Pending = journal /\ Pending' = journal \cup {cur'} /\ UNCHANGED <<journal, dbReady, file, puts>>
    BY <2>1, <1>2 DEF Pending, Begin
  <2>3. live' \subseteq live
    BY <1>2 DEF Begin
  <2>4. \A j \in journal : j.id <= ops /\ j.id \in Nat /\ j # cur'
    BY <1>0, PendingType, <2>1 DEF NumberInv
  <2>5. cur' \notin journal /\ cur'.id \notin dbReady
    BY <1>0, <2>1, <2>4 DEF NumberInv
  <2>6. dbReady' \subseteq 1..ops'
    BY <1>0, <2>1, <2>2 DEF NumberInv
  <2>7. \A j \in Pending' :
          /\ j \in Operations /\ j.id <= ops'
          /\ j.kind = "delete" => j.to = j.from
          /\ j.kind = "move" => j.to # j.from /\ paths(j) \subseteq Ordinary
    <3> HIDE DEF Operations
    <3> QED  BY <1>0, <2>1, <2>2, <2>4 DEF NumberInv, paths
  <2>8. \A j, k \in Pending' : j.id = k.id => j = k
    BY <1>0, <2>1, <2>2, <2>4 DEF NumberInv
  <2> QED  BY <1>0, <2>1, <2>2, <2>3, <2>5, <2>6, <2>7, <2>8 DEF NumberInv
<1>3. CASE writePathOperation
  BY <1>0, <1>3 DEF NumberInv, Pending, writePathOperation
<1>4. CASE removeTarget
  BY <1>0, <1>4 DEF NumberInv, Pending, TypeOK, HolderInv, Forward, Back, Late, removeTarget
<1>5. CASE rename
  BY <1>0, <1>5 DEF NumberInv, Pending, TypeOK, HolderInv, Forward, Back, Late, rename, renameTo
<1>6. CASE markPathFilesystemReady
  BY <1>0, <1>6 DEF NumberInv, Pending, markPathFilesystemReady
<1>7. CASE updateMetadata
  BY <1>0, <1>7 DEF NumberInv, Pending, updateMetadata, movePathMetadata, rowsCollide
<1>8. CASE markPathDatabaseReady
  <2>1. cur.id \in 1..ops
    BY <1>0, PendingType, <1>8 DEF markPathDatabaseReady
  <2> QED  BY <1>0, <2>1, <1>8 DEF TypeOK, NumberInv, HolderInv, Pending, paths, Late, Forward,
  Back, markPathDatabaseReady
<1>9. CASE releasePersistent
  BY <1>0, <1>9 DEF NumberInv, Pending, releasePersistent
<1>10. CASE removePathOperation
  BY <1>0, <1>10 DEF NumberInv, Pending, removePathOperation
<1>11. CASE undoMove
  <2>1. \A x \in Paths : file'[x] <= puts
    <3>1. puts \in Nat /\ file \in [Paths -> Contents \cup {Absent}] /\ \A x \in Paths : file[x] <= puts
      BY <1>0 DEF TypeOK, NumberInv
    <3>2. step # "idle"
      BY <1>11 DEF undoMove, movePathMetadata, rowsCollide, renameTo
    <3>3. cur.to \in Paths
      BY <1>0, <3>2, PendingType
    <3>4. file' = file \/ file' = [file EXCEPT ![cur.to] = Absent, ![cur.from] = file[cur.to]]
      BY <1>11 DEF undoMove, movePathMetadata, rowsCollide, renameTo
    <3> QED  BY <3>1, <3>3, <3>4
  <2>2. UNCHANGED <<journal, dbReady, live, cur, ops, puts>> /\ Pending' = Pending /\ step' # "journal"
    BY <1>0, <1>11 DEF Pending, undoMove, movePathMetadata, rowsCollide, renameTo
  <2> HIDE DEF Operations, Ordinary
  <2> QED  BY <1>0, <2>1, <2>2 DEF NumberInv
<1>12. CASE writePathOperationFails
  BY <1>0, <1>12 DEF NumberInv, Pending, writePathOperationFails
<1>13. CASE stepFails
  BY <1>0, <1>13 DEF NumberInv, Pending, stepFails
<1>14. CASE moveFails
  BY <1>0, <1>14 DEF NumberInv, Pending, moveFails, rowsCollide
<1>15. CASE recoveryDone
  BY <1>0, <1>15 DEF NumberInv, Pending, recoveryDone
<1>16. CASE recoveryBlocked
  BY <1>0, <1>16 DEF NumberInv, Pending, recoveryBlocked, rowsCollide
<1>17. ASSUME NEW j \in journal, RecoverPathOperations(j)  PROVE NumberInv'
  BY <1>0, <1>17 DEF NumberInv, Pending, RecoverPathOperations, recoverDelete, recoverMove,
     resume, refuse, moved, unmoved
<1>18. CASE Crash
  BY <1>0, <1>18 DEF NumberInv, Pending, Crash
<1>19. CASE Shutdown
  BY <1>0, <1>19 DEF NumberInv, Pending, Shutdown
<1>20. CASE Restart
  BY <1>0, <1>20 DEF NumberInv, Pending, Restart
<1>21. CASE UNCHANGED vars
  BY <1>0, <1>21 DEF NumberInv, Pending, vars
<1> QED
  BY <1>1, <1>2, <1>3, <1>4, <1>5, <1>6, <1>7, <1>8, <1>9, <1>10, <1>11, <1>12, <1>13, <1>14,
     <1>15, <1>16, <1>17, <1>18, <1>19, <1>20, <1>21 DEF Next, Step, FailedCall, RecoveryStep
\* Each step is followed by one that suits the operation and the mode.
LEMMA HolderStep == IInv /\ [Next]_vars => HolderInv'
<1> SUFFICES ASSUME IInv, [Next]_vars  PROVE HolderInv'
  OBVIOUS
<1> USE PathsAssumption, BoundsAssumption DEF At, Goto, Running, Fail, Return, ReturnError,
   state, ghosts, counts, Told, Operations, NoOp
<1>0. TypeOK /\ NumberInv /\ HolderInv /\ TangleInv /\ FileInv /\ StepInv /\ AloneInv
       /\ LiveInv /\ PlaceInv /\ CrashInv /\ CalmInv
  BY DEF IInv
<1>1. ASSUME NEW p \in Paths, Put(p)  PROVE HolderInv'
  BY <1>0, <1>1 DEF HolderInv, Late, Forward, Back, Put, guardPendingManagedPathWrite
<1>2. ASSUME NEW kind \in {"delete", "move"}, NEW p \in Paths, NEW q \in Paths,
            Begin(kind, p, q)
     PROVE HolderInv'
  BY <1>0, <1>2 DEF HolderInv, Late, Forward, Back, Begin
<1>3. CASE writePathOperation
  BY <1>0, <1>3 DEF HolderInv, Late, Forward, Back, TypeOK, writePathOperation
<1>4. CASE removeTarget
  BY <1>0, <1>4 DEF HolderInv, Late, Forward, Back, removeTarget
<1>5. CASE rename
  BY <1>0, <1>5 DEF HolderInv, Late, Forward, Back, rename, renameTo
<1>6. CASE markPathFilesystemReady
  BY <1>0, <1>6 DEF HolderInv, Late, Forward, Back, markPathFilesystemReady
<1>7. CASE updateMetadata
  BY <1>0, <1>7 DEF HolderInv, Late, Forward, Back, TypeOK, updateMetadata, movePathMetadata,
     rowsCollide
<1>8. CASE markPathDatabaseReady
  BY <1>0, <1>8 DEF HolderInv, Late, Forward, Back, markPathDatabaseReady
<1>9. CASE releasePersistent
  BY <1>0, <1>9 DEF HolderInv, Late, Forward, Back, releasePersistent
<1>10. CASE removePathOperation
  BY <1>0, <1>10 DEF HolderInv, Late, Forward, Back, removePathOperation
<1>11. CASE undoMove
  BY <1>0, <1>11 DEF HolderInv, Late, Forward, Back, undoMove, movePathMetadata, rowsCollide,
     renameTo
<1>12. CASE writePathOperationFails
  BY <1>0, <1>12 DEF HolderInv, Late, Forward, Back, writePathOperationFails
<1>13. CASE stepFails
  BY <1>0, <1>13 DEF HolderInv, Late, Forward, Back, stepFails
<1>14. CASE moveFails
  BY <1>0, <1>14 DEF HolderInv, Late, Forward, Back, moveFails, rowsCollide
<1>15. CASE recoveryDone
  BY <1>0, <1>15 DEF HolderInv, Late, Forward, Back, recoveryDone
<1>16. CASE recoveryBlocked
  BY <1>0, <1>16 DEF HolderInv, Late, Forward, Back, recoveryBlocked, rowsCollide
<1>17. ASSUME NEW j \in journal, RecoverPathOperations(j)  PROVE HolderInv'
  BY <1>0, <1>17 DEF HolderInv, Late, Forward, Back, TypeOK, RecoverPathOperations,
     recoverDelete, recoverMove, resume, refuse, moved, unmoved
<1>18. CASE Crash
  BY <1>0, <1>18 DEF HolderInv, Late, Forward, Back, Crash
<1>19. CASE Shutdown
  BY <1>0, <1>19 DEF HolderInv, Late, Forward, Back, Shutdown
<1>20. CASE Restart
  BY <1>0, <1>20 DEF HolderInv, Late, Forward, Back, Restart
<1>21. CASE UNCHANGED vars
  BY <1>0, <1>21 DEF HolderInv, Late, Forward, Back, vars
<1> QED
  BY <1>1, <1>2, <1>3, <1>4, <1>5, <1>6, <1>7, <1>8, <1>9, <1>10, <1>11, <1>12, <1>13, <1>14,
     <1>15, <1>16, <1>17, <1>18, <1>19, <1>20, <1>21 DEF Next, Step, FailedCall, RecoveryStep
\* Paths are tangled together or not at all.
LEMMA TangleStep == IInv /\ [Next]_vars => TangleInv'
<1> SUFFICES ASSUME IInv, [Next]_vars  PROVE TangleInv'
  OBVIOUS
<1> USE PathsAssumption, BoundsAssumption DEF At, Goto, Running, Fail, Return, ReturnError,
   state, ghosts, counts, Told, Operations, NoOp
<1>0. TypeOK /\ NumberInv /\ HolderInv /\ TangleInv /\ FileInv /\ StepInv /\ AloneInv
       /\ LiveInv /\ PlaceInv /\ CrashInv /\ CalmInv
  BY DEF IInv
<1>1. ASSUME NEW p \in Paths, Put(p)  PROVE TangleInv'
  <2>1. step = "idle" /\ Pending = journal /\ Pending' = journal /\ use({p})
    BY <1>1 DEF Put, Pending
  <2>2. /\ tangled \subseteq tangled'
        /\ \A j \in journal : j.from \in tangled' <=> j.to \in tangled'
    BY <1>0, <2>1, UseEffect
  <2> QED  BY <1>0, <2>1, <2>2 DEF TangleInv, paths
<1>2. ASSUME NEW kind \in {"delete", "move"}, NEW p \in Paths, NEW q \in Paths,
            Begin(kind, p, q)
     PROVE TangleInv'
  <2>1. /\ step = "idle" /\ Pending = journal /\ Pending' = journal \cup {cur'} /\ use({p, q})
        /\ cur'.from = p /\ cur'.to = q
    BY <1>2 DEF Begin, Pending
  <2>2. /\ tangled \subseteq tangled'
        /\ {p, q} \cap tangled' = {} \/ {p, q} \subseteq tangled'
        /\ \A j \in journal : /\ {p, q} \cap paths(j) # {} => paths(j) \cup {p, q} \subseteq tangled'
                              /\ j.from \in tangled' <=> j.to \in tangled'
    BY <1>0, <2>1, UseEffect
  <2> QED  BY <1>0, <2>1, <2>2 DEF TangleInv, paths
<1>3. CASE writePathOperation
  BY <1>0, <1>3 DEF TangleInv, Pending, writePathOperation
<1>4. CASE removeTarget
  BY <1>0, <1>4 DEF TangleInv, Pending, removeTarget
<1>5. CASE rename
  BY <1>0, <1>5 DEF TangleInv, Pending, rename, renameTo
<1>6. CASE markPathFilesystemReady
  BY <1>0, <1>6 DEF TangleInv, Pending, markPathFilesystemReady
<1>7. CASE updateMetadata
  BY <1>0, <1>7 DEF TangleInv, Pending, updateMetadata, movePathMetadata, rowsCollide
<1>8. CASE markPathDatabaseReady
  BY <1>0, <1>8 DEF TangleInv, Pending, markPathDatabaseReady
<1>9. CASE releasePersistent
  BY <1>0, <1>9 DEF TangleInv, Pending, releasePersistent
<1>10. CASE removePathOperation
  BY <1>0, <1>10 DEF TangleInv, Pending, removePathOperation
<1>11. CASE undoMove
  BY <1>0, <1>11 DEF TangleInv, Pending, undoMove, movePathMetadata, rowsCollide, renameTo
<1>12. CASE writePathOperationFails
  BY <1>0, <1>12 DEF TangleInv, Pending, writePathOperationFails
<1>13. CASE stepFails
  BY <1>0, <1>13 DEF TangleInv, Pending, stepFails
<1>14. CASE moveFails
  BY <1>0, <1>14 DEF TangleInv, Pending, moveFails, rowsCollide
<1>15. CASE recoveryDone
  BY <1>0, <1>15 DEF TangleInv, Pending, recoveryDone
<1>16. CASE recoveryBlocked
  BY <1>0, <1>16 DEF TangleInv, Pending, recoveryBlocked, rowsCollide
<1>17. ASSUME NEW j \in journal, RecoverPathOperations(j)  PROVE TangleInv'
  BY <1>0, <1>17 DEF TangleInv, Pending, TypeOK, HolderInv, Forward, Back, Late,
     RecoverPathOperations, recoverDelete, recoverMove, resume, refuse, moved, unmoved
<1>18. CASE Crash
  BY <1>0, <1>18 DEF TangleInv, Pending, Crash
<1>19. CASE Shutdown
  BY <1>0, <1>19 DEF TangleInv, Pending, Shutdown
<1>20. CASE Restart
  BY <1>0, <1>20 DEF TangleInv, Pending, Restart
<1>21. CASE UNCHANGED vars
  BY <1>0, <1>21 DEF TangleInv, Pending, vars
<1> QED
  BY <1>1, <1>2, <1>3, <1>4, <1>5, <1>6, <1>7, <1>8, <1>9, <1>10, <1>11, <1>12, <1>13, <1>14,
     <1>15, <1>16, <1>17, <1>18, <1>19, <1>20, <1>21 DEF Next, Step, FailedCall, RecoveryStep
\* Each step leaves the files and rows of its paths where recovery, or the
\* next operation, can take them up.
LEMMA FileStep == IInv /\ [Next]_vars => FileInv'
<1> SUFFICES ASSUME IInv, [Next]_vars  PROVE FileInv'
  OBVIOUS
<1> USE PathsAssumption, BoundsAssumption DEF At, Goto, Running, Fail, Return, ReturnError,
   state, ghosts, counts, Told, Operations, NoOp, Contents, Absent, Ordinary
<1>0. TypeOK /\ NumberInv /\ HolderInv /\ TangleInv /\ FileInv /\ StepInv /\ AloneInv
       /\ LiveInv /\ PlaceInv /\ CrashInv /\ CalmInv
  BY DEF IInv
<1>1. ASSUME NEW p \in Paths, Put(p)  PROVE FileInv'
  <2>1. step = "idle" /\ Pending = journal /\ Pending' = journal /\ use({p}) /\ dbReady' = dbReady
    BY <1>1 DEF Put, Pending
  <2>2. /\ tangled \subseteq tangled'
        /\ \A j \in journal : p \in paths(j) => paths(j) \cup {p} \subseteq tangled'
    BY <1>0, <2>1, UseEffect
  <2>3. /\ file'[p] = puts + 1 /\ meta'[p] = puts + 1
        /\ \A x \in Paths : x # p => file'[x] = file[x] /\ meta'[x] = meta[x]
    BY <1>0, <1>1 DEF TypeOK, Put
  <2>4. \A x \in Paths : file[x] \in Nat /\ file[x] < puts + 1
    BY <1>0 DEF TypeOK, NumberInv
  <2>5. ASSUME NEW j \in journal, j.from \notin tangled'
        PROVE  j.from # p /\ j.to # p /\ j.from \notin tangled /\ j.from \in Paths /\ j.to \in Paths
    BY <1>0, <2>2, <2>5, PendingType DEF paths
  <2>6. \A x : Named(x)' <=> Named(x)
    BY <2>1 DEF Named
  <2>7. ASSUME NEW j \in Pending', j.from \notin tangled'
        PROVE  /\ j.kind = "move" => (Unmoved(j) \/ Renamed(j) \/ Moved(j))'
               /\ j.kind = "delete" /\ j.id \in dbReady' => Gone(j)'
    BY <1>0, <2>1, <2>3, <2>5, <2>7 DEF FileInv, Unmoved, Renamed, Moved, Gone
  <2>8. \A x \in Paths \ tangled' : ~Named(x)' => meta'[x] = file'[x]
    BY <1>0, <2>2, <2>3, <2>6 DEF FileInv
  <2>9. \A x, y \in Paths : file'[x] = file'[y] /\ file'[x] # Absent => x = y
    BY <1>0, <2>3, <2>4 DEF FileInv
  <2> QED  BY <2>7, <2>8, <2>9 DEF FileInv
<1>2. ASSUME NEW kind \in {"delete", "move"}, NEW p \in Paths, NEW q \in Paths,
            Begin(kind, p, q)
     PROVE FileInv'
  <2>1. /\ step = "idle" /\ Pending = journal /\ Pending' = journal \cup {cur'} /\ use({p, q})
        /\ cur'.from = p /\ cur'.to = q /\ cur'.kind = kind /\ cur'.id = ops + 1 /\ step' = "journal"
        /\ UNCHANGED <<file, meta, journal, dbReady>>
    BY <1>2 DEF Begin, Pending
  <2>2. /\ tangled \subseteq tangled'
        /\ {p, q} \cap tangled' = {} \/ {p, q} \subseteq tangled'
        /\ \A j \in journal : {p, q} \cap paths(j) # {} => paths(j) \cup {p, q} \subseteq tangled'
    BY <1>0, <2>1, UseEffect
  <2>3. p \notin tangled' => q \notin tangled' /\ ~Named(p) /\ ~Named(q)
    BY <2>1, <2>2 DEF Named, paths
  <2>4. p \notin tangled' => meta[p] = file[p] /\ meta[q] = file[q]
    BY <1>0, <2>2, <2>3 DEF FileInv
  <2>5. p \notin tangled' /\ kind = "move" => /\ file'[p] # Absent /\ file'[q] = Absent
                                            /\ meta'[p] = file'[p] /\ meta'[q] = Absent
    BY <1>0, <2>1, <2>4, <1>2 DEF Begin
  <2>6. cur'.id \notin dbReady
    BY <1>0, <2>1 DEF NumberInv, TypeOK
  <2>7. \A x : Named(x) => Named(x)'
    BY <2>1 DEF Named
  <2>8. ASSUME NEW j \in Pending', j.from \notin tangled'
        PROVE  /\ j.kind = "move" => (Unmoved(j) \/ Renamed(j) \/ Moved(j))'
               /\ j.kind = "delete" /\ j.id \in dbReady' => Gone(j)'
    <3>1. CASE j = cur'
      BY <2>1, <2>5, <2>6, <2>8, <3>1 DEF Unmoved
    <3>2. CASE j \in journal
      BY <1>0, <2>1, <2>2, <2>8, <3>2 DEF FileInv, Unmoved, Renamed, Moved, Gone
    <3> QED  BY <2>1, <2>8, <3>1, <3>2
  <2>9. \A x \in Paths \ tangled' : ~Named(x)' => meta'[x] = file'[x]
    BY <1>0, <2>1, <2>2, <2>7 DEF FileInv
  <2> QED  BY <1>0, <2>1, <2>8, <2>9 DEF FileInv
<1>3. CASE writePathOperation
  BY <1>0, <1>3 DEF FileInv, Named, Pending, Unmoved, Renamed, Moved, Gone, writePathOperation
<1>4. CASE removeTarget
  <2>0. step # "idle" /\ cur \in Pending /\ cur.from \in Paths /\ cur.to \in Paths /\ cur \in Operations
    BY <1>0, PendingType, <1>4 DEF removeTarget
  <2>1. cur' = cur /\ tangled' = tangled /\ Pending' = Pending /\ dbReady' \subseteq dbReady \cup {cur.id}
    BY <1>0, <1>4 DEF HolderInv, Pending, Late, Forward, removeTarget
  <2>2. \A x \in Paths : x \notin paths(cur) => file'[x] = file[x] /\ meta'[x] = meta[x]
    BY <1>0, <2>0, <1>4 DEF TypeOK, NumberInv, HolderInv, Back, paths, removeTarget
  <2>3. \A x, y \in Paths : file'[x] = file'[y] /\ file'[x] # Absent => x = y
    BY <1>0, <2>0, <1>4 DEF TypeOK, FileInv, NumberInv, removeTarget
  <2>4. cur.from \notin tangled /\ cur.kind = "move" => (Unmoved(cur) \/ Renamed(cur) \/ Moved(cur))'
    BY <1>0, <2>0, <1>4 DEF TypeOK, NumberInv, HolderInv, StepInv, FileInv, Unmoved, Renamed,
       Moved, Back, Forward, removeTarget
  <2>5. cur.from \notin tangled /\ cur.kind = "delete" /\ cur.id \in dbReady' => Gone(cur)'
    BY <1>0, <2>0, <1>4 DEF TypeOK, NumberInv, HolderInv, StepInv, FileInv, Gone, Back, Forward,
       removeTarget
  <2> QED  BY <1>0, <2>0, <2>1, <2>2, <2>3, <2>4, <2>5, FileFrame
<1>5. CASE rename
  <2>0. step # "idle" /\ cur \in Pending /\ cur.from \in Paths /\ cur.to \in Paths /\ cur \in Operations
    BY <1>0, PendingType, <1>5 DEF rename, renameTo
  <2>1. cur' = cur /\ tangled' = tangled /\ Pending' = Pending /\ dbReady' \subseteq dbReady \cup {cur.id}
    BY <1>0, <1>5 DEF HolderInv, Pending, Late, Forward, rename, renameTo
  <2>2. \A x \in Paths : x \notin paths(cur) => file'[x] = file[x] /\ meta'[x] = meta[x]
    BY <1>0, <2>0, <1>5 DEF TypeOK, NumberInv, HolderInv, Back, paths, rename, renameTo
  <2>3. \A x, y \in Paths : file'[x] = file'[y] /\ file'[x] # Absent => x = y
    <3>1. \/ UNCHANGED file
          \/ file' = [file EXCEPT ![cur.from] = Absent, ![cur.to] = file[cur.from]]
      BY <1>5 DEF rename, renameTo
    <3>2. cur.from # cur.to /\ file \in [Paths -> Contents \cup {Absent}]
      BY <1>0, <2>0, <1>5 DEF TypeOK, HolderInv, NumberInv, Back, rename, renameTo
    <3>3. \A x, y \in Paths : file[x] = file[y] /\ file[x] # Absent => x = y
      BY <1>0 DEF FileInv
    <3> QED  BY <2>0, <3>1, <3>2, <3>3
  <2>4. cur.from \notin tangled /\ cur.kind = "move" => (Unmoved(cur) \/ Renamed(cur) \/ Moved(cur))'
    BY <1>0, <2>0, <1>5 DEF TypeOK, NumberInv, HolderInv, StepInv, FileInv, Unmoved, Renamed,
       Moved, Back, Forward, rename, renameTo
  <2>5. cur.from \notin tangled /\ cur.kind = "delete" /\ cur.id \in dbReady' => Gone(cur)'
    BY <1>0, <2>0, <1>5 DEF TypeOK, NumberInv, HolderInv, StepInv, FileInv, Gone, Back, Forward,
       rename, renameTo
  <2> QED  BY <1>0, <2>0, <2>1, <2>2, <2>3, <2>4, <2>5, FileFrame
<1>6. CASE markPathFilesystemReady
  BY <1>0, <1>6 DEF FileInv, Named, Pending, Unmoved, Renamed, Moved, Gone, markPathFilesystemReady
<1>7. CASE updateMetadata
  <2>0. step # "idle" /\ cur \in Pending /\ cur.from \in Paths /\ cur.to \in Paths /\ cur \in Operations
    BY <1>0, PendingType, <1>7 DEF updateMetadata, movePathMetadata, rowsCollide
  <2>1. cur' = cur /\ tangled' = tangled /\ Pending' = Pending /\ dbReady' \subseteq dbReady \cup {cur.id}
    BY <1>0, <1>7 DEF HolderInv, Pending, Late, Forward, updateMetadata, movePathMetadata,
       rowsCollide
  <2>2. \A x \in Paths : x \notin paths(cur) => file'[x] = file[x] /\ meta'[x] = meta[x]
    BY <1>0, <2>0, <1>7 DEF TypeOK, NumberInv, HolderInv, Back, paths, updateMetadata,
       movePathMetadata, rowsCollide
  <2>3. \A x, y \in Paths : file'[x] = file'[y] /\ file'[x] # Absent => x = y
    BY <1>0, <2>0, <1>7 DEF TypeOK, FileInv, NumberInv, updateMetadata, movePathMetadata,
       rowsCollide
  <2>4. cur.from \notin tangled /\ cur.kind = "move" => (Unmoved(cur) \/ Renamed(cur) \/ Moved(cur))'
    BY <1>0, <2>0, <1>7 DEF TypeOK, NumberInv, HolderInv, StepInv, FileInv, Unmoved, Renamed,
       Moved, Back, Forward, updateMetadata, movePathMetadata, rowsCollide
  <2>5. cur.from \notin tangled /\ cur.kind = "delete" /\ cur.id \in dbReady' => Gone(cur)'
    BY <1>0, <2>0, <1>7 DEF TypeOK, NumberInv, HolderInv, StepInv, FileInv, Gone, Back, Forward,
       updateMetadata, movePathMetadata, rowsCollide
  <2> QED  BY <1>0, <2>0, <2>1, <2>2, <2>3, <2>4, <2>5, FileFrame
<1>8. CASE markPathDatabaseReady
  BY <1>0, <1>8 DEF TypeOK, NumberInv, HolderInv, Pending, paths, Late, Forward, Back, TangleInv,
     FileInv, StepInv, AloneInv, Named, Unmoved, Renamed, Moved, Gone, markPathDatabaseReady
<1>9. CASE releasePersistent
  BY <1>0, <1>9 DEF FileInv, Named, Pending, Unmoved, Renamed, Moved, Gone, releasePersistent
<1>10. CASE removePathOperation
  BY <1>0, <1>10 DEF TypeOK, NumberInv, HolderInv, Pending, paths, Late, Forward, Back,
     TangleInv, FileInv, StepInv, AloneInv, Named, Unmoved, Renamed, Moved, Gone,
     removePathOperation
<1>11. CASE undoMove
  <2>0. step # "idle" /\ cur \in Pending /\ cur.from \in Paths /\ cur.to \in Paths /\ cur \in Operations
    BY <1>0, PendingType, <1>11 DEF undoMove, movePathMetadata, rowsCollide, renameTo
  <2>1. cur' = cur /\ tangled' = tangled /\ Pending' = Pending /\ dbReady' \subseteq dbReady \cup {cur.id}
    BY <1>0, <1>11 DEF HolderInv, Pending, Late, Forward, undoMove, movePathMetadata,
       rowsCollide, renameTo
  <2>2. \A x \in Paths : x \notin paths(cur) => file'[x] = file[x] /\ meta'[x] = meta[x]
    BY <1>0, <2>0, <1>11 DEF TypeOK, NumberInv, HolderInv, Back, paths, undoMove,
       movePathMetadata, rowsCollide, renameTo
  <2>3. \A x, y \in Paths : file'[x] = file'[y] /\ file'[x] # Absent => x = y
    <3>1. \/ UNCHANGED file
          \/ file' = [file EXCEPT ![cur.to] = Absent, ![cur.from] = file[cur.to]]
      BY <1>11 DEF undoMove, movePathMetadata, rowsCollide, renameTo
    <3>2. cur.from # cur.to /\ file \in [Paths -> Contents \cup {Absent}]
      BY <1>0, <2>0, <1>11 DEF TypeOK, HolderInv, NumberInv, Back, undoMove, movePathMetadata,
         rowsCollide, renameTo
    <3>3. \A x, y \in Paths : file[x] = file[y] /\ file[x] # Absent => x = y
      BY <1>0 DEF FileInv
    <3> QED  BY <2>0, <3>1, <3>2, <3>3
  <2>4. cur.from \notin tangled /\ cur.kind = "move" => (Unmoved(cur) \/ Renamed(cur) \/ Moved(cur))'
    BY <1>0, <2>0, <1>11 DEF TypeOK, NumberInv, HolderInv, StepInv, FileInv, Unmoved, Renamed,
       Moved, Back, Forward, undoMove, movePathMetadata, rowsCollide, renameTo
  <2>5. cur.from \notin tangled /\ cur.kind = "delete" /\ cur.id \in dbReady' => Gone(cur)'
    BY <1>0, <2>0, <1>11 DEF TypeOK, NumberInv, HolderInv, StepInv, FileInv, Gone, Back, Forward,
       undoMove, movePathMetadata, rowsCollide, renameTo
  <2> QED  BY <1>0, <2>0, <2>1, <2>2, <2>3, <2>4, <2>5, FileFrame
<1>12. CASE writePathOperationFails
  BY <1>0, <1>12 DEF TypeOK, NumberInv, HolderInv, Pending, paths, Late, Forward, Back,
     TangleInv, FileInv, StepInv, AloneInv, Named, Unmoved, Renamed, Moved, Gone,
     writePathOperationFails
<1>13. CASE stepFails
  <2>1. CASE step = "idle"
    <3>1. Pending' = Pending /\ UNCHANGED <<file, meta, dbReady, tangled>>
      BY <2>1, <1>13 DEF stepFails, Pending
    <3> QED  BY <1>0, <3>1 DEF FileInv, Named, Unmoved, Renamed, Moved, Gone
  <2>2. CASE step # "idle"
    BY <1>0, <2>2, <1>13, ReturnFrame DEF stepFails
  <2> QED  BY <2>1, <2>2
<1>14. CASE moveFails
  <2>0. step # "idle" /\ cur \in Pending /\ cur.from \in Paths /\ cur.to \in Paths /\ cur \in Operations
    BY <1>0, PendingType, <1>14 DEF moveFails, rowsCollide
  <2>1. cur' = cur /\ tangled' = tangled /\ Pending' = Pending /\ dbReady' \subseteq dbReady \cup {cur.id}
    BY <1>0, <1>14 DEF HolderInv, Pending, Late, Forward, moveFails, rowsCollide
  <2>2. \A x \in Paths : x \notin paths(cur) => file'[x] = file[x] /\ meta'[x] = meta[x]
    BY <1>0, <2>0, <1>14 DEF TypeOK, NumberInv, HolderInv, Back, paths, moveFails, rowsCollide
  <2>3. \A x, y \in Paths : file'[x] = file'[y] /\ file'[x] # Absent => x = y
    BY <1>0, <2>0, <1>14 DEF TypeOK, FileInv, NumberInv, moveFails, rowsCollide
  <2>4. cur.from \notin tangled /\ cur.kind = "move" => (Unmoved(cur) \/ Renamed(cur) \/ Moved(cur))'
    BY <1>0, <2>0, <1>14 DEF TypeOK, NumberInv, HolderInv, StepInv, FileInv, Unmoved, Renamed,
       Moved, Back, Forward, moveFails, rowsCollide
  <2>5. cur.from \notin tangled /\ cur.kind = "delete" /\ cur.id \in dbReady' => Gone(cur)'
    BY <1>0, <2>0, <1>14 DEF TypeOK, NumberInv, HolderInv, StepInv, FileInv, Gone, Back, Forward,
       moveFails, rowsCollide
  <2> QED  BY <1>0, <2>0, <2>1, <2>2, <2>3, <2>4, <2>5, FileFrame
<1>15. CASE recoveryDone
  BY <1>0, <1>15 DEF FileInv, Named, Pending, Unmoved, Renamed, Moved, Gone, recoveryDone
<1>16. CASE recoveryBlocked
  <2>1. CASE step = "idle"
    <3>1. Pending' = Pending /\ UNCHANGED <<file, meta, dbReady, tangled>>
      BY <2>1, <1>16 DEF recoveryBlocked, rowsCollide, Pending
    <3> QED  BY <1>0, <3>1 DEF FileInv, Named, Unmoved, Renamed, Moved, Gone
  <2>2. CASE step # "idle"
    BY <1>0, <2>2, <1>16, ReturnFrame DEF recoveryBlocked, rowsCollide
  <2> QED  BY <2>1, <2>2
<1>17. ASSUME NEW j \in journal, RecoverPathOperations(j)  PROVE FileInv'
  BY <1>0, <1>17 DEF FileInv, Named, Pending, Unmoved, Renamed, Moved, Gone, TypeOK, HolderInv,
     Forward, Back, Late, RecoverPathOperations, recoverDelete, recoverMove, resume, refuse,
     moved, unmoved
<1>18. CASE Crash
  <2>1. CASE step = "idle"
    <3>1. Pending' = Pending /\ UNCHANGED <<file, meta, dbReady, tangled>>
      BY <2>1, <1>18 DEF Crash, Pending
    <3> QED  BY <1>0, <3>1 DEF FileInv, Named, Unmoved, Renamed, Moved, Gone
  <2>2. CASE step # "idle"
    BY <1>0, <2>2, <1>18, ReturnFrame DEF Crash
  <2> QED  BY <2>1, <2>2
<1>19. CASE Shutdown
  BY <1>0, <1>19 DEF FileInv, Named, Pending, Unmoved, Renamed, Moved, Gone, Shutdown
<1>20. CASE Restart
  BY <1>0, <1>20 DEF FileInv, Named, Pending, Unmoved, Renamed, Moved, Gone, Restart
<1>21. CASE UNCHANGED vars
  BY <1>0, <1>21 DEF FileInv, Named, Pending, Unmoved, Renamed, Moved, Gone, vars
<1> QED
  BY <1>1, <1>2, <1>3, <1>4, <1>5, <1>6, <1>7, <1>8, <1>9, <1>10, <1>11, <1>12, <1>13, <1>14,
     <1>15, <1>16, <1>17, <1>18, <1>19, <1>20, <1>21 DEF Next, Step, FailedCall, RecoveryStep
\* Each step leaves the paths as the next step needs them.
LEMMA StepsStep == IInv /\ [Next]_vars => StepInv'
<1> SUFFICES ASSUME IInv, [Next]_vars  PROVE StepInv'
  OBVIOUS
<1> USE PathsAssumption, BoundsAssumption DEF At, Goto, Running, Fail, Return, ReturnError,
   state, ghosts, counts, Told, Operations, NoOp, Contents, Absent, Ordinary
<1>0. TypeOK /\ NumberInv /\ HolderInv /\ TangleInv /\ FileInv /\ StepInv /\ AloneInv
       /\ LiveInv /\ PlaceInv /\ CrashInv /\ CalmInv
  BY DEF IInv
<1>1. ASSUME NEW p \in Paths, Put(p)  PROVE StepInv'
  BY <1>0, <1>1 DEF StepInv, Unmoved, Renamed, Moved, Gone, Put, guardPendingManagedPathWrite
<1>2. ASSUME NEW kind \in {"delete", "move"}, NEW p \in Paths, NEW q \in Paths,
            Begin(kind, p, q)
     PROVE StepInv'
  <2>1. /\ step = "idle" /\ Pending = journal /\ Pending' = journal \cup {cur'} /\ use({p, q})
        /\ cur'.from = p /\ cur'.to = q /\ cur'.kind = kind /\ cur'.id = ops + 1 /\ step' = "journal"
        /\ UNCHANGED <<file, meta, journal, dbReady>>
    BY <1>2 DEF Begin, Pending
  <2>2. /\ tangled \subseteq tangled'
        /\ {p, q} \cap tangled' = {} \/ {p, q} \subseteq tangled'
        /\ \A j \in journal : {p, q} \cap paths(j) # {} => paths(j) \cup {p, q} \subseteq tangled'
    BY <1>0, <2>1, UseEffect
  <2>3. p \notin tangled' => q \notin tangled' /\ ~Named(p) /\ ~Named(q)
    BY <2>1, <2>2 DEF Named, paths
  <2>4. p \notin tangled' => meta[p] = file[p] /\ meta[q] = file[q]
    BY <1>0, <2>2, <2>3 DEF FileInv
  <2>5. p \notin tangled' /\ kind = "move" => /\ file'[p] # Absent /\ file'[q] = Absent
                                            /\ meta'[p] = file'[p] /\ meta'[q] = Absent
    BY <1>0, <2>1, <2>4, <1>2 DEF Begin
  <2>6. StepInv'
    BY <1>0, <2>1, <2>4, <2>5, <1>2 DEF StepInv, Unmoved, Begin
  <2> QED  BY <2>6
<1>3. CASE writePathOperation
  BY <1>0, <1>3 DEF StepInv, Unmoved, Renamed, Moved, Gone, writePathOperation
<1>4. CASE removeTarget
  BY <1>0, <1>4 DEF StepInv, Unmoved, Renamed, Moved, Gone, TypeOK, HolderInv, Forward, Back,
     Late, removeTarget
<1>5. CASE rename
  BY <1>0, <1>5 DEF StepInv, Unmoved, Renamed, Moved, Gone, TypeOK, HolderInv, Forward, Back,
     Late, rename, renameTo
<1>6. CASE markPathFilesystemReady
  BY <1>0, <1>6 DEF StepInv, Unmoved, Renamed, Moved, Gone, markPathFilesystemReady
<1>7. CASE updateMetadata
  BY <1>0, <1>7 DEF StepInv, Unmoved, Renamed, Moved, Gone, TypeOK, HolderInv, Forward, Back,
     Late, updateMetadata, movePathMetadata, rowsCollide
<1>8. CASE markPathDatabaseReady
  BY <1>0, <1>8 DEF StepInv, Unmoved, Renamed, Moved, Gone, markPathDatabaseReady
<1>9. CASE releasePersistent
  BY <1>0, <1>9 DEF StepInv, Unmoved, Renamed, Moved, Gone, releasePersistent
<1>10. CASE removePathOperation
  BY <1>0, <1>10 DEF StepInv, Unmoved, Renamed, Moved, Gone, removePathOperation
<1>11. CASE undoMove
  BY <1>0, <1>11 DEF TypeOK, NumberInv, HolderInv, Pending, paths, Late, Forward, Back,
     TangleInv, FileInv, StepInv, AloneInv, Named, Unmoved, Renamed, Moved, Gone, undoMove,
     movePathMetadata, rowsCollide, renameTo
<1>12. CASE writePathOperationFails
  BY <1>0, <1>12 DEF StepInv, Unmoved, Renamed, Moved, Gone, writePathOperationFails
<1>13. CASE stepFails
  BY <1>0, <1>13 DEF StepInv, Unmoved, Renamed, Moved, Gone, stepFails
<1>14. CASE moveFails
  BY <1>0, <1>14 DEF StepInv, Unmoved, Renamed, Moved, Gone, moveFails, rowsCollide
<1>15. CASE recoveryDone
  BY <1>0, <1>15 DEF StepInv, Unmoved, Renamed, Moved, Gone, recoveryDone
<1>16. CASE recoveryBlocked
  BY <1>0, <1>16 DEF StepInv, Unmoved, Renamed, Moved, Gone, recoveryBlocked, rowsCollide
<1>17. ASSUME NEW j \in journal, RecoverPathOperations(j)  PROVE StepInv'
  BY <1>0, <1>17 DEF TypeOK, NumberInv, HolderInv, Pending, paths, Late, Forward, Back,
     TangleInv, FileInv, StepInv, AloneInv, Named, Unmoved, Renamed, Moved, Gone,
     RecoverPathOperations, recoverDelete, recoverMove, resume, refuse, moved, unmoved
<1>18. CASE Crash
  BY <1>0, <1>18 DEF StepInv, Unmoved, Renamed, Moved, Gone, Crash
<1>19. CASE Shutdown
  BY <1>0, <1>19 DEF StepInv, Unmoved, Renamed, Moved, Gone, Shutdown
<1>20. CASE Restart
  BY <1>0, <1>20 DEF StepInv, Unmoved, Renamed, Moved, Gone, Restart
<1>21. CASE UNCHANGED vars
  BY <1>0, <1>21 DEF StepInv, Unmoved, Renamed, Moved, Gone, vars
<1> QED
  BY <1>1, <1>2, <1>3, <1>4, <1>5, <1>6, <1>7, <1>8, <1>9, <1>10, <1>11, <1>12, <1>13, <1>14,
     <1>15, <1>16, <1>17, <1>18, <1>19, <1>20, <1>21 DEF Next, Step, FailedCall, RecoveryStep
\* Each step of a request finds what the one before it left.
LEMMA AloneStep == IInv /\ [Next]_vars => AloneInv'
<1> SUFFICES ASSUME IInv, [Next]_vars  PROVE AloneInv'
  OBVIOUS
<1> USE PathsAssumption, BoundsAssumption DEF At, Goto, Running, Fail, Return, ReturnError,
   state, ghosts, counts, Told, Operations, NoOp, Contents, Absent, Ordinary
<1>0. TypeOK /\ NumberInv /\ HolderInv /\ TangleInv /\ FileInv /\ StepInv /\ AloneInv
       /\ LiveInv /\ PlaceInv /\ CrashInv /\ CalmInv
  BY DEF IInv
<1>1. ASSUME NEW p \in Paths, Put(p)  PROVE AloneInv'
  BY <1>0, <1>1 DEF AloneInv, Put, guardPendingManagedPathWrite
<1>2. ASSUME NEW kind \in {"delete", "move"}, NEW p \in Paths, NEW q \in Paths,
            Begin(kind, p, q)
     PROVE AloneInv'
  BY <1>0, <1>2 DEF AloneInv, Begin
<1>3. CASE writePathOperation
  BY <1>0, <1>3 DEF AloneInv, writePathOperation
<1>4. CASE removeTarget
  BY <1>0, <1>4 DEF AloneInv, TypeOK, HolderInv, Forward, Back, Late, removeTarget
<1>5. CASE rename
  BY <1>0, <1>5 DEF AloneInv, TypeOK, HolderInv, Forward, Back, Late, rename, renameTo
<1>6. CASE markPathFilesystemReady
  BY <1>0, <1>6 DEF AloneInv, markPathFilesystemReady
<1>7. CASE updateMetadata
  BY <1>0, <1>7 DEF AloneInv, updateMetadata, movePathMetadata, rowsCollide
<1>8. CASE markPathDatabaseReady
  BY <1>0, <1>8 DEF AloneInv, markPathDatabaseReady
<1>9. CASE releasePersistent
  BY <1>0, <1>9 DEF AloneInv, releasePersistent
<1>10. CASE removePathOperation
  BY <1>0, <1>10 DEF AloneInv, removePathOperation
<1>11. CASE undoMove
  BY <1>0, <1>11 DEF AloneInv, undoMove, movePathMetadata, rowsCollide, renameTo
<1>12. CASE writePathOperationFails
  BY <1>0, <1>12 DEF AloneInv, writePathOperationFails
<1>13. CASE stepFails
  BY <1>0, <1>13 DEF AloneInv, stepFails
<1>14. CASE moveFails
  BY <1>0, <1>14 DEF AloneInv, moveFails, rowsCollide
<1>15. CASE recoveryDone
  BY <1>0, <1>15 DEF AloneInv, recoveryDone
<1>16. CASE recoveryBlocked
  BY <1>0, <1>16 DEF AloneInv, recoveryBlocked, rowsCollide
<1>17. ASSUME NEW j \in journal, RecoverPathOperations(j)  PROVE AloneInv'
  BY <1>0, <1>17 DEF AloneInv, TypeOK, HolderInv, Forward, Back, Late, RecoverPathOperations,
     recoverDelete, recoverMove, resume, refuse, moved, unmoved
<1>18. CASE Crash
  BY <1>0, <1>18 DEF AloneInv, Crash
<1>19. CASE Shutdown
  BY <1>0, <1>19 DEF AloneInv, Shutdown
<1>20. CASE Restart
  BY <1>0, <1>20 DEF AloneInv, Restart
<1>21. CASE UNCHANGED vars
  BY <1>0, <1>21 DEF AloneInv, vars
<1> QED
  BY <1>1, <1>2, <1>3, <1>4, <1>5, <1>6, <1>7, <1>8, <1>9, <1>10, <1>11, <1>12, <1>13, <1>14,
     <1>15, <1>16, <1>17, <1>18, <1>19, <1>20, <1>21 DEF Next, Step, FailedCall, RecoveryStep
\* No step brings content where a pending delete would destroy it.
LEMMA LiveStep == IInv /\ [Next]_vars => LiveInv'
<1> SUFFICES ASSUME IInv, [Next]_vars  PROVE LiveInv'
  OBVIOUS
<1> USE PathsAssumption, BoundsAssumption DEF At, Goto, Running, Fail, Return, ReturnError,
   state, ghosts, counts, Told, Operations, NoOp, Contents, Absent, Ordinary
<1>0. TypeOK /\ NumberInv /\ HolderInv /\ TangleInv /\ FileInv /\ StepInv /\ AloneInv
       /\ LiveInv /\ PlaceInv /\ CrashInv /\ CalmInv
  BY DEF IInv
<1>1. ASSUME NEW p \in Paths, Put(p)  PROVE LiveInv'
  <2>1. step = "idle" /\ Pending = journal /\ Pending' = journal /\ use({p})
    BY <1>1 DEF Put, Pending
  <2>2. /\ tangled \subseteq tangled'
        /\ \A j \in journal : p \in paths(j) => paths(j) \cup {p} \subseteq tangled'
    BY <1>0, <2>1, UseEffect
  <2>3. /\ live' \subseteq live \cup {puts + 1} /\ dbReady' = dbReady
        /\ \A x \in Paths : x # p => file'[x] = file[x]
    BY <1>0, <1>1 DEF TypeOK, Put
  <2>4. \A x \in Paths : file[x] \in Nat /\ file[x] < puts + 1
    BY <1>0 DEF TypeOK, NumberInv
  <2>5. ASSUME NEW j \in Pending', j.kind = "delete", 
               j.from \notin tangled' \/ (j.from \in Managed /\ j.id \notin dbReady')
        PROVE  file'[j.from] \notin live'
    <3>1. j.from # p
      BY <2>1, <2>2, <2>3, <2>5, <1>1 DEF Put, guardPendingManagedPathWrite, paths
    <3>2. file[j.from] \notin live /\ j.from \in Paths
      BY <1>0, <2>1, <2>2, <2>3, <2>5, PendingType DEF LiveInv
    <3> QED  BY <2>3, <2>4, <3>1, <3>2
  <2> QED  BY <2>5 DEF LiveInv
<1>2. ASSUME NEW kind \in {"delete", "move"}, NEW p \in Paths, NEW q \in Paths,
            Begin(kind, p, q)
     PROVE LiveInv'
  <2>1. /\ step = "idle" /\ Pending = journal /\ Pending' = journal \cup {cur'} /\ use({p, q})
        /\ cur'.from = p /\ cur'.kind = kind /\ live' \subseteq live /\ UNCHANGED <<file, dbReady>>
        /\ kind = "delete" => file[p] \notin live'
    BY <1>2 DEF Begin, Pending
  <2>2. tangled \subseteq tangled'
    BY <1>0, <2>1, UseEffect
  <2> QED  BY <1>0, <2>1, <2>2 DEF LiveInv
<1>3. CASE writePathOperation
  BY <1>0, <1>3 DEF LiveInv, Pending, writePathOperation
<1>4. CASE removeTarget
  BY <1>0, <1>4 DEF LiveInv, Pending, TypeOK, HolderInv, Forward, Back, Late, removeTarget
<1>5. CASE rename
  BY <1>0, <1>5 DEF TypeOK, NumberInv, HolderInv, Pending, paths, Late, Forward, Back, LiveInv,
     TangleInv, AloneInv, rename, renameTo
<1>6. CASE markPathFilesystemReady
  BY <1>0, <1>6 DEF LiveInv, Pending, markPathFilesystemReady
<1>7. CASE updateMetadata
  BY <1>0, <1>7 DEF LiveInv, Pending, updateMetadata, movePathMetadata, rowsCollide
<1>8. CASE markPathDatabaseReady
  BY <1>0, <1>8 DEF LiveInv, Pending, markPathDatabaseReady
<1>9. CASE releasePersistent
  BY <1>0, <1>9 DEF LiveInv, Pending, releasePersistent
<1>10. CASE removePathOperation
  BY <1>0, <1>10 DEF TypeOK, NumberInv, HolderInv, Pending, paths, Late, Forward, Back, LiveInv,
     TangleInv, AloneInv, removePathOperation
<1>11. CASE undoMove
  BY <1>0, <1>11 DEF TypeOK, NumberInv, HolderInv, Pending, paths, Late, Forward, Back, LiveInv,
     TangleInv, AloneInv, undoMove, movePathMetadata, rowsCollide, renameTo
<1>12. CASE writePathOperationFails
  BY <1>0, <1>12 DEF LiveInv, Pending, writePathOperationFails
<1>13. CASE stepFails
  BY <1>0, <1>13 DEF LiveInv, Pending, stepFails
<1>14. CASE moveFails
  BY <1>0, <1>14 DEF LiveInv, Pending, moveFails, rowsCollide
<1>15. CASE recoveryDone
  BY <1>0, <1>15 DEF LiveInv, Pending, recoveryDone
<1>16. CASE recoveryBlocked
  BY <1>0, <1>16 DEF LiveInv, Pending, recoveryBlocked, rowsCollide
<1>17. ASSUME NEW j \in journal, RecoverPathOperations(j)  PROVE LiveInv'
  BY <1>0, <1>17 DEF LiveInv, Pending, TypeOK, HolderInv, Forward, Back, Late,
     RecoverPathOperations, recoverDelete, recoverMove, resume, refuse, moved, unmoved
<1>18. CASE Crash
  BY <1>0, <1>18 DEF LiveInv, Pending, Crash
<1>19. CASE Shutdown
  BY <1>0, <1>19 DEF LiveInv, Pending, Shutdown
<1>20. CASE Restart
  BY <1>0, <1>20 DEF LiveInv, Pending, Restart
<1>21. CASE UNCHANGED vars
  BY <1>0, <1>21 DEF LiveInv, Pending, vars
<1> QED
  BY <1>1, <1>2, <1>3, <1>4, <1>5, <1>6, <1>7, <1>8, <1>9, <1>10, <1>11, <1>12, <1>13, <1>14,
     <1>15, <1>16, <1>17, <1>18, <1>19, <1>20, <1>21 DEF Next, Step, FailedCall, RecoveryStep
\* No step moves content from where the client may expect it.
LEMMA PlaceStep == IInv /\ [Next]_vars => PlaceInv'
<1> SUFFICES ASSUME IInv, [Next]_vars  PROVE PlaceInv'
  OBVIOUS
<1> USE PathsAssumption, BoundsAssumption DEF At, Goto, Running, Fail, Return, ReturnError,
   state, ghosts, counts, Operations, NoOp, Contents, Absent, Ordinary
<1>0. TypeOK /\ NumberInv /\ HolderInv /\ TangleInv /\ FileInv /\ StepInv /\ AloneInv
       /\ LiveInv /\ PlaceInv /\ CrashInv /\ CalmInv
  BY DEF IInv
<1>1. ASSUME NEW p \in Paths, Put(p)  PROVE PlaceInv'
  <2>1. step = "idle" /\ Pending = journal /\ Pending' = journal /\ use({p}) /\ UNCHANGED <<dbReady, cur>>
    BY <1>1 DEF Put, Pending
  <2>2. /\ tangled \subseteq tangled'
        /\ \A j \in journal : p \in paths(j) => paths(j) \cup {p} \subseteq tangled'
    BY <1>0, <2>1, UseEffect
  <2>3. /\ file'[p] = puts + 1 /\ live' = (live \ {file[p]}) \cup {puts + 1}
        /\ \A x \in Paths : x # p => file'[x] = file[x]
    BY <1>0, <1>1 DEF TypeOK, Put
  <2>4. puts + 1 \notin live /\ puts + 1 \in Contents
    BY <1>0, <1>1 DEF TypeOK, NumberInv, Contents, Put
  <2>5. place'[puts + 1] = {p} /\ \A c \in live : place'[c] = place[c] /\ place[c] \subseteq Paths
    BY <1>0, <2>4, <1>1 DEF TypeOK, Put
  <2>6. ASSUME NEW c \in live'  PROVE Found(c)'
    <3>1. CASE c = puts + 1
      BY <2>3, <2>5, <3>1 DEF Found
    <3>2. CASE c \in live /\ c # file[p]
      <4>1. place[c] \cap tangled = {} => \E x \in place[c] : file[x] = c
        BY <1>0, <3>2 DEF PlaceInv, Found
      <4> QED  BY <2>2, <2>3, <2>5, <3>2, <4>1 DEF Found
    <3> QED  BY <2>3, <2>6, <3>1, <3>2
  <2>7. ASSUME NEW j \in Pending', j.kind = "move", j.from \notin tangled',
               NEW c \in live', c \in {file[j.from], file[j.to]}'
        PROVE  Expected(j, c)'
    <3>1. j.from \in Paths /\ j.to \in Paths /\ p \notin paths(j) /\ j \in Pending /\ j.from \notin tangled
      BY <1>0, <2>1, <2>2, <2>7, PendingType DEF paths
    <3>2. file'[j.from] = file[j.from] /\ file'[j.to] = file[j.to]
      BY <2>3, <3>1 DEF paths
    <3>3. c \in live
      BY <1>0, <2>3, <2>7, <3>1, <3>2 DEF NumberInv, TypeOK
    <3>4. Expected(j, c)
      BY <1>0, <2>7, <3>1, <3>2, <3>3 DEF PlaceInv
    <3> QED  BY <2>1, <2>5, <3>2, <3>3, <3>4, <1>1 DEF Expected, Resumed, Put
  <2> QED  BY <2>6, <2>7 DEF PlaceInv
<1>2. ASSUME NEW kind \in {"delete", "move"}, NEW p \in Paths, NEW q \in Paths,
            Begin(kind, p, q)
     PROVE PlaceInv'
  <2>1. /\ step = "idle" /\ Pending = journal /\ Pending' = journal \cup {cur'} /\ use({p, q})
        /\ cur'.from = p /\ cur'.to = q /\ cur'.kind = kind /\ cur'.id = ops + 1
        /\ file[p] # Absent /\ live' \subseteq live /\ UNCHANGED <<file, dbReady>>
    BY <1>2 DEF Begin, Pending
  <2>2. /\ tangled \subseteq tangled'
        /\ \A j \in journal : {p, q} \cap paths(j) # {} => paths(j) \cup {p, q} \subseteq tangled'
    BY <1>0, <2>1, UseEffect
  <2>3. \A c \in live : c \in Contents /\ c # Absent
    BY <1>0 DEF TypeOK
  <2>4. /\ kind = "move" => file[q] = Absent
        /\ \A c \in live : place'[c] = IF kind = "move" /\ c = file[p] THEN {p, q} ELSE place[c]
    BY <1>0, <2>3, <1>2 DEF TypeOK, Begin
  <2>5. \A j \in journal : cur' # j
    BY <1>0, <2>1, PendingType DEF NumberInv
  <2>6. ASSUME NEW c \in live'  PROVE Found(c)'
    BY <1>0, <2>1, <2>2, <2>4, <2>6 DEF PlaceInv, Found
  <2>7. ASSUME NEW j \in Pending', j.kind = "move", j.from \notin tangled',
               NEW c \in live', c \in {file[j.from], file[j.to]}'
        PROVE  Expected(j, c)'
    <3>1. CASE j = cur'
      BY <2>1, <2>3, <2>4, <2>7, <3>1 DEF Expected, paths
    <3>2. CASE j \in journal
      <4>1. /\ j.from \in Paths /\ j.to \in Paths /\ j \in Pending /\ j.from \notin tangled
            /\ p \notin paths(j)
        BY <1>0, <2>2, <2>7, <3>2, PendingType DEF paths
      <4>2. c \in live /\ c # file[p]
        BY <1>0, <2>1, <2>3, <2>7, <4>1 DEF FileInv, paths
      <4>3. Expected(j, c)
        BY <1>0, <2>1, <2>7, <4>1, <4>2 DEF PlaceInv
      <4> QED  BY <2>1, <2>4, <2>5, <3>2, <4>2, <4>3 DEF Expected, Resumed
    <3> QED  BY <2>1, <2>7, <3>1, <3>2
  <2> QED  BY <2>6, <2>7 DEF PlaceInv
<1>3. CASE writePathOperation
  <2>1. UNCHANGED <<file, live, place, tangled>> /\ Pending' \subseteq Pending
    BY <1>0, <1>3 DEF TypeOK, HolderInv, Pending, Forward, Late, writePathOperation
  <2>2. \A j \in Pending' : j.kind = "move" /\ j.id \in dbReady /\ Resumed(j) =>
          j.id \in dbReady' /\ Resumed(j)'
    BY <1>0, <1>3, PendingType DEF TypeOK, HolderInv, NumberInv, Resumed, Forward, Late, Back,
       writePathOperation
  <2> QED  BY <1>0, <2>1, <2>2, PlaceFrame
<1>4. CASE removeTarget
  <2>0. step # "idle" /\ cur \in Pending /\ cur.from \in Paths /\ cur.to \in Paths
    BY <1>0, PendingType, <1>4 DEF removeTarget
  <2>1. step' # "idle" /\ cur' = cur /\ UNCHANGED <<live, place, tangled, journal, dbReady>>
    BY <1>0, <1>4 DEF removeTarget
  <2>2. \A x \in Paths : x \notin paths(cur) => file'[x] = file[x]
    BY <1>0, <2>0, <1>4 DEF TypeOK, paths, removeTarget
  <2>3. ASSUME cur.from \notin tangled, NEW c \in live, c \in {file[cur.from], file[cur.to]}
        PROVE  Found(c)'
    BY <1>0, <2>0, <2>3, <1>4 DEF HolderInv, NumberInv, LiveInv, removeTarget
  <2>4. cur.kind # "move"
    BY <1>0, <1>4 DEF HolderInv, removeTarget
  <2> QED  BY <1>0, <2>0, <2>1, <2>2, <2>3, <2>4, MoveFrame
<1>5. CASE rename
  <2>0. step # "idle" /\ cur \in Pending /\ cur.from \in Paths /\ cur.to \in Paths
    BY <1>0, PendingType, <1>5 DEF rename, renameTo
  <2>1. step' # "idle" /\ cur' = cur /\ UNCHANGED <<live, place, tangled, journal, dbReady>>
    BY <1>0, <1>5 DEF rename, renameTo
  <2>2. \A x \in Paths : x \notin paths(cur) => file'[x] = file[x]
    BY <1>0, <2>0, <1>5 DEF TypeOK, paths, rename, renameTo
  <2>3. ASSUME cur.from \notin tangled, NEW c \in live, c \in {file[cur.from], file[cur.to]}
        PROVE  Found(c)'
    <3>1. Expected(cur, c) /\ Unmoved(cur)
      BY <1>0, <2>0, <2>3, <1>5 DEF HolderInv, PlaceInv, StepInv, Back, rename, renameTo
    <3>2. place[c] = paths(cur)
      BY <1>0, <3>1, <1>5 DEF Expected, Resumed, rename, renameTo
    <3>4. file'[cur.to] = c
      BY <1>0, <2>3, <3>1, <1>5 DEF TypeOK, NumberInv, HolderInv, Back, Unmoved, Renamed, rename,
         renameTo
    <3> QED  BY <2>1, <3>2, <3>4 DEF Found, paths
  <2>4. ASSUME cur.from \notin tangled, NEW c \in live, c \in {file[cur.from], file[cur.to]}'
        PROVE  Expected(cur, c)'
    <3>1. c \in {file[cur.from], file[cur.to]} /\ cur.kind = "move"
      BY <1>0, <2>0, <2>4, <1>5 DEF TypeOK, NumberInv, HolderInv, Back, rename, renameTo
    <3>2. Expected(cur, c)
      BY <1>0, <2>0, <2>4, <3>1 DEF PlaceInv
    <3> QED  BY <1>0, <2>1, <3>2, <1>5 DEF Expected, Resumed, rename, renameTo
  <2> QED  BY <1>0, <2>0, <2>1, <2>2, <2>3, <2>4, MoveFrame
<1>6. CASE markPathFilesystemReady
  <2>1. UNCHANGED <<file, live, place, tangled>> /\ Pending' \subseteq Pending
    BY <1>0, <1>6 DEF TypeOK, HolderInv, Pending, Forward, Late, markPathFilesystemReady
  <2>2. \A j \in Pending' : j.kind = "move" /\ j.id \in dbReady /\ Resumed(j) =>
          j.id \in dbReady' /\ Resumed(j)'
    BY <1>0, <1>6, PendingType DEF TypeOK, HolderInv, NumberInv, Resumed, Forward, Late, Back,
       markPathFilesystemReady
  <2> QED  BY <1>0, <2>1, <2>2, PlaceFrame
<1>7. CASE updateMetadata
  <2>1. UNCHANGED <<file, live, place, tangled>> /\ Pending' \subseteq Pending
    BY <1>0, <1>7 DEF TypeOK, HolderInv, Pending, Forward, Late, updateMetadata,
       movePathMetadata, rowsCollide
  <2>2. \A j \in Pending' : j.kind = "move" /\ j.id \in dbReady /\ Resumed(j) =>
          j.id \in dbReady' /\ Resumed(j)'
    BY <1>0, <1>7, PendingType DEF TypeOK, HolderInv, NumberInv, Resumed, Forward, Late, Back,
       updateMetadata, movePathMetadata, rowsCollide
  <2> QED  BY <1>0, <2>1, <2>2, PlaceFrame
<1>8. CASE markPathDatabaseReady
  <2>1. UNCHANGED <<file, live, place, tangled>> /\ Pending' \subseteq Pending
    BY <1>0, <1>8 DEF TypeOK, HolderInv, Pending, Forward, Late, markPathDatabaseReady
  <2>2. \A j \in Pending' : j.kind = "move" /\ j.id \in dbReady /\ Resumed(j) =>
          j.id \in dbReady' /\ Resumed(j)'
    BY <1>0, <1>8, PendingType DEF TypeOK, HolderInv, NumberInv, Resumed, Forward, Late, Back,
       markPathDatabaseReady
  <2> QED  BY <1>0, <2>1, <2>2, PlaceFrame
<1>9. CASE releasePersistent
  <2>1. UNCHANGED <<file, live, place, tangled>> /\ Pending' \subseteq Pending
    BY <1>0, <1>9 DEF TypeOK, HolderInv, Pending, Forward, Late, releasePersistent
  <2>2. \A j \in Pending' : j.kind = "move" /\ j.id \in dbReady /\ Resumed(j) =>
          j.id \in dbReady' /\ Resumed(j)'
    BY <1>0, <1>9, PendingType DEF TypeOK, HolderInv, NumberInv, Resumed, Forward, Late, Back,
       releasePersistent
  <2> QED  BY <1>0, <2>1, <2>2, PlaceFrame
<1>10. CASE removePathOperation
  <2>1. CASE cur \in journal
    <3>1. UNCHANGED <<file, live, place, tangled>> /\ Pending' \subseteq Pending
      BY <1>0, <1>10, <2>1 DEF TypeOK, HolderInv, Pending, Forward, Late, removePathOperation
    <3>2. \A j \in Pending' : j.kind = "move" /\ j.id \in dbReady /\ Resumed(j) =>
            j.id \in dbReady' /\ Resumed(j)'
      BY <1>0, <1>10, <2>1, PendingType DEF TypeOK, HolderInv, NumberInv, Resumed, Forward, Late,
         Back, removePathOperation
    <3> QED  BY <1>0, <3>1, <3>2, PlaceFrame
  <2>2. CASE cur \notin journal
    <3>1. /\ step \in Late /\ step' = "idle" /\ cur' = NoOp /\ UNCHANGED <<file, journal>>
          /\ Told(IF step = "unlink" THEN {cur.to} ELSE {cur.from}) /\ dbReady' = dbReady \ {cur.id}
      BY <2>2, <1>10 DEF Late, removePathOperation
    <3>2. \A j \in journal' : j.id \in dbReady => j.id \in dbReady'
      BY <1>0, <2>2, <3>1, PendingType DEF NumberInv, Late
    <3> QED  BY <1>0, <2>2, <3>1, <3>2, ToldFrame
  <2> QED  BY <2>1, <2>2
<1>11. CASE undoMove
  <2>1. CASE step = "undoMeta"
    <3>1. UNCHANGED <<file, live, place, tangled, dbReady, cur, mode>> /\ Pending' = Pending
      BY <2>1, <1>11 DEF Pending, undoMove, movePathMetadata, rowsCollide, renameTo
    <3>2. \A j \in Pending' : Resumed(j) => Resumed(j)'
      BY <2>1, <3>1 DEF Resumed
    <3> QED  BY <1>0, <3>1, <3>2, PlaceFrame
  <2>2. CASE step = "undoRename"
    <3>0. step # "idle" /\ cur \in Pending /\ cur.from \in Paths /\ cur.to \in Paths
      BY <1>0, <2>2, PendingType, <1>11 DEF undoMove, movePathMetadata, rowsCollide, renameTo
    <3>1. step' # "idle" /\ cur' = cur /\ UNCHANGED <<live, place, tangled, journal, dbReady>>
      BY <1>0, <2>2, <1>11 DEF undoMove, movePathMetadata, rowsCollide, renameTo
    <3>2. \A x \in Paths : x \notin paths(cur) => file'[x] = file[x]
      BY <1>0, <2>2, <3>0, <1>11 DEF TypeOK, paths, undoMove, movePathMetadata, rowsCollide,
         renameTo
    <3>3. ASSUME cur.from \notin tangled, NEW c \in live, c \in {file[cur.from], file[cur.to]}
          PROVE  Found(c)'
      <4>1. Expected(cur, c) /\ Renamed(cur)
        BY <1>0, <2>2, <3>0, <3>3, <1>11 DEF HolderInv, PlaceInv, StepInv, Back, undoMove,
           movePathMetadata, rowsCollide, renameTo
      <4>2. place[c] = paths(cur)
        BY <1>0, <2>2, <4>1, <1>11 DEF Expected, Resumed, undoMove, movePathMetadata,
           rowsCollide, renameTo
      <4>4. file'[cur.from] = c
        BY <1>0, <2>2, <3>3, <4>1, <1>11 DEF TypeOK, NumberInv, HolderInv, Back, Unmoved, Renamed,
           undoMove, movePathMetadata, rowsCollide, renameTo
      <4> QED  BY <3>1, <4>2, <4>4 DEF Found, paths
    <3>4. ASSUME cur.from \notin tangled, NEW c \in live, c \in {file[cur.from], file[cur.to]}'
          PROVE  Expected(cur, c)'
      <4>1. c \in {file[cur.from], file[cur.to]} /\ cur.kind = "move"
        BY <1>0, <2>2, <3>0, <3>4, <1>11 DEF TypeOK, NumberInv, HolderInv, Back, undoMove,
           movePathMetadata, rowsCollide, renameTo
      <4>2. Expected(cur, c)
        BY <1>0, <2>2, <3>0, <3>4, <4>1 DEF PlaceInv
      <4> QED  BY <1>0, <2>2, <3>1, <4>2, <1>11 DEF Expected, Resumed, undoMove,
      movePathMetadata, rowsCollide, renameTo
    <3> QED  BY <1>0, <2>2, <3>1, <3>2, <3>3, <3>4, MoveFrame
  <2> QED  BY <2>1, <2>2, <1>11 DEF undoMove
<1>12. CASE writePathOperationFails
  <2>1. UNCHANGED <<file, live, place, tangled>> /\ Pending' \subseteq Pending
    BY <1>0, <1>12 DEF TypeOK, HolderInv, Pending, Forward, Late, writePathOperationFails
  <2>2. \A j \in Pending' : j.kind = "move" /\ j.id \in dbReady /\ Resumed(j) =>
          j.id \in dbReady' /\ Resumed(j)'
    BY <1>0, <1>12, PendingType DEF TypeOK, HolderInv, NumberInv, Resumed, Forward, Late, Back,
       writePathOperationFails
  <2> QED  BY <1>0, <2>1, <2>2, PlaceFrame
<1>13. CASE stepFails
  <2>1. CASE UNCHANGED ghosts
    <3>1. UNCHANGED <<file, live, place, tangled>> /\ Pending' \subseteq Pending
      BY <1>0, <1>13, <2>1 DEF TypeOK, HolderInv, Pending, Forward, Late, stepFails
    <3>2. \A j \in Pending' : j.kind = "move" /\ j.id \in dbReady /\ Resumed(j) =>
            j.id \in dbReady' /\ Resumed(j)'
      BY <1>0, <1>13, <2>1, PendingType DEF TypeOK, HolderInv, NumberInv, Resumed, Forward, Late,
         Back, stepFails
    <3> QED  BY <1>0, <3>1, <3>2, PlaceFrame
  <2>2. CASE step = "unlink" /\ mode = "serving" /\ Return /\ Told({cur.to})
    <3>1. cur \in journal => cur.id \in dbReady
      BY <1>0, <2>2 DEF HolderInv
    <3> QED  BY <1>0, <2>2, <3>1, <1>13, ToldFrame DEF Late, stepFails
  <2> QED  BY <2>1, <2>2, <1>13 DEF stepFails
<1>14. CASE moveFails
  <2>1. UNCHANGED <<file, live, place, tangled>> /\ Pending' \subseteq Pending
    BY <1>0, <1>14 DEF TypeOK, HolderInv, Pending, Forward, Late, moveFails, rowsCollide
  <2>2. \A j \in Pending' : j.kind = "move" /\ j.id \in dbReady /\ Resumed(j) =>
          j.id \in dbReady' /\ Resumed(j)'
    BY <1>0, <1>14, PendingType DEF TypeOK, HolderInv, NumberInv, Resumed, Forward, Late, Back,
       moveFails, rowsCollide
  <2> QED  BY <1>0, <2>1, <2>2, PlaceFrame
<1>15. CASE recoveryDone
  <2>1. UNCHANGED <<file, live, place, tangled>> /\ Pending' \subseteq Pending
    BY <1>0, <1>15 DEF TypeOK, HolderInv, Pending, Forward, Late, recoveryDone
  <2>2. \A j \in Pending' : j.kind = "move" /\ j.id \in dbReady /\ Resumed(j) =>
          j.id \in dbReady' /\ Resumed(j)'
    BY <1>0, <1>15, PendingType DEF TypeOK, HolderInv, NumberInv, Resumed, Forward, Late, Back,
       recoveryDone
  <2> QED  BY <1>0, <2>1, <2>2, PlaceFrame
<1>16. CASE recoveryBlocked
  <2>1. UNCHANGED <<file, live, place, tangled>> /\ Pending' \subseteq Pending
    BY <1>0, <1>16 DEF TypeOK, HolderInv, Pending, Forward, Late, recoveryBlocked, rowsCollide
  <2>2. \A j \in Pending' : j.kind = "move" /\ j.id \in dbReady /\ Resumed(j) =>
          j.id \in dbReady' /\ Resumed(j)'
    BY <1>0, <1>16, PendingType DEF TypeOK, HolderInv, NumberInv, Resumed, Forward, Late, Back,
       recoveryBlocked, rowsCollide
  <2> QED  BY <1>0, <2>1, <2>2, PlaceFrame
<1>17. ASSUME NEW j \in journal, RecoverPathOperations(j)  PROVE PlaceInv'
  <2>1. UNCHANGED <<file, live, place, tangled>> /\ Pending' \subseteq Pending
    BY <1>0, <1>17 DEF TypeOK, HolderInv, Pending, Forward, Late, RecoverPathOperations,
       recoverDelete, recoverMove, resume, refuse, moved, unmoved
  <2>2. \A i \in Pending' : i.kind = "move" /\ i.id \in dbReady /\ Resumed(i) =>
          i.id \in dbReady' /\ Resumed(i)'
    BY <1>0, <1>17, PendingType DEF TypeOK, HolderInv, NumberInv, Resumed, Forward, Late, Back,
       RecoverPathOperations, recoverDelete, recoverMove, resume, refuse, moved, unmoved
  <2> QED  BY <1>0, <2>1, <2>2, PlaceFrame
<1>18. CASE Crash
  <2>1. UNCHANGED <<file, live, place, tangled>> /\ Pending' \subseteq Pending
    BY <1>0, <1>18 DEF TypeOK, HolderInv, Pending, Forward, Late, Crash
  <2>2. \A j \in Pending' : j.kind = "move" /\ j.id \in dbReady /\ Resumed(j) =>
          j.id \in dbReady' /\ Resumed(j)'
    BY <1>0, <1>18, PendingType DEF TypeOK, HolderInv, NumberInv, Resumed, Forward, Late, Back,
       Crash
  <2> QED  BY <1>0, <2>1, <2>2, PlaceFrame
<1>19. CASE Shutdown
  <2>1. UNCHANGED <<file, live, place, tangled>> /\ Pending' \subseteq Pending
    BY <1>0, <1>19 DEF TypeOK, HolderInv, Pending, Forward, Late, Shutdown
  <2>2. \A j \in Pending' : j.kind = "move" /\ j.id \in dbReady /\ Resumed(j) =>
          j.id \in dbReady' /\ Resumed(j)'
    BY <1>0, <1>19, PendingType DEF TypeOK, HolderInv, NumberInv, Resumed, Forward, Late, Back,
       Shutdown
  <2> QED  BY <1>0, <2>1, <2>2, PlaceFrame
<1>20. CASE Restart
  <2>1. UNCHANGED <<file, live, place, tangled>> /\ Pending' \subseteq Pending
    BY <1>0, <1>20 DEF TypeOK, HolderInv, Pending, Forward, Late, Restart
  <2>2. \A j \in Pending' : j.kind = "move" /\ j.id \in dbReady /\ Resumed(j) =>
          j.id \in dbReady' /\ Resumed(j)'
    BY <1>0, <1>20, PendingType DEF TypeOK, HolderInv, NumberInv, Resumed, Forward, Late, Back,
       Restart
  <2> QED  BY <1>0, <2>1, <2>2, PlaceFrame
<1>21. CASE UNCHANGED vars
  <2>1. UNCHANGED <<file, live, place, tangled>> /\ Pending' \subseteq Pending
    BY <1>0, <1>21 DEF TypeOK, HolderInv, Pending, Forward, Late, vars
  <2>2. \A j \in Pending' : j.kind = "move" /\ j.id \in dbReady /\ Resumed(j) =>
          j.id \in dbReady' /\ Resumed(j)'
    BY <1>0, <1>21, PendingType DEF TypeOK, HolderInv, NumberInv, Resumed, Forward, Late, Back, vars
  <2> QED  BY <1>0, <2>1, <2>2, PlaceFrame
<1> QED
  BY <1>1, <1>2, <1>3, <1>4, <1>5, <1>6, <1>7, <1>8, <1>9, <1>10, <1>11, <1>12, <1>13, <1>14,
     <1>15, <1>16, <1>17, <1>18, <1>19, <1>20, <1>21 DEF Next, Step, FailedCall, RecoveryStep
\* Crashes alone tangle nothing and leave the markers true.
LEMMA CrashStep == IInv /\ [Next]_vars => CrashInv'
<1> SUFFICES ASSUME IInv, [Next]_vars  PROVE CrashInv'
  OBVIOUS
<1> USE PathsAssumption, BoundsAssumption DEF At, Goto, Running, Fail, Return, ReturnError,
   state, ghosts, counts, Told, Operations, NoOp, Contents, Absent, Ordinary
<1>0. TypeOK /\ NumberInv /\ HolderInv /\ TangleInv /\ FileInv /\ StepInv /\ AloneInv
       /\ LiveInv /\ PlaceInv /\ CrashInv /\ CalmInv
  BY DEF IInv
<1>1. ASSUME NEW p \in Paths, Put(p)  PROVE CrashInv'
  <2>1. /\ step = "idle" /\ Pending = journal /\ Pending' = journal /\ use({p})
        /\ UNCHANGED <<dbReady, journal, mode, failures>>
    BY <1>1 DEF Put, Pending
  <2>2. failures = 0 => journal = {} /\ tangled = {}
    BY <1>0, <2>1, <1>1 DEF CrashInv, TypeOK, Put
  <2>3. journal = {} /\ tangled = {} => tangled' = {}
    BY <1>0, <2>1, UseEffect
  <2> QED  BY <1>0, <2>1, <2>2, <2>3, <1>1 DEF CrashInv, Back, Put
<1>2. ASSUME NEW kind \in {"delete", "move"}, NEW p \in Paths, NEW q \in Paths,
            Begin(kind, p, q)
     PROVE CrashInv'
  <2>1. /\ step = "idle" /\ Pending = journal /\ Pending' = journal \cup {cur'} /\ use({p, q})
        /\ cur'.id = ops + 1 /\ UNCHANGED <<dbReady, journal, mode, failures>>
    BY <1>2 DEF Begin, Pending
  <2>2. failures = 0 => journal = {} /\ tangled = {}
    BY <1>0, <2>1, <1>2 DEF CrashInv, TypeOK, Begin
  <2>3. journal = {} /\ tangled = {} => tangled' = {}
    BY <1>0, <2>1, UseEffect
  <2>4. cur'.id \notin dbReady
    BY <1>0, <2>1 DEF NumberInv, TypeOK
  <2> QED  BY <1>0, <2>1, <2>2, <2>3, <2>4, <1>2 DEF CrashInv, Back, Begin
<1>3. CASE writePathOperation
  BY <1>0, <1>3 DEF CrashInv, Pending, Moved, Back, writePathOperation
<1>4. CASE removeTarget
  BY <1>0, <1>4 DEF TypeOK, NumberInv, HolderInv, Pending, paths, Late, Forward, Back, TangleInv,
     FileInv, StepInv, AloneInv, Named, Unmoved, Renamed, Moved, Gone, CrashInv, removeTarget
<1>5. CASE rename
  BY <1>0, <1>5 DEF TypeOK, NumberInv, HolderInv, Pending, paths, Late, Forward, Back, TangleInv,
     FileInv, StepInv, AloneInv, Named, Unmoved, Renamed, Moved, Gone, CrashInv, rename, renameTo
<1>6. CASE markPathFilesystemReady
  BY <1>0, <1>6 DEF CrashInv, Pending, Moved, Back, markPathFilesystemReady
<1>7. CASE updateMetadata
  <2>0. step # "idle" /\ cur \in Pending /\ cur.from \in Paths /\ cur.to \in Paths /\ cur \in Operations
    BY <1>0, PendingType, <1>7 DEF updateMetadata, movePathMetadata, rowsCollide
  <2>1. /\ cur' = cur /\ UNCHANGED <<tangled, journal, dbReady, mode, failures>> /\ Pending' = Pending
    BY <1>0, <1>7 DEF Pending, updateMetadata, movePathMetadata, rowsCollide
  <2>2. \A x \in Paths : x \notin paths(cur) => file'[x] = file[x] /\ meta'[x] = meta[x]
    BY <1>0, <2>0, <1>7 DEF TypeOK, NumberInv, HolderInv, Back, paths, updateMetadata,
       movePathMetadata, rowsCollide
  <2>3. ASSUME failures = 0, NEW j \in Pending, j.kind = "move", j.id \in dbReady  PROVE Moved(j)'
    <3>1. Moved(j) /\ tangled = {} /\ j.from \in Paths /\ j.to \in Paths
      BY <1>0, <2>3, PendingType DEF CrashInv
    <3>2. CASE j # cur
      <4>1. j.from \notin paths(cur) /\ j.to \notin paths(cur)
        BY <2>0, <1>0, <2>3, <3>1, <3>2 DEF TangleInv, paths
      <4> QED  BY <2>2, <3>1, <4>1 DEF Moved
    <3>3. CASE j = cur
      BY <1>0, <2>3, <3>3, <1>7 DEF TypeOK, CrashInv, Moved, Back, updateMetadata, movePathMetadata,
         rowsCollide
    <3> QED  BY <3>2, <3>3
  <2>4. failures = 0 /\ step' \in Back => cur.id \notin dbReady
    BY <1>0, <1>7 DEF CrashInv, Back, updateMetadata, movePathMetadata, rowsCollide
  <2> QED  BY <1>0, <2>1, <2>3, <2>4 DEF CrashInv
<1>8. CASE markPathDatabaseReady
  BY <1>0, <1>8 DEF TypeOK, NumberInv, HolderInv, Pending, paths, Late, Forward, Back, TangleInv,
     FileInv, StepInv, AloneInv, Named, Unmoved, Renamed, Moved, Gone, CrashInv,
     markPathDatabaseReady
<1>9. CASE releasePersistent
  BY <1>0, <1>9 DEF CrashInv, Pending, Moved, Back, releasePersistent
<1>10. CASE removePathOperation
  BY <1>0, <1>10 DEF CrashInv, Pending, Moved, Back, removePathOperation
<1>11. CASE undoMove
  <2>0. step # "idle" /\ cur \in Pending /\ cur.from \in Paths /\ cur.to \in Paths /\ cur \in Operations
    BY <1>0, PendingType, <1>11 DEF undoMove, movePathMetadata, rowsCollide, renameTo
  <2>1. /\ cur' = cur /\ UNCHANGED <<tangled, journal, dbReady, mode, failures>> /\ Pending' = Pending
    BY <1>0, <1>11 DEF Pending, undoMove, movePathMetadata, rowsCollide, renameTo
  <2>2. \A x \in Paths : x \notin paths(cur) => file'[x] = file[x] /\ meta'[x] = meta[x]
    BY <1>0, <2>0, <1>11 DEF TypeOK, NumberInv, HolderInv, Back, paths, undoMove,
       movePathMetadata, rowsCollide, renameTo
  <2>3. ASSUME failures = 0, NEW j \in Pending, j.kind = "move", j.id \in dbReady  PROVE Moved(j)'
    <3>1. Moved(j) /\ tangled = {} /\ j.from \in Paths /\ j.to \in Paths
      BY <1>0, <2>3, PendingType DEF CrashInv
    <3>2. CASE j # cur
      <4>1. j.from \notin paths(cur) /\ j.to \notin paths(cur)
        BY <2>0, <1>0, <2>3, <3>1, <3>2 DEF TangleInv, paths
      <4> QED  BY <2>2, <3>1, <4>1 DEF Moved
    <3>3. CASE j = cur
      BY <1>0, <2>3, <3>3, <1>11 DEF TypeOK, CrashInv, Moved, Back, undoMove, movePathMetadata,
         rowsCollide, renameTo
    <3> QED  BY <3>2, <3>3
  <2>4. failures = 0 /\ step' \in Back => cur.id \notin dbReady
    BY <1>0, <1>11 DEF CrashInv, Back, undoMove, movePathMetadata, rowsCollide, renameTo
  <2> QED  BY <1>0, <2>1, <2>3, <2>4 DEF CrashInv
<1>12. CASE writePathOperationFails
  BY <1>0, <1>12 DEF CrashInv, Pending, Moved, Back, TypeOK, HolderInv, Forward, Late,
     writePathOperationFails
<1>13. CASE stepFails
  BY <1>0, <1>13 DEF CrashInv, Pending, Moved, Back, TypeOK, HolderInv, Forward, Late, stepFails
<1>14. CASE moveFails
  BY <1>0, <1>14 DEF CrashInv, Pending, Moved, Back, TypeOK, HolderInv, Forward, Late, moveFails,
     rowsCollide
<1>15. CASE recoveryDone
  BY <1>0, <1>15 DEF CrashInv, Pending, Moved, Back, recoveryDone
<1>16. CASE recoveryBlocked
  BY <1>0, <1>16 DEF TypeOK, NumberInv, HolderInv, Pending, paths, Late, Forward, Back,
     TangleInv, FileInv, StepInv, AloneInv, Named, Unmoved, Renamed, Moved, Gone, CrashInv,
     recoveryBlocked, rowsCollide
<1>17. ASSUME NEW j \in journal, RecoverPathOperations(j)  PROVE CrashInv'
  BY <1>0, <1>17 DEF TypeOK, NumberInv, HolderInv, Pending, paths, Late, Forward, Back,
     TangleInv, FileInv, StepInv, AloneInv, Named, Unmoved, Renamed, Moved, Gone, CrashInv,
     RecoverPathOperations, recoverDelete, recoverMove, resume, refuse, moved, unmoved
<1>18. CASE Crash
  BY <1>0, <1>18 DEF CrashInv, Pending, Moved, Back, Crash
<1>19. CASE Shutdown
  BY <1>0, <1>19 DEF CrashInv, Pending, Moved, Back, Shutdown
<1>20. CASE Restart
  BY <1>0, <1>20 DEF CrashInv, Pending, Moved, Back, Restart
<1>21. CASE UNCHANGED vars
  BY <1>0, <1>21 DEF CrashInv, Pending, Moved, Back, vars
<1> QED
  BY <1>1, <1>2, <1>3, <1>4, <1>5, <1>6, <1>7, <1>8, <1>9, <1>10, <1>11, <1>12, <1>13, <1>14,
     <1>15, <1>16, <1>17, <1>18, <1>19, <1>20, <1>21 DEF Next, Step, FailedCall, RecoveryStep
\* Nothing but a crash or a failing call leaves an operation behind.
LEMMA CalmStep == IInv /\ [Next]_vars => CalmInv'
<1> SUFFICES ASSUME IInv, [Next]_vars  PROVE CalmInv'
  OBVIOUS
<1> USE PathsAssumption, BoundsAssumption DEF At, Goto, Running, Fail, Return, ReturnError,
   state, ghosts, counts, Told, Operations, NoOp, Contents, Absent, Ordinary
<1>0. TypeOK /\ NumberInv /\ HolderInv /\ TangleInv /\ FileInv /\ StepInv /\ AloneInv
       /\ LiveInv /\ PlaceInv /\ CrashInv /\ CalmInv
  BY DEF IInv
<1>1. ASSUME NEW p \in Paths, Put(p)  PROVE CalmInv'
  BY <1>0, <1>1 DEF CalmInv, Put, guardPendingManagedPathWrite
<1>2. ASSUME NEW kind \in {"delete", "move"}, NEW p \in Paths, NEW q \in Paths,
            Begin(kind, p, q)
     PROVE CalmInv'
  BY <1>0, <1>2 DEF CalmInv, Begin
<1>3. CASE writePathOperation
  BY <1>0, <1>3 DEF CalmInv, writePathOperation
<1>4. CASE removeTarget
  BY <1>0, <1>4 DEF CalmInv, removeTarget
<1>5. CASE rename
  BY <1>0, <1>5 DEF CalmInv, rename, renameTo
<1>6. CASE markPathFilesystemReady
  BY <1>0, <1>6 DEF CalmInv, markPathFilesystemReady
<1>7. CASE updateMetadata
  BY <1>0, <1>7 DEF CalmInv, updateMetadata, movePathMetadata, rowsCollide
<1>8. CASE markPathDatabaseReady
  BY <1>0, <1>8 DEF CalmInv, markPathDatabaseReady
<1>9. CASE releasePersistent
  BY <1>0, <1>9 DEF CalmInv, releasePersistent
<1>10. CASE removePathOperation
  BY <1>0, <1>10 DEF CalmInv, removePathOperation
<1>11. CASE undoMove
  BY <1>0, <1>11 DEF CalmInv, undoMove, movePathMetadata, rowsCollide, renameTo
<1>12. CASE writePathOperationFails
  BY <1>0, <1>12 DEF CalmInv, TypeOK, HolderInv, Forward, Back, Late, writePathOperationFails
<1>13. CASE stepFails
  BY <1>0, <1>13 DEF CalmInv, TypeOK, HolderInv, Forward, Back, Late, stepFails
<1>14. CASE moveFails
  BY <1>0, <1>14 DEF CalmInv, TypeOK, HolderInv, Forward, Back, Late, moveFails, rowsCollide
<1>15. CASE recoveryDone
  BY <1>0, <1>15 DEF CalmInv, recoveryDone
<1>16. CASE recoveryBlocked
  BY <1>0, <1>16 DEF CalmInv, recoveryBlocked, rowsCollide
<1>17. ASSUME NEW j \in journal, RecoverPathOperations(j)  PROVE CalmInv'
  BY <1>0, <1>17 DEF CalmInv, RecoverPathOperations, recoverDelete, recoverMove, resume, refuse,
     moved, unmoved
<1>18. CASE Crash
  BY <1>0, <1>18 DEF CalmInv, TypeOK, HolderInv, Forward, Back, Late, Crash
<1>19. CASE Shutdown
  BY <1>0, <1>19 DEF CalmInv, Shutdown
<1>20. CASE Restart
  BY <1>0, <1>20 DEF CalmInv, Restart
<1>21. CASE UNCHANGED vars
  BY <1>0, <1>21 DEF CalmInv, vars
<1> QED
  BY <1>1, <1>2, <1>3, <1>4, <1>5, <1>6, <1>7, <1>8, <1>9, <1>10, <1>11, <1>12, <1>13, <1>14,
     <1>15, <1>16, <1>17, <1>18, <1>19, <1>20, <1>21 DEF Next, Step, FailedCall, RecoveryStep
\* Content is destroyed by the replay of a tangled ordinary delete only.
LEMMA LostStep == IInv /\ [Next]_vars => Lost
<1> SUFFICES ASSUME IInv, [Next]_vars  PROVE Lost
  OBVIOUS
<1> USE PathsAssumption, BoundsAssumption DEF At, Goto, Running, Fail, Return, ReturnError,
   state, ghosts, counts, Operations, NoOp, Contents, Absent, Ordinary
<1>0. TypeOK /\ NumberInv /\ HolderInv /\ TangleInv /\ FileInv /\ StepInv /\ AloneInv
       /\ LiveInv /\ PlaceInv /\ CrashInv /\ CalmInv
  BY DEF IInv
<1>1. ASSUME NEW p \in Paths, Put(p)  PROVE Lost
  <2>1. file'[p] = puts + 1 /\ file[p] \notin live' \ {puts + 1} /\ puts + 1 \notin live
        /\ \A x \in Paths : x # p => file'[x] = file[x]
    BY <1>0, <1>1 DEF TypeOK, NumberInv, Put
  <2> QED  BY <2>1 DEF Lost, Exists
<1>2. ASSUME NEW kind \in {"delete", "move"}, NEW p \in Paths, NEW q \in Paths,
            Begin(kind, p, q)
     PROVE Lost
  BY <1>2 DEF Lost, Exists, Told, Begin
<1>3. CASE writePathOperation
  BY <1>3 DEF Lost, Exists, Told, writePathOperation
<1>4. CASE removeTarget
  <2>1. /\ cur \in Pending /\ cur.from \in Paths /\ cur.kind = "delete"
        /\ \A x \in Paths : x # cur.from => file'[x] = file[x]
    BY <1>0, PendingType, <1>4 DEF HolderInv, TypeOK, removeTarget
  <2>2. file[cur.from] \in live =>
          mode = "recovering" /\ step = "remove" /\ cur.from \in Ordinary \cap tangled
    BY <1>0, <2>1, <1>4 DEF HolderInv, LiveInv, AloneInv, removeTarget
  <2> QED  BY <2>1, <2>2 DEF Lost, Exists
<1>5. CASE rename
  <2>1. /\ cur.from \in Paths /\ cur.to \in Paths /\ cur.to # cur.from /\ file[cur.to] = Absent
        /\ file \in [Paths -> Contents \cup {Absent}]
    BY <1>0, PendingType, <1>5 DEF HolderInv, NumberInv, AloneInv, Back, TypeOK, rename, renameTo
  <2>2. /\ \A x \in Paths : x \notin {cur.from, cur.to} => file'[x] = file[x]
        /\ file'[cur.to] = file[cur.from]
    BY <2>1, <1>5 DEF rename, renameTo
  <2>3. \A c \in live : c # Absent
    BY <1>0 DEF TypeOK
  <2> QED  BY <2>1, <2>2, <2>3 DEF Lost, Exists
<1>6. CASE markPathFilesystemReady
  BY <1>6 DEF Lost, Exists, Told, markPathFilesystemReady
<1>7. CASE updateMetadata
  BY <1>7 DEF Lost, Exists, Told, updateMetadata, movePathMetadata, rowsCollide
<1>8. CASE markPathDatabaseReady
  BY <1>8 DEF Lost, Exists, Told, markPathDatabaseReady
<1>9. CASE releasePersistent
  BY <1>9 DEF Lost, Exists, Told, releasePersistent
<1>10. CASE removePathOperation
  BY <1>10 DEF Lost, Exists, Told, removePathOperation
<1>11. CASE undoMove
  <2>1. CASE step = "undoMeta"
    BY <2>1, <1>11 DEF Lost, Exists, undoMove, movePathMetadata, rowsCollide, renameTo
  <2>2. CASE step = "undoRename"
    <3>1. /\ cur.from \in Paths /\ cur.to \in Paths /\ cur.to # cur.from /\ file[cur.from] = Absent
          /\ file \in [Paths -> Contents \cup {Absent}]
      BY <1>0, PendingType, <2>2, <1>11 DEF HolderInv, NumberInv, AloneInv, Back, TypeOK,
         undoMove, movePathMetadata, rowsCollide, renameTo
    <3>2. /\ \A x \in Paths : x \notin {cur.from, cur.to} => file'[x] = file[x]
          /\ file'[cur.from] = file[cur.to]
      BY <3>1, <2>2, <1>11 DEF undoMove, movePathMetadata, rowsCollide, renameTo
    <3>3. \A c \in live : c # Absent
      BY <1>0 DEF TypeOK
    <3> QED  BY <3>1, <3>2, <3>3 DEF Lost, Exists
  <2> QED  BY <2>1, <2>2, <1>11 DEF undoMove
<1>12. CASE writePathOperationFails
  BY <1>12 DEF Lost, Exists, Told, writePathOperationFails
<1>13. CASE stepFails
  BY <1>13 DEF Lost, Exists, Told, stepFails
<1>14. CASE moveFails
  BY <1>14 DEF Lost, Exists, Told, moveFails, rowsCollide
<1>15. CASE recoveryDone
  BY <1>15 DEF Lost, Exists, Told, recoveryDone
<1>16. CASE recoveryBlocked
  BY <1>16 DEF Lost, Exists, Told, recoveryBlocked, rowsCollide
<1>17. ASSUME NEW j \in journal, RecoverPathOperations(j)  PROVE Lost
  BY <1>17 DEF Lost, Exists, Told, RecoverPathOperations, recoverDelete, recoverMove, resume,
     refuse, moved, unmoved
<1>18. CASE Crash
  BY <1>18 DEF Lost, Exists, Told, Crash
<1>19. CASE Shutdown
  BY <1>19 DEF Lost, Exists, Told, Shutdown
<1>20. CASE Restart
  BY <1>20 DEF Lost, Exists, Told, Restart
<1>21. CASE UNCHANGED vars
  BY <1>21 DEF Lost, Exists, Told, vars
<1> QED
  BY <1>1, <1>2, <1>3, <1>4, <1>5, <1>6, <1>7, <1>8, <1>9, <1>10, <1>11, <1>12, <1>13, <1>14,
     <1>15, <1>16, <1>17, <1>18, <1>19, <1>20, <1>21 DEF Next, Step, FailedCall, RecoveryStep
\* The initial state satisfies the invariant.
LEMMA InitInv == Init => IInv
<1> SUFFICES ASSUME Init  PROVE IInv
  OBVIOUS
<1> USE BoundsAssumption DEF Init, Absent, Contents
<1>1. TypeOK
  BY PathsAssumption DEF TypeOK, Operations, NoOp
<1>2. Pending = {}
  BY DEF Pending
<1>3. NumberInv /\ HolderInv /\ TangleInv /\ FileInv
  BY <1>2 DEF NumberInv, HolderInv, TangleInv, FileInv, Back, Forward, Late
<1>4. StepInv /\ AloneInv /\ LiveInv /\ PlaceInv /\ CrashInv /\ CalmInv
  BY <1>2 DEF StepInv, AloneInv, LiveInv, PlaceInv, CrashInv, CalmInv, Back
<1> QED  BY <1>1, <1>3, <1>4 DEF IInv

-----------------------------------------------------------------------------
\* The invariant holds in every reachable state.
THEOREM PathInvariant == Spec => []IInv
<1>1. IInv /\ [Next]_vars => IInv'
  BY TypeStep, NumberStep, HolderStep, TangleStep, FileStep, StepsStep, AloneStep, LiveStep,
     PlaceStep, CrashStep, CalmStep DEF IInv
<1> QED  BY InitInv, <1>1, PTL DEF Spec

\* After a delete, a move, its roll-back or its recovery the rows are those of
\* the files, on every path that was not used while a failed call's journal
\* named it.
THEOREM RowsFollowFiles == Spec => []MetaFollowsFile
<1>1. IInv => MetaFollowsFile
  BY DEF IInv, FileInv, Named, Pending, Quiet, MetaFollowsFile
<1> QED  BY <1>1, PathInvariant, PTL

\* A move that was answered with success is never undone, and one answered with
\* an error does not happen later.
THEOREM PlacesAreHonoured == Spec => []PlaceHonoured
<1>1. IInv => PlaceHonoured
  BY DEF IInv, PlaceInv, Found, PlaceHonoured
<1> QED  BY <1>1, PathInvariant, PTL

\* RecoverPathOperations and the UNIQUE constraint refuse to start only after a
\* call has failed: crashes, in recovery too, are always resolved.
THEOREM CrashesAreResolved == Spec => []RefusalNeedsFailure
<1>1. IInv => RefusalNeedsFailure
  BY BoundsAssumption DEF IInv, TypeOK, CrashInv, RefusalNeedsFailure
<1> QED  BY <1>1, PathInvariant, PTL

\* No rename lands on a file, and no delete takes content that was stored after
\* it was asked for, but for a replayed delete of an ordinary path that was
\* written again.
THEOREM OnlyReplayDestroys == Spec => LostOnlyByReplay
<1> DEFINE Kept == \A c \in live \cap live' : Exists(c) /\ ~Exists(c)' =>
                     /\ mode = "recovering" /\ step = "remove"
                     /\ cur.from \in Ordinary \cap tangled
<1>1. IInv /\ [Next]_vars => [Kept]_vars
  BY LostStep DEF Lost
<1> QED  BY <1>1, PathInvariant, PTL DEF Spec, LostOnlyByReplay
=============================================================================
