------------------------- MODULE WebdavLocksProofs -------------------------
(***************************************************************************)
(* Proofs about WebdavLocks: locks in force never overlap (LocksDisjoint), *)
(* mutations respect the locks of others (MutationsRespectLocks), what was *)
(* locked exists (LockedResourceExists), and locks end by their owner's    *)
(* doing alone (LocksEndRightly), for every tree of paths, any number of   *)
(* clients and users, and any clock.                                       *)
(*                                                                         *)
(* They rest on an invariant that joins the rows, the tree and the         *)
(* mutation in progress: the guard was passed by every row that is there,  *)
(* and as the tree is closed upwards a lock below the target of a move     *)
(* would have made the target exist.  The first lemmas are about prefixes  *)
(* of paths and about the paths a move leaves.                             *)
(***************************************************************************)
EXTENDS WebdavLocks, SequenceTheorems, TLAPS

\* A prefix of a path that exists, exists.
Closed(F) == \A p \in F, q \in Paths : IsPrefix(q, p) => q \in F

\* The rows: no two overlap, those that have expired included, and each was
\* drawn for a path that its LOCK request still knows.
RowInv ==
  /\ \A l \in locks : l.token \in drawn
  /\ \A k, l \in locks : k # l => ~lockScopesIntersect(k.path, k.depth, l.path, l.depth)
  /\ \A c \in Clients : stage[c].at # "idle" =>
       /\ stage[c].token \in drawn
       /\ \A l \in locks : l.token = stage[c].token => l.path = stage[c].path

TreeInv == Closed(files)

\* The mutation in progress is one that its client asked for, and nothing has
\* changed the rows since it was let in.
WorkInv ==
  mu # None =>
    /\ work.kind \in Kinds \cup {"lock-null"}
    /\ IF work.kind = "move" THEN ~isSameOrDescendant(work.from, work.to) ELSE work.from = work.to
    /\ work.kind = "lock-null" => stage[mu].at = "missing" /\ work.to = stage[mu].path
    /\ \A l \in locks, s \in scopesOf(work) : mutationIntersectsLock(s, l) => submitted(mu, work, l)

\* What was locked is there as long as the row is, in force or not.
ResourceInv ==
  /\ faults \in Nat
  /\ faults = 0 => \A l \in locks : l.token \in answered => l.path \in files

IInv == TypeOK /\ RowInv /\ TreeInv /\ WorkInv /\ ResourceInv

Names == UNION {Range(p) : p \in Paths}

\* Paths are sequences of names.
LEMMA PathSeq == \A p \in Paths : p \in Seq(Names) /\ Len(p) \in Nat /\ \A i \in 1..Len(p) : p[i] \in Names
<1>1. Paths \subseteq Seq(Names)
  BY PathsAssumption DEF Names
<1> QED  BY <1>1, LenProperties, ElementOfSeq

\* The first n names of a path.
LEMMA Initial ==
  ASSUME NEW p \in Paths, NEW n \in 0..Len(p)
  PROVE  /\ SubSeq(p, 1, n) \in Paths /\ Len(SubSeq(p, 1, n)) = n
         /\ \A i \in 1..n : SubSeq(p, 1, n)[i] = p[i]
<1>1. Len(p) \in Nat /\ \A i \in 1..n : p[i] \in Names
  BY PathSeq
<1>2. 1 \in Int /\ n \in Int
  BY <1>1
<1>3. /\ Len(SubSeq(p, 1, n)) = IF 1 <= n THEN n - 1 + 1 ELSE 0
      /\ \A i \in 1..(n - 1 + 1) : SubSeq(p, 1, n)[i] = p[1 + i - 1]
  BY <1>1, <1>2, SubSeqProperties
<1> QED  BY <1>1, <1>3, PathsAssumption

\* The names of a path after the first k.
LEMMA Rest ==
  ASSUME NEW p \in Paths, NEW k \in 0..Len(p)
  PROVE  /\ SubSeq(p, k + 1, Len(p)) \in Seq(Names) /\ Len(SubSeq(p, k + 1, Len(p))) = Len(p) - k
         /\ \A i \in 1..(Len(p) - k) : SubSeq(p, k + 1, Len(p))[i] = p[k + i]
<1> DEFINE m == k + 1
           n == Len(p)
<1>1. n \in Nat /\ k \in Nat /\ k <= n /\ m \in Int /\ n \in Int /\ m = k + 1 /\ \A i \in m..n : p[i] \in Names
  BY PathSeq
<1> HIDE DEF m, n
<1>2. /\ SubSeq(p, m, n) \in Seq(Names) /\ Len(SubSeq(p, m, n)) = IF m <= n THEN n - m + 1 ELSE 0
      /\ \A i \in 1..(n - m + 1) : SubSeq(p, m, n)[i] = p[m + i - 1]
  BY <1>1, SubSeqProperties
<1>3. Len(SubSeq(p, m, n)) = n - k /\ n - m + 1 = n - k
  BY <1>1, <1>2
<1>4. \A i \in 1..(n - k) : SubSeq(p, m, n)[i] = p[k + i]
  <2>1. ASSUME NEW i \in 1..(n - k)  PROVE SubSeq(p, m, n)[i] = p[k + i]
    <3>1. m + i - 1 = k + i
      BY <1>1
    <3> QED  BY <1>2, <1>3, <3>1
  <2> QED  BY <2>1
<1> QED  BY <1>2, <1>3, <1>4 DEF m, n

\* A prefix agrees with the path name by name.
LEMMA PrefixIs ==
  \A p, q \in Paths : IsPrefix(p, q) <=> Len(p) <= Len(q) /\ \A i \in 1..Len(p) : p[i] = q[i]
<1> SUFFICES ASSUME NEW p \in Paths, NEW q \in Paths, Len(p) <= Len(q)
             PROVE  SubSeq(p, 1, Len(p)) = SubSeq(q, 1, Len(p)) <=> \A i \in 1..Len(p) : p[i] = q[i]
  BY DEF IsPrefix
<1>1. Len(p) \in Nat /\ Len(q) \in Nat /\ Len(p) \in 0..Len(p) /\ Len(p) \in 0..Len(q)
  BY PathSeq
<1> DEFINE s == SubSeq(p, 1, Len(p))
           t == SubSeq(q, 1, Len(p))
<1>2. s \in Paths /\ Len(s) = Len(p) /\ \A i \in 1..Len(p) : s[i] = p[i]
  BY <1>1, Initial
<1>3. t \in Paths /\ Len(t) = Len(p) /\ \A i \in 1..Len(p) : t[i] = q[i]
  BY <1>1, Initial
<1>4. s \in Seq(Names) /\ t \in Seq(Names)
  BY <1>2, <1>3, PathSeq
<1> HIDE DEF s, t
<1>5. (\A i \in 1..Len(p) : s[i] = t[i]) => s = t
  BY <1>2, <1>3, <1>4, SeqEqual
<1>6. s = t <=> \A i \in 1..Len(p) : p[i] = q[i]
  BY <1>2, <1>3, <1>5
<1> QED  BY <1>6 DEF s, t

\* Prefixes order the paths, and those of one path are comparable.
LEMMA PrefixOrder ==
  /\ \A p \in Paths : IsPrefix(p, p)
  /\ \A p, q, r \in Paths : IsPrefix(p, q) /\ IsPrefix(q, r) => IsPrefix(p, r)
  /\ \A p, q \in Paths : IsPrefix(p, q) /\ IsPrefix(q, p) => p = q
  /\ \A p, q, r \in Paths : IsPrefix(p, r) /\ IsPrefix(q, r) => IsPrefix(p, q) \/ IsPrefix(q, p)
<1> USE PathSeq, PrefixIs
<1>1. \A p \in Paths : IsPrefix(p, p)
  OBVIOUS
<1>2. ASSUME NEW p \in Paths, NEW q \in Paths, NEW r \in Paths, IsPrefix(p, q), IsPrefix(q, r)
      PROVE  IsPrefix(p, r)
  BY <1>2
<1>3. ASSUME NEW p \in Paths, NEW q \in Paths, IsPrefix(p, q), IsPrefix(q, p)  PROVE p = q
  <2>1. Len(p) = Len(q) /\ \A i \in 1..Len(p) : p[i] = q[i]
    BY <1>3
  <2> QED  BY <2>1, SeqEqual
<1>4. ASSUME NEW p \in Paths, NEW q \in Paths, NEW r \in Paths, IsPrefix(p, r), IsPrefix(q, r)
      PROVE  IsPrefix(p, q) \/ IsPrefix(q, p)
  <2>1. CASE Len(p) <= Len(q)
    <3>1. \A i \in 1..Len(p) : p[i] = q[i]
      BY <1>4, <2>1
    <3> QED  BY <2>1, <3>1
  <2>2. CASE Len(q) <= Len(p)
    <3>1. \A i \in 1..Len(q) : q[i] = p[i]
      BY <1>4, <2>2
    <3> QED  BY <2>2, <3>1
  <2> QED  BY <2>1, <2>2
<1> QED  BY <1>1, <1>2, <1>3, <1>4

\* A prefix of a path is the path or a prefix of its parent.
LEMMA ParentPath ==
  ASSUME NEW p \in Paths, NEW q \in Paths, IsPrefix(q, p), q # p
  PROVE  Front(p) \in Paths /\ IsPrefix(q, Front(p))
<1>1. Len(p) \in Nat /\ Len(q) \in Nat /\ Len(q) <= Len(p) /\ \A i \in 1..Len(q) : q[i] = p[i]
  BY PathSeq, PrefixIs
<1>2. Len(q) # Len(p)
  BY <1>1, PathSeq, SeqEqual
<1>3. Len(p) - 1 \in 0..Len(p) /\ Len(q) <= Len(p) - 1
  BY <1>1, <1>2
<1>4. Front(p) \in Paths /\ Len(Front(p)) = Len(p) - 1 /\ \A i \in 1..(Len(p) - 1) : Front(p)[i] = p[i]
  BY <1>3, Initial DEF Front
<1> QED  BY <1>1, <1>3, <1>4, PrefixIs

\* What lies below a directory keeps its place in it when it is moved.
LEMMA MovedPath ==
  ASSUME NEW m, m.from \in Paths, m.to \in Paths, NEW p \in Paths, IsPrefix(m.from, p)
  PROVE  /\ moved(m, p) \in Seq(Names) /\ Len(moved(m, p)) = Len(m.to) + Len(p) - Len(m.from)
         /\ \A i \in 1..Len(m.to) : moved(m, p)[i] = m.to[i]
         /\ \A i \in 1..(Len(p) - Len(m.from)) : moved(m, p)[Len(m.to) + i] = p[Len(m.from) + i]
<1> DEFINE k == Len(m.from)
           rest == SubSeq(p, k + 1, Len(p))
<1>1. k \in Nat /\ Len(p) \in Nat /\ k <= Len(p) /\ Len(m.to) \in Nat /\ m.to \in Seq(Names)
  BY PathSeq, PrefixIs
<1>4. k \in 0..Len(p)
  BY <1>1
<1>5. /\ rest \in Seq(Names) /\ Len(rest) = Len(p) - k
      /\ \A i \in 1..(Len(p) - k) : rest[i] = p[k + i]
  BY <1>4, Rest
<1> DEFINE to == m.to
<1>2. to \in Seq(Names)
  BY <1>1
<1> HIDE DEF k, rest, to
<1>3. /\ to \o rest \in Seq(Names) /\ Len(to \o rest) = Len(to) + Len(rest)
      /\ \A i \in 1..(Len(to) + Len(rest)) :
           (to \o rest)[i] = IF i <= Len(to) THEN to[i] ELSE rest[i - Len(to)]
  BY <1>2, <1>5, ConcatProperties
<1>6. /\ m.to \o rest \in Seq(Names) /\ Len(m.to \o rest) = Len(m.to) + Len(rest)
      /\ \A i \in 1..(Len(m.to) + Len(rest)) :
           (m.to \o rest)[i] = IF i <= Len(m.to) THEN m.to[i] ELSE rest[i - Len(m.to)]
  BY <1>3 DEF to
<1>7. moved(m, p) = m.to \o rest
  BY DEF moved, rest, k
<1>8. \A i \in 1..Len(m.to) : (m.to \o rest)[i] = m.to[i]
  BY <1>1, <1>5, <1>6
<1>9. \A i \in 1..(Len(p) - k) : (m.to \o rest)[Len(m.to) + i] = p[k + i]
  BY <1>1, <1>5, <1>6
<1> QED  BY <1>1, <1>5, <1>6, <1>7, <1>8, <1>9 DEF k

\* A directory that is moved is then where it was moved to.
LEMMA MovedHome ==
  ASSUME NEW m, m.from \in Paths, m.to \in Paths
  PROVE  moved(m, m.from) = m.to
<1>1. IsPrefix(m.from, m.from) /\ m.to \in Seq(Names) /\ Len(m.to) \in Nat /\ Len(m.from) \in Nat
  BY PathSeq, PrefixOrder
<1>2. /\ moved(m, m.from) \in Seq(Names) /\ Len(moved(m, m.from)) = Len(m.to) + Len(m.from) - Len(m.from)
      /\ \A i \in 1..Len(m.to) : moved(m, m.from)[i] = m.to[i]
  BY <1>1, MovedPath
<1>3. Len(moved(m, m.from)) = Len(m.to)
  BY <1>1, <1>2
<1> DEFINE s == moved(m, m.from)
           t == m.to
<1>4. s \in Seq(Names) /\ t \in Seq(Names) /\ Len(s) = Len(t) /\ \A i \in 1..Len(s) : s[i] = t[i]
  BY <1>1, <1>2, <1>3
<1> HIDE DEF s, t
<1>5. s = t
  BY <1>4, SeqEqual
<1> QED  BY <1>5 DEF s, t

\* The paths above what was moved are those above the target and those that
\* were moved with it.
LEMMA MovedPrefix ==
  ASSUME NEW m, m.from \in Paths, m.to \in Paths, NEW p \in Paths, IsPrefix(m.from, p),
         moved(m, p) \in Paths
  PROVE  /\ IsPrefix(m.to, moved(m, p))
         /\ \A q \in Paths : IsPrefix(q, moved(m, p)) =>
              \/ IsPrefix(q, m.to)
              \/ \E r \in Paths : IsPrefix(r, p) /\ IsPrefix(m.from, r) /\ q = moved(m, r)
<1> DEFINE k == Len(m.from)
           d == Len(m.to)
           t == moved(m, p)
<1>1. k \in Nat /\ Len(p) \in Nat /\ k <= Len(p) /\ d \in Nat /\ \A i \in 1..k : m.from[i] = p[i]
  BY PathSeq, PrefixIs
<1>2. /\ Len(t) = d + Len(p) - k /\ \A i \in 1..d : t[i] = m.to[i]
      /\ \A i \in 1..(Len(p) - k) : t[d + i] = p[k + i]
  BY MovedPath
<1>3. t \in Paths
  OBVIOUS
<1> HIDE DEF t
<1>4. IsPrefix(m.to, t)
  BY <1>1, <1>2, <1>3, PrefixIs
<1>5. ASSUME NEW q \in Paths, IsPrefix(q, t), ~IsPrefix(q, m.to)
      PROVE  \E r \in Paths : IsPrefix(r, p) /\ IsPrefix(m.from, r) /\ q = moved(m, r)
  <2>1. IsPrefix(m.to, q) /\ Len(q) \in Nat
    BY <1>3, <1>4, <1>5, PrefixOrder, PathSeq
  <2>2. d <= Len(q) /\ Len(q) <= Len(t) /\ \A i \in 1..Len(q) : q[i] = t[i]
    BY <1>3, <1>5, <2>1, PrefixIs
  <2> DEFINE n == k + Len(q) - d
             r == SubSeq(p, 1, n)
  <2>3. n \in 0..Len(p) /\ k <= n
    BY <1>1, <1>2, <2>1, <2>2
  <2>4. r \in Paths /\ Len(r) = n /\ \A i \in 1..n : r[i] = p[i]
    BY <2>3, Initial
  <2> HIDE DEF r
  <2>5. IsPrefix(r, p) /\ IsPrefix(m.from, r)
    <3>1. n \in Nat /\ n <= Len(p) /\ k <= n
      BY <1>1, <2>3
    <3> HIDE DEF n
    <3>2. IsPrefix(r, p)
      BY <2>4, <3>1, PrefixIs
    <3>3. \A i \in 1..k : m.from[i] = r[i]
      BY <1>1, <2>4, <3>1
    <3> QED  BY <2>4, <3>1, <3>2, <3>3, PrefixIs
  <2>6. /\ moved(m, r) \in Seq(Names) /\ Len(moved(m, r)) = d + Len(r) - k
        /\ \A i \in 1..d : moved(m, r)[i] = m.to[i]
        /\ \A i \in 1..(Len(r) - k) : moved(m, r)[d + i] = r[k + i]
    BY <2>4, <2>5, MovedPath
  <2>7. Len(moved(m, r)) = Len(q)
    BY <1>1, <2>1, <2>4, <2>6
  <2>8. \A i \in 1..Len(q) : moved(m, r)[i] = q[i]
    <3>1. ASSUME NEW i \in 1..Len(q)  PROVE moved(m, r)[i] = q[i]
      <4>0. i \in Nat \ {0} /\ i <= Len(q) /\ d \in Nat /\ k \in Nat /\ Len(q) \in Nat
        BY <1>1, <2>1
      <4>1. CASE i <= d
        <5>1. i \in 1..d
          BY <4>0, <4>1
        <5> QED  BY <1>2, <2>2, <2>6, <5>1
      <4>2. CASE i > d
        <5> DEFINE j == i - d
        <5>1. j \in Nat \ {0} /\ j <= Len(q) - d /\ i = d + j
          BY <4>0, <4>2
        <5> HIDE DEF j
        <5>2. Len(r) - k = Len(q) - d /\ Len(q) - d <= Len(p) - k
          BY <1>1, <1>2, <2>2, <2>4, <4>0
        <5>3. j \in 1..(Len(r) - k) /\ j \in 1..(Len(p) - k) /\ k + j \in 1..n
          <6>1. n \in Nat /\ n - k = Len(q) - d /\ Len(r) = n
            BY <1>1, <2>3, <2>4, <4>0
          <6> HIDE DEF n, k, d
          <6>2. j <= n - k /\ j <= Len(p) - k
            BY <1>1, <4>0, <5>1, <5>2, <6>1
          <6> QED  BY <1>1, <5>1, <6>1, <6>2
        <5>4. moved(m, r)[i] = r[k + j] /\ t[i] = p[k + j] /\ r[k + j] = p[k + j]
          BY <1>2, <2>4, <2>6, <5>1, <5>3
        <5> QED  BY <2>2, <5>4
      <4> QED  BY <4>0, <4>1, <4>2
    <3> QED  BY <3>1
  <2>9. q = moved(m, r)
    BY <2>6, <2>7, <2>8, PathSeq, SeqEqual
  <2> QED  BY <2>4, <2>5, <2>9
<1> QED  BY <1>4, <1>5 DEF t

\* What the type of the state says of a row, a stage and a mutation.
LEMMA Typed ==
  ASSUME TypeOK
  PROVE  /\ \A l \in locks : l.token \in Tokens /\ l.path \in Paths /\ l.depth \in {"0", "infinity"}
                             /\ l.user \in Users /\ l.expires \in Nat
         /\ \A c \in Clients : stage[c].token \in Tokens \cup {None} /\ stage[c].path \in Paths
         /\ mu # None => work \in Mutation /\ work.from \in Paths /\ work.to \in Paths
         /\ Live \subseteq locks
BY DEF TypeOK, Lock, Mutation, Live

\* Whether two locks overlap does not depend on their order.
LEMMA Overlap ==
  \A p, d, q, e : lockScopesIntersect(p, d, q, e) <=> lockScopesIntersect(q, e, p, d)
BY DEF lockScopesIntersect

\* What a mutation removes and writes.
LEMMA Effects ==
  ASSUME NEW m \in Mutation
  PROVE  /\ m.kind \notin {"delete", "move"} => removes(m) = {} /\ writes(m) = {m.to}
         /\ m.kind = "delete" => removes(m) = below(m.from) /\ writes(m) = {}
         /\ m.kind = "move" => /\ removes(m) = below(m.from)
                               /\ writes(m) = {moved(m, p) : p \in below(m.from)} \cap Paths
BY DEF removes, writes

\* What the checks of a mutation that has the guard make sure of.
LEMMA Checked ==
  ASSUME NEW m \in Mutation, possible(m), m.kind \in Kinds \cup {"lock-null"}
  PROVE  /\ m.kind \in {"put", "mkdir", "lock-null", "delete", "move", "restore"}
         /\ m.kind # "delete" => m.to # << >> /\ Front(m.to) \in files
         /\ m.kind \in {"delete", "move"} => m.from \in files
         /\ m.kind = "move" => m.to \notin files
BY KindsAssumption DEF possible, parentExists, exists

\* A path that exists or comes to exist under a mutation leaves the tree closed.
LEMMA AfterClosed ==
  ASSUME TypeOK, TreeInv, WorkInv, mu # None, possible(work)
  PROVE  Closed(after(work))
<1> DEFINE m == work
<1>1. /\ m \in Mutation /\ m.from \in Paths /\ m.to \in Paths /\ files \subseteq Paths
      /\ m.kind \in Kinds \cup {"lock-null"} /\ possible(m)
      /\ m.kind = "move" => ~IsPrefix(m.from, m.to)
  BY Typed DEF TypeOK, WorkInv, isSameOrDescendant
<1>2. \A p \in files, q \in Paths : IsPrefix(q, p) => q \in files
  BY DEF TreeInv, Closed
<1> HIDE DEF m
<1>3. ASSUME NEW p \in files \ removes(m), NEW q \in Paths, IsPrefix(q, p)  PROVE q \in files \ removes(m)
  <2>1. q \in files
    BY <1>2, <1>3
  <2>2. CASE m.kind \in {"delete", "move"}
    <3>1. removes(m) = below(m.from)
      BY <1>1, <2>2, Effects
    <3>2. IsPrefix(m.from, q) => IsPrefix(m.from, p)
      BY <1>1, <1>3, PrefixOrder
    <3> QED  BY <1>3, <2>1, <3>1, <3>2 DEF below, isSameOrDescendant
  <2>3. CASE m.kind \notin {"delete", "move"}
    BY <1>1, <2>1, <2>3, Effects
  <2> QED  BY <2>2, <2>3
<1>4. ASSUME NEW q \in Paths, IsPrefix(q, m.to), q # m.to, m.kind # "delete"  PROVE q \in files \ removes(m)
  <2>1. IsPrefix(q, Front(m.to)) /\ Front(m.to) \in files
    BY <1>1, <1>4, ParentPath, Checked
  <2>2. q \in files
    BY <1>2, <2>1
  <2>3. CASE m.kind = "move"
    <3>1. ~IsPrefix(m.from, q)
      BY <1>1, <1>4, <2>3, PrefixOrder
    <3> QED  BY <1>1, <2>2, <2>3, <3>1, Effects DEF below, isSameOrDescendant
  <2>4. CASE m.kind # "move"
    BY <1>1, <1>4, <2>2, <2>4, Effects
  <2> QED  BY <2>3, <2>4
<1>5. ASSUME NEW p \in writes(m), NEW q \in Paths, IsPrefix(q, p)
      PROVE  q \in (files \ removes(m)) \cup writes(m)
  <2>1. CASE m.kind = "delete"
    BY <1>1, <1>5, <2>1, Effects
  <2>2. CASE m.kind = "move"
    <3>1. PICK x \in below(m.from) : p = moved(m, x) /\ p \in Paths
      BY <1>1, <1>5, <2>2, Effects
    <3>2. x \in Paths /\ x \in files /\ IsPrefix(m.from, x)
      BY <1>1 DEF below, isSameOrDescendant
    <3>3. \/ IsPrefix(q, m.to)
          \/ \E r \in Paths : IsPrefix(r, x) /\ IsPrefix(m.from, r) /\ q = moved(m, r)
      BY <1>1, <1>5, <3>1, <3>2, MovedPrefix
    <3>4. CASE q = m.to
      <4>1. m.from \in below(m.from)
        BY <1>1, <2>2, Checked, PrefixOrder DEF below, isSameOrDescendant
      <4>2. moved(m, m.from) = m.to
        BY <1>1, MovedHome
      <4> QED  BY <1>1, <2>2, <3>4, <4>1, <4>2, Effects
    <3>5. CASE IsPrefix(q, m.to) /\ q # m.to
      BY <1>4, <2>2, <3>5
    <3>6. CASE \E r \in Paths : IsPrefix(r, x) /\ IsPrefix(m.from, r) /\ q = moved(m, r)
      <4>1. PICK r \in Paths : IsPrefix(r, x) /\ IsPrefix(m.from, r) /\ q = moved(m, r)
        BY <3>6
      <4>2. r \in below(m.from)
        BY <1>2, <3>2, <4>1 DEF below, isSameOrDescendant
      <4> QED  BY <1>1, <2>2, <4>1, <4>2, Effects
    <3> QED  BY <3>3, <3>4, <3>5, <3>6
  <2>3. CASE m.kind \notin {"delete", "move"}
    <3>1. p = m.to /\ writes(m) = {m.to}
      BY <1>1, <1>5, <2>3, Effects
    <3> QED  BY <1>4, <1>5, <2>3, <3>1
  <2> QED  BY <2>1, <2>2, <2>3
<1> QED  BY <1>3, <1>5 DEF Closed, after, m

\* A request that moves on keeps the type of the stages.
LEMMA StageTyped ==
  ASSUME TypeOK, NEW c \in Clients, NEW a \in {"idle", "created", "missing", "failed"},
         NEW t \in Tokens \cup {None}, NEW p \in Paths
  PROVE  /\ [stage EXCEPT ![c] = [at |-> a, token |-> t, path |-> p]]
              \in [Clients -> [at : {"idle", "created", "missing", "failed"}, token : Tokens \cup {None}, path : Paths]]
         /\ [stage EXCEPT ![c].at = a]
              \in [Clients -> [at : {"idle", "created", "missing", "failed"}, token : Tokens \cup {None}, path : Paths]]
         /\ [stage EXCEPT ![c] = Idle]
              \in [Clients -> [at : {"idle", "created", "missing", "failed"}, token : Tokens \cup {None}, path : Paths]]
         /\ [x \in Clients |-> Idle]
              \in [Clients -> [at : {"idle", "created", "missing", "failed"}, token : Tokens \cup {None}, path : Paths]]
BY PathsAssumption DEF TypeOK, Idle

\* A mutation leaves paths, and so does what start-up recovery makes of it.
LEMMA AfterTyped ==
  ASSUME TypeOK, WorkInv, mu # None, possible(work)  PROVE after(work) \subseteq Paths
BY Typed, Checked, Effects DEF TypeOK, WorkInv, after

\* Every step keeps the types.
LEMMA TypeStep ==
  ASSUME IInv, [Next]_vars  PROVE TypeOK'
<1> USE DEF IInv
<1>1. ASSUME NEW c \in Clients, NEW p \in Paths, NEW depth \in {"0", "infinity"}, NEW t \in 1..MaxTimeout, Create(c, p, depth, t)
      PROVE  TypeOK'
  <2> DEFINE row(x) == [token |-> x, path |-> p, depth |-> depth, user |-> UserOf[c], expires |-> now + t]
  <2>1. PICK x \in Tokens \ drawn :
          /\ drawn' = drawn \cup {x} /\ locks' = Live \cup {row(x)}
          /\ stage' = [stage EXCEPT ![c] = [at |-> "created", token |-> x, path |-> p]]
    BY <1>1 DEF Create
  <2>2. row(x) \in Lock
    <3>1. t \in Nat /\ now \in Nat /\ UserOf[c] \in Users
      BY BoundsAssumption DEF TypeOK, Users
    <3> QED  BY <3>1 DEF Lock
  <2>3. Live \subseteq Lock /\ \A k \in Live : k.token \in drawn
    BY DEF Live, TypeOK, RowInv
  <2>4. row(x).token = x
    OBVIOUS
  <2> HIDE DEF row
  <2>5. locks' \subseteq Lock /\ \A k, l \in locks' : k.token = l.token => k = l
    BY <2>1, <2>2, <2>3, <2>4 DEF TypeOK, Live
  <2>6. stage' \in [Clients -> [at : {"idle", "created", "missing", "failed"}, token : Tokens \cup {None}, path : Paths]]
    BY <2>1, StageTyped
  <2> QED  BY <1>1, <2>1, <2>5, <2>6 DEF Create, TypeOK
<1>2. ASSUME NEW c \in Clients, NEW l \in locks, NEW p \in Paths, Unlock(c, l, p)
      PROVE  TypeOK'
  BY <1>2, Typed, BoundsAssumption, NoneAssumption DEF Unlock, TypeOK, Live, Idle
<1>3. ASSUME NEW c \in Clients, NEW l \in locks, NEW p \in Paths, NEW t \in 1..MaxTimeout, Refresh(c, l, p, t)
      PROVE  TypeOK'
  <2> DEFINE new == [l EXCEPT !.expires = now + t]
  <2>1. new \in Lock /\ new.token = l.token
    <3>1. t \in Nat /\ now \in Nat /\ l \in Lock
      BY BoundsAssumption DEF TypeOK
    <3> QED  BY <3>1 DEF Lock
  <2>2. locks' = (Live \ {l}) \cup {new} /\ l \in Live
    BY <1>3 DEF Refresh
  <2> HIDE DEF new
  <2>3. locks' \subseteq Lock /\ \A k, k1 \in locks' : k.token = k1.token => k = k1
    BY <2>1, <2>2 DEF TypeOK, Live
  <2> QED  BY <1>3, <2>3 DEF Refresh, TypeOK
<1>4. ASSUME NEW c \in Clients, NEW m \in [kind : Kinds, from : Paths, to : Paths, tokens : SUBSET {l.token : l \in Live}],
             Request(c, m)
      PROVE  TypeOK'
  <2>1. {l.token : l \in Live} \subseteq Tokens
    BY Typed
  <2>2. m \in Mutation
    BY <2>1 DEF Mutation
  <2>3. locks' = Live /\ mu' = c /\ work' = m
    BY <1>4 DEF Request, GuardMutations
  <2>4. work' # None /\ mu' # None
    BY <2>2, <2>3, NoneAssumption
  <2> QED  BY <1>4, <2>2, <2>3, <2>4, Typed DEF Request, TypeOK
<1>5. ASSUME NEW c \in Clients, Succeed(c)
      PROVE  TypeOK'
  <2>1. mu # None /\ possible(work)
    BY <1>5, NoneAssumption DEF Succeed
  <2>2. files' \subseteq Paths
    BY <1>5, <2>1, AfterTyped DEF Succeed
  <2>3. locks' \subseteq locks
    BY <1>5 DEF Succeed, deleteLocksRootedAt
  <2> QED  BY <1>5, <2>2, <2>3 DEF Succeed, finished, TypeOK
<1>6. ASSUME NEW c \in Clients, Fail(c)
      PROVE  TypeOK'
  BY <1>6, Typed, BoundsAssumption, NoneAssumption DEF Fail, finished, TypeOK, Live, Idle
<1>7. ASSUME NEW c \in Clients, DeleteFails(c)
      PROVE  TypeOK'
  BY <1>7, Typed, BoundsAssumption, NoneAssumption DEF DeleteFails, finished, TypeOK, Live, Idle
<1>8. ASSUME NEW c \in Clients, Confirm(c)
      PROVE  TypeOK'
  <2>0. \/ stage' = [stage EXCEPT ![c] = Idle]
        \/ stage' = [stage EXCEPT ![c].at = "missing"]
        \/ stage' = [stage EXCEPT ![c].at = "failed"]
    BY <1>8 DEF Confirm, answer
  <2>1. stage' \in [Clients -> [at : {"idle", "created", "missing", "failed"}, token : Tokens \cup {None}, path : Paths]]
    <3>1. CASE stage' = [stage EXCEPT ![c] = Idle]
      BY <3>1, Typed, StageTyped
    <3>2. CASE stage' = [stage EXCEPT ![c].at = "missing"]
      BY <3>2, Typed, StageTyped
    <3>3. CASE stage' = [stage EXCEPT ![c].at = "failed"]
      BY <3>3, Typed, StageTyped
    <3> QED  BY <2>0, <3>1, <3>2, <3>3
  <2>2. answered' \subseteq drawn
    BY <1>8 DEF Confirm, answer, TypeOK, RowInv
  <2> QED  BY <1>8, <2>1, <2>2 DEF Confirm, TypeOK
<1>9. ASSUME NEW c \in Clients, CreateEmpty(c)
      PROVE  TypeOK'
  <2> DEFINE m == [kind |-> "lock-null", from |-> stage[c].path, to |-> stage[c].path, tokens |-> {stage[c].token}]
  <2>1. stage[c].token \in Tokens /\ stage[c].path \in Paths
    BY <1>9, Typed DEF CreateEmpty, TypeOK, RowInv
  <2>2. m \in Mutation
    BY <2>1 DEF Mutation
  <2>3. locks' = Live /\ mu' = c /\ work' = m
    BY <1>9 DEF CreateEmpty, GuardMutations
  <2> HIDE DEF m
  <2>4. work' # None /\ mu' # None
    BY <2>2, <2>3, NoneAssumption
  <2> QED  BY <1>9, <2>2, <2>3, <2>4, Typed DEF CreateEmpty, TypeOK
<1>10. ASSUME NEW c \in Clients, EmptyCreated(c)
      PROVE  TypeOK'
  <2>1. mu # None /\ possible(work)
    BY <1>10, NoneAssumption DEF EmptyCreated
  <2>2. files' \subseteq Paths
    BY <1>10, <2>1, AfterTyped DEF EmptyCreated
  <2>3. stage' \in [Clients -> [at : {"idle", "created", "missing", "failed"}, token : Tokens \cup {None}, path : Paths]]
    BY <1>10, Typed, StageTyped DEF EmptyCreated, answer
  <2>4. answered' \subseteq drawn
    <3>1. stage[c].at # "idle"
      BY <1>10, <2>1 DEF EmptyCreated, WorkInv
    <3> QED  BY <1>10, <3>1 DEF EmptyCreated, answer, TypeOK, RowInv
  <2> QED  BY <1>10, <2>2, <2>3, <2>4 DEF EmptyCreated, finished, TypeOK
<1>11. ASSUME NEW c \in Clients, EmptyFailed(c)
      PROVE  TypeOK'
  BY <1>11, Typed, BoundsAssumption, NoneAssumption DEF EmptyFailed, finished, TypeOK, Live, Idle
<1>12. ASSUME NEW c \in Clients, EmptyRefused(c)
      PROVE  TypeOK'
  BY <1>12, Typed, BoundsAssumption, NoneAssumption DEF EmptyRefused, TypeOK, Live, Idle
<1>13. ASSUME NEW c \in Clients, Discard(c)
      PROVE  TypeOK'
  <2>1. stage' \in [Clients -> [at : {"idle", "created", "missing", "failed"}, token : Tokens \cup {None}, path : Paths]]
    BY <1>13, Typed, StageTyped DEF Discard
  <2>2. locks' \subseteq locks
    BY <1>13 DEF Discard
  <2> QED  BY <1>13, <2>1, <2>2 DEF Discard, TypeOK
<1>14. ASSUME CleanupExpired
      PROVE  TypeOK'
  BY <1>14, Typed, BoundsAssumption, NoneAssumption DEF CleanupExpired, TypeOK, Live, Idle
<1>15. ASSUME Tick
      PROVE  TypeOK'
  BY <1>15, Typed, BoundsAssumption, NoneAssumption DEF Tick, TypeOK, Live, Idle
<1>16. ASSUME Crash
      PROVE  TypeOK'
  <2>1. stage' \in [Clients -> [at : {"idle", "created", "missing", "failed"}, token : Tokens \cup {None}, path : Paths]]
    BY <1>16, StageTyped, Typed DEF Crash
  <2>2. files' \subseteq Paths
    <3>1. files' = files \/ (mu # None /\ possible(work) /\ files' = after(work))
      BY <1>16 DEF Crash
    <3> QED  BY <3>1, AfterTyped DEF TypeOK
  <2> QED  BY <1>16, <2>1, <2>2 DEF Crash, finished, TypeOK
<1>17. ASSUME UNCHANGED vars
      PROVE  TypeOK'
  BY <1>17, Typed, BoundsAssumption, NoneAssumption DEF vars, TypeOK, Live, Idle
<1> QED  BY <1>1, <1>2, <1>3, <1>4, <1>5, <1>6, <1>7, <1>8, <1>9, <1>10, <1>11, <1>12, <1>13,
   <1>14, <1>15, <1>16, <1>17 DEF Next

\* Every step keeps the rows apart.
LEMMA RowStep ==
  ASSUME IInv, [Next]_vars  PROVE RowInv'
<1> USE DEF IInv
<1>1. ASSUME NEW c \in Clients, NEW p \in Paths, NEW depth \in {"0", "infinity"}, NEW t \in 1..MaxTimeout, Create(c, p, depth, t)
      PROVE  RowInv'
  BY <1>1, Typed, Overlap DEF Create, RowInv, Live, Idle
<1>2. ASSUME NEW c \in Clients, NEW l \in locks, NEW p \in Paths, Unlock(c, l, p)
      PROVE  RowInv'
  BY <1>2, Typed, Overlap DEF Unlock, RowInv, Live, Idle
<1>3. ASSUME NEW c \in Clients, NEW l \in locks, NEW p \in Paths, NEW t \in 1..MaxTimeout, Refresh(c, l, p, t)
      PROVE  RowInv'
  <2> DEFINE new == [l EXCEPT !.expires = now + t]
  <2>1. new.token = l.token /\ new.path = l.path /\ new.depth = l.depth
    BY DEF TypeOK, Lock
  <2>2. locks' = (Live \ {l}) \cup {new} /\ l \in Live /\ drawn' = drawn /\ stage' = stage /\ Live \subseteq locks
    BY <1>3 DEF Refresh, Live
  <2> HIDE DEF new
  <2> DEFINE old(k) == IF k = new THEN l ELSE k
  <2>3. \A k \in locks' : old(k) \in locks /\ old(k).token = k.token /\ old(k).path = k.path
                          /\ old(k).depth = k.depth
    BY <2>1, <2>2
  <2>4. \A j, k \in locks' : j # k => old(j) # old(k)
    BY <2>2
  <2> HIDE DEF old
  <2>5. \A k \in locks' : k.token \in drawn
    BY <2>3 DEF RowInv
  <2>6. \A j, k \in locks' : j # k => ~lockScopesIntersect(j.path, j.depth, k.path, k.depth)
    <3>1. ASSUME NEW j \in locks', NEW k \in locks', j # k
          PROVE  ~lockScopesIntersect(j.path, j.depth, k.path, k.depth)
      <4>1. ~lockScopesIntersect(old(j).path, old(j).depth, old(k).path, old(k).depth)
        BY <2>3, <2>4, <3>1 DEF RowInv
      <4> QED  BY <2>3, <4>1
    <3> QED  BY <3>1
  <2>7. \A d \in Clients : stage[d].at # "idle" =>
          /\ stage[d].token \in drawn
          /\ \A k \in locks' : k.token = stage[d].token => k.path = stage[d].path
    BY <2>3 DEF RowInv
  <2> QED  BY <2>2, <2>5, <2>6, <2>7 DEF RowInv
<1>4. ASSUME NEW c \in Clients, NEW m \in [kind : Kinds, from : Paths, to : Paths, tokens : SUBSET {l.token : l \in Live}],
             Request(c, m)
      PROVE  RowInv'
  BY <1>4, Typed, Overlap DEF Request, GuardMutations, RowInv, Live, Idle
<1>5. ASSUME NEW c \in Clients, Succeed(c)
      PROVE  RowInv'
  BY <1>5, Typed, Overlap DEF Succeed, finished, deleteLocksRootedAt, RowInv, Live, Idle
<1>6. ASSUME NEW c \in Clients, Fail(c)
      PROVE  RowInv'
  BY <1>6, Typed, Overlap DEF Fail, finished, RowInv, Live, Idle
<1>7. ASSUME NEW c \in Clients, DeleteFails(c)
      PROVE  RowInv'
  BY <1>7, Typed, Overlap DEF DeleteFails, finished, RowInv, Live, Idle
<1>8. ASSUME NEW c \in Clients, Confirm(c)
      PROVE  RowInv'
  <2>1. locks' = locks /\ drawn' = drawn
    BY <1>8 DEF Confirm, answer
  <2>2. \A d \in Clients : stage'[d].at # "idle" =>
          stage[d].at # "idle" /\ stage'[d].token = stage[d].token /\ stage'[d].path = stage[d].path
    <3>1. \/ stage' = [stage EXCEPT ![c] = Idle]
          \/ stage' = [stage EXCEPT ![c].at = "missing"]
          \/ stage' = [stage EXCEPT ![c].at = "failed"]
      BY <1>8 DEF Confirm, answer
    <3>2. stage[c].at = "created" /\ \A d \in Clients : d # c => stage'[d] = stage[d]
      BY <1>8, <3>1 DEF Confirm, TypeOK
    <3>3. stage'[c].at = "idle" \/ (stage'[c].token = stage[c].token /\ stage'[c].path = stage[c].path)
      BY <3>1 DEF TypeOK, Idle
    <3> QED  BY <3>2, <3>3
  <2> QED  BY <2>1, <2>2 DEF RowInv
<1>9. ASSUME NEW c \in Clients, CreateEmpty(c)
      PROVE  RowInv'
  BY <1>9, Typed, Overlap DEF CreateEmpty, GuardMutations, RowInv, Live, Idle
<1>10. ASSUME NEW c \in Clients, EmptyCreated(c)
      PROVE  RowInv'
  BY <1>10, Typed, Overlap DEF EmptyCreated, finished, answer, RowInv, Live, Idle
<1>11. ASSUME NEW c \in Clients, EmptyFailed(c)
      PROVE  RowInv'
  <2>1. locks' = locks /\ drawn' = drawn
    BY <1>11 DEF EmptyFailed, finished
  <2>2. \A d \in Clients : stage'[d].at # "idle" =>
          stage[d].at # "idle" /\ stage'[d].token = stage[d].token /\ stage'[d].path = stage[d].path
    BY <1>11, NoneAssumption DEF EmptyFailed, TypeOK, WorkInv
  <2> QED  BY <2>1, <2>2 DEF RowInv
<1>12. ASSUME NEW c \in Clients, EmptyRefused(c)
      PROVE  RowInv'
  BY <1>12, Typed, Overlap DEF EmptyRefused, RowInv, Live, Idle
<1>13. ASSUME NEW c \in Clients, Discard(c)
      PROVE  RowInv'
  BY <1>13, Typed, Overlap DEF Discard, RowInv, Live, Idle
<1>14. ASSUME CleanupExpired
      PROVE  RowInv'
  BY <1>14, Typed, Overlap DEF CleanupExpired, RowInv, Live, Idle
<1>15. ASSUME Tick
      PROVE  RowInv'
  BY <1>15, Typed, Overlap DEF Tick, RowInv, Live, Idle
<1>16. ASSUME Crash
      PROVE  RowInv'
  BY <1>16, Typed, Overlap DEF Crash, finished, RowInv, Live, Idle
<1>17. ASSUME UNCHANGED vars
      PROVE  RowInv'
  BY <1>17, Typed, Overlap DEF vars, RowInv, Live, Idle
<1> QED  BY <1>1, <1>2, <1>3, <1>4, <1>5, <1>6, <1>7, <1>8, <1>9, <1>10, <1>11, <1>12, <1>13,
   <1>14, <1>15, <1>16, <1>17 DEF Next

\* Every step keeps the tree closed.
LEMMA TreeStep ==
  ASSUME IInv, [Next]_vars  PROVE TreeInv'
<1> USE DEF IInv
<1>1. ASSUME NEW c \in Clients, NEW p \in Paths, NEW depth \in {"0", "infinity"}, NEW t \in 1..MaxTimeout, Create(c, p, depth, t)
      PROVE  TreeInv'
  BY <1>1 DEF Create, TreeInv
<1>2. ASSUME NEW c \in Clients, NEW l \in locks, NEW p \in Paths, Unlock(c, l, p)
      PROVE  TreeInv'
  BY <1>2 DEF Unlock, TreeInv
<1>3. ASSUME NEW c \in Clients, NEW l \in locks, NEW p \in Paths, NEW t \in 1..MaxTimeout, Refresh(c, l, p, t)
      PROVE  TreeInv'
  BY <1>3 DEF Refresh, TreeInv
<1>4. ASSUME NEW c \in Clients, NEW m \in [kind : Kinds, from : Paths, to : Paths, tokens : SUBSET {l.token : l \in Live}],
             Request(c, m)
      PROVE  TreeInv'
  BY <1>4 DEF Request, GuardMutations, TreeInv
<1>5. ASSUME NEW c \in Clients, Succeed(c)
      PROVE  TreeInv'
  <2>1. mu # None /\ possible(work) /\ files' = after(work)
    BY <1>5, NoneAssumption DEF Succeed
  <2> QED  BY <2>1, AfterClosed DEF TreeInv, Closed
<1>6. ASSUME NEW c \in Clients, Fail(c)
      PROVE  TreeInv'
  BY <1>6 DEF Fail, finished, TreeInv
<1>7. ASSUME NEW c \in Clients, DeleteFails(c)
      PROVE  TreeInv'
  <2>1. PICK gone \in SUBSET below(work.from) :
          (\A p \in gone : below(p) \subseteq gone) /\ files' = files \ gone
    BY <1>7 DEF DeleteFails
  <2>2. ASSUME NEW p \in files', NEW q \in Paths, IsPrefix(q, p)  PROVE q \in files'
    <3>1. p \in files /\ p \notin gone /\ q \in files
      BY <2>1, <2>2 DEF TreeInv, Closed
    <3>2. p \in below(q)
      BY <2>2, <3>1 DEF below, isSameOrDescendant
    <3> QED  BY <2>1, <3>1, <3>2
  <2> QED  BY <2>2 DEF TreeInv, Closed
<1>8. ASSUME NEW c \in Clients, Confirm(c)
      PROVE  TreeInv'
  BY <1>8 DEF Confirm, answer, TreeInv
<1>9. ASSUME NEW c \in Clients, CreateEmpty(c)
      PROVE  TreeInv'
  BY <1>9 DEF CreateEmpty, GuardMutations, TreeInv
<1>10. ASSUME NEW c \in Clients, EmptyCreated(c)
      PROVE  TreeInv'
  <2>1. mu # None /\ possible(work) /\ files' = after(work)
    BY <1>10, NoneAssumption DEF EmptyCreated
  <2> QED  BY <2>1, AfterClosed DEF TreeInv, Closed
<1>11. ASSUME NEW c \in Clients, EmptyFailed(c)
      PROVE  TreeInv'
  BY <1>11 DEF EmptyFailed, finished, TreeInv
<1>12. ASSUME NEW c \in Clients, EmptyRefused(c)
      PROVE  TreeInv'
  BY <1>12 DEF EmptyRefused, TreeInv
<1>13. ASSUME NEW c \in Clients, Discard(c)
      PROVE  TreeInv'
  BY <1>13 DEF Discard, TreeInv
<1>14. ASSUME CleanupExpired
      PROVE  TreeInv'
  BY <1>14 DEF CleanupExpired, TreeInv
<1>15. ASSUME Tick
      PROVE  TreeInv'
  BY <1>15 DEF Tick, TreeInv
<1>16. ASSUME Crash
      PROVE  TreeInv'
  <2>1. files' = files \/ (mu # None /\ possible(work) /\ files' = after(work))
    BY <1>16 DEF Crash
  <2> QED  BY <2>1, AfterClosed DEF TreeInv, Closed
<1>17. ASSUME UNCHANGED vars
      PROVE  TreeInv'
  BY <1>17 DEF vars, TreeInv
<1> QED  BY <1>1, <1>2, <1>3, <1>4, <1>5, <1>6, <1>7, <1>8, <1>9, <1>10, <1>11, <1>12, <1>13,
   <1>14, <1>15, <1>16, <1>17 DEF Next

\* Every step keeps what is known of the mutation in progress.
LEMMA WorkStep ==
  ASSUME IInv, [Next]_vars  PROVE WorkInv'
<1> USE DEF IInv
<1>1. ASSUME NEW c \in Clients, NEW p \in Paths, NEW depth \in {"0", "infinity"}, NEW t \in 1..MaxTimeout, Create(c, p, depth, t)
      PROVE  WorkInv'
  BY <1>1, Typed, NoneAssumption DEF Create, WorkInv, Live, TypeOK
<1>2. ASSUME NEW c \in Clients, NEW l \in locks, NEW p \in Paths, Unlock(c, l, p)
      PROVE  WorkInv'
  BY <1>2, Typed, NoneAssumption DEF Unlock, WorkInv, Live, TypeOK
<1>3. ASSUME NEW c \in Clients, NEW l \in locks, NEW p \in Paths, NEW t \in 1..MaxTimeout, Refresh(c, l, p, t)
      PROVE  WorkInv'
  BY <1>3, Typed, NoneAssumption DEF Refresh, WorkInv, Live, TypeOK
<1>4. ASSUME NEW c \in Clients, NEW m \in [kind : Kinds, from : Paths, to : Paths, tokens : SUBSET {l.token : l \in Live}],
             Request(c, m)
      PROVE  WorkInv'
  <2>1. /\ m.kind \in Kinds /\ locks' = Live /\ mu' = c /\ work' = m
        /\ IF m.kind = "move" THEN ~isSameOrDescendant(m.from, m.to) ELSE m.from = m.to
        /\ \A l \in Live, s \in scopesOf(m) : mutationIntersectsLock(s, l) => submitted(c, m, l)
    BY <1>4 DEF Request, GuardMutations
  <2>2. m.kind # "lock-null"
    BY <2>1, KindsAssumption
  <2> QED  BY <2>1, <2>2 DEF WorkInv
<1>5. ASSUME NEW c \in Clients, Succeed(c)
      PROVE  WorkInv'
  BY <1>5, Typed, NoneAssumption DEF Succeed, finished, deleteLocksRootedAt, WorkInv, Live, TypeOK
<1>6. ASSUME NEW c \in Clients, Fail(c)
      PROVE  WorkInv'
  BY <1>6, Typed, NoneAssumption DEF Fail, finished, WorkInv, Live, TypeOK
<1>7. ASSUME NEW c \in Clients, DeleteFails(c)
      PROVE  WorkInv'
  BY <1>7, Typed, NoneAssumption DEF DeleteFails, finished, WorkInv, Live, TypeOK
<1>8. ASSUME NEW c \in Clients, Confirm(c)
      PROVE  WorkInv'
  BY <1>8, Typed, NoneAssumption DEF Confirm, answer, WorkInv, Live, TypeOK
<1>9. ASSUME NEW c \in Clients, CreateEmpty(c)
      PROVE  WorkInv'
  BY <1>9, Typed, NoneAssumption DEF CreateEmpty, GuardMutations, WorkInv, Live, TypeOK
<1>10. ASSUME NEW c \in Clients, EmptyCreated(c)
      PROVE  WorkInv'
  BY <1>10, Typed, NoneAssumption DEF EmptyCreated, finished, answer, WorkInv, Live, TypeOK
<1>11. ASSUME NEW c \in Clients, EmptyFailed(c)
      PROVE  WorkInv'
  BY <1>11, Typed, NoneAssumption DEF EmptyFailed, finished, WorkInv, Live, TypeOK
<1>12. ASSUME NEW c \in Clients, EmptyRefused(c)
      PROVE  WorkInv'
  BY <1>12, Typed, NoneAssumption DEF EmptyRefused, WorkInv, Live, TypeOK
<1>13. ASSUME NEW c \in Clients, Discard(c)
      PROVE  WorkInv'
  BY <1>13, Typed, NoneAssumption DEF Discard, WorkInv, Live, TypeOK
<1>14. ASSUME CleanupExpired
      PROVE  WorkInv'
  BY <1>14, Typed, NoneAssumption DEF CleanupExpired, WorkInv, Live, TypeOK
<1>15. ASSUME Tick
      PROVE  WorkInv'
  BY <1>15, Typed, NoneAssumption DEF Tick, WorkInv, Live, TypeOK
<1>16. ASSUME Crash
      PROVE  WorkInv'
  BY <1>16, Typed, NoneAssumption DEF Crash, finished, WorkInv, Live, TypeOK
<1>17. ASSUME UNCHANGED vars
      PROVE  WorkInv'
  BY <1>17, Typed, NoneAssumption DEF vars, WorkInv, Live, TypeOK
<1> QED  BY <1>1, <1>2, <1>3, <1>4, <1>5, <1>6, <1>7, <1>8, <1>9, <1>10, <1>11, <1>12, <1>13,
   <1>14, <1>15, <1>16, <1>17 DEF Next

\* Every step keeps the resources of the locks that were handed out.
LEMMA ResourceStep ==
  ASSUME IInv, [Next]_vars  PROVE ResourceInv'
<1> USE DEF IInv
<1>1. ASSUME NEW c \in Clients, NEW p \in Paths, NEW depth \in {"0", "infinity"}, NEW t \in 1..MaxTimeout, Create(c, p, depth, t)
      PROVE  ResourceInv'
  <2>1. \A l \in locks' : l \in locks \/ l.token \notin drawn
    BY <1>1 DEF Create, Live
  <2>2. answered' = answered /\ files' = files /\ faults' = faults
    BY <1>1 DEF Create
  <2>3. \A l \in locks' : l.token \in answered => l \in locks
    BY <2>1 DEF TypeOK
  <2> QED  BY <2>2, <2>3 DEF ResourceInv
<1>2. ASSUME NEW c \in Clients, NEW l \in locks, NEW p \in Paths, Unlock(c, l, p)
      PROVE  ResourceInv'
  BY <1>2, Typed DEF Unlock, ResourceInv, RowInv, Live
<1>3. ASSUME NEW c \in Clients, NEW l \in locks, NEW p \in Paths, NEW t \in 1..MaxTimeout, Refresh(c, l, p, t)
      PROVE  ResourceInv'
  <2>1. \A k \in locks' : \E j \in locks : j.token = k.token /\ j.path = k.path
    BY <1>3 DEF Refresh, Live, TypeOK, Lock
  <2>2. answered' = answered /\ files' = files /\ faults' = faults
    BY <1>3 DEF Refresh
  <2> QED  BY <2>1, <2>2 DEF ResourceInv
<1>4. ASSUME NEW c \in Clients, NEW m \in [kind : Kinds, from : Paths, to : Paths, tokens : SUBSET {l.token : l \in Live}],
             Request(c, m)
      PROVE  ResourceInv'
  BY <1>4, Typed DEF Request, GuardMutations, ResourceInv, RowInv, Live
<1>5. ASSUME NEW c \in Clients, Succeed(c)
      PROVE  ResourceInv'
  <2>1. /\ answered' = answered /\ faults' = faults /\ files \ removes(work) \subseteq files'
        /\ locks' \subseteq locks /\ mu # None
    BY <1>5, NoneAssumption DEF Succeed, after, deleteLocksRootedAt
  <2>2. \A l \in locks' : l.path \notin removes(work)
    <3>1. CASE removes(work) = {}
      BY <3>1
    <3>2. CASE removes(work) # {}
      <4>1. \A l \in locks' : ~isSameOrDescendant(work.from, l.path)
        BY <1>5, <3>2 DEF Succeed, deleteLocksRootedAt
      <4> QED  BY <4>1 DEF removes, below
    <3> QED  BY <3>1, <3>2
  <2> QED  BY <2>1, <2>2 DEF ResourceInv
<1>6. ASSUME NEW c \in Clients, Fail(c)
      PROVE  ResourceInv'
  BY <1>6, Typed DEF Fail, finished, ResourceInv, RowInv, Live
<1>7. ASSUME NEW c \in Clients, DeleteFails(c)
      PROVE  ResourceInv'
  BY <1>7, Typed DEF DeleteFails, finished, ResourceInv, RowInv, Live
<1>8. ASSUME NEW c \in Clients, Confirm(c)
      PROVE  ResourceInv'
  <2>1. locks' = locks /\ files' = files /\ faults' = faults
    BY <1>8 DEF Confirm
  <2>2. \A l \in locks : l.token \in answered' => l.token \in answered \/ l.path \in files
    BY <1>8 DEF Confirm, answer, exists, RowInv
  <2> QED  BY <2>1, <2>2 DEF ResourceInv
<1>9. ASSUME NEW c \in Clients, CreateEmpty(c)
      PROVE  ResourceInv'
  BY <1>9, Typed DEF CreateEmpty, GuardMutations, ResourceInv, RowInv, Live
<1>10. ASSUME NEW c \in Clients, EmptyCreated(c)
      PROVE  ResourceInv'
  <2>1. /\ mu = c /\ mu # None /\ work \in Mutation /\ work.kind = "lock-null"
        /\ stage[c].at = "missing" /\ work.to = stage[c].path
    BY <1>10, NoneAssumption DEF EmptyCreated, TypeOK, WorkInv
  <2>2. /\ locks' = locks /\ files' = files \cup {work.to} /\ faults' = faults
        /\ answered' = answered \cup {stage[c].token}
    BY <1>10, <2>1, Effects DEF EmptyCreated, after, answer
  <2>3. \A l \in locks : l.token = stage[c].token => l.path = work.to
    BY <2>1 DEF RowInv
  <2> QED  BY <2>2, <2>3 DEF ResourceInv
<1>11. ASSUME NEW c \in Clients, EmptyFailed(c)
      PROVE  ResourceInv'
  BY <1>11, Typed DEF EmptyFailed, finished, ResourceInv, RowInv, Live
<1>12. ASSUME NEW c \in Clients, EmptyRefused(c)
      PROVE  ResourceInv'
  BY <1>12, Typed DEF EmptyRefused, ResourceInv, RowInv, Live
<1>13. ASSUME NEW c \in Clients, Discard(c)
      PROVE  ResourceInv'
  BY <1>13, Typed DEF Discard, ResourceInv, RowInv, Live
<1>14. ASSUME CleanupExpired
      PROVE  ResourceInv'
  BY <1>14, Typed DEF CleanupExpired, ResourceInv, RowInv, Live
<1>15. ASSUME Tick
      PROVE  ResourceInv'
  BY <1>15, Typed DEF Tick, ResourceInv, RowInv, Live
<1>16. ASSUME Crash
      PROVE  ResourceInv'
  BY <1>16, Typed DEF Crash, finished, ResourceInv, RowInv, Live
<1>17. ASSUME UNCHANGED vars
      PROVE  ResourceInv'
  BY <1>17, Typed DEF vars, ResourceInv, RowInv, Live
<1> QED  BY <1>1, <1>2, <1>3, <1>4, <1>5, <1>6, <1>7, <1>8, <1>9, <1>10, <1>11, <1>12, <1>13,
   <1>14, <1>15, <1>16, <1>17 DEF Next

\* No lock is handed out yet, and the tree is the root with what lies in it.
LEMMA InitInv == Init => IInv
<1> SUFFICES ASSUME Init  PROVE IInv
  OBVIOUS
<1>1. TypeOK
  BY PathsAssumption, BoundsAssumption DEF Init, TypeOK, Idle
<1>2. RowInv /\ WorkInv /\ ResourceInv
  BY DEF Init, RowInv, WorkInv, ResourceInv, Idle
<1>3. TreeInv
  BY PathSeq, PrefixIs DEF Init, TreeInv, Closed
<1> QED  BY <1>1, <1>2, <1>3 DEF IInv

\* The invariant of every behaviour of the locks.
THEOREM WebdavInvariant == Spec => []IInv
<1>1. IInv /\ [Next]_vars => IInv'
  BY TypeStep, RowStep, TreeStep, WorkStep, ResourceStep DEF IInv
<1> QED  BY InitInv, <1>1, PTL DEF Spec

\* PersistentStore hands out exclusive locks only: no two in force overlap.
THEOREM LocksAreExclusive == Spec => []LocksDisjoint
<1>1. IInv => LocksDisjoint
  BY DEF IInv, RowInv, LocksDisjoint, Live
<1> QED  BY <1>1, WebdavInvariant, PTL

\* What a client holds a lock on exists, until a crash or a failing deletion.
THEOREM LockedStaysThere == Spec => []LockedResourceExists
<1>1. IInv => LockedResourceExists
  BY DEF IInv, ResourceInv, LockedResourceExists, Live, exists
<1> QED  BY <1>1, WebdavInvariant, PTL

\* GuardMutations compares scopes, and that is enough for the tree as it is:
\* nothing under another user's lock is removed or overwritten.
THEOREM GuardsProtect == Spec => []MutationsRespectLocks
<1>1. IInv => MutationsRespectLocks
  <2> SUFFICES ASSUME IInv, mu # None, faults = 0, NEW l \in Live, NEW p \in removes(work) \cup writes(work),
                      l.token \in answered, possible(work), lockCovers(l.path, l.depth, p)
               PROVE  submitted(mu, work, l)
    BY DEF MutationsRespectLocks
  <2> DEFINE m == work
  <2>1. /\ m \in Mutation /\ m.from \in Paths /\ m.to \in Paths /\ m.kind \in Kinds \cup {"lock-null"}
        /\ possible(m) /\ l \in locks /\ l.path \in Paths /\ p \in removes(m) \cup writes(m)
        /\ lockCovers(l.path, l.depth, p)
    BY Typed DEF IInv, WorkInv
  <2>2. l.path \in files
    BY DEF IInv, ResourceInv, Live
  <2>3. \A s \in scopesOf(m) : mutationIntersectsLock(s, l) => submitted(mu, m, l)
    BY <2>1 DEF IInv, WorkInv
  <2>4. SUFFICES \E s \in scopesOf(m) : mutationIntersectsLock(s, l)
    BY <2>3
  <2> HIDE DEF m
  <2>5. CASE p \in removes(m)
    <3>1. m.kind \in {"delete", "move"} /\ subtree(m.from) \in scopesOf(m)
      BY <2>5 DEF removes, scopesOf
    <3>2. p \in Paths /\ IsPrefix(m.from, p)
      BY <2>1, <2>5, <3>1, Effects DEF below, isSameOrDescendant, IInv, TypeOK
    <3>3. IsPrefix(m.from, l.path) \/ (l.depth = "infinity" /\ IsPrefix(l.path, m.from))
      BY <2>1, <3>2, PrefixOrder DEF lockCovers, isSameOrDescendant
    <3> QED  BY <3>1, <3>3 DEF mutationIntersectsLock, lockCovers, isSameOrDescendant, subtree
  <2>6. CASE p \in writes(m) /\ m.kind = "move"
    <3>1. one(m.to) \in scopesOf(m)
      BY <2>6 DEF scopesOf
    <3>2. PICK x \in below(m.from) : p = moved(m, x) /\ p \in Paths
      BY <2>1, <2>6, Effects
    <3>3. x \in Paths /\ IsPrefix(m.from, x)
      BY DEF below, isSameOrDescendant, IInv, TypeOK
    <3>4. IsPrefix(m.to, p)
      BY <2>1, <3>2, <3>3, MovedPrefix
    <3>5. ~IsPrefix(m.to, l.path)
      BY <2>1, <2>2, <2>6, Checked DEF IInv, TreeInv, Closed
    <3>6. l.depth = "infinity" /\ IsPrefix(l.path, m.to)
      BY <2>1, <3>2, <3>4, <3>5, PrefixOrder DEF lockCovers, isSameOrDescendant
    <3> QED  BY <3>1, <3>6 DEF mutationIntersectsLock, lockCovers, isSameOrDescendant, one
  <2>7. CASE p \in writes(m) /\ m.kind # "move"
    <3>1. m.kind \in {"put", "mkdir", "lock-null", "restore"} /\ p = m.to
      BY <2>1, <2>7, Checked, Effects
    <3>2. one(m.to) \in scopesOf(m) \/ subtree(m.to) \in scopesOf(m)
      BY <3>1 DEF scopesOf
    <3> QED  BY <2>1, <3>1, <3>2 DEF mutationIntersectsLock, one, subtree
  <2> QED  BY <2>1, <2>5, <2>6, <2>7
<1> QED  BY <1>1, WebdavInvariant, PTL

\* When a mutation succeeds, the locks it takes along are those its owner
\* submitted, and their resources are gone: nothing moves back below the source.
LEMMA TakenAlong ==
  ASSUME IInv, NEW c \in Clients, Succeed(c), NEW l \in Live, l \notin locks'
  PROVE  /\ mu # None /\ submitted(mu, work, l)
         /\ isSameOrDescendant(work.from, l.path) /\ l.path \notin files'
<1> DEFINE m == work
<1>1. /\ m \in Mutation /\ m.from \in Paths /\ m.to \in Paths /\ m.kind \in Kinds \cup {"lock-null"}
      /\ possible(m) /\ l \in locks /\ l.path \in Paths /\ mu # None /\ files' = after(m)
      /\ m.kind = "move" => ~IsPrefix(m.from, m.to)
  BY Typed, NoneAssumption DEF IInv, WorkInv, Succeed, isSameOrDescendant
<1>2. removes(m) # {} /\ IsPrefix(m.from, l.path)
  BY <1>1 DEF Succeed, deleteLocksRootedAt, isSameOrDescendant
<1>3. \A s \in scopesOf(m) : mutationIntersectsLock(s, l) => submitted(mu, m, l)
  BY <1>1 DEF IInv, WorkInv
<1> HIDE DEF m
<1>4. m.kind \in {"delete", "move"} /\ subtree(m.from) \in scopesOf(m)
  BY <1>2 DEF removes, scopesOf
<1>5. submitted(mu, m, l)
  BY <1>2, <1>3, <1>4 DEF mutationIntersectsLock, subtree, isSameOrDescendant
<1>6. l.path \notin files \ removes(m)
  BY <1>1, <1>2, <1>4, Effects DEF below, isSameOrDescendant
<1>7. l.path \notin writes(m)
  <2>1. CASE m.kind = "delete"
    BY <1>1, <2>1, Effects
  <2>2. CASE m.kind = "move"
    <3> SUFFICES ASSUME l.path \in writes(m)  PROVE FALSE
      OBVIOUS
    <3>1. PICK x \in below(m.from) : l.path = moved(m, x)
      BY <1>1, <2>2, Effects
    <3>2. x \in Paths /\ IsPrefix(m.from, x)
      BY DEF below, isSameOrDescendant, IInv, TypeOK
    <3>3. IsPrefix(m.to, l.path)
      BY <1>1, <3>1, <3>2, MovedPrefix
    <3>4. IsPrefix(m.to, m.from)
      BY <1>1, <1>2, <2>2, <3>3, PrefixOrder
    <3> QED  BY <1>1, <2>2, <3>4, Checked DEF IInv, TreeInv, Closed
  <2> QED  BY <1>4, <2>1, <2>2
<1>8. l.path \notin files'
  BY <1>1, <1>6, <1>7 DEF after
<1> QED  BY <1>1, <1>2, <1>5, <1>8 DEF m, isSameOrDescendant

\* A lock in force ends when its owner unlocks it, when the LOCK that made it
\* fails, or with a resource its owner removes; an expired one is not in force.
THEOREM LocksEndByTheirOwner == Spec => LocksEndRightly
<1>1. IInv /\ [Next]_vars =>
        \A l \in Live :
          (\A k \in locks' : k.token # l.token) =>
            \/ \E c \in Clients : UserOf[c] = l.user /\ Unlock(c, l, l.path)
            \/ \E c \in Clients : Discard(c) /\ stage[c].token = l.token
            \/ /\ mu # None /\ submitted(mu, work, l)
               /\ isSameOrDescendant(work.from, l.path) /\ l.path \notin files'
  <2> SUFFICES ASSUME IInv, [Next]_vars, NEW l \in Live, \A k \in locks' : k.token # l.token
               PROVE  \/ \E c \in Clients : UserOf[c] = l.user /\ Unlock(c, l, l.path)
                      \/ \E c \in Clients : Discard(c) /\ stage[c].token = l.token
                      \/ /\ mu # None /\ submitted(mu, work, l)
                         /\ isSameOrDescendant(work.from, l.path) /\ l.path \notin files'
    OBVIOUS
  <2>1. l \notin locks' /\ l \in locks /\ l \in Live
    BY DEF Live
  <2>2. CASE \E c \in Clients, p \in Paths, depth \in {"0", "infinity"}, t \in 1..MaxTimeout : Create(c, p, depth, t)
    BY <2>1, <2>2 DEF Create
  <2>3. ASSUME NEW c \in Clients, NEW k \in locks, NEW p \in Paths, Unlock(c, k, p)
        PROVE  UserOf[c] = l.user /\ Unlock(c, l, l.path)
    <3>1. k = l
      BY <2>1, <2>3 DEF Unlock
    <3> QED  BY <2>3, <3>1 DEF Unlock, mayUse, lockCovers
  <2>4. ASSUME NEW c \in Clients, NEW k \in locks, NEW p \in Paths, NEW t \in 1..MaxTimeout, Refresh(c, k, p, t)
        PROVE  FALSE
    <3>1. [k EXCEPT !.expires = now + t] \in locks' /\ [k EXCEPT !.expires = now + t].token = k.token
      BY <2>4 DEF Refresh, IInv, TypeOK, Lock
    <3>2. k = l
      BY <2>1, <2>4 DEF Refresh
    <3> QED  BY <3>1, <3>2
  <2>5. ASSUME NEW c \in Clients, Succeed(c)
        PROVE  /\ mu # None /\ submitted(mu, work, l)
               /\ isSameOrDescendant(work.from, l.path) /\ l.path \notin files'
    BY <2>1, <2>5, TakenAlong
  <2>6. ASSUME NEW c \in Clients, Discard(c)  PROVE stage[c].token = l.token
    BY <2>1, <2>6 DEF Discard
  <2>7. ASSUME NEW c \in Clients, Fail(c) \/ DeleteFails(c) \/ Confirm(c) \/ EmptyCreated(c) \/ EmptyFailed(c)
                                   \/ CreateEmpty(c) \/ EmptyRefused(c)
        PROVE  FALSE
    BY <2>1, <2>7 DEF Fail, DeleteFails, Confirm, EmptyCreated, EmptyFailed, CreateEmpty,
       EmptyRefused, GuardMutations
  <2>8. CASE \E c \in Clients : \E m \in [kind : Kinds, from : Paths, to : Paths, tokens : SUBSET {k.token : k \in Live}] :
               Request(c, m)
    BY <2>1, <2>8 DEF Request, GuardMutations
  <2>9. CASE CleanupExpired \/ Tick \/ Crash \/ UNCHANGED vars
    BY <2>1, <2>9 DEF CleanupExpired, Tick, Crash, vars
  <2> QED  BY <2>2, <2>3, <2>4, <2>5, <2>6, <2>7, <2>8, <2>9 DEF Next
<1> QED  BY <1>1, WebdavInvariant, PTL DEF Spec, LocksEndRightly
=============================================================================
