------------------------ MODULE OperationLocksProofs ------------------------
(***************************************************************************)
(* Proofs about OperationLocks, for any number of requests, any sources,   *)
(* users and keys, and any handlers that keep the discipline its           *)
(* assumption names: work on a source or user follows its shared lease and *)
(* a look at its row, or is covered by a completion row, and a deletion    *)
(* takes the exclusive lease and keeps it.                                 *)
(*                                                                         *)
(* That nobody works on what has been deleted is not inductive: it rests   *)
(* on what the earlier steps of a handler have given it (Done), on writers *)
(* being alone with their lease (HeldInv) and on completion rows naming    *)
(* only what is there (JournalInv).                                        *)
(*                                                                         *)
(* Handlers that take their locks in one order (Ordered) never wait for    *)
(* one another in a circle.  A waiting request has come as far as the rank *)
(* of the lock it waits for; whom it waits for has come further, or as far *)
(* at an earlier place of the queue.  That rests on what the held locks    *)
(* rank below (OrderInv), on the lock manager knowing of a request what it *)
(* holds or takes next (CallInv), and on owners of leases and of the mutex *)
(* having them or being about to (OwnerInv).                               *)
(***************************************************************************)
EXTENDS OperationLocks, SequenceTheorems, NaturalsInduction, WellFoundedInduction, TLAPS

\* A program has taken the shared lease of r at its step i and, d steps done,
\* not given it back.
Reading(prog, d, r, i) == prog[i] = Read(r) /\ \A n \in (i + 1)..d : prog[n] # Drop(Read(r))

\* What is so after the first d steps of a program: the leases it took it has,
\* the rows it has seen under them are there, and its completion row names what
\* the rest of it is going to check.
Done(prog, d, p) ==
  /\ \A r \in Resources, i \in 1..d : Reading(prog, d, r, i) =>
       /\ Contains(held[p], Read(r))
       /\ \A j \in (i + 1)..d : prog[j] = Check(r) => r \notin deleted
  /\ \A i \in 1..d : prog[i] = Journal /\ (\A n \in (i + 1)..d : prog[n] \notin {Journal, Settle}) =>
       \A r \in Resources : \A j \in (i + 1)..Len(prog) : prog[j] = Check(r) => r \in journal[p]
  /\ \A r \in Resources, i \in 1..d : prog[i] = Write(r) => Contains(held[p], Write(r))

\* Every request is in one of its programs, or has only to settle.
InPlace(p) ==
  \E prog \in roster[p] \cup {<< >>} : \E d \in 0..Len(prog) :
    /\ todo[p] = SubSeq(prog, d + 1, Len(prog))
    /\ todo[p] \in {<< >>, <<Settle>>} \/ Done(prog, d, p)

ProgramInv == \A p \in Procs : InPlace(p)

\* A sequence has x at one place at most.
Once(s, x) == \A i, j \in 1..Len(s) : s[i] = x /\ s[j] = x => i = j

\* Who has the exclusive lease keeps everybody else out, and has it once.
HeldInv ==
  \A p \in Procs, r \in Resources : Contains(held[p], Write(r)) =>
    /\ lease[r].writer = p /\ Readers(r) = {}
    /\ ~Contains(todo[p], Write(r)) /\ ~Contains(todo[p], Drop(Write(r)))
    /\ Once(held[p], Write(r))

\* A source or user that a completion row names is not deleted.
JournalInv == \A p \in Procs : journal[p] \cap deleted = {}

\* The steps of the programs of p.
Own(p) == UNION {ToSet(prog) : prog \in roster[p]}

Leases == [Resources -> [writer : Procs \cup {None}, blocked : SUBSET Procs, admitted : SUBSET Procs]]

Types ==
  /\ roster \in Rosters
  /\ todo \in [Procs -> Seq(Steps)]
  /\ held \in [Procs -> Seq(Takes)] /\ \A p \in Procs : held[p] \in Seq(Own(p))
  /\ lease \in Leases
  /\ mu \in Procs \cup {None}
  /\ deleted \subseteq Resources
  /\ journal \in [Procs -> SUBSET Resources]

IInv == Types /\ ProgramInv /\ HeldInv /\ JournalInv

\* A step s of p takes from it only what it gives back, fails where a row is
\* missing, and leaves its completion row to the steps that are about it.
Keeps(s, p) ==
  /\ \A r \in Resources :
       /\ Contains(held[p], Read(r)) /\ s # Drop(Read(r)) => Contains(held'[p], Read(r))
       /\ Contains(held[p], Write(r)) /\ s # Drop(Write(r)) => Contains(held'[p], Write(r))
       /\ s \in {Read(r), Write(r)} => Contains(held'[p], s)
       /\ s = Check(r) => r \notin deleted'
  /\ s \notin {Journal, Settle} => journal'[p] = journal[p]

\* No row goes that somebody has the lease of.
RowsStay ==
  \A q \in Procs, r \in Resources : Contains(held[q], Read(r)) /\ r \notin deleted => r \notin deleted'

-----------------------------------------------------------------------------
(* Sequences and steps.                                                    *)

\* A non-empty set of numbers has a least one.
LEMMA LeastNumber ==
  ASSUME NEW S \in SUBSET Nat, S # {}  PROVE Min(S) \in S /\ \A n \in S : Min(S) <= n
<1> DEFINE R == {ss \in Nat \X Nat : ss[1] < ss[2]}
<1>1. IsWellFoundedOn(R, Nat)
  BY NatLessThanWellFounded DEF OpToRel
<1>2. PICK x \in S : \A y \in S : <<y, x>> \notin R
  <2> HIDE DEF R
  <2> QED  BY <1>1, WFMin
<1>3. \A y \in S : x =< y
  <2> SUFFICES ASSUME NEW y \in S  PROVE ~(y < x)
    OBVIOUS
  <2>1. <<y, x>> \notin R
    BY <1>2
  <2> QED  BY <2>1
<1> QED  BY <1>3 DEF Min

\* RemoveFirst takes one occurrence away and leaves everything else.
LEMMA OneRemoved ==
  ASSUME NEW S, NEW s \in Seq(S), NEW e
  PROVE  /\ RemoveFirst(s, e) \in Seq(S)
         /\ \A x : x # e => (Contains(RemoveFirst(s, e), x) <=> Contains(s, x))
         /\ \A x : Contains(RemoveFirst(s, e), x) => Contains(s, x)
         /\ \A x : Once(s, x) => Once(RemoveFirst(s, e), x) /\ (x = e => ~Contains(RemoveFirst(s, e), x))
<1>1. CASE ~Contains(s, e)
  BY <1>1 DEF RemoveFirst, Contains
<1>2. CASE Contains(s, e)
  <2> DEFINE I == {i \in 1..Len(s) : s[i] = e}
             m == Min(I)
             t == RemoveFirst(s, e)
             a == SubSeq(s, 1, m - 1)
             b == SubSeq(s, m + 1, Len(s))
  <2>1. m \in I
    <3>1. I # {} /\ I \subseteq Nat
      BY <1>2 DEF Contains
    <3> QED  BY <3>1, LeastNumber
  <2>2. m \in 1..Len(s) /\ s[m] = e /\ Len(s) \in Nat /\ \A i \in 1..Len(s) : s[i] \in S
    BY <2>1, LenProperties, ElementOfSeq
  <2>3. t = RemoveAt(s, m)
    BY <1>2 DEF RemoveFirst, SelectInSeq, Contains
  <2> HIDE DEF I, m, t
  <2>4. a \in Seq(S) /\ Len(a) = m - 1 /\ \A i \in 1..(m - 1) : a[i] = s[i]
    <3>1. 1 \in Int /\ m - 1 \in Int /\ \A i \in 1..(m - 1) : s[i] \in S
      BY <2>2
    <3>2. /\ a \in Seq(S) /\ Len(a) = IF 1 <= m - 1 THEN m - 1 - 1 + 1 ELSE 0
          /\ \A i \in 1..(m - 1 - 1 + 1) : a[i] = s[1 + i - 1]
      BY <3>1, SubSeqProperties
    <3> QED  BY <2>2, <3>2
  <2>5. b \in Seq(S) /\ Len(b) = Len(s) - m /\ \A i \in 1..(Len(s) - m) : b[i] = s[m + i]
    <3> DEFINE k == m + 1
               n == Len(s)
    <3>1. k \in Int /\ n \in Int /\ k = m + 1 /\ n = Len(s) /\ \A i \in k..n : s[i] \in S
      BY <2>2
    <3> HIDE DEF k, n
    <3>2. /\ SubSeq(s, k, n) \in Seq(S) /\ Len(SubSeq(s, k, n)) = IF k <= n THEN n - k + 1 ELSE 0
          /\ \A i \in 1..(n - k + 1) : SubSeq(s, k, n)[i] = s[k + i - 1]
      BY <3>1, SubSeqProperties
    <3>3. n - k + 1 = n - m /\ \A i \in 1..(n - m) : k + i - 1 = m + i
      BY <2>2, <3>1
    <3>4. Len(SubSeq(s, k, n)) = n - m
      BY <2>2, <3>1, <3>2
    <3> QED  BY <3>1, <3>2, <3>3, <3>4
  <2>6. t = a \o b
    BY <2>3 DEF RemoveAt
  <2> HIDE DEF a, b
  <2>7. /\ t \in Seq(S) /\ Len(t) = Len(s) - 1
        /\ \A i \in 1..(Len(s) - 1) : t[i] = IF i < m THEN s[i] ELSE s[i + 1]
    <3>1. /\ a \o b \in Seq(S) /\ Len(a \o b) = Len(a) + Len(b)
          /\ \A i \in 1..(Len(a) + Len(b)) : (a \o b)[i] = IF i <= Len(a) THEN a[i] ELSE b[i - Len(a)]
      BY <2>4, <2>5, ConcatProperties
    <3> QED  BY <2>2, <2>4, <2>5, <2>6, <3>1
  <2>8. ASSUME NEW x, Contains(t, x)  PROVE Contains(s, x)
    BY <2>2, <2>7, <2>8 DEF Contains
  <2>9. ASSUME NEW x, x # e, Contains(s, x)  PROVE Contains(t, x)
    <3>1. PICK i \in 1..Len(s) : s[i] = x
      BY <2>9 DEF Contains
    <3>2. CASE i < m
      <4>1. i \in 1..Len(t) /\ t[i] = x
        BY <2>2, <2>7, <3>1, <3>2
      <4> QED  BY <4>1 DEF Contains
    <3>3. CASE i > m
      <4>1. i - 1 \in 1..Len(t) /\ t[i - 1] = x
        BY <2>2, <2>7, <3>1, <3>3
      <4> QED  BY <4>1 DEF Contains
    <3> QED  BY <2>2, <2>9, <3>1, <3>2, <3>3
  <2>10. ASSUME NEW x, Once(s, x),
                NEW i \in 1..Len(t), NEW j \in 1..Len(t), t[i] = x, t[j] = x
         PROVE  i = j /\ x # e
    <3> DEFINE ii == IF i < m THEN i ELSE i + 1
               jj == IF j < m THEN j ELSE j + 1
    <3>0. /\ Len(s) \in Nat /\ m \in 1..Len(s) /\ Len(t) = Len(s) - 1
          /\ t[i] = s[ii] /\ t[j] = s[jj]
      BY <2>2, <2>7
    <3>1. ii \in 1..Len(s) /\ s[ii] = x /\ ii # m
      BY <2>10, <3>0
    <3>2. jj \in 1..Len(s) /\ s[jj] = x
      BY <2>10, <3>0
    <3>3. ii = jj
      BY <2>10, <3>1, <3>2 DEF Once
    <3>4. i = j
      BY <2>2, <2>7, <3>3
    <3> QED  BY <2>2, <2>10, <3>1, <3>4 DEF Once
  <2>11. ASSUME NEW x, Once(s, x)  PROVE Once(t, x) /\ (x = e => ~Contains(t, x))
    BY <2>10, <2>11 DEF Once, Contains
  <2> QED  BY <2>7, <2>8, <2>9, <2>11 DEF t
<1> QED  BY <1>1, <1>2

\* Append adds its element and keeps the others.
LEMMA OneAdded ==
  ASSUME NEW S, NEW s \in Seq(S), NEW e \in S
  PROVE  /\ Append(s, e) \in Seq(S)
         /\ \A x : Contains(Append(s, e), x) <=> Contains(s, x) \/ x = e
         /\ \A x : ~Contains(s, x) => Once(Append(s, e), x)
         /\ \A x : x # e /\ Once(s, x) => Once(Append(s, e), x)
<1> DEFINE t == Append(s, e)
<1>1. /\ t \in Seq(S) /\ Len(t) = Len(s) + 1 /\ t[Len(s) + 1] = e
      /\ \A i \in 1..Len(s) : t[i] = s[i]
  BY AppendProperties
<1>2. Len(s) \in Nat
  BY LenProperties
<1> HIDE DEF t
<1>3. ASSUME NEW x  PROVE Contains(t, x) <=> Contains(s, x) \/ x = e
  BY <1>1, <1>2 DEF Contains
<1>4. ASSUME NEW x, ~Contains(s, x), NEW i \in 1..Len(t), NEW j \in 1..Len(t), t[i] = x, t[j] = x
      PROVE  i = j
  BY <1>1, <1>2, <1>4 DEF Contains
<1>5. ASSUME NEW x, x # e, Once(s, x),
             NEW i \in 1..Len(t), NEW j \in 1..Len(t), t[i] = x, t[j] = x
      PROVE  i = j
  BY <1>1, <1>2, <1>5 DEF Once
<1>6. ASSUME NEW x, ~Contains(s, x)  PROVE Once(t, x)
  BY <1>4, <1>6 DEF Once
<1>7. ASSUME NEW x, x # e, Once(s, x)  PROVE Once(t, x)
  BY <1>5, <1>7 DEF Once
<1> QED  BY <1>1, <1>3, <1>6, <1>7 DEF t

\* Front takes the last element away.
LEMMA LastRemoved ==
  ASSUME NEW S, NEW s \in Seq(S), s # << >>
  PROVE  /\ Front(s) \in Seq(S) /\ Contains(s, Last(s)) /\ Last(s) \in S
         /\ \A x : Contains(Front(s), x) => Contains(s, x)
         /\ \A x : Once(s, x) => Once(Front(s), x) /\ (x = Last(s) => ~Contains(Front(s), x))
<1> DEFINE t == Front(s)
           n == Len(s)
<1>1. n \in Nat /\ n # 0 /\ \A i \in 1..n : s[i] \in S
  BY LenProperties, ElementOfSeq, EmptySeq
<1>2. t \in Seq(S) /\ Len(t) = n - 1 /\ \A i \in 1..(n - 1) : t[i] = s[i]
  <2>1. 1 \in Int /\ n - 1 \in Int /\ \A i \in 1..(n - 1) : s[i] \in S
    BY <1>1
  <2> HIDE DEF n
  <2>2. /\ SubSeq(s, 1, n - 1) \in Seq(S) /\ Len(SubSeq(s, 1, n - 1)) = IF 1 <= n - 1 THEN n - 1 - 1 + 1 ELSE 0
        /\ \A i \in 1..(n - 1 - 1 + 1) : SubSeq(s, 1, n - 1)[i] = s[1 + i - 1]
    BY <2>1, SubSeqProperties
  <2>3. t = SubSeq(s, 1, n - 1)
    BY DEF n, Front
  <2> QED  BY <1>1, <2>2, <2>3
<1>3. Last(s) = s[n] /\ n \in 1..n
  BY <1>1 DEF Last
<1> HIDE DEF t
<1>4. ASSUME NEW x, Contains(t, x)  PROVE Contains(s, x)
  BY <1>1, <1>2, <1>4 DEF Contains
<1>5. ASSUME NEW x, Once(s, x),
             NEW i \in 1..Len(t), NEW j \in 1..Len(t), t[i] = x, t[j] = x
      PROVE  i = j /\ x # Last(s)
  BY <1>1, <1>2, <1>3, <1>5 DEF Once
<1>6. Contains(s, Last(s)) /\ Last(s) \in S
  BY <1>1, <1>3 DEF Contains
<1>7. ASSUME NEW x, Once(s, x)  PROVE Once(t, x) /\ (x = Last(s) => ~Contains(t, x))
  BY <1>5, <1>7 DEF Once, Contains
<1> QED  BY <1>2, <1>4, <1>6, <1>7 DEF t

\* What is left of a program after its first d steps.
LEMMA Position ==
  ASSUME NEW prog \in Seq(Steps), NEW d \in 0..Len(prog), NEW t, t = SubSeq(prog, d + 1, Len(prog))
  PROVE  /\ t \in Seq(Steps) /\ Len(t) = Len(prog) - d /\ \A i \in 1..Len(t) : t[i] = prog[d + i]
         /\ t = << >> <=> d = Len(prog)
         /\ t # << >> => /\ d + 1 \in 1..Len(prog) /\ Head(t) = prog[d + 1]
                         /\ Tail(t) = SubSeq(prog, d + 2, Len(prog))
         /\ IsSuffix(t, prog)
<1> DEFINE n == Len(prog)
           k == d + 1
<1>1. n \in Nat /\ k \in Nat /\ n \in Int /\ k \in Int /\ d \in Nat /\ d <= n /\ k = d + 1 /\ \A i \in 1..n : prog[i] \in Steps
  BY LenProperties, ElementOfSeq
<1> HIDE DEF n, k
<1>2. t \in Seq(Steps) /\ Len(t) = n - d /\ \A i \in 1..(n - d) : t[i] = prog[d + i]
  <2>1. \A i \in k..n : prog[i] \in Steps
    BY <1>1
  <2>2. t = SubSeq(prog, k, n)
    BY DEF n, k
  <2>3. /\ SubSeq(prog, k, n) \in Seq(Steps) /\ Len(SubSeq(prog, k, n)) = IF k <= n THEN n - k + 1 ELSE 0
        /\ \A i \in 1..(n - k + 1) : SubSeq(prog, k, n)[i] = prog[k + i - 1]
    BY <1>1, <2>1, SubSeqProperties
  <2>4. n - k + 1 = n - d /\ \A i \in 1..(n - d) : k + i - 1 = d + i
    BY <1>1
  <2>5. Len(t) = n - d
    BY <1>1, <2>2, <2>3
  <2> QED  BY <2>2, <2>3, <2>4, <2>5
<1>3. t = << >> <=> d = n
  <2>1. t = << >> <=> Len(t) = 0
    BY <1>2, EmptySeq
  <2> QED  BY <1>1, <1>2, <2>1
<1>4. ASSUME t # << >>
      PROVE  d + 1 \in 1..n /\ Head(t) = prog[d + 1] /\ Tail(t) = SubSeq(prog, d + 2, n)
  <2>1. d < n /\ 1 \in 1..(n - d) /\ Head(t) = t[1]
    BY <1>1, <1>2, <1>3, <1>4
  <2> DEFINE m == d + 2
             u == SubSeq(prog, m, n)
             v == Tail(t)
  <2>2. m \in Int /\ m = d + 2 /\ \A i \in m..n : prog[i] \in Steps
    BY <1>1
  <2> HIDE DEF m
  <2>3. /\ u \in Seq(Steps) /\ Len(u) = IF m <= n THEN n - m + 1 ELSE 0
        /\ \A i \in 1..(n - m + 1) : u[i] = prog[m + i - 1]
    BY <1>1, <2>2, SubSeqProperties
  <2>4. v \in Seq(Steps) /\ Len(v) = Len(t) - 1 /\ \A i \in 1..Len(v) : v[i] = t[i + 1]
    BY <1>2, <1>4, HeadTailProperties
  <2> HIDE DEF u, v
  <2>5. Len(u) = Len(v) /\ Len(v) = n - d - 1
    BY <1>1, <1>2, <2>2, <2>3, <2>4
  <2>6. ASSUME NEW i \in 1..(n - d - 1)  PROVE u[i] = v[i]
    <3>1. u[i] = prog[d + 1 + i]
      <4>1. i \in 1..(n - m + 1) /\ m + i - 1 = d + 1 + i
        BY <1>1, <2>2, <2>6
      <4> QED  BY <2>3, <4>1
    <3>2. v[i] = prog[d + 1 + i]
      <4>1. i \in 1..Len(v) /\ i + 1 \in 1..(n - d) /\ d + (i + 1) = d + 1 + i
        BY <1>1, <2>5, <2>6
      <4> QED  BY <1>2, <2>4, <4>1
    <3> QED  BY <3>1, <3>2
  <2>7. u = v
    BY <2>3, <2>4, <2>5, <2>6, SeqEqual
  <2>8. Tail(t) = SubSeq(prog, d + 2, n)
    BY <2>2, <2>7 DEF u, v
  <2> QED  BY <1>1, <1>2, <2>1, <2>8
<1>5. IsSuffix(t, prog)
  <2> DEFINE a == Reverse(t)
             b == Reverse(prog)
             c == n - d
  <2>1. c \in Nat /\ c <= n /\ Len(t) = c /\ Len(prog) = n
    BY <1>1, <1>2 DEF n
  <2> HIDE DEF c
  <2>2. a \in Seq(Steps) /\ Len(a) = c /\ \A i \in 1..c : a[i] = t[c - i + 1]
    <3>1. a = [i \in 1..c |-> t[(c - i) + 1]]
      BY <2>1 DEF Reverse
    <3>2. \A i \in 1..c : (c - i) + 1 \in 1..c
      BY <2>1
    <3>3. \A i \in 1..c : t[i] \in Steps
      BY <1>2, <2>1, ElementOfSeq
    <3> HIDE DEF a
    <3>4. \A i \in 1..c : t[(c - i) + 1] \in Steps
      BY <3>2, <3>3
    <3>5. a \in [1..c -> Steps]
      BY <3>1, <3>4
    <3>6. a \in Seq(Steps)
      BY <2>1, <3>5, SeqDef
    <3>7. DOMAIN a = 1..c /\ Len(a) \in Nat /\ DOMAIN a = 1..Len(a)
      BY <3>5, <3>6, LenProperties
    <3>8. Len(a) = c
      BY <2>1, <3>7
    <3> QED  BY <3>1, <3>6, <3>8
  <2>3. b \in Seq(Steps) /\ Len(b) = n /\ \A i \in 1..n : b[i] = prog[n - i + 1]
    BY <1>1, <2>1 DEF Reverse
  <2> HIDE DEF a, b
  <2>4. \A i \in 1..c : a[i] = b[i]
    <3>1. ASSUME NEW i \in 1..c  PROVE a[i] = b[i]
      <4>1. c - i + 1 \in 1..(n - d) /\ i \in 1..n /\ d + (c - i + 1) = n - i + 1
        BY <1>1, <2>1 DEF c
      <4>2. t[c - i + 1] = prog[d + (c - i + 1)]
        BY <1>2, <4>1
      <4> QED  BY <2>2, <2>3, <4>1, <4>2
    <3> QED  BY <3>1
  <2>5. /\ SubSeq(a, 1, c) \in Seq(Steps) /\ Len(SubSeq(a, 1, c)) = c
        /\ \A i \in 1..c : SubSeq(a, 1, c)[i] = a[i]
    <3>1. 1 \in Int /\ c \in Int /\ \A i \in 1..c : a[i] \in Steps
      BY <2>1, <2>2, ElementOfSeq
    <3>2. /\ SubSeq(a, 1, c) \in Seq(Steps) /\ Len(SubSeq(a, 1, c)) = IF 1 <= c THEN c - 1 + 1 ELSE 0
          /\ \A i \in 1..(c - 1 + 1) : SubSeq(a, 1, c)[i] = a[1 + i - 1]
      BY <3>1, SubSeqProperties
    <3> QED  BY <2>1, <3>2
  <2>6. /\ SubSeq(b, 1, c) \in Seq(Steps) /\ Len(SubSeq(b, 1, c)) = c
        /\ \A i \in 1..c : SubSeq(b, 1, c)[i] = b[i]
    <3>1. 1 \in Int /\ c \in Int /\ \A i \in 1..c : b[i] \in Steps
      BY <2>1, <2>3, ElementOfSeq
    <3>2. /\ SubSeq(b, 1, c) \in Seq(Steps) /\ Len(SubSeq(b, 1, c)) = IF 1 <= c THEN c - 1 + 1 ELSE 0
          /\ \A i \in 1..(c - 1 + 1) : SubSeq(b, 1, c)[i] = b[1 + i - 1]
      BY <3>1, SubSeqProperties
    <3> QED  BY <2>1, <3>2
  <2> DEFINE x == SubSeq(a, 1, c)
             y == SubSeq(b, 1, c)
  <2>7. x \in Seq(Steps) /\ y \in Seq(Steps) /\ Len(x) = Len(y) /\ \A i \in 1..Len(x) : x[i] = y[i]
    BY <2>4, <2>5, <2>6
  <2> HIDE DEF x, y
  <2>8. x = y
    BY <2>7, SeqEqual
  <2> QED  BY <2>1, <2>2, <2>3, <2>8 DEF IsSuffix, IsPrefix, a, b, x, y
<1> QED  BY <1>2, <1>3, <1>4, <1>5 DEF n

\* The steps are told apart by their fields.
LEMMA StepFields ==
  /\ \A r, q : (Read(r) = Read(q) => r = q) /\ (Write(r) = Write(q) => r = q) /\ Read(r) # Write(q)
  /\ \A r : /\ Read(r).lock = "lease" /\ Read(r).write = FALSE /\ Read(r).res = r
            /\ Write(r).lock = "lease" /\ Write(r).write = TRUE /\ Write(r).res = r
            /\ Check(r).op = "check" /\ Check(r).res = r /\ Settle.op = "settle" /\ Journal.op = "journal"
BY DEF step, Read, Write, Check, Journal, Settle

\* Those that take a lock, and those that give one back.
LEMMA TakeFields ==
  /\ \A s \in Takes : s.op = "take" /\ Drop(s).op = "drop"
  /\ \A r \in Resources : Read(r) \in Takes /\ Write(r) \in Takes
  /\ Mutex \in Takes
<1>1. ASSUME NEW s \in Takes  PROVE s.op = "take" /\ Drop(s).op = "drop"
  BY DEF Takes, step, Read, Write, Mutex, RLock, Lock, Drop
<1>2. \A r \in Resources : Read(r) \in Takes /\ Write(r) \in Takes
  BY DEF Takes
<1>3. Mutex \in Takes
  BY DEF Takes
<1> QED  BY <1>1, <1>2, <1>3

\* A step about a lease is the shared or the exclusive one of its resource.
LEMMA LeaseFields ==
  \A s \in Takes : s.lock = "lease" => \E r \in Resources : s = Read(r) \/ s = Write(r)
BY DEF Takes, step, Mutex, RLock, Lock

\* A step gives back one kind of lock.
LEMMA DropFields == \A s, t \in Takes : Drop(s) = Drop(t) => s = t
<1>1. ASSUME NEW s \in Takes
      PROVE  /\ s = [op |-> "take", lock |-> s.lock, res |-> s.res, keys |-> s.keys, write |-> s.write]
             /\ Drop(s).lock = s.lock /\ Drop(s).res = s.res /\ Drop(s).keys = s.keys
             /\ Drop(s).write = s.write
  BY DEF Takes, step, Read, Write, Mutex, RLock, Lock, Drop
<1> QED  BY <1>1

\* What else a step can be.
LEMMA StepKinds ==
  /\ \A s \in Steps : /\ s.op = "take" => s \in Takes
                      /\ s.op = "check" => s.res \in Resources /\ s = Check(s.res)
                      /\ s.op = "erase" => s.res \in Resources
                      /\ s.op = "settle" => s = Settle
                      /\ s.op = "journal" => s = Journal
                      /\ s.op = "work" => s.res \in Resources \cup {"none"}
  /\ Settle \in Steps /\ Takes \subseteq Steps
BY TakeFields DEF Steps, step, Check, Work, Erase, Journal, Settle

-----------------------------------------------------------------------------
(* Programs.                                                               *)

\* The step that comes next, and those after it.
LEMMA Rest ==
  ASSUME Types, NEW p \in Procs, Running(p)
  PROVE  /\ Current(p) \in Steps /\ Tail(todo[p]) \in Seq(Steps)
         /\ Contains(todo[p], Current(p))
         /\ \A x : Contains(Tail(todo[p]), x) => Contains(todo[p], x)
<1> DEFINE t == todo[p]
<1>1. t \in Seq(Steps) /\ t # << >> /\ Head(t) = Current(p)
  BY DEF Types, Running, Current
<1> HIDE DEF t
<1>2. Len(t) \in Nat \ {0} /\ Head(t) = t[1]
  BY <1>1, EmptySeq
<1>3. /\ Head(t) \in Steps /\ Tail(t) \in Seq(Steps) /\ Len(Tail(t)) = Len(t) - 1
      /\ \A i \in 1..Len(Tail(t)) : Tail(t)[i] = t[i + 1]
  BY <1>1, HeadTailProperties
<1>4. Contains(t, Current(p))
  BY <1>1, <1>2 DEF Contains
<1>5. \A x : Contains(Tail(t), x) => Contains(t, x)
  BY <1>2, <1>3 DEF Contains
<1> QED  BY <1>1, <1>3, <1>4, <1>5 DEF t

\* The program a running request is in.
LEMMA InProgram ==
  ASSUME Types, ProgramInv, NEW p \in Procs, Running(p)
  PROVE  \E prog \in roster[p] : \E d \in Nat :
           /\ prog \in Seq(Steps) /\ Disciplined(prog) /\ d \in 0..Len(prog) /\ d + 1 \in 1..Len(prog)
           /\ todo[p] = SubSeq(prog, d + 1, Len(prog))
           /\ Tail(todo[p]) = SubSeq(prog, d + 2, Len(prog))
           /\ Current(p) = prog[d + 1] /\ Current(p) \in Own(p) /\ Last(todo[p]) = prog[Len(prog)]
           /\ todo[p] = <<Settle>> \/ Done(prog, d, p)
<1>0. PICK prog \in roster[p] \cup {<< >>} : \E d \in 0..Len(prog) :
        /\ todo[p] = SubSeq(prog, d + 1, Len(prog))
        /\ todo[p] \in {<< >>, <<Settle>>} \/ Done(prog, d, p)
  BY DEF ProgramInv, InPlace
<1>1. PICK d \in 0..Len(prog) :
        /\ todo[p] = SubSeq(prog, d + 1, Len(prog))
        /\ todo[p] \in {<< >>, <<Settle>>} \/ Done(prog, d, p)
  BY <1>0
<1>2. prog \in Seq(Steps) /\ (prog \in roster[p] => Disciplined(prog))
  BY ProgramsAssumption, EmptySeq DEF Types
<1>3. Len(prog) \in Nat /\ d \in Nat
  BY <1>2, LenProperties
<1>4. todo[p] # << >>
  BY DEF Running
<1>5. /\ d + 1 \in 1..Len(prog) /\ Head(todo[p]) = prog[d + 1] /\ Tail(todo[p]) = SubSeq(prog, d + 2, Len(prog))
      /\ Last(todo[p]) = prog[Len(prog)]
  <2> DEFINE t == todo[p]
  <2>1. t = SubSeq(prog, d + 1, Len(prog)) /\ t # << >>
    BY <1>1, <1>4
  <2> HIDE DEF t
  <2>2. prog \in Seq(Steps) /\ d \in 0..Len(prog)
    BY <1>2
  <2>3. d + 1 \in 1..Len(prog) /\ Head(t) = prog[d + 1]
    BY <2>1, <2>2, Position
  <2>4. Tail(t) = SubSeq(prog, d + 2, Len(prog))
    BY <2>1, <2>2, Position
  <2>5. Last(t) = prog[Len(prog)]
    <3>1. Len(t) = Len(prog) - d /\ \A i \in 1..Len(t) : t[i] = prog[d + i]
      BY <2>1, <2>2, Position
    <3>2. Len(t) \in 1..Len(t) /\ d + Len(t) = Len(prog)
      BY <1>3, <2>3, <3>1
    <3> QED  BY <3>1, <3>2 DEF Last
  <2> QED  BY <2>3, <2>4, <2>5 DEF t
<1>6. prog \in roster[p]
  <2>1. prog # << >>
    BY <1>3, <1>5, EmptySeq
  <2> QED  BY <1>1, <2>1
<1>7. Current(p) = prog[d + 1] /\ Current(p) \in Own(p)
  <2>1. DOMAIN prog = 1..Len(prog)
    BY <1>2, LenProperties
  <2> QED  BY <1>5, <1>6, <2>1 DEF Current, Own, ToSet
<1> QED  BY <1>1, <1>2, <1>3, <1>4, <1>5, <1>6, <1>7

\* One step further, what a program has done is still so.
LEMMA StepDone ==
  ASSUME NEW p \in Procs, NEW prog \in Seq(Steps), Disciplined(prog), NEW d \in Nat, d + 1 \in 1..Len(prog),
         Done(prog, d, p),
         Keeps(prog[d + 1], p), RowsStay,
         prog[d + 1] = Journal => \A r \in Resources : \A j \in (d + 2)..Len(prog) :
                                    prog[j] = Check(r) => r \in journal'[p]
  PROVE  Done(prog, d + 1, p)'
<1> DEFINE e == d + 1
           s == prog[e]
           n == Len(prog)
<1>1. n \in Nat /\ e \in Nat /\ e <= n /\ e = d + 1
  BY LenProperties
<1>2. ASSUME NEW r \in Resources, NEW i \in 1..e, Reading(prog, e, r, i)
      PROVE  /\ Contains(held'[p], Read(r))
             /\ \A j \in (i + 1)..e : prog[j] = Check(r) => r \notin deleted'
  <2>1. CASE i = e
    <3>1. s = Read(r)
      BY <1>2, <2>1 DEF Reading
    <3>2. Contains(held'[p], Read(r))
      BY <3>1 DEF Keeps
    <3>3. \A j \in (i + 1)..e : FALSE
      BY <1>1, <2>1
    <3> QED  BY <3>2, <3>3
  <2>2. CASE i # e
    <3>1. i \in 1..d /\ \A j \in (i + 1)..e : j \in (i + 1)..d \/ j = e
      BY <1>1, <2>2
    <3>2. Reading(prog, d, r, i) /\ s # Drop(Read(r))
      BY <1>1, <1>2, <2>2 DEF Reading
    <3>3. Contains(held[p], Read(r)) /\ \A j \in (i + 1)..d : prog[j] = Check(r) => r \notin deleted
      BY <3>1, <3>2 DEF Done
    <3>4. Contains(held'[p], Read(r)) /\ (r \notin deleted => r \notin deleted') /\ (s = Check(r) => r \notin deleted')
      BY <3>2, <3>3 DEF Keeps, RowsStay
    <3>5. ASSUME NEW j \in (i + 1)..e, prog[j] = Check(r)  PROVE r \notin deleted'
      BY <3>1, <3>3, <3>4, <3>5
    <3> QED  BY <3>4, <3>5
  <2> QED  BY <2>1, <2>2
<1>3. ASSUME NEW i \in 1..e, prog[i] = Journal, \A m \in (i + 1)..e : prog[m] \notin {Journal, Settle},
             NEW r \in Resources, NEW j \in (i + 1)..n, prog[j] = Check(r)
      PROVE  r \in journal'[p]
  <2>1. CASE i = e
    BY <1>1, <1>3, <2>1
  <2>2. CASE i # e
    <3>1. i \in 1..d /\ e \in (i + 1)..e /\ \A m \in (i + 1)..d : m \in (i + 1)..e
      BY <1>1, <2>2
    <3>2. s \notin {Journal, Settle} /\ \A m \in (i + 1)..d : prog[m] \notin {Journal, Settle}
      BY <1>3, <3>1
    <3> QED  BY <1>3, <3>1, <3>2 DEF Done, Keeps
  <2> QED  BY <2>1, <2>2
<1>4. ASSUME NEW r \in Resources, NEW i \in 1..e, prog[i] = Write(r)  PROVE Contains(held'[p], Write(r))
  <2>1. CASE i = e
    BY <1>4, <2>1 DEF Keeps
  <2>2. CASE i # e
    <3>1. i \in 1..d /\ i \in 1..n /\ e \in 1..n
      BY <1>1, <2>2
    <3>2. s # Drop(Write(r))
      BY <1>4, <3>1 DEF Disciplined
    <3> QED  BY <1>4, <3>1, <3>2 DEF Done, Keeps
  <2> QED  BY <2>1, <2>2
<1> QED  BY <1>2, <1>3, <1>4 DEF Done, Reading, e, n

\* A request that nobody disturbs stays where it is in its program.
LEMMA OthersStay ==
  ASSUME IInv, roster' = roster, RowsStay, NEW q \in Procs,
         todo'[q] = todo[q], held'[q] = held[q], journal'[q] = journal[q]
  PROVE  InPlace(q)'
<1>1. ASSUME NEW prog, NEW d, Done(prog, d, q)  PROVE Done(prog, d, q)'
  BY <1>1 DEF Done, Reading, RowsStay
<1>2. InPlace(q)
  BY DEF IInv, ProgramInv
<1> QED  BY <1>1, <1>2 DEF InPlace

\* A request that goes one step further, or that only waits, stays in its
\* program; what it changes does not disturb the others in theirs.
LEMMA Further ==
  ASSUME IInv, roster' = roster, NEW p \in Procs,
         \/ todo' = todo /\ held'[p] = held[p] /\ journal'[p] = journal[p]
         \/ /\ Running(p) /\ todo' = [todo EXCEPT ![p] = Tail(@)] /\ Keeps(Current(p), p)
            /\ Current(p) = Journal => \A r \in Resources : Contains(Tail(todo[p]), Check(r)) => r \in journal'[p],
         \A q \in Procs \ {p} : held'[q] = held[q] /\ journal'[q] = journal[q],
         RowsStay
  PROVE  ProgramInv'
<1>0. Types /\ ProgramInv
  BY DEF IInv
<1>1. \A q \in Procs : todo'[q] = todo[q] /\ held'[q] = held[q] /\ journal'[q] = journal[q] => InPlace(q)'
  BY OthersStay
<1>2. ASSUME Running(p), todo' = [todo EXCEPT ![p] = Tail(@)], Keeps(Current(p), p),
             Current(p) = Journal => \A r \in Resources : Contains(Tail(todo[p]), Check(r)) => r \in journal'[p]
      PROVE  InPlace(p)'
  <2>1. PICK prog \in roster[p] : \E d \in Nat :
           /\ prog \in Seq(Steps) /\ Disciplined(prog) /\ d \in 0..Len(prog) /\ d + 1 \in 1..Len(prog)
           /\ todo[p] = SubSeq(prog, d + 1, Len(prog))
           /\ Tail(todo[p]) = SubSeq(prog, d + 2, Len(prog))
           /\ Current(p) = prog[d + 1] /\ Current(p) \in Own(p) /\ Last(todo[p]) = prog[Len(prog)]
           /\ todo[p] = <<Settle>> \/ Done(prog, d, p)
    BY <1>0, <1>2, InProgram
  <2>2. PICK d \in Nat :
           /\ prog \in Seq(Steps) /\ Disciplined(prog) /\ d \in 0..Len(prog) /\ d + 1 \in 1..Len(prog)
           /\ todo[p] = SubSeq(prog, d + 1, Len(prog))
           /\ Tail(todo[p]) = SubSeq(prog, d + 2, Len(prog))
           /\ Current(p) = prog[d + 1] /\ Current(p) \in Own(p) /\ Last(todo[p]) = prog[Len(prog)]
           /\ todo[p] = <<Settle>> \/ Done(prog, d, p)
    BY <2>1
  <2> DEFINE e == d + 1
  <2>3. todo'[p] = Tail(todo[p]) /\ e \in 0..Len(prog) /\ e + 1 = d + 2
    <3>1. Len(prog) \in Nat /\ d \in Nat /\ d + 1 \in 1..Len(prog)
      BY <2>2, LenProperties
    <3>2. todo'[p] = Tail(todo[p])
      BY <1>0, <1>2 DEF Types
    <3> QED  BY <3>1, <3>2
  <2>4. todo'[p] = SubSeq(prog, e + 1, Len(prog))
    BY <2>2, <2>3
  <2>5. CASE todo[p] = <<Settle>>
    <3>1. Tail(todo[p]) = << >>
      BY <2>5
    <3>2. prog \in roster'[p] \cup {<< >>} /\ todo'[p] \in {<< >>, <<Settle>>}
      BY <2>3, <3>1
    <3> HIDE DEF e
    <3> QED  BY <2>3, <2>4, <3>2 DEF InPlace
  <2>6. CASE Done(prog, d, p)
    <3>1. prog[d + 1] = Journal => \A r \in Resources : \A j \in (d + 2)..Len(prog) :
                                    prog[j] = Check(r) => r \in journal'[p]
      <4>1. ASSUME prog[d + 1] = Journal, NEW r \in Resources, NEW j \in (d + 2)..Len(prog), prog[j] = Check(r)
            PROVE  r \in journal'[p]
        <5> DEFINE t == Tail(todo[p])
        <5>1. t = SubSeq(prog, e + 1, Len(prog))
          BY <2>2, <2>3
        <5> HIDE DEF t, e
        <5>2. Len(t) = Len(prog) - e /\ \A i \in 1..Len(t) : t[i] = prog[e + i]
          <6>1. prog \in Seq(Steps) /\ e \in 0..Len(prog)
            BY <2>2, <2>3
          <6> QED  BY <5>1, <6>1, Position
        <5>3. Len(prog) \in Nat /\ e \in Nat /\ e + 1 = d + 2
          BY <2>2, <2>3, LenProperties
        <5>4. j - e \in 1..Len(t) /\ t[j - e] = Check(r)
          <6>1. j - e \in 1..Len(t) /\ e + (j - e) = j
            BY <4>1, <5>2, <5>3
          <6> QED  BY <4>1, <5>2, <6>1
        <5>5. Contains(t, Check(r))
          BY <5>4 DEF Contains
        <5> QED  BY <1>2, <2>2, <4>1, <5>5 DEF t
      <4> QED  BY <4>1
    <3>2. Keeps(prog[d + 1], p)
      BY <1>2, <2>2
    <3>3. prog \in Seq(Steps) /\ Disciplined(prog) /\ d + 1 \in 1..Len(prog)
      BY <2>2
    <3> HIDE DEF e
    <3>4. Done(prog, d + 1, p)'
      BY <2>6, <3>1, <3>2, <3>3, StepDone
    <3>5. prog \in roster'[p] \cup {<< >>} /\ Done(prog, e, p)'
      BY <3>4 DEF e
    <3> QED  BY <2>3, <2>4, <3>5 DEF InPlace
  <2> QED  BY <2>2, <2>5, <2>6
<1>3. \A q \in Procs \ {p} : todo'[q] = todo[q] /\ held'[q] = held[q] /\ journal'[q] = journal[q]
  BY <1>0 DEF Types
<1>4. InPlace(p)'
  BY <1>1, <1>2
<1>5. \A q \in Procs : InPlace(q)'
  BY <1>1, <1>3, <1>4
<1> QED  BY <1>5 DEF ProgramInv

\* What keeps the holders of exclusive leases alone.
LEMMA HeldKept ==
  ASSUME HeldInv,
         \A q \in Procs, r \in Resources : Contains(held'[q], Write(r)) =>
           /\ Contains(held[q], Write(r))
           /\ lease[r].writer = q => lease'[r].writer = q
           /\ lease[r].writer = q /\ Readers(r) = {} => Readers(r)' = {}
           /\ \A x \in {Write(r), Drop(Write(r))} : Contains(todo'[q], x) => Contains(todo[q], x)
           /\ Once(held[q], Write(r)) => Once(held'[q], Write(r))
  PROVE  HeldInv'
BY DEF HeldInv

\* Nothing is erased under the feet of a request that has its lease.
LEMMA ErasedAlone ==
  ASSUME IInv, NEW p \in Procs, EraseStep(p), NEW q \in Procs, NEW r \in Resources, Contains(held[q], Read(r)), r \notin deleted
  PROVE  r \notin deleted'
<1>0. Types /\ ProgramInv /\ HeldInv /\ Running(p) /\ Current(p).op = "erase"
  BY DEF IInv, EraseStep
<1> SUFFICES ASSUME r = Current(p).res  PROVE FALSE
  BY DEF EraseStep
<1>1. PICK prog \in roster[p] : \E d \in Nat :
         /\ prog \in Seq(Steps) /\ Disciplined(prog) /\ d \in 0..Len(prog) /\ d + 1 \in 1..Len(prog)
         /\ Current(p) = prog[d + 1] /\ (todo[p] = <<Settle>> \/ Done(prog, d, p))
  BY <1>0, InProgram
<1>2. PICK d \in Nat :
         /\ prog \in Seq(Steps) /\ Disciplined(prog) /\ d \in 0..Len(prog) /\ d + 1 \in 1..Len(prog)
         /\ Current(p) = prog[d + 1] /\ (todo[p] = <<Settle>> \/ Done(prog, d, p))
  BY <1>1
<1>3. todo[p] # <<Settle>>
  BY <1>0, StepFields DEF Current
<1>4. \E i \in 1..d : prog[i] = Write(r)
  BY <1>0, <1>2 DEF Disciplined
<1>5. Contains(held[p], Write(r))
  BY <1>2, <1>3, <1>4 DEF Done
<1>6. Readers(r) = {}
  BY <1>0, <1>5 DEF HeldInv
<1> QED  BY <1>6 DEF Readers

\* Taking a lock.
LEMMA TakeEffect ==
  ASSUME IInv, NEW p \in Procs, Running(p), Take(p), Current(p).op = "take"
  PROVE  /\ todo' = [todo EXCEPT ![p] = Tail(@)] /\ todo' \in [Procs -> Seq(Steps)]
         /\ held'[p] = Append(held[p], Current(p)) /\ Current(p) \in Takes
         /\ \A q \in Procs \ {p} : held'[q] = held[q]
         /\ held' \in [Procs -> Seq(Takes)] /\ \A q \in Procs : held'[q] \in Seq(Own(q))
         /\ \A q \in Procs : \A x : Contains(todo'[q], x) => Contains(todo[q], x)
<1>0. Types /\ ProgramInv
  BY DEF IInv
<1>1. /\ todo' = [todo EXCEPT ![p] = Tail(@)] /\ held' = [held EXCEPT ![p] = Append(@, Current(p))]
      /\ held'[p] = Append(held[p], Current(p)) /\ \A q \in Procs \ {p} : held'[q] = held[q]
  BY <1>0 DEF Take, Advance, Types
<1>2. /\ Current(p) \in Takes /\ Current(p) \in Own(p) /\ Tail(todo[p]) \in Seq(Steps)
      /\ \A x : Contains(Tail(todo[p]), x) => Contains(todo[p], x)
  BY <1>0, Rest, InProgram, StepKinds
<1>3. Append(held[p], Current(p)) \in Seq(Takes) /\ Append(held[p], Current(p)) \in Seq(Own(p))
  BY <1>0, <1>2, OneAdded DEF Types
<1>4. todo' \in [Procs -> Seq(Steps)] /\ \A q \in Procs : \A x : Contains(todo'[q], x) => Contains(todo[q], x)
  BY <1>0, <1>1, <1>2 DEF Types
<1>5. held' \in [Procs -> Seq(Takes)] /\ \A q \in Procs : held'[q] \in Seq(Own(q))
  BY <1>0, <1>1, <1>3 DEF Types
<1> QED  BY <1>1, <1>2, <1>4, <1>5

\* A request that goes on without a lock.
LEMMA AdvanceEffect ==
  ASSUME IInv, NEW p \in Procs, Running(p), Advance(p)
  PROVE  /\ todo' = [todo EXCEPT ![p] = Tail(@)] /\ todo' \in [Procs -> Seq(Steps)]
         /\ \A q \in Procs : \A x : Contains(todo'[q], x) => Contains(todo[q], x)
<1>0. Types
  BY DEF IInv
<1>1. Tail(todo[p]) \in Seq(Steps) /\ \A x : Contains(Tail(todo[p]), x) => Contains(todo[p], x)
  BY <1>0, Rest
<1> QED  BY <1>0, <1>1 DEF Advance, Types

\* Giving a lock back in the middle of a handler: never the exclusive lease.
LEMMA DropEffect ==
  ASSUME IInv, NEW p \in Procs, DropStep(p)
  PROVE  \E s \in Takes :
           /\ Current(p) = Drop(s) /\ Contains(held[p], s) /\ held' = [held EXCEPT ![p] = RemoveFirst(@, s)]
           /\ held'[p] = RemoveFirst(held[p], s) /\ \A q \in Procs \ {p} : held'[q] = held[q]
           /\ held' \in [Procs -> Seq(Takes)] /\ (\A q \in Procs : held'[q] \in Seq(Own(q)))
           /\ lease' = lease /\ (\A r : s # Write(r)) /\ mu' \in {mu, None}
<1>0. Types /\ HeldInv /\ Running(p)
  BY DEF IInv, DropStep
<1>1. PICK s \in ToSet(held[p]) : Current(p) = Drop(s) /\ free(p, s) /\ dropped(p, s)
  BY DEF DropStep
<1>2. held[p] \in Seq(Takes) /\ held[p] \in Seq(Own(p)) /\ DOMAIN held[p] = 1..Len(held[p])
  BY <1>0, LenProperties DEF Types
<1>3. s \in Takes /\ Contains(held[p], s)
  BY <1>2, ElementOfSeq DEF ToSet, Contains
<1>4. ASSUME NEW r, s = Write(r)  PROVE FALSE
  <2>1. s.lock = "lease"
    BY <1>4, StepFields
  <2>2. PICK x \in Resources : s = Read(x) \/ s = Write(x)
    BY <1>3, <2>1, LeaseFields
  <2>3. s = Write(x)
    BY <1>4, <2>2, StepFields
  <2>4. ~Contains(todo[p], Drop(Write(x)))
    BY <1>0, <1>3, <2>3 DEF HeldInv
  <2> QED  BY <1>0, <1>1, <2>3, <2>4, Rest
<1>5. ~(s.lock = "lease" /\ s.write)
  <2> SUFFICES ASSUME s.lock = "lease"  PROVE ~s.write
    OBVIOUS
  <2>1. PICK x \in Resources : s = Read(x) \/ s = Write(x)
    BY <1>3, LeaseFields
  <2> QED  BY <1>4, <2>1, StepFields
<1>6. lease' = lease /\ mu' \in {mu, None}
  BY <1>1, <1>5 DEF free
<1>7. /\ held' = [held EXCEPT ![p] = RemoveFirst(@, s)] /\ held'[p] = RemoveFirst(held[p], s)
      /\ \A q \in Procs \ {p} : held'[q] = held[q]
  BY <1>0, <1>1 DEF dropped, Types
<1>8. RemoveFirst(held[p], s) \in Seq(Takes) /\ RemoveFirst(held[p], s) \in Seq(Own(p))
  BY <1>2, OneRemoved
<1>9. held' \in [Procs -> Seq(Takes)] /\ \A q \in Procs : held'[q] \in Seq(Own(q))
  BY <1>0, <1>7, <1>8 DEF Types
<1> QED  BY <1>1, <1>3, <1>4, <1>6, <1>7, <1>9

\* Giving the last lock back at the end of a handler.
LEMMA ReturnEffect ==
  ASSUME IInv, NEW p \in Procs, Return(p)
  PROVE  \E s \in Takes :
           /\ s = Last(held[p]) /\ Contains(held[p], s)
           /\ held'[p] = Front(held[p]) /\ (\A q \in Procs \ {p} : held'[q] = held[q])
           /\ held' \in [Procs -> Seq(Takes)] /\ (\A q \in Procs : held'[q] \in Seq(Own(q)))
           /\ \/ lease' = lease /\ \A r : s # Write(r)
              \/ \E r \in Resources :
                   /\ s = Write(r)
                   /\ lease' = [lease EXCEPT ![r] = [writer |-> None, blocked |-> {},
                                                     admitted |-> @.admitted \cup @.blocked]]
           /\ mu' \in {mu, None} /\ todo' = todo /\ deleted' = deleted /\ journal' = journal
<1> DEFINE s == Last(held[p])
<1>0. Types /\ HeldInv
  BY DEF IInv
<1>1. held[p] \in Seq(Takes) /\ held[p] \in Seq(Own(p)) /\ held[p] # << >>
  BY <1>0 DEF Types, Return
<1>2. s \in Takes /\ Contains(held[p], s) /\ Front(held[p]) \in Seq(Takes) /\ Front(held[p]) \in Seq(Own(p))
  BY <1>1, LastRemoved
<1>3. /\ free(p, s) /\ held' = [held EXCEPT ![p] = Front(@)]
      /\ todo' = todo /\ deleted' = deleted /\ journal' = journal
  BY DEF Return
<1>4. held'[p] = Front(held[p]) /\ \A q \in Procs \ {p} : held'[q] = held[q]
  BY <1>0, <1>3 DEF Types
<1>5. held' \in [Procs -> Seq(Takes)] /\ \A q \in Procs : held'[q] \in Seq(Own(q))
  BY <1>0, <1>2, <1>3, <1>4 DEF Types
<1> HIDE DEF s
<1>6. CASE s.lock # "lease"
  <2>1. lease' = lease /\ mu' \in {mu, None}
    BY <1>3, <1>6 DEF free
  <2>2. \A r : s # Write(r)
    BY <1>6, StepFields
  <2> QED  BY <1>2, <1>3, <1>4, <1>5, <2>1, <2>2 DEF s
<1>7. CASE s.lock = "lease"
  <2>1. PICK r \in Resources : s = Read(r) \/ s = Write(r)
    BY <1>2, <1>7, LeaseFields
  <2>2. CASE s = Read(r)
    <3>1. lease' = lease /\ mu' \in {mu, None} /\ \A x : s # Write(x)
      BY <1>3, <1>7, <2>2, StepFields DEF free
    <3> QED  BY <1>2, <1>3, <1>4, <1>5, <3>1 DEF s
  <2>3. CASE s = Write(r)
    <3>1. /\ lease' = [lease EXCEPT ![r] = [writer |-> None, blocked |-> {}, admitted |-> @.admitted \cup @.blocked]]
          /\ mu' \in {mu, None}
      BY <1>3, <1>7, <2>3, StepFields DEF free
    <3> QED  BY <1>2, <1>3, <1>4, <1>5, <2>3, <3>1 DEF s
  <2> QED  BY <2>1, <2>2, <2>3
<1> QED  BY <1>6, <1>7

\* The resource of a lease is one of the sources and users.
LEMMA LeaseOf ==
  ASSUME Types, NEW p \in Procs, Running(p), Current(p) \in {Read(Current(p).res), Write(Current(p).res)}
  PROVE  Current(p).res \in Resources /\ Current(p) \in Takes /\ Current(p).op = "take"
<1>1. Current(p) \in Steps
  BY Rest
<1>2. Current(p).op = "take"
  BY DEF Read, Write, step
<1>3. Current(p) \in Takes /\ Current(p).lock = "lease"
  BY <1>1, <1>2, StepKinds, StepFields
<1>4. PICK r \in Resources : Current(p) = Read(r) \/ Current(p) = Write(r)
  BY <1>3, LeaseFields
<1> QED  BY <1>2, <1>3, <1>4, StepFields

\* The lease of a resource stays one, whatever a request does to it.
LEMMA LeaseMarked ==
  ASSUME Types, NEW r \in Resources, NEW p \in Procs
  PROVE  /\ lease \in Leases
         /\ [lease EXCEPT ![r].blocked = @ \cup {p}] \in Leases
         /\ [lease EXCEPT ![r].admitted = @ \ {p}] \in Leases
         /\ [lease EXCEPT ![r].writer = p] \in Leases
         /\ [lease EXCEPT ![r] = [writer |-> None, blocked |-> {}, admitted |-> @.admitted \cup @.blocked]] \in Leases
<1> DEFINE L == [writer : Procs \cup {None}, blocked : SUBSET Procs, admitted : SUBSET Procs]
<1>1. lease \in [Resources -> L] /\ lease[r] \in L
  BY DEF Types, Leases
<1>2. [lease[r] EXCEPT !.blocked = @ \cup {p}] \in L
  BY <1>1
<1>3. [lease[r] EXCEPT !.admitted = @ \ {p}] \in L
  BY <1>1
<1>4. [lease[r] EXCEPT !.writer = p] \in L
  BY <1>1
<1>5. [writer |-> None, blocked |-> {}, admitted |-> lease[r].admitted \cup lease[r].blocked] \in L
  BY <1>1
<1>6. [lease EXCEPT ![r].blocked = @ \cup {p}] \in [Resources -> L]
  <2> HIDE DEF L
  <2> QED  BY <1>1, <1>2
<1>7. [lease EXCEPT ![r].admitted = @ \ {p}] \in [Resources -> L]
  <2> HIDE DEF L
  <2> QED  BY <1>1, <1>3
<1>8. [lease EXCEPT ![r].writer = p] \in [Resources -> L]
  <2> HIDE DEF L
  <2> QED  BY <1>1, <1>4
<1>9. [lease EXCEPT ![r] = [writer |-> None, blocked |-> {}, admitted |-> @.admitted \cup @.blocked]] \in [Resources -> L]
  <2> HIDE DEF L
  <2> QED  BY <1>1, <1>5
<1> QED  BY <1>1, <1>6, <1>7, <1>8, <1>9 DEF Leases

\* Every step keeps the types.
LEMMA TypesStep ==
  ASSUME IInv, [Next]_vars  PROVE Types'
<1>0. Types
  BY DEF IInv
<1>1. ASSUME NEW p \in Procs, RLockLease(p), roster' = roster
      PROVE  Types'
  <2>1. Running(p) /\ Current(p) = Read(Current(p).res)
    BY <1>1 DEF RLockLease
  <2>2. Current(p).res \in Resources /\ Current(p).op = "take"
    BY <1>0, <2>1, LeaseOf
  <2>3. \/ Take(p)
        \/ todo' = todo /\ held' = held
    BY <1>1 DEF RLockLease
  <2>4. /\ todo' \in [Procs -> Seq(Steps)] /\ held' \in [Procs -> Seq(Takes)]
        /\ \A q \in Procs : held'[q] \in Seq(Own(q))
    BY <1>0, <2>1, <2>2, <2>3, TakeEffect DEF Types
  <2>5. lease' \in Leases
    <3> DEFINE r == Current(p).res
    <3>1. \/ lease' = lease
          \/ lease' = [lease EXCEPT ![r].blocked = @ \cup {p}]
          \/ lease' = [lease EXCEPT ![r].admitted = @ \ {p}]
      BY <1>1 DEF RLockLease
    <3>2. Types /\ r \in Resources
      BY <1>0, <2>2
    <3> HIDE DEF r, Types
    <3> QED  BY <3>1, <3>2, LeaseMarked
  <2> QED  BY <1>0, <1>1, <2>4, <2>5 DEF RLockLease, Types, Own
<1>2. ASSUME NEW p \in Procs, LockLease(p), roster' = roster
      PROVE  Types'
  <2>1. Running(p) /\ Current(p) = Write(Current(p).res)
    BY <1>2 DEF LockLease
  <2>2. Current(p).res \in Resources /\ Current(p).op = "take"
    BY <1>0, <2>1, LeaseOf
  <2>3. \/ Take(p)
        \/ todo' = todo /\ held' = held
    BY <1>2 DEF LockLease
  <2>4. /\ todo' \in [Procs -> Seq(Steps)] /\ held' \in [Procs -> Seq(Takes)]
        /\ \A q \in Procs : held'[q] \in Seq(Own(q))
    BY <1>0, <2>1, <2>2, <2>3, TakeEffect DEF Types
  <2>5. lease' \in Leases
    <3> DEFINE r == Current(p).res
    <3>1. \/ lease' = lease
          \/ lease' = [lease EXCEPT ![r].writer = p]
      BY <1>2 DEF LockLease
    <3>2. Types /\ r \in Resources
      BY <1>0, <2>2
    <3> HIDE DEF r, Types
    <3> QED  BY <3>1, <3>2, LeaseMarked
  <2> QED  BY <1>0, <1>2, <2>4, <2>5 DEF LockLease, Types, Own
<1>3. ASSUME NEW p \in Procs, LockMutex(p), roster' = roster
      PROVE  Types'
  <2>1. Running(p) /\ Take(p) /\ Current(p).op = "take"
    BY <1>3 DEF LockMutex, Mutex, step
  <2>2. /\ todo' \in [Procs -> Seq(Steps)] /\ held' \in [Procs -> Seq(Takes)]
        /\ \A q \in Procs : held'[q] \in Seq(Own(q))
    BY <2>1, TakeEffect
  <2> QED  BY <1>0, <1>3, <2>2 DEF LockMutex, Types, Own
<1>4. ASSUME NEW p \in Procs, LockScope(p), roster' = roster
      PROVE  Types'
  <2>1. Running(p) /\ Current(p).op = "take" /\ (Take(p) \/ (todo' = todo /\ held' = held))
    BY <1>4 DEF LockScope
  <2>2. /\ todo' \in [Procs -> Seq(Steps)] /\ held' \in [Procs -> Seq(Takes)]
        /\ \A q \in Procs : held'[q] \in Seq(Own(q))
    BY <1>0, <2>1, TakeEffect DEF Types
  <2> QED  BY <1>0, <1>4, <2>2 DEF LockScope, Types, Own
<1>5. ASSUME NEW p \in Procs, DropStep(p), roster' = roster
      PROVE  Types'
  <2>1. Running(p) /\ Advance(p) /\ deleted' = deleted /\ journal' = journal
    BY <1>5 DEF DropStep
  <2>2. /\ held' \in [Procs -> Seq(Takes)] /\ (\A q \in Procs : held'[q] \in Seq(Own(q)))
        /\ lease' = lease /\ mu' \in {mu, None}
    BY <1>5, DropEffect
  <2>3. todo' \in [Procs -> Seq(Steps)]
    BY <2>1, AdvanceEffect
  <2> QED  BY <1>0, <1>5, <2>1, <2>2, <2>3 DEF Types, Own
<1>6. ASSUME NEW p \in Procs, CheckStep(p), roster' = roster
      PROVE  Types'
  <2>1. Tail(todo[p]) \in Seq(Steps)
    BY <1>0, <1>6, Rest DEF CheckStep
  <2>2. <<Settle>> \in Seq(Steps) /\ << >> \in Seq(Steps)
    BY StepKinds
  <2>3. todo' \in [Procs -> Seq(Steps)]
    BY <1>0, <1>6, <2>1, <2>2 DEF CheckStep, Types
  <2> QED  BY <1>0, <1>6, <2>3 DEF CheckStep, Types, Own
<1>7. ASSUME NEW p \in Procs, WorkStep(p), roster' = roster
      PROVE  Types'
  <2>1. todo' \in [Procs -> Seq(Steps)]
    BY <1>7, AdvanceEffect DEF WorkStep
  <2> QED  BY <1>0, <1>7, <2>1 DEF WorkStep, Types, Own
<1>8. ASSUME NEW p \in Procs, EraseStep(p), roster' = roster
      PROVE  Types'
  <2>1. todo' \in [Procs -> Seq(Steps)]
    BY <1>8, AdvanceEffect DEF EraseStep
  <2>2. Current(p).res \in Resources
    BY <1>0, <1>8, Rest, StepKinds DEF EraseStep
  <2> QED  BY <1>0, <1>8, <2>1, <2>2 DEF EraseStep, Types, Own
<1>9. ASSUME NEW p \in Procs, JournalStep(p), roster' = roster
      PROVE  Types'
  <2>1. todo' \in [Procs -> Seq(Steps)]
    BY <1>9, AdvanceEffect DEF JournalStep
  <2>2. {s.res : s \in {x \in ToSet(Tail(todo[p])) : x.op = "check"}} \subseteq Resources
    <3>1. Tail(todo[p]) \in Seq(Steps)
      BY <1>0, <1>9, Rest DEF JournalStep
    <3>2. ToSet(Tail(todo[p])) \subseteq Steps
      BY <3>1, LenProperties, ElementOfSeq DEF ToSet
    <3> QED  BY <3>2, StepKinds
  <2> QED  BY <1>0, <1>9, <2>1, <2>2 DEF JournalStep, Types, Own
<1>10. ASSUME NEW p \in Procs, Return(p), roster' = roster
      PROVE  Types'
  <2>1. /\ held' \in [Procs -> Seq(Takes)] /\ (\A q \in Procs : held'[q] \in Seq(Own(q)))
        /\ mu' \in {mu, None} /\ todo' = todo /\ deleted' = deleted /\ journal' = journal
    BY <1>10, ReturnEffect
  <2>2. lease' \in Leases
    <3>1. \/ lease' = lease
          \/ \E r \in Resources : lease' = [lease EXCEPT ![r] = [writer |-> None, blocked |-> {},
                                                     admitted |-> @.admitted \cup @.blocked]]
      BY <1>10, ReturnEffect
    <3>2. Types
      BY <1>0
    <3> HIDE DEF Types
    <3>3. \A r \in Resources : [lease EXCEPT ![r] = [writer |-> None, blocked |-> {},
                                  admitted |-> @.admitted \cup @.blocked]] \in Leases
      BY <3>2, LeaseMarked
    <3>4. lease \in Leases
      BY <3>2 DEF Types
    <3> QED  BY <3>1, <3>3, <3>4
  <2> QED  BY <1>0, <1>10, <2>1, <2>2 DEF Types, Own
<1>11. ASSUME NEW p \in Procs, Start(p), roster' = roster
      PROVE  Types'
  <2>1. \A r \in roster[p] : r \in Seq(Steps)
    BY <1>0, ProgramsAssumption DEF Types
  <2>2. todo' \in [Procs -> Seq(Steps)]
    BY <1>0, <1>11, <2>1 DEF Start, Types
  <2> QED  BY <1>0, <1>11, <2>2 DEF Start, Types, Own
<1>12. CASE UNCHANGED vars
  BY <1>0, <1>12 DEF vars, state, Types, Own
<1> QED  BY <1>1, <1>2, <1>3, <1>4, <1>5, <1>6, <1>7, <1>8, <1>9, <1>10, <1>11, <1>12 DEF Next, Step

-----------------------------------------------------------------------------
(* Every request stays in its program.                                     *)

\* Taking a lock is a step of a program.
LEMMA TakeFurther ==
  ASSUME IInv, roster' = roster, NEW p \in Procs, Running(p), Take(p), Current(p).op = "take",
         deleted' = deleted, journal' = journal
  PROVE  ProgramInv'
<1> DEFINE s == Current(p)
<1>1. /\ todo' = [todo EXCEPT ![p] = Tail(@)] /\ held'[p] = Append(held[p], s) /\ s \in Takes
      /\ \A q \in Procs \ {p} : held'[q] = held[q]
  BY TakeEffect
<1>2. held[p] \in Seq(Takes)
  BY DEF IInv, Types
<1>3. s.op = "take"
  OBVIOUS
<1> HIDE DEF s
<1>4. \A x : Contains(held'[p], x) <=> Contains(held[p], x) \/ x = s
  BY <1>1, <1>2, OneAdded
<1>5. (\A r : s # Check(r)) /\ s # Journal
  BY <1>3, StepFields
<1>6. Keeps(s, p)
  BY <1>4, <1>5 DEF Keeps
<1>7. RowsStay
  BY DEF RowsStay
<1> QED  BY <1>1, <1>5, <1>6, <1>7, Further DEF s

\* So is waiting for it.
LEMMA WaitFurther ==
  ASSUME IInv, roster' = roster, NEW p \in Procs, todo' = todo, held' = held, deleted' = deleted, journal' = journal
  PROVE  ProgramInv'
<1>1. RowsStay
  BY DEF RowsStay
<1> QED  BY <1>1, Further

\* A program of no steps is over.
LEMMA EmptyProgram == 0 \in 0..Len(<< >>) /\ SubSeq(<< >>, 0 + 1, Len(<< >>)) = << >>
OBVIOUS

\* So is a request whose handler is about to return.
LEMMA EmptyInPlace ==
  ASSUME NEW q \in Procs, todo'[q] = << >>  PROVE InPlace(q)'
<1> DEFINE e == << >>
<1>1. 0 \in 0..Len(e) /\ todo'[q] = SubSeq(e, 0 + 1, Len(e))
  BY EmptyProgram
<1>2. e \in roster'[q] \cup {<< >>} /\ todo'[q] \in {<< >>, <<Settle>>}
  OBVIOUS
<1> HIDE DEF e
<1> QED  BY <1>1, <1>2 DEF InPlace

\* A handler that finds a row gone has at most its completion row to settle.
LEMMA GivesUp ==
  ASSUME IInv, roster' = roster, NEW p \in Procs, Running(p),
         todo'[p] = IF Last(todo[p]) = Settle THEN <<Settle>> ELSE << >>
  PROVE  InPlace(p)'
<1>1. PICK prog \in roster[p] : prog \in Seq(Steps) /\ Last(todo[p]) = prog[Len(prog)] /\ Len(prog) # 0
  BY InProgram DEF IInv
<1>2. CASE Last(todo[p]) = Settle
  <2> DEFINE n == Len(prog)
             t == SubSeq(prog, n, n)
             u == <<Settle>>
  <2>1. n \in Nat /\ n \in 1..n /\ n - 1 \in 0..n /\ (n - 1) + 1 = n /\ prog[n] = Settle
    BY <1>1, <1>2, LenProperties
  <2>2. /\ t \in Seq(Steps) /\ Len(t) = 1 /\ t[1] = Settle
    <3>1. n \in Int /\ \A i \in n..n : prog[i] \in Steps
      BY <1>1, <2>1, ElementOfSeq
    <3> HIDE DEF n
    <3>2. /\ t \in Seq(Steps) /\ Len(t) = IF n <= n THEN n - n + 1 ELSE 0
          /\ \A i \in 1..(n - n + 1) : t[i] = prog[n + i - 1]
      BY <3>1, SubSeqProperties
    <3> HIDE DEF t
    <3>3. n - n + 1 = 1 /\ 1 \in 1..(n - n + 1) /\ n + 1 - 1 = n /\ n <= n
      BY <2>1
    <3> QED  BY <2>1, <3>2, <3>3
  <2>3. u \in Seq(Steps) /\ Len(u) = 1 /\ u[1] = Settle
    BY StepKinds
  <2> HIDE DEF n, t, u
  <2>4. t = u
    BY <2>2, <2>3, SeqEqual
  <2>5. todo'[p] = SubSeq(prog, (n - 1) + 1, n) /\ todo'[p] \in {<< >>, <<Settle>>}
    BY <1>2, <2>1, <2>4 DEF t, u
  <2> QED  BY <1>1, <2>1, <2>5 DEF InPlace, n
<1>3. CASE Last(todo[p]) # Settle
  BY <1>3, EmptyInPlace
<1> QED  BY <1>2, <1>3

\* A program starts as a whole, with nothing done.
LEMMA StartsWhole ==
  ASSUME NEW prog \in Seq(Steps)  PROVE SubSeq(prog, 0 + 1, Len(prog)) = prog /\ 0 \in 0..Len(prog)
<1> DEFINE n == Len(prog)
           t == SubSeq(prog, 1, n)
<1>1. n \in Nat /\ 1 \in Int /\ n \in Int /\ \A i \in 1..n : prog[i] \in Steps
  BY LenProperties, ElementOfSeq
<1>2. t \in Seq(Steps) /\ Len(t) = n /\ \A i \in 1..n : t[i] = prog[i]
  <2> HIDE DEF n
  <2>1. /\ t \in Seq(Steps) /\ Len(t) = IF 1 <= n THEN n - 1 + 1 ELSE 0
        /\ \A i \in 1..(n - 1 + 1) : t[i] = prog[1 + i - 1]
    BY <1>1, SubSeqProperties
  <2> QED  BY <1>1, <2>1
<1> HIDE DEF t
<1>3. t = prog
  BY <1>2, SeqEqual
<1> QED  BY <1>1, <1>3 DEF t

\* Nothing is said of a program at its start.
LEMMA NothingDone == \A prog, p : Done(prog, 0, p)'
BY DEF Done

\* Every step keeps every request in its program.
LEMMA ProgramStep ==
  ASSUME IInv, [Next]_vars  PROVE ProgramInv'
<1>0. IInv /\ Types
  BY DEF IInv
<1>1. ASSUME NEW p \in Procs, RLockLease(p), roster' = roster
      PROVE  ProgramInv'
  <2>1. /\ Running(p) /\ Current(p) = Read(Current(p).res) /\ deleted' = deleted /\ journal' = journal
        /\ Take(p) \/ (todo' = todo /\ held' = held)
    BY <1>1 DEF RLockLease
  <2>2. Current(p).op = "take"
    BY <1>0, <2>1, LeaseOf
  <2> QED  BY <1>0, <1>1, <2>1, <2>2, TakeFurther, WaitFurther
<1>2. ASSUME NEW p \in Procs, LockLease(p), roster' = roster
      PROVE  ProgramInv'
  <2>1. /\ Running(p) /\ Current(p) = Write(Current(p).res) /\ deleted' = deleted /\ journal' = journal
        /\ Take(p) \/ (todo' = todo /\ held' = held)
    BY <1>2 DEF LockLease
  <2>2. Current(p).op = "take"
    BY <1>0, <2>1, LeaseOf
  <2> QED  BY <1>0, <1>2, <2>1, <2>2, TakeFurther, WaitFurther
<1>3. ASSUME NEW p \in Procs, LockMutex(p), roster' = roster
      PROVE  ProgramInv'
  <2>1. Running(p) /\ Take(p) /\ Current(p).op = "take" /\ deleted' = deleted /\ journal' = journal
    BY <1>3 DEF LockMutex, Mutex, step
  <2> QED  BY <1>0, <1>3, <2>1, TakeFurther
<1>4. ASSUME NEW p \in Procs, LockScope(p), roster' = roster
      PROVE  ProgramInv'
  <2>1. /\ Running(p) /\ Current(p).op = "take" /\ (Take(p) \/ (todo' = todo /\ held' = held))
        /\ deleted' = deleted /\ journal' = journal
    BY <1>4 DEF LockScope
  <2> QED  BY <1>0, <1>4, <2>1, TakeFurther, WaitFurther
<1>5. ASSUME NEW p \in Procs, DropStep(p), roster' = roster
      PROVE  ProgramInv'
  <2>1. Running(p) /\ Advance(p) /\ deleted' = deleted /\ journal' = journal
    BY <1>5 DEF DropStep
  <2>2. PICK s \in Takes :
           /\ Current(p) = Drop(s)
           /\ held'[p] = RemoveFirst(held[p], s) /\ \A q \in Procs \ {p} : held'[q] = held[q]
    BY <1>0, <1>5, DropEffect
  <2>3. todo' = [todo EXCEPT ![p] = Tail(@)]
    BY <2>1 DEF Advance
  <2>4. held[p] \in Seq(Takes)
    BY <1>0 DEF Types
  <2>5. Drop(s).op = "drop"
    BY TakeFields
  <2>6. \A x : x # s => (Contains(held'[p], x) <=> Contains(held[p], x))
    BY <2>2, <2>4, OneRemoved
  <2>7. /\ Drop(s) # Journal
        /\ \A r \in Resources : Drop(s) # Check(r) /\ Drop(s) # Read(r) /\ Drop(s) # Write(r)
    <3>1. \A r \in Resources : Read(r).op = "take" /\ Write(r).op = "take"
      BY TakeFields
    <3> QED  BY <2>5, <3>1, StepFields
  <2>8. Keeps(Drop(s), p)
    BY <2>1, <2>6, <2>7 DEF Keeps
  <2>9. RowsStay
    BY <2>1 DEF RowsStay
  <2> QED  BY <1>0, <1>5, <2>1, <2>2, <2>3, <2>7, <2>8, <2>9, Further
<1>6. ASSUME NEW p \in Procs, CheckStep(p), roster' = roster
      PROVE  ProgramInv'
  <2>1. /\ Running(p) /\ Current(p).op = "check"
        /\ held' = held /\ deleted' = deleted /\ journal' = journal
        /\ todo' = [todo EXCEPT ![p] = IF Current(p).res \notin deleted THEN Tail(@)
                                       ELSE IF Last(@) = Settle THEN <<Settle>> ELSE << >>]
    BY <1>6 DEF CheckStep
  <2>2. RowsStay
    BY <2>1 DEF RowsStay
  <2>3. CASE Current(p).res \notin deleted
    <3>1. todo' = [todo EXCEPT ![p] = Tail(@)]
      BY <2>1, <2>3
    <3> DEFINE s == Current(p)
    <3>2. s.op = "check" /\ s.res \notin deleted'
      BY <2>1, <2>3
    <3> HIDE DEF s
    <3>3. s # Journal /\ \A r \in Resources : s # Read(r) /\ s # Write(r) /\ (s = Check(r) => r \notin deleted')
      BY <3>2, StepFields, TakeFields
    <3>4. Keeps(s, p)
      BY <2>1, <3>3 DEF Keeps
    <3> QED  BY <1>0, <1>6, <2>1, <2>2, <3>1, <3>3, <3>4, Further DEF s
  <2>4. CASE Current(p).res \in deleted
    <3>1. /\ todo'[p] = IF Last(todo[p]) = Settle THEN <<Settle>> ELSE << >>
          /\ \A q \in Procs \ {p} : todo'[q] = todo[q]
      BY <1>0, <2>1, <2>4 DEF Types
    <3>2. InPlace(p)'
      BY <1>0, <1>6, <2>1, <3>1, GivesUp
    <3>3. \A q \in Procs \ {p} : InPlace(q)'
      BY <1>6, <2>1, <2>2, OthersStay
    <3> QED  BY <3>2, <3>3 DEF ProgramInv
  <2> QED  BY <2>3, <2>4
<1>7. ASSUME NEW p \in Procs, WorkStep(p), roster' = roster
      PROVE  ProgramInv'
  <2>1. /\ Running(p) /\ Current(p).op = "work" /\ held' = held /\ journal' = journal
        /\ todo' = [todo EXCEPT ![p] = Tail(@)]
    BY <1>7 DEF WorkStep, Advance
  <2>2. RowsStay
    BY <1>7 DEF WorkStep, RowsStay
  <2> DEFINE s == Current(p)
  <2>3. s.op = "work"
    BY <2>1
  <2> HIDE DEF s
  <2>4. s # Journal /\ \A r \in Resources : s # Read(r) /\ s # Write(r) /\ s # Check(r)
    BY <2>3, StepFields, TakeFields
  <2>5. Keeps(s, p)
    BY <2>1, <2>4 DEF Keeps
  <2> QED  BY <1>0, <1>7, <2>1, <2>2, <2>4, <2>5, Further DEF s
<1>8. ASSUME NEW p \in Procs, EraseStep(p), roster' = roster
      PROVE  ProgramInv'
  <2>1. /\ Running(p) /\ Current(p).op = "erase" /\ held' = held /\ journal' = journal
        /\ todo' = [todo EXCEPT ![p] = Tail(@)]
    BY <1>8 DEF EraseStep, Advance
  <2>2. RowsStay
    BY <1>0, <1>8, ErasedAlone DEF RowsStay
  <2> DEFINE s == Current(p)
  <2>3. s.op = "erase"
    BY <2>1
  <2> HIDE DEF s
  <2>4. s # Journal /\ \A r \in Resources : s # Read(r) /\ s # Write(r) /\ s # Check(r)
    BY <2>3, StepFields, TakeFields
  <2>5. Keeps(s, p)
    BY <2>1, <2>4 DEF Keeps
  <2> QED  BY <1>0, <1>8, <2>1, <2>2, <2>4, <2>5, Further DEF s
<1>9. ASSUME NEW p \in Procs, JournalStep(p), roster' = roster
      PROVE  ProgramInv'
  <2> DEFINE s == Current(p)
             t == Tail(todo[p])
  <2>1. /\ Running(p) /\ s.op \in {"journal", "settle"} /\ held' = held /\ deleted' = deleted
        /\ todo' = [todo EXCEPT ![p] = Tail(@)]
        /\ journal' = [journal EXCEPT ![p] = {c.res : c \in {x \in ToSet(t) : x.op = "check"}}]
    BY <1>9 DEF JournalStep, Advance
  <2>2. s \in {Journal, Settle}
    BY <1>0, <2>1, Rest, StepKinds
  <2>3. t \in Seq(Steps)
    BY <1>0, <2>1, Rest
  <2> HIDE DEF s, t
  <2>4. journal'[p] = {c.res : c \in {x \in ToSet(t) : x.op = "check"}} /\ \A q \in Procs \ {p} : journal'[q] = journal[q]
    BY <1>0, <2>1 DEF Types
  <2>5. ASSUME NEW r \in Resources, Contains(t, Check(r))  PROVE r \in journal'[p]
    <3>1. PICK i \in 1..Len(t) : t[i] = Check(r)
      BY <2>5 DEF Contains
    <3>2. i \in DOMAIN t
      BY <2>3, LenProperties
    <3>3. Check(r) \in ToSet(t)
      BY <3>1, <3>2 DEF ToSet
    <3>4. Check(r).op = "check" /\ Check(r).res = r
      BY StepFields
    <3> QED  BY <2>4, <3>3, <3>4
  <2>6. \A r \in Resources : s # Read(r) /\ s # Write(r) /\ s # Check(r) /\ s # Drop(Read(r)) /\ s # Drop(Write(r))
    BY <2>1, StepFields, TakeFields
  <2>7. Keeps(s, p) /\ RowsStay
    BY <2>1, <2>2, <2>6 DEF Keeps, RowsStay
  <2> QED  BY <1>0, <1>9, <2>1, <2>4, <2>5, <2>7, Further DEF s, t
<1>10. ASSUME NEW p \in Procs, Return(p), roster' = roster
      PROVE  ProgramInv'
  <2>1. /\ todo[p] = << >> /\ todo' = todo /\ deleted' = deleted /\ journal' = journal
        /\ \A q \in Procs \ {p} : held'[q] = held[q]
    BY <1>0, <1>10, ReturnEffect DEF Return
  <2>2. RowsStay
    BY <2>1 DEF RowsStay
  <2>3. InPlace(p)'
    BY <2>1, EmptyInPlace
  <2>4. \A q \in Procs \ {p} : InPlace(q)'
    BY <1>0, <1>10, <2>1, <2>2, OthersStay
  <2> QED  BY <2>3, <2>4 DEF ProgramInv
<1>11. ASSUME NEW p \in Procs, Start(p), roster' = roster
      PROVE  ProgramInv'
  <2>1. PICK prog \in roster[p] : todo' = [todo EXCEPT ![p] = prog]
    BY <1>11 DEF Start
  <2>2. /\ held' = held /\ deleted' = deleted /\ journal' = journal
        /\ todo'[p] = prog /\ \A q \in Procs \ {p} : todo'[q] = todo[q]
    BY <1>0, <1>11, <2>1 DEF Start, Types
  <2>3. RowsStay
    BY <2>2 DEF RowsStay
  <2>4. prog \in Seq(Steps)
    BY <1>0, ProgramsAssumption DEF Types
  <2>5. SubSeq(prog, 0 + 1, Len(prog)) = prog /\ 0 \in 0..Len(prog)
    BY <2>4, StartsWhole
  <2>6. Done(prog, 0, p)'
    BY NothingDone
  <2>7. InPlace(p)'
    BY <1>11, <2>2, <2>5, <2>6 DEF InPlace
  <2>8. \A q \in Procs \ {p} : InPlace(q)'
    BY <1>0, <1>11, <2>2, <2>3, OthersStay
  <2> QED  BY <2>7, <2>8 DEF ProgramInv
<1>12. CASE UNCHANGED vars
  BY <1>0, <1>12, OthersStay DEF vars, state, ProgramInv, RowsStay
<1> QED  BY <1>1, <1>2, <1>3, <1>4, <1>5, <1>6, <1>7, <1>8, <1>9, <1>10, <1>11, <1>12 DEF Next, Step

-----------------------------------------------------------------------------
(* Leases and completion rows.                                             *)

\* Taking a lock other than an exclusive lease, or the lease r of a writer
\* that is alone: the writers stay alone.
LEMMA TakeHeld ==
  ASSUME IInv, NEW p \in Procs, Running(p), Take(p), Current(p).op = "take",
         \A q \in Resources : Current(p) # Write(q),
         \A r \in Resources : /\ lease'[r].writer = lease[r].writer /\ lease'[r].admitted \subseteq lease[r].admitted
                              /\ Current(p) = Read(r) => lease[r].writer = None \/ p \in lease[r].admitted
  PROVE  HeldInv'
<1> DEFINE s == Current(p)
<1>0. HeldInv /\ held[p] \in Seq(Takes)
  BY DEF IInv, Types
<1>1. /\ held'[p] = Append(held[p], s) /\ s \in Takes
      /\ \A q \in Procs \ {p} : held'[q] = held[q]
      /\ \A q \in Procs : \A x : Contains(todo'[q], x) => Contains(todo[q], x)
  BY TakeEffect
<1>2. \A r \in Resources : /\ s # Write(r) /\ lease'[r].writer = lease[r].writer /\ lease'[r].admitted \subseteq lease[r].admitted
                           /\ s = Read(r) => lease[r].writer = None \/ p \in lease[r].admitted
  OBVIOUS
<1> HIDE DEF s
<1>3. /\ \A x : Contains(held'[p], x) <=> Contains(held[p], x) \/ x = s
      /\ \A x : x # s /\ Once(held[p], x) => Once(held'[p], x)
  BY <1>0, <1>1, OneAdded
<1>4. ASSUME NEW q \in Procs, NEW r \in Resources, Contains(held'[q], Write(r))
      PROVE  /\ Contains(held[q], Write(r))
             /\ lease[r].writer = q => lease'[r].writer = q
             /\ lease[r].writer = q /\ Readers(r) = {} => Readers(r)' = {}
             /\ \A x \in {Write(r), Drop(Write(r))} : Contains(todo'[q], x) => Contains(todo[q], x)
             /\ Once(held[q], Write(r)) => Once(held'[q], Write(r))
  <2>1. Contains(held[q], Write(r))
    BY <1>1, <1>2, <1>3, <1>4
  <2>2. ASSUME lease[r].writer = q, Readers(r) = {}  PROVE Readers(r)' = {}
    <3>1. lease[r].admitted = {} /\ \A c \in Procs : ~Contains(held[c], Read(r))
      BY <2>2 DEF Readers
    <3>2. s # Read(r)
      BY <1>2, <2>2, <3>1, NoneAssumption
    <3>3. \A c \in Procs : ~Contains(held'[c], Read(r))
      BY <1>1, <1>3, <3>1, <3>2
    <3>4. lease'[r].admitted = {}
      BY <1>2, <3>1
    <3> QED  BY <3>3, <3>4 DEF Readers
  <2>3. \A x \in {Write(r), Drop(Write(r))} : Contains(todo'[q], x) => Contains(todo[q], x)
    BY <1>1
  <2>4. Once(held[q], Write(r)) => Once(held'[q], Write(r))
    BY <1>1, <1>2, <1>3
  <2>5. lease[r].writer = q => lease'[r].writer = q
    BY <1>2
  <2> QED  BY <2>1, <2>2, <2>3, <2>4, <2>5
<1> QED  BY <1>0, <1>4, HeldKept

\* A step that takes and gives back no lease.
LEMMA SameHeld ==
  ASSUME IInv, held' = held,
         \A q \in Procs : \A x : Contains(todo'[q], x) /\ held[q] # << >> => Contains(todo[q], x),
         \A r \in Resources : /\ lease'[r].admitted = lease[r].admitted
                              /\ lease[r].writer # None => lease'[r].writer = lease[r].writer
  PROVE  HeldInv'
<1>0. HeldInv
  BY DEF IInv
<1>1. ASSUME NEW q \in Procs, NEW r \in Resources, Contains(held'[q], Write(r))
      PROVE  /\ Contains(held[q], Write(r))
             /\ lease[r].writer = q => lease'[r].writer = q
             /\ lease[r].writer = q /\ Readers(r) = {} => Readers(r)' = {}
             /\ \A x \in {Write(r), Drop(Write(r))} : Contains(todo'[q], x) => Contains(todo[q], x)
             /\ Once(held[q], Write(r)) => Once(held'[q], Write(r))
  <2>1. held[q] # << >>
    <3>1. Contains(held[q], Write(r))
      BY <1>1
    <3>2. ~Contains(<< >>, Write(r))
      BY DEF Contains
    <3> QED  BY <3>1, <3>2
  <2>2. \A x \in {Write(r), Drop(Write(r))} : Contains(todo'[q], x) => Contains(todo[q], x)
    BY <2>1
  <2>3. lease[r].writer = q => lease'[r].writer = q
    BY NoneAssumption
  <2>4. Readers(r)' = Readers(r)
    BY DEF Readers
  <2> QED  BY <1>1, <2>2, <2>3, <2>4
<1> QED  BY <1>0, <1>1, HeldKept

\* Something given back: the shared leases only go, and an exclusive one that
\* is given up is nobody's.
LEMMA LessHeld ==
  ASSUME IInv, NEW p \in Procs, NEW s \in Takes, Contains(held[p], s), \A q \in Procs \ {p} : held'[q] = held[q],
         \A x : Contains(held'[p], x) => Contains(held[p], x),
         \A x : Once(held[p], x) => Once(held'[p], x) /\ (x = s => ~Contains(held'[p], x)),
         \A q \in Procs : \A x : Contains(todo'[q], x) => Contains(todo[q], x),
         \/ lease' = lease /\ \A r : s # Write(r)
         \/ \E r \in Resources :
              /\ s = Write(r)
              /\ lease' = [lease EXCEPT ![r] = [writer |-> None, blocked |-> {},
                                                admitted |-> @.admitted \cup @.blocked]]
  PROVE  HeldInv'
<1>0. HeldInv /\ Types
  BY DEF IInv
<1>1. ASSUME NEW q \in Procs, NEW r \in Resources, Contains(held'[q], Write(r))
      PROVE  /\ Contains(held[q], Write(r))
             /\ lease[r].writer = q => lease'[r].writer = q
             /\ lease[r].writer = q /\ Readers(r) = {} => Readers(r)' = {}
             /\ \A x \in {Write(r), Drop(Write(r))} : Contains(todo'[q], x) => Contains(todo[q], x)
             /\ Once(held[q], Write(r)) => Once(held'[q], Write(r))
  <2>1. Contains(held[q], Write(r))
    BY <1>1
  <2>2. /\ lease[r].writer = q
        /\ Once(held[q], Write(r))
    BY <1>0, <2>1 DEF HeldInv
  <2>3. s # Write(r)
    <3> SUFFICES ASSUME s = Write(r)  PROVE FALSE
      OBVIOUS
    <3>1. lease[r].writer = p /\ q = p
      BY <1>0, <2>2 DEF HeldInv
    <3> QED  BY <1>1, <2>2, <3>1
  <2>4. lease'[r] = lease[r]
    BY <1>0, <2>3, StepFields DEF Types, Leases
  <2>5. ASSUME Readers(r) = {}  PROVE Readers(r)' = {}
    BY <2>4, <2>5 DEF Readers
  <2>6. Once(held'[q], Write(r))
    BY <2>2
  <2> QED  BY <2>1, <2>4, <2>5, <2>6
<1> QED  BY <1>0, <1>1, HeldKept

\* A program takes an exclusive lease once, and keeps it.
LEMMA OnceTaken ==
  ASSUME Types, ProgramInv, NEW p \in Procs, Running(p), NEW r \in Resources, Current(p) = Write(r)
  PROVE  ~Contains(Tail(todo[p]), Write(r)) /\ ~Contains(todo[p], Drop(Write(r)))
<1>1. PICK prog \in roster[p] : \E d \in Nat :
         /\ prog \in Seq(Steps) /\ Disciplined(prog) /\ d \in 0..Len(prog) /\ d + 1 \in 1..Len(prog)
         /\ todo[p] = SubSeq(prog, d + 1, Len(prog)) /\ Tail(todo[p]) = SubSeq(prog, d + 2, Len(prog))
         /\ Current(p) = prog[d + 1]
  BY InProgram
<1>2. PICK d \in Nat :
         /\ prog \in Seq(Steps) /\ Disciplined(prog) /\ d \in 0..Len(prog) /\ d + 1 \in 1..Len(prog)
         /\ todo[p] = SubSeq(prog, d + 1, Len(prog)) /\ Tail(todo[p]) = SubSeq(prog, d + 2, Len(prog))
         /\ Current(p) = prog[d + 1]
  BY <1>1
<1> DEFINE e == d + 1
           t == todo[p]
           u == Tail(todo[p])
<1>3. Len(prog) \in Nat /\ e \in 0..Len(prog) /\ e + 1 = d + 2 /\ d \in 0..Len(prog) /\ e = d + 1
  BY <1>2, LenProperties
<1>4. \A j \in 1..Len(prog) : prog[j] # Drop(Write(r)) /\ (prog[j] = Write(r) => j = e)
  <2>1. prog[e] = Write(r) /\ e \in 1..Len(prog) /\ Disciplined(prog)
    BY <1>2
  <2> HIDE DEF e
  <2> QED  BY <2>1 DEF Disciplined
<1>5. t = SubSeq(prog, d + 1, Len(prog)) /\ u = SubSeq(prog, e + 1, Len(prog)) /\ prog \in Seq(Steps)
  BY <1>2, <1>3
<1> HIDE DEF e, t, u
<1>6. /\ Len(t) = Len(prog) - d /\ \A i \in 1..Len(t) : t[i] = prog[d + i]
      /\ Len(u) = Len(prog) - e /\ \A i \in 1..Len(u) : u[i] = prog[e + i]
  <2>1. Len(t) = Len(prog) - d /\ \A i \in 1..Len(t) : t[i] = prog[d + i]
    BY <1>3, <1>5, Position
  <2>2. Len(u) = Len(prog) - e /\ \A i \in 1..Len(u) : u[i] = prog[e + i]
    <3>1. e \in 0..Len(prog) /\ prog \in Seq(Steps) /\ u = SubSeq(prog, e + 1, Len(prog))
      BY <1>3, <1>5
    <3> QED  BY <3>1, Position
  <2> QED  BY <2>1, <2>2
<1>7. ~Contains(t, Drop(Write(r)))
  <2> SUFFICES ASSUME NEW i \in 1..Len(t), t[i] = Drop(Write(r))  PROVE FALSE
    BY DEF Contains
  <2>1. d + i \in 1..Len(prog)
    BY <1>3, <1>6
  <2> QED  BY <1>4, <1>6, <2>1
<1>8. ~Contains(u, Write(r))
  <2> SUFFICES ASSUME NEW i \in 1..Len(u), u[i] = Write(r)  PROVE FALSE
    BY DEF Contains
  <2>1. e + i \in 1..Len(prog) /\ e + i # e
    BY <1>3, <1>6
  <2> QED  BY <1>4, <1>6, <2>1
<1> QED  BY <1>7, <1>8 DEF t, u

\* The writer that has waited for the readers takes its lease.
LEMMA WriterAlone ==
  ASSUME IInv, NEW p \in Procs, Running(p), Take(p), NEW r \in Resources, Current(p) = Write(r),
         lease[r].writer = p, Readers(r) = {}, lease' = lease
  PROVE  HeldInv'
<1>0. Types /\ ProgramInv /\ HeldInv /\ Current(p).op = "take"
  BY TakeFields DEF IInv
<1>1. /\ held'[p] = Append(held[p], Write(r)) /\ Write(r) \in Takes
      /\ \A q \in Procs \ {p} : held'[q] = held[q]
      /\ \A q \in Procs : \A x : Contains(todo'[q], x) => Contains(todo[q], x)
      /\ todo' = [todo EXCEPT ![p] = Tail(@)]
  BY <1>0, TakeEffect
<1>2. ~Contains(held[p], Write(r))
  BY <1>0, Rest DEF HeldInv
<1>3. held[p] \in Seq(Takes) /\ todo'[p] = Tail(todo[p])
  BY <1>0, <1>1 DEF Types
<1>4. /\ \A x : Contains(held'[p], x) <=> Contains(held[p], x) \/ x = Write(r)
      /\ Once(held'[p], Write(r))
      /\ \A x : x # Write(r) /\ Once(held[p], x) => Once(held'[p], x)
  BY <1>1, <1>2, <1>3, OneAdded
<1>5. ~Contains(Tail(todo[p]), Write(r)) /\ ~Contains(todo[p], Drop(Write(r)))
  BY <1>0, OnceTaken
<1>6. \A q \in Resources : Readers(q)' = Readers(q)
  <2>1. \A q \in Resources, c \in Procs : Contains(held'[c], Read(q)) <=> Contains(held[c], Read(q))
    <3>1. \A q \in Resources : Read(q) # Write(r)
      BY StepFields
    <3>2. \A q \in Resources : Contains(held'[p], Read(q)) <=> Contains(held[p], Read(q))
      BY <1>4, <3>1
    <3>3. \A c \in Procs \ {p} : held'[c] = held[c]
      BY <1>1
    <3> QED  BY <3>2, <3>3
  <2> QED  BY <2>1 DEF Readers
<1>7. ASSUME NEW c \in Procs, NEW q \in Resources, Contains(held'[c], Write(q))
      PROVE  /\ lease'[q].writer = c /\ Readers(q)' = {}
             /\ ~Contains(todo'[c], Write(q)) /\ ~Contains(todo'[c], Drop(Write(q)))
             /\ Once(held'[c], Write(q))
  <2>1. CASE q = r /\ c = p
    <3>1. ~Contains(todo'[p], Drop(Write(r)))
      BY <1>1, <1>5
    <3> QED  BY <1>3, <1>4, <1>5, <1>6, <2>1, <3>1
  <2>2. CASE ~(q = r /\ c = p)
    <3>1. Contains(held[c], Write(q))
      <4>1. CASE c # p
        BY <1>1, <1>7, <4>1
      <4>2. CASE c = p
        <5>1. Write(q) # Write(r)
          BY <2>2, <4>2, StepFields
        <5> QED  BY <1>4, <1>7, <4>2, <5>1
      <4> QED  BY <4>1, <4>2
    <3>2. /\ lease[q].writer = c /\ Readers(q) = {}
          /\ ~Contains(todo[c], Write(q)) /\ ~Contains(todo[c], Drop(Write(q)))
          /\ Once(held[c], Write(q))
      BY <1>0, <3>1 DEF HeldInv
    <3>3. c = p => Write(q) # Write(r)
      BY <2>2, StepFields
    <3>4. Once(held'[c], Write(q))
      <4>1. CASE c = p
        <5>1. Write(q) # Write(r) /\ Once(held[p], Write(q))
          BY <3>2, <3>3, <4>1
        <5>2. ASSUME NEW x, x # Write(r), Once(held[p], x)
              PROVE  Once(held'[p], x)
          BY <1>4, <5>2
        <5>3. Once(held'[p], Write(q))
          BY <5>1, <5>2
        <5> QED  BY <4>1, <5>3
      <4>2. CASE c # p
        <5>1. held'[c] = held[c]
          BY <1>1, <4>2
        <5> QED  BY <3>2, <5>1
      <4> QED  BY <4>1, <4>2
    <3> QED  BY <1>1, <1>6, <3>2, <3>4
  <2> QED  BY <2>1, <2>2
<1> QED  BY <1>7 DEF HeldInv

\* Every step keeps the writers alone.
LEMMA HeldStep ==
  ASSUME IInv, [Next]_vars  PROVE HeldInv'
<1>0. IInv /\ Types /\ HeldInv
  BY DEF IInv
<1>1. ASSUME NEW p \in Procs, RLockLease(p), roster' = roster
      PROVE  HeldInv'
  <2> DEFINE r == Current(p).res
  <2>1. /\ Running(p) /\ Current(p) = Read(r) /\ r \in Resources /\ Current(p).op = "take"
        /\ \/ lease[r].writer = None /\ Take(p) /\ lease' = lease
           \/ lease' = [lease EXCEPT ![r].blocked = @ \cup {p}] /\ todo' = todo /\ held' = held
           \/ p \in lease[r].admitted /\ Take(p) /\ lease' = [lease EXCEPT ![r].admitted = @ \ {p}]
    BY <1>0, <1>1, LeaseOf DEF RLockLease
  <2>2. lease \in Leases
    BY <1>0 DEF Types
  <2> HIDE DEF r
  <2>3. \A q \in Resources : Current(p) # Write(q) /\ (Current(p) = Read(q) => q = r)
    BY <2>1, StepFields
  <2>4. CASE lease[r].writer = None /\ Take(p) /\ lease' = lease
    <3>1. \A q \in Resources : /\ lease'[q].writer = lease[q].writer /\ lease'[q].admitted \subseteq lease[q].admitted
                               /\ Current(p) = Read(q) => lease[q].writer = None \/ p \in lease[q].admitted
      BY <2>3, <2>4
    <3> QED  BY <1>0, <1>1, <2>1, <2>3, <2>4, <3>1, TakeHeld
  <2>5. CASE lease' = [lease EXCEPT ![r].blocked = @ \cup {p}] /\ todo' = todo /\ held' = held
    <3>1. \A q \in Resources : lease'[q].writer = lease[q].writer /\ lease'[q].admitted = lease[q].admitted
      BY <2>1, <2>2, <2>5 DEF Leases
    <3> QED  BY <1>0, <1>1, <2>5, <3>1, SameHeld
  <2>6. CASE p \in lease[r].admitted /\ Take(p) /\ lease' = [lease EXCEPT ![r].admitted = @ \ {p}]
    <3>1. \A q \in Resources : lease'[q].writer = lease[q].writer /\ lease'[q].admitted \subseteq lease[q].admitted
      BY <2>1, <2>2, <2>6 DEF Leases
    <3>2. \A q \in Resources : Current(p) = Read(q) => lease[q].writer = None \/ p \in lease[q].admitted
      BY <2>3, <2>6
    <3> QED  BY <1>0, <1>1, <2>1, <2>3, <2>6, <3>1, <3>2, TakeHeld
  <2> QED  BY <2>1, <2>4, <2>5, <2>6
<1>2. ASSUME NEW p \in Procs, LockLease(p), roster' = roster
      PROVE  HeldInv'
  <2> DEFINE r == Current(p).res
  <2>1. /\ Running(p) /\ Current(p) = Write(r) /\ r \in Resources
        /\ \/ lease[r].writer = None /\ lease' = [lease EXCEPT ![r].writer = p] /\ todo' = todo /\ held' = held
           \/ lease[r].writer = p /\ Readers(r) = {} /\ Take(p) /\ lease' = lease
    BY <1>0, <1>2, LeaseOf DEF LockLease
  <2>2. lease \in Leases
    BY <1>0 DEF Types
  <2> HIDE DEF r
  <2>3. CASE lease[r].writer = None /\ lease' = [lease EXCEPT ![r].writer = p] /\ todo' = todo /\ held' = held
    <3>1. \A q \in Resources : /\ lease'[q].admitted = lease[q].admitted
                               /\ lease[q].writer # None => lease'[q].writer = lease[q].writer
      BY <2>1, <2>2, <2>3 DEF Leases
    <3> QED  BY <1>0, <1>2, <2>3, <3>1, SameHeld
  <2>4. CASE lease[r].writer = p /\ Readers(r) = {} /\ Take(p) /\ lease' = lease
    BY <1>0, <1>2, <2>1, <2>4, WriterAlone
  <2> QED  BY <2>1, <2>3, <2>4
<1>3. ASSUME NEW p \in Procs, LockMutex(p), roster' = roster
      PROVE  HeldInv'
  <2>1. Running(p) /\ Take(p) /\ Current(p) = Mutex /\ lease' = lease
    BY <1>3 DEF LockMutex
  <2>2. Mutex.op = "take" /\ \A q \in Resources : Mutex # Read(q) /\ Mutex # Write(q)
    BY DEF Mutex, Read, Write, step
  <2> QED  BY <1>0, <1>3, <2>1, <2>2, TakeHeld
<1>4. ASSUME NEW p \in Procs, LockScope(p), roster' = roster
      PROVE  HeldInv'
  <2>1. /\ Running(p) /\ Current(p).op = "take" /\ (Take(p) \/ (todo' = todo /\ held' = held))
        /\ lease' = lease
    BY <1>4 DEF LockScope
  <2>2. \A q \in Resources : Current(p) # Read(q) /\ Current(p) # Write(q)
    BY <1>4, StepFields DEF LockScope, isScope
  <2> QED  BY <1>0, <1>4, <2>1, <2>2, TakeHeld, SameHeld
<1>5. ASSUME NEW p \in Procs, DropStep(p), roster' = roster
      PROVE  HeldInv'
  <2>1. Running(p) /\ Advance(p)
    BY <1>5 DEF DropStep
  <2>2. PICK s \in Takes :
           /\ Contains(held[p], s) /\ held'[p] = RemoveFirst(held[p], s) /\ (\A q \in Procs \ {p} : held'[q] = held[q])
           /\ lease' = lease /\ \A r : s # Write(r)
    BY <1>0, <1>5, DropEffect
  <2>3. held[p] \in Seq(Takes)
    BY <1>0 DEF Types
  <2>4. /\ \A x : Contains(held'[p], x) => Contains(held[p], x)
        /\ \A x : Once(held[p], x) => Once(held'[p], x) /\ (x = s => ~Contains(held'[p], x))
    BY <2>2, <2>3, OneRemoved
  <2>5. \A q \in Procs : \A x : Contains(todo'[q], x) => Contains(todo[q], x)
    BY <1>0, <2>1, AdvanceEffect
  <2> QED  BY <1>0, <1>5, <2>2, <2>4, <2>5, LessHeld
<1>6. ASSUME NEW p \in Procs, CheckStep(p), roster' = roster
      PROVE  HeldInv'
  <2>1. /\ Running(p) /\ held' = held /\ lease' = lease
        /\ todo' = [todo EXCEPT ![p] = IF Current(p).res \notin deleted THEN Tail(@)
                                       ELSE IF Last(@) = Settle THEN <<Settle>> ELSE << >>]
    BY <1>6 DEF CheckStep
  <2> DEFINE t == todo[p]
  <2>2. ASSUME NEW x, Contains(todo'[p], x)  PROVE Contains(todo[p], x)
    <3>1. todo'[p] = Tail(t) \/ todo'[p] = << >> \/ (todo'[p] = <<Settle>> /\ Last(t) = Settle)
      <4>1. todo'[p] = IF Current(p).res \notin deleted THEN Tail(t)
                        ELSE IF Last(t) = Settle THEN <<Settle>> ELSE << >>
        BY <1>0, <2>1 DEF Types
      <4> HIDE DEF t
      <4>2. CASE Current(p).res \notin deleted
        BY <4>1, <4>2
      <4>3. CASE Current(p).res \in deleted /\ Last(t) = Settle
        BY <4>1, <4>3
      <4>4. CASE Current(p).res \in deleted /\ Last(t) # Settle
        BY <4>1, <4>4
      <4> QED  BY <4>2, <4>3, <4>4
    <3>2. t \in Seq(Steps) /\ t # << >> /\ \A y : Contains(Tail(t), y) => Contains(t, y)
      BY <1>0, <2>1, Rest DEF Types, Running
    <3> HIDE DEF t
    <3>3. Contains(t, Last(t))
      BY <3>2, LastRemoved
    <3>4. ~Contains(<< >>, x) /\ (Contains(<<Settle>>, x) => x = Settle)
      BY DEF Contains
    <3> QED  BY <2>2, <3>1, <3>2, <3>3, <3>4 DEF t
  <2>3. \A q \in Procs \ {p} : todo'[q] = todo[q]
    BY <1>0, <2>1 DEF Types
  <2>4. \A q \in Procs : \A x : Contains(todo'[q], x) => Contains(todo[q], x)
    BY <2>2, <2>3
  <2> QED  BY <1>0, <1>6, <2>1, <2>4, SameHeld
<1>7. ASSUME NEW p \in Procs, WorkStep(p), roster' = roster
      PROVE  HeldInv'
  <2>1. Running(p) /\ Advance(p) /\ held' = held /\ lease' = lease
    BY <1>7 DEF WorkStep
  <2>2. \A q \in Procs : \A x : Contains(todo'[q], x) => Contains(todo[q], x)
    BY <1>0, <2>1, AdvanceEffect
  <2> QED  BY <1>0, <1>7, <2>1, <2>2, SameHeld
<1>8. ASSUME NEW p \in Procs, EraseStep(p), roster' = roster
      PROVE  HeldInv'
  <2>1. Running(p) /\ Advance(p) /\ held' = held /\ lease' = lease
    BY <1>8 DEF EraseStep
  <2>2. \A q \in Procs : \A x : Contains(todo'[q], x) => Contains(todo[q], x)
    BY <1>0, <2>1, AdvanceEffect
  <2> QED  BY <1>0, <1>8, <2>1, <2>2, SameHeld
<1>9. ASSUME NEW p \in Procs, JournalStep(p), roster' = roster
      PROVE  HeldInv'
  <2>1. Running(p) /\ Advance(p) /\ held' = held /\ lease' = lease
    BY <1>9 DEF JournalStep
  <2>2. \A q \in Procs : \A x : Contains(todo'[q], x) => Contains(todo[q], x)
    BY <1>0, <2>1, AdvanceEffect
  <2> QED  BY <1>0, <1>9, <2>1, <2>2, SameHeld
<1>10. ASSUME NEW p \in Procs, Return(p), roster' = roster
      PROVE  HeldInv'
  <2>1. PICK s \in Takes :
           /\ s = Last(held[p]) /\ Contains(held[p], s)
           /\ held'[p] = Front(held[p]) /\ (\A q \in Procs \ {p} : held'[q] = held[q])
           /\ \/ lease' = lease /\ \A r : s # Write(r)
              \/ \E r \in Resources :
                   /\ s = Write(r)
                   /\ lease' = [lease EXCEPT ![r] = [writer |-> None, blocked |-> {},
                                                     admitted |-> @.admitted \cup @.blocked]]
           /\ todo' = todo
    BY <1>0, <1>10, ReturnEffect
  <2>2. held[p] \in Seq(Takes) /\ held[p] # << >>
    BY <1>0, <1>10 DEF Types, Return
  <2>3. /\ \A x : Contains(held'[p], x) => Contains(held[p], x)
        /\ \A x : Once(held[p], x) => Once(held'[p], x) /\ (x = s => ~Contains(held'[p], x))
    BY <2>1, <2>2, LastRemoved
  <2>4. \A q \in Procs : \A x : Contains(todo'[q], x) => Contains(todo[q], x)
    BY <2>1
  <2> QED  BY <1>0, <1>10, <2>1, <2>3, <2>4, LessHeld
<1>11. ASSUME NEW p \in Procs, Start(p), roster' = roster
      PROVE  HeldInv'
  <2>1. /\ held' = held /\ lease' = lease /\ held[p] = << >> /\ \A q \in Procs \ {p} : todo'[q] = todo[q]
    BY <1>0, <1>11 DEF Start, Types
  <2>2. \A q \in Procs : \A x : Contains(todo'[q], x) /\ held[q] # << >> => Contains(todo[q], x)
    BY <2>1
  <2> QED  BY <1>0, <1>11, <2>1, <2>2, SameHeld
<1>12. CASE UNCHANGED vars
  BY <1>0, <1>12 DEF vars, state, HeldInv, Readers
<1> QED  BY <1>1, <1>2, <1>3, <1>4, <1>5, <1>6, <1>7, <1>8, <1>9, <1>10, <1>11, <1>12 DEF Next, Step

\* What a program has the lease of and has seen is there; what its completion
\* row should name is named.
LEMMA LeasedThere ==
  ASSUME NEW p, NEW prog, NEW d \in Nat, Len(prog) \in Nat, Done(prog, d, p), NEW r \in Resources
  PROVE  /\ leased(prog, d + 1, r) => r \notin deleted
         /\ journaled(prog, d + 1, r) => r \in journal[p]
<1> DEFINE e == d + 1
<1>1. e - 1 = d
  OBVIOUS
<1> HIDE DEF e
<1>2. ASSUME leased(prog, e, r)  PROVE r \notin deleted
  <2>1. PICK i \in 1..d, j \in 1..d : /\ i < j /\ prog[i] = Read(r) /\ prog[j] = Check(r)
                                      /\ \A n \in (i + 1)..d : prog[n] # Drop(Read(r))
    BY <1>1, <1>2 DEF leased
  <2>2. Reading(prog, d, r, i) /\ j \in (i + 1)..d
    BY <2>1 DEF Reading
  <2> QED  BY <2>1, <2>2 DEF Done
<1>3. ASSUME journaled(prog, e, r)  PROVE r \in journal[p]
  BY <1>1, <1>3 DEF journaled, Done
<1> QED  BY <1>2, <1>3 DEF e

\* A completion row names what the request has under its lease, and what it
\* names is not deleted.
LEMMA JournalKept == ASSUME IInv, [Next]_vars  PROVE JournalInv'
<1>0. IInv /\ Types /\ ProgramInv /\ JournalInv
  BY DEF IInv
<1>1. ASSUME NEW p \in Procs, JournalStep(p)  PROVE JournalInv'
  <2> DEFINE t == Tail(todo[p])
  <2>1. /\ Running(p) /\ Current(p) \in {Journal, Settle} /\ deleted' = deleted
        /\ journal' = [journal EXCEPT ![p] = {s.res : s \in {x \in ToSet(t) : x.op = "check"}}]
    BY <1>0, <1>1, Rest, StepKinds DEF JournalStep
  <2>2. PICK prog \in roster[p] : \E d \in Nat :
           /\ prog \in Seq(Steps) /\ Disciplined(prog) /\ d + 1 \in 1..Len(prog)
           /\ t = SubSeq(prog, d + 2, Len(prog))
           /\ Current(p) = prog[d + 1] /\ (todo[p] = <<Settle>> \/ Done(prog, d, p))
    BY <1>0, <2>1, InProgram
  <2>3. PICK d \in Nat :
           /\ prog \in Seq(Steps) /\ Disciplined(prog) /\ d + 1 \in 1..Len(prog)
           /\ t = SubSeq(prog, d + 2, Len(prog))
           /\ Current(p) = prog[d + 1] /\ (todo[p] = <<Settle>> \/ Done(prog, d, p))
    BY <2>2
  <2> HIDE DEF t
  <2> DEFINE e == d + 1
  <2>4. Len(prog) \in Nat /\ e \in 1..Len(prog) /\ e \in 0..Len(prog) /\ e + 1 = d + 2 /\ e \in Nat
    BY <2>3, LenProperties
  <2>5. t = SubSeq(prog, e + 1, Len(prog)) /\ prog \in Seq(Steps) /\ Current(p) = prog[e]
    BY <2>3, <2>4
  <2> HIDE DEF e
  <2>6. t \in Seq(Steps) /\ Len(t) = Len(prog) - e /\ \A i \in 1..Len(t) : t[i] = prog[e + i]
    BY <2>4, <2>5, Position
  <2>7. ASSUME NEW r \in {s.res : s \in {x \in ToSet(t) : x.op = "check"}}  PROVE r \notin deleted
    <3>1. PICK i \in 1..Len(t) : t[i].op = "check" /\ t[i].res = r
      BY <2>6, LenProperties DEF ToSet
    <3>2. r \in Resources /\ t[i] = Check(r)
      BY <2>6, <3>1, ElementOfSeq, StepKinds
    <3>3. e + i \in (e + 1)..Len(prog) /\ prog[e + i] = Check(r)
      BY <2>4, <2>6, <3>1, <3>2
    <3>4. Current(p) = Journal
      <4>1. e # Len(prog)
        BY <2>4, <3>3
      <4> QED  BY <2>1, <2>3, <2>4, <2>5, <4>1 DEF Disciplined
    <3>5. leased(prog, e, r)
      BY <2>3, <2>4, <2>5, <3>2, <3>3, <3>4 DEF Disciplined
    <3>6. todo[p] # <<Settle>>
      BY <3>4, StepFields DEF Current
    <3>7. leased(prog, d + 1, r)
      BY <3>5 DEF e
    <3> QED  BY <2>3, <2>4, <3>2, <3>6, <3>7, LeasedThere
  <2> QED  BY <1>0, <2>1, <2>7 DEF Types, JournalInv
<1>2. ASSUME NEW p \in Procs, EraseStep(p)  PROVE JournalInv'
  BY <1>0, <1>2 DEF EraseStep, JournalInv
<1>3. ASSUME deleted' = deleted, journal' = journal  PROVE JournalInv'
  BY <1>0, <1>3 DEF JournalInv
<1>4. CASE UNCHANGED vars
  BY <1>3, <1>4 DEF vars, state
<1>5. ASSUME NEW p \in Procs, Step(p) \/ Start(p)  PROVE JournalInv'
  <2>1. CASE RLockLease(p) \/ LockLease(p) \/ LockMutex(p) \/ LockScope(p)
    BY <1>3, <2>1 DEF RLockLease, LockLease, LockMutex, LockScope
  <2>2. CASE DropStep(p) \/ CheckStep(p) \/ WorkStep(p) \/ Return(p) \/ Start(p)
    BY <1>3, <2>2 DEF DropStep, CheckStep, WorkStep, Return, Start
  <2> QED  BY <1>1, <1>2, <1>5, <2>1, <2>2 DEF Step
<1> QED  BY <1>4, <1>5 DEF Next

-----------------------------------------------------------------------------
(* The initial state, and the theorems.                                    *)

\* At the start nobody has a program or a lock.
LEMMA InitInv == ASSUME Init  PROVE IInv
<1> DEFINE e == << >>
<1>1. /\ roster \in Rosters /\ todo = [p \in Procs |-> e] /\ held = [p \in Procs |-> e]
      /\ lease = [r \in Resources |-> [writer |-> None, blocked |-> {}, admitted |-> {}]]
      /\ mu = None /\ deleted = {} /\ journal = [p \in Procs |-> {}]
  BY DEF Init
<1>2. e \in Seq(Steps) /\ e \in Seq(Takes) /\ \A p \in Procs : e \in Seq(Own(p))
  BY EmptySeq
<1>3. 0 \in 0..Len(e) /\ e = SubSeq(e, 0 + 1, Len(e)) /\ e \in {<< >>, <<Settle>>} /\ \A x : ~Contains(e, x)
  BY EmptyProgram DEF Contains
<1>4. \A p \in Procs : e \in roster[p] \cup {<< >>}
  OBVIOUS
<1> HIDE DEF e
<1>5. Types
  BY <1>1, <1>2 DEF Types, Leases
<1>6. ProgramInv
  BY <1>1, <1>3, <1>4 DEF ProgramInv, InPlace
<1>7. HeldInv /\ JournalInv
  BY <1>1, <1>3 DEF HeldInv, JournalInv
<1> QED  BY <1>5, <1>6, <1>7 DEF IInv

\* The invariant of the locks of a handler: every request is in one of its
\* programs, with what its steps so far have given it, and writers are alone.
THEOREM OperationInvariant == Spec => []IInv
<1>1. Init => IInv
  BY InitInv
<1>2. IInv /\ [Next]_vars => IInv'
  <2> SUFFICES ASSUME IInv, [Next]_vars  PROVE IInv'
    OBVIOUS
  <2> QED  BY TypesStep, ProgramStep, HeldStep, JournalKept DEF IInv
<1> QED  BY <1>1, <1>2, PTL DEF Spec

\* A request works only on what it has the lease of and has seen since, or on
\* what its completion row keeps from being deleted.
LEMMA WorkOnWhatIsThere ==
  ASSUME IInv, NEW p \in Procs, Running(p), Current(p).op = "work"
  PROVE  Current(p).res \notin deleted
<1>0. Types /\ ProgramInv /\ JournalInv
  BY DEF IInv
<1>1. PICK prog \in roster[p] : \E d \in Nat :
         /\ prog \in Seq(Steps) /\ Disciplined(prog) /\ d + 1 \in 1..Len(prog)
         /\ Current(p) = prog[d + 1] /\ (todo[p] = <<Settle>> \/ Done(prog, d, p))
  BY <1>0, InProgram
<1>2. PICK d \in Nat :
         /\ prog \in Seq(Steps) /\ Disciplined(prog) /\ d + 1 \in 1..Len(prog)
         /\ Current(p) = prog[d + 1] /\ (todo[p] = <<Settle>> \/ Done(prog, d, p))
  BY <1>1
<1> DEFINE r == Current(p).res
<1>3. Done(prog, d, p)
  BY <1>2, StepFields DEF Current
<1>4. r = "none" \/ leased(prog, d + 1, r) \/ journaled(prog, d + 1, r)
  BY <1>2 DEF Disciplined
<1>5. r \in Resources \cup {"none"} /\ deleted \subseteq Resources /\ Len(prog) \in Nat
  BY <1>0, <1>2, Rest, StepKinds, LenProperties DEF Types
<1> HIDE DEF r
<1>6. ASSUME r \in Resources  PROVE r \notin deleted
  <2>1. CASE leased(prog, d + 1, r)
    BY <1>3, <1>5, <2>1, LeasedThere
  <2>2. CASE journaled(prog, d + 1, r)
    <3>1. r \in journal[p]
      BY <1>3, <1>6, <2>2, LeasedThere
    <3> QED  BY <1>0, <3>1 DEF JournalInv
  <2> QED  BY <1>4, <1>6, <2>1, <2>2, NoneAssumption
<1> QED  BY <1>5, <1>6, NoneAssumption DEF r

\* Whatever programs the requests run that keep the discipline, however they
\* and the deletions overlap: nobody works on the files or rows of a source or
\* user that has been deleted.
THEOREM DeletedIsLeftAlone == Spec => []NoWorkAfterDelete
<1>1. IInv => NoWorkAfterDelete
  <2> SUFFICES ASSUME IInv  PROVE NoWorkAfterDelete
    OBVIOUS
  <2>1. Types /\ ProgramInv
    BY DEF IInv
  <2>2. ASSUME NEW p \in Procs  PROVE \E r \in roster[p] \cup {<< >>} : IsSuffix(todo[p], r)
    <3>1. PICK prog \in roster[p] \cup {<< >>} : \E d \in 0..Len(prog) : todo[p] = SubSeq(prog, d + 1, Len(prog))
      BY <2>1 DEF ProgramInv, InPlace
    <3>2. prog \in Seq(Steps)
      BY <2>1, ProgramsAssumption, EmptySeq DEF Types
    <3> QED  BY <3>1, <3>2, Position
  <2>3. TypeOK
    BY <2>1, <2>2 DEF Types, TypeOK, Leases, Own
  <2> QED  BY <2>3, WorkOnWhatIsThere DEF NoWorkAfterDelete
<1> QED  BY <1>1, OperationInvariant, PTL
-----------------------------------------------------------------------------
(* Requests that take their locks in one order.                            *)

\* The hypothesis about the programs: handlers take their locks in one order.
Ordered == \A R \in Rosters : \A p \in Procs : \A prog \in R[p] : InOrder(prog)

OneKind(s) == \A x, y \in s.keys : kindOf(x) = kindOf(y)

\* All that t takes before x is given back ranks above x.
Ahead(x, t) ==
  \A k \in 1..Len(t) : t[k].op = "take" /\ (\A n \in 1..(k - 1) : t[n] # Drop(x)) => rank(x) < rank(t[k])

\* A request with the steps t to take and the locks h keeps the order.
Orderly(t, h) ==
  /\ InOrder(t)
  /\ \A x \in Takes : Once(h, x) /\ (Contains(h, x) => OneKind(x) /\ Ahead(x, t))

OrderInv == \A p \in Procs : Orderly(todo[p], held[p])

Taking(p) == Running(p) /\ Current(p).op = "take"
Asked(s) == [keys |-> s.keys, write |-> s.write]
Waiting(c) == pc[c] \in {"asleep", "awake"}

\* What the lock manager knows of a request is what it holds or takes next.
CallOk(p, k) ==
  /\ pc[<<p, k>>] = "held" =>
       \E s \in Takes : Contains(held[p], s) /\ isScope(s) /\ kind(s) = k /\ req[<<p, k>>] = Asked(s)
  /\ Waiting(<<p, k>>) =>
       /\ Taking(p) /\ isScope(Current(p)) /\ kind(Current(p)) = k
       /\ req[<<p, k>>] = Asked(Current(p))

\* Its queue holds who waits, once each.
QueueOk ==
  /\ pc \in [Calls -> {"idle", "asleep", "awake", "held"}]
  /\ req \in [Calls -> [keys : SUBSET Keys, write : BOOLEAN]]
  /\ waiters \in Seq(Calls)
  /\ \A c \in Calls : (Waiting(c) <=> Contains(waiters, c)) /\ Once(waiters, c)

CallInv == QueueOk /\ \A p \in Procs, k \in Kinds : CallOk(p, k)

\* Who owns a lease or the mutex has it, or is about to; who waits for a shared
\* lease is about to take it.
OwnerInv ==
  /\ mu # None => Contains(held[mu], Mutex)
  /\ \A r \in Resources :
       /\ lease[r].writer # None =>
            \/ Contains(held[lease[r].writer], Write(r))
            \/ Running(lease[r].writer) /\ Current(lease[r].writer) = Write(r)
       /\ \A q \in lease[r].blocked \cup lease[r].admitted : Running(q) /\ Current(q) = Read(r)
       /\ lease[r].blocked \cap lease[r].admitted = {}
       /\ lease[r].writer = None => lease[r].blocked = {}

CircleInv == OrderInv /\ CallInv /\ OwnerInv

\* One step further, what is held still ranks below what is taken.
LEMMA OrderAfter ==
  ASSUME NEW t \in Seq(Steps), t # << >>, InOrder(t)
  PROVE  /\ InOrder(Tail(t))
         /\ \A x : Ahead(x, t) /\ Head(t) # Drop(x) => Ahead(x, Tail(t))
         /\ Head(t).op = "take" => OneKind(Head(t)) /\ Ahead(Head(t), Tail(t))
         /\ \A x : Ahead(x, t) /\ Head(t).op = "take" => rank(x) < rank(Head(t))
<1> DEFINE u == Tail(t)
           n == Len(t)
<1>1. n \in Nat \ {0} /\ Head(t) = t[1]
  BY EmptySeq
<1>2. Len(u) = n - 1 /\ \A i \in 1..(n - 1) : u[i] = t[i + 1]
  BY HeadTailProperties
<1> HIDE DEF u
<1>3. InOrder(u)
  <2> SUFFICES ASSUME NEW k \in 1..Len(u), u[k].op = "take"
               PROVE  /\ OneKind(u[k])
                      /\ \A i \in 1..(k - 1) :
                           u[i].op = "take" /\ (\A m \in (i + 1)..(k - 1) : u[m] # Drop(u[i]))
                             => rank(u[i]) < rank(u[k])
    BY DEF InOrder, OneKind
  <2>1. k + 1 \in 1..n /\ u[k] = t[k + 1] /\ k \in Nat
    BY <1>1, <1>2
  <2>2. OneKind(t[k + 1])
    BY <2>1 DEF InOrder, OneKind
  <2>3. ASSUME NEW i \in 1..(k - 1), u[i].op = "take", \A m \in (i + 1)..(k - 1) : u[m] # Drop(u[i])
        PROVE  rank(u[i]) < rank(u[k])
    <3>1. i + 1 \in 1..((k + 1) - 1) /\ u[i] = t[i + 1] /\ t[i + 1].op = "take"
      BY <1>1, <1>2, <2>1, <2>3
    <3>2. ASSUME NEW m \in ((i + 1) + 1)..((k + 1) - 1)  PROVE t[m] # Drop(t[i + 1])
      <4>1. m - 1 \in (i + 1)..(k - 1) /\ m - 1 \in 1..(n - 1) /\ (m - 1) + 1 = m
        BY <1>1, <1>2, <2>1
      <4>2. u[m - 1] = t[m]
        BY <1>2, <4>1
      <4> QED  BY <2>3, <3>1, <4>1, <4>2
    <3>3. t[k + 1].op = "take"
      BY <2>1
    <3> DEFINE a == k + 1
               b == i + 1
    <3>4. a \in 1..n /\ b \in 1..(a - 1) /\ t[a].op = "take" /\ t[b].op = "take"
          /\ \A m \in (b + 1)..(a - 1) : t[m] # Drop(t[b])
      BY <2>1, <3>1, <3>2, <3>3
    <3> HIDE DEF a, b
    <3>5. rank(t[b]) < rank(t[a])
      BY <3>4 DEF InOrder
    <3> QED  BY <2>1, <3>1, <3>5 DEF a, b
  <2> QED  BY <2>1, <2>2, <2>3
<1>4. ASSUME NEW x, Ahead(x, t), Head(t) # Drop(x)  PROVE Ahead(x, u)
  <2> SUFFICES ASSUME NEW k \in 1..Len(u), u[k].op = "take", \A m \in 1..(k - 1) : u[m] # Drop(x)
               PROVE  rank(x) < rank(u[k])
    BY DEF Ahead
  <2> DEFINE a == k + 1
  <2>1. a \in 1..n /\ u[k] = t[a] /\ k \in Nat
    BY <1>1, <1>2
  <2>2. ASSUME NEW m \in 1..(a - 1)  PROVE t[m] # Drop(x)
    <3>1. CASE m = 1
      BY <1>1, <1>4, <3>1
    <3>2. CASE m # 1
      <4>1. m - 1 \in 1..(k - 1) /\ m - 1 \in 1..(n - 1) /\ (m - 1) + 1 = m
        BY <1>1, <1>2, <2>1, <3>2
      <4> QED  BY <1>2, <2>1, <4>1
    <3> QED  BY <3>1, <3>2
  <2> HIDE DEF a
  <2> QED  BY <1>4, <2>1, <2>2 DEF Ahead
<1>5. ASSUME Head(t).op = "take"  PROVE OneKind(Head(t)) /\ Ahead(Head(t), u)
  <2>1. OneKind(t[1])
    <3>1. 1 \in 1..n /\ t[1].op = "take"
      BY <1>1, <1>5
    <3> QED  BY <3>1 DEF InOrder, OneKind
  <2>2. ASSUME NEW k \in 1..Len(u), u[k].op = "take", \A m \in 1..(k - 1) : u[m] # Drop(t[1])
        PROVE  rank(t[1]) < rank(u[k])
    <3> DEFINE a == k + 1
    <3>1. a \in 1..n /\ u[k] = t[a] /\ 1 \in 1..(a - 1)
      BY <1>1, <1>2
    <3>2. ASSUME NEW m \in (1 + 1)..(a - 1)  PROVE t[m] # Drop(t[1])
      <4>1. m - 1 \in 1..(k - 1) /\ m - 1 \in 1..(n - 1) /\ (m - 1) + 1 = m
        BY <1>1, <1>2, <3>1
      <4> QED  BY <1>2, <2>2, <4>1
    <3> HIDE DEF a
    <3>3. t[1].op = "take" /\ t[a].op = "take"
      BY <1>1, <1>5, <2>2, <3>1
    <3> QED  BY <3>1, <3>2, <3>3 DEF InOrder
  <2> QED  BY <1>1, <2>1, <2>2 DEF Ahead
<1>6. ASSUME NEW x, Ahead(x, t), Head(t).op = "take"  PROVE rank(x) < rank(Head(t))
  <2>1. 1 \in 1..n /\ \A m \in 1..(1 - 1) : FALSE
    BY <1>1
  <2> QED  BY <1>1, <1>6, <2>1 DEF Ahead
<1> QED  BY <1>3, <1>4, <1>5, <1>6 DEF u

\* Ranks are bounded numbers, and scopes that overlap have the same.
LEMMA RankOfLock ==
  /\ Len(Order) \in Nat
  /\ \A s \in Takes : rank(s) \in 1..(Len(Order) + 5)
  /\ \A r \in Resources : rank(Read(r)) = rank(Write(r))
  /\ \A s \in Takes : isScope(s) => kind(s) \in Kinds /\ rank(s) = Len(Order) + 1 + kind(s)
<1>1. Len(Order) \in Nat
  BY OrderAssumption, LenProperties
<1>2. \A s : kind(s) \in Kinds
  BY DEF kind, kindOf, Kinds
<1>3. ASSUME NEW r \in Resources  PROVE (CHOOSE i \in 1..Len(Order) : Order[i] = r) \in 1..Len(Order)
  <2>1. \E i \in 1..Len(Order) : Order[i] = r
    <3>1. DOMAIN Order = 1..Len(Order)
      BY OrderAssumption, LenProperties
    <3> QED  BY <3>1 DEF Resources, ToSet
  <2> QED  BY <2>1
<1>4. ASSUME NEW s \in Takes, s.lock = "lease"  PROVE rank(s) \in 1..Len(Order)
  <2>1. s.res \in Resources
    BY <1>4, LeaseFields, StepFields
  <2>2. rank(s) = CHOOSE i \in 1..Len(Order) : Order[i] = s.res
    BY <1>4 DEF rank
  <2> QED  BY <1>3, <2>1, <2>2
<1>5. ASSUME NEW s \in Takes, s.lock # "lease"
      PROVE  rank(s) = IF s.lock = "mutex" THEN Len(Order) + 1 ELSE Len(Order) + 1 + kind(s)
  BY <1>5 DEF rank
<1>6. ASSUME NEW s \in Takes  PROVE rank(s) \in 1..(Len(Order) + 5)
  <2>1. CASE s.lock = "lease"
    BY <1>1, <1>4, <2>1
  <2>2. CASE s.lock # "lease"
    BY <1>1, <1>2, <1>5, <2>2 DEF Kinds
  <2> QED  BY <2>1, <2>2
<1>7. ASSUME NEW r \in Resources  PROVE rank(Read(r)) = rank(Write(r))
  <2>1. /\ Read(r).lock = "lease" /\ Read(r).res = r
        /\ Write(r).lock = "lease" /\ Write(r).res = r
    BY StepFields
  <2>2. \A s : s.lock = "lease" /\ s.res = r => rank(s) = CHOOSE i \in 1..Len(Order) : Order[i] = r
    BY DEF rank
  <2> QED  BY <2>1, <2>2
<1>8. ASSUME NEW s \in Takes, isScope(s)  PROVE kind(s) \in Kinds /\ rank(s) = Len(Order) + 1 + kind(s)
  BY <1>2, <1>5, <1>8 DEF isScope
<1> QED  BY <1>1, <1>6, <1>7, <1>8

\* A request without further locks to take keeps the order.
LEMMA OrderAtEnd ==
  ASSUME NEW h, NEW g, NEW t, Orderly(t, h),
         \A x \in Takes : (Contains(g, x) => Contains(h, x)) /\ Once(g, x)
  PROVE  Orderly(<< >>, g) /\ Orderly(<<Settle>>, g)
<1>1. ASSUME NEW u \in {<< >>, <<Settle>>}
      PROVE  InOrder(u) /\ \A x : Ahead(x, u)
  <2>1. \A k \in 1..Len(u) : u[k].op # "take"
    BY <1>1, StepFields
  <2> QED  BY <2>1 DEF InOrder, Ahead
<1> QED  BY <1>1 DEF Orderly

\* Nor does it leave it by a step that gives nothing back.
LEMMA OrderGoesOn ==
  ASSUME NEW t \in Seq(Steps), t # << >>, NEW h \in Seq(Takes), Orderly(t, h)
  PROVE  /\ Head(t).op \notin {"take", "drop"} => Orderly(Tail(t), h)
         /\ Head(t) \in Takes => Orderly(Tail(t), Append(h, Head(t)))
         /\ \A s \in Takes : Head(t) = Drop(s) => Orderly(Tail(t), RemoveFirst(h, s))
<1> DEFINE u == Tail(t)
           c == Head(t)
<1>1. /\ InOrder(u) /\ \A x : Ahead(x, t) /\ c # Drop(x) => Ahead(x, u)
      /\ c.op = "take" => OneKind(c) /\ Ahead(c, u)
      /\ \A x : Ahead(x, t) /\ c.op = "take" => rank(x) < rank(c)
  BY OrderAfter DEF Orderly
<1>2. \A x \in Takes : Once(h, x) /\ (Contains(h, x) => OneKind(x) /\ Ahead(x, t))
  BY DEF Orderly
<1> HIDE DEF u, c
<1>3. ASSUME c.op \notin {"take", "drop"}  PROVE Orderly(u, h)
  <2>1. \A x \in Takes : c # Drop(x)
    BY <1>3, TakeFields
  <2> QED  BY <1>1, <1>2, <2>1 DEF Orderly
<1>4. ASSUME c \in Takes  PROVE Orderly(u, Append(h, c))
  <2>1. c.op = "take" /\ \A x \in Takes : c # Drop(x)
    BY <1>4, TakeFields
  <2>2. ~Contains(h, c)
    <3>1. Contains(h, c) => rank(c) < rank(c)
      BY <1>1, <1>2, <1>4, <2>1
    <3>2. rank(c) \in Int
      BY <1>4, RankOfLock
    <3> QED  BY <3>1, <3>2
  <2>3. \A x : /\ Contains(Append(h, c), x) <=> Contains(h, x) \/ x = c
               /\ ~Contains(h, x) => Once(Append(h, c), x)
               /\ x # c /\ Once(h, x) => Once(Append(h, c), x)
    BY <1>4, OneAdded
  <2> QED  BY <1>1, <1>2, <2>1, <2>2, <2>3 DEF Orderly
<1>5. ASSUME NEW s \in Takes, c = Drop(s)  PROVE Orderly(u, RemoveFirst(h, s))
  <2> DEFINE g == RemoveFirst(h, s)
  <2>1. \A x : /\ Contains(g, x) => Contains(h, x)
               /\ Once(h, x) => Once(g, x) /\ (x = s => ~Contains(g, x))
    BY OneRemoved
  <2>2. \A x \in Takes : x # s => c # Drop(x)
    BY <1>5, DropFields
  <2> HIDE DEF g
  <2>3. ASSUME NEW x \in Takes  PROVE Once(g, x) /\ (Contains(g, x) => OneKind(x) /\ Ahead(x, u))
    BY <1>1, <1>2, <2>1, <2>2
  <2> QED  BY <1>1, <2>3 DEF Orderly, g
<1> QED  BY <1>3, <1>4, <1>5 DEF u, c

\* Every step keeps the order in which its request takes its locks.
LEMMA OrderStep ==
  ASSUME Ordered, IInv, OrderInv, NEW p \in Procs, Step(p) \/ Start(p), roster \in Rosters
  PROVE  OrderInv'
<1>0. /\ Types /\ todo \in [Procs -> Seq(Steps)] /\ held \in [Procs -> Seq(Takes)]
      /\ Orderly(todo[p], held[p])
  BY DEF IInv, Types, OrderInv
<1>1. ASSUME \A q \in Procs \ {p} : todo'[q] = todo[q] /\ held'[q] = held[q], Orderly(todo'[p], held'[p])
      PROVE  OrderInv'
  BY <1>1 DEF OrderInv
<1>2. ASSUME Running(p)
      PROVE  /\ Current(p) \in Steps
             /\ Current(p).op \notin {"take", "drop"} => Orderly(Tail(todo[p]), held[p])
             /\ Current(p) \in Takes => Orderly(Tail(todo[p]), Append(held[p], Current(p)))
             /\ \A s \in Takes : Current(p) = Drop(s) => Orderly(Tail(todo[p]), RemoveFirst(held[p], s))
  <2> DEFINE t == todo[p]
             h == held[p]
  <2>1. t \in Seq(Steps) /\ t # << >> /\ h \in Seq(Takes) /\ Orderly(t, h)
    BY <1>0, <1>2 DEF Running
  <2>2. Current(p) \in Steps
    BY <1>0, <1>2, Rest
  <2>3. Current(p) = Head(t)
    BY DEF Current
  <2> HIDE DEF t, h
  <2>4. /\ Head(t).op \notin {"take", "drop"} => Orderly(Tail(t), h)
        /\ Head(t) \in Takes => Orderly(Tail(t), Append(h, Head(t)))
        /\ \A s \in Takes : Head(t) = Drop(s) => Orderly(Tail(t), RemoveFirst(h, s))
    BY <2>1, OrderGoesOn
  <2> QED  BY <2>2, <2>3, <2>4 DEF t, h
<1>3. ASSUME Running(p), Take(p), Current(p).op = "take"  PROVE OrderInv'
  <2>1. /\ todo' = [todo EXCEPT ![p] = Tail(@)]
        /\ held'[p] = Append(held[p], Current(p)) /\ Current(p) \in Takes
        /\ \A q \in Procs \ {p} : held'[q] = held[q]
    BY <1>3, TakeEffect
  <2> QED  BY <1>0, <1>1, <1>2, <1>3, <2>1
<1>4. ASSUME Running(p), Advance(p), UNCHANGED held, Current(p).op \notin {"take", "drop"}  PROVE OrderInv'
  BY <1>0, <1>1, <1>2, <1>4 DEF Advance
<1>5. CASE RLockLease(p)
  <2>1. Running(p) /\ Current(p).op = "take"
    BY <1>0, <1>5, LeaseOf DEF RLockLease
  <2>2. Take(p) \/ UNCHANGED <<todo, held>>
    BY <1>5 DEF RLockLease
  <2> QED  BY <1>1, <1>0, <1>3, <2>1, <2>2
<1>6. CASE LockLease(p)
  <2>1. Running(p) /\ Current(p).op = "take"
    BY <1>0, <1>6, LeaseOf DEF LockLease
  <2>2. Take(p) \/ UNCHANGED <<todo, held>>
    BY <1>6 DEF LockLease
  <2> QED  BY <1>1, <1>0, <1>3, <2>1, <2>2
<1>7. CASE LockMutex(p)
  BY <1>3, <1>7, TakeFields DEF LockMutex
<1>8. CASE LockScope(p)
  <2>1. Running(p) /\ Current(p).op = "take" /\ (Take(p) \/ UNCHANGED <<todo, held>>)
    BY <1>8 DEF LockScope
  <2> QED  BY <1>1, <1>0, <1>3, <2>1
<1>9. CASE DropStep(p)
  <2>1. PICK s \in Takes : Current(p) = Drop(s) /\ held'[p] = RemoveFirst(held[p], s)
                           /\ \A q \in Procs \ {p} : held'[q] = held[q]
    BY <1>9, DropEffect
  <2>2. Running(p) /\ todo' = [todo EXCEPT ![p] = Tail(@)]
    BY <1>9 DEF DropStep, Advance
  <2> QED  BY <1>0, <1>1, <1>2, <2>1, <2>2
<1>10. CASE CheckStep(p)
  <2>1. Running(p) /\ Current(p).op = "check" /\ UNCHANGED held
    BY <1>10 DEF CheckStep
  <2>2. CASE Advance(p)
    BY <1>4, <2>1, <2>2
  <2>3. CASE todo' = [todo EXCEPT ![p] = << >>] \/ todo' = [todo EXCEPT ![p] = <<Settle>>]
    <3>1. \A x \in Takes : Once(held[p], x)
      BY <1>0 DEF Orderly
    <3>2. Orderly(<< >>, held[p]) /\ Orderly(<<Settle>>, held[p])
      BY <1>0, <3>1, OrderAtEnd
    <3> QED  BY <1>0, <1>1, <2>1, <2>3, <3>2
  <2> QED  BY <1>10, <2>2, <2>3 DEF CheckStep, Advance
<1>11. CASE WorkStep(p) \/ EraseStep(p) \/ JournalStep(p)
  BY <1>4, <1>11 DEF WorkStep, EraseStep, JournalStep
<1>12. CASE Return(p)
  <2>1. held'[p] = Front(held[p]) /\ todo' = todo /\ \A q \in Procs \ {p} : held'[q] = held[q]
    BY <1>12, ReturnEffect
  <2>2. todo[p] = << >> /\ held[p] # << >> /\ held[p] \in Seq(Takes)
    BY <1>0, <1>12 DEF Return
  <2>3. \A x \in Takes : (Contains(Front(held[p]), x) => Contains(held[p], x)) /\ Once(Front(held[p]), x)
    BY <1>0, <2>2, LastRemoved DEF Orderly
  <2>4. Orderly(<< >>, Front(held[p]))
    BY <1>0, <2>3, OrderAtEnd
  <2> QED  BY <1>1, <2>1, <2>2, <2>4
<1>13. CASE Start(p)
  <2>1. PICK prog \in roster[p] : todo' = [todo EXCEPT ![p] = prog]
    BY <1>13 DEF Start
  <2>2. held' = held /\ held[p] = << >> /\ InOrder(prog)
    BY <1>13, <2>1 DEF Start, Ordered
  <2>3. \A x : ~Contains(<< >>, x) /\ Once(<< >>, x)
    BY DEF Contains, Once
  <2>4. Orderly(prog, << >>)
    BY <2>2, <2>3 DEF Orderly
  <2> QED  BY <1>0, <1>1, <2>1, <2>2, <2>4
<1> QED  BY <1>5, <1>6, <1>7, <1>8, <1>9, <1>10, <1>11, <1>12, <1>13 DEF Step

\* What is not the last stays.
LEMMA FrontKeeps ==
  ASSUME NEW S, NEW s \in Seq(S), s # << >>, NEW x, Contains(s, x), x # Last(s)
  PROVE  Contains(Front(s), x)
<1> DEFINE n == Len(s)
<1>1. n \in Nat \ {0} /\ Last(s) = s[n] /\ \A i \in 1..n : s[i] \in S
  BY LenProperties, EmptySeq, ElementOfSeq DEF Last
<1>2. PICK i \in 1..n : s[i] = x
  BY DEF Contains
<1> DEFINE m == n - 1
<1>3. 1 \in Int /\ m \in Int /\ (\A j \in 1..m : s[j] \in S) /\ Front(s) = SubSeq(s, 1, m) /\ m = n - 1
  BY <1>1 DEF Front
<1> HIDE DEF m
<1>4. /\ Len(SubSeq(s, 1, m)) = IF 1 <= m THEN m - 1 + 1 ELSE 0
      /\ \A j \in 1..(m - 1 + 1) : SubSeq(s, 1, m)[j] = s[1 + j - 1]
  BY <1>3, SubSeqProperties
<1>5. i \in 1..m /\ i \in 1..(m - 1 + 1) /\ 1 + i - 1 = i
  BY <1>1, <1>2, <1>3
<1>6. i \in 1..Len(Front(s)) /\ Front(s)[i] = x
  BY <1>2, <1>3, <1>4, <1>5
<1> QED  BY <1>6 DEF Contains

\* A lease or the mutex stays with its owner when a request is about something
\* else and gives neither of them back.
LEMMA OwnersKept ==
  ASSUME Types, OwnerInv, NEW p \in Procs,
         \A q \in Procs \ {p} : todo'[q] = todo[q] /\ held'[q] = held[q],
         lease' = lease, mu' # None => mu' \in Procs /\ Contains(held'[mu'], Mutex),
         \A r \in Resources : Contains(held[p], Write(r)) => Contains(held'[p], Write(r)),
         Running(p) => \/ todo'[p] = todo[p]
                       \/ \A r \in Resources : Current(p) # Read(r) /\ Current(p) # Write(r)
  PROVE  OwnerInv'
<1>1. ASSUME NEW q \in Procs, q # p \/ (Running(p) /\ todo'[p] = todo[p])
      PROVE  Running(q) => Running(q)' /\ Current(q)' = Current(q)
  BY <1>1 DEF Running, Current
<1>2. ASSUME NEW r \in Resources
      PROVE  /\ lease[r].writer # None =>
                   \/ Contains(held'[lease[r].writer], Write(r))
                   \/ Running(lease[r].writer)' /\ Current(lease[r].writer)' = Write(r)
             /\ \A q \in lease[r].blocked \cup lease[r].admitted : Running(q)' /\ Current(q)' = Read(r)
  <2>1. lease[r].writer \in Procs \cup {None} /\ lease[r].blocked \cup lease[r].admitted \subseteq Procs
    BY DEF Types, Leases
  <2>2. /\ lease[r].writer # None => \/ Contains(held[lease[r].writer], Write(r))
                                     \/ Running(lease[r].writer) /\ Current(lease[r].writer) = Write(r)
        /\ \A q \in lease[r].blocked \cup lease[r].admitted : Running(q) /\ Current(q) = Read(r)
    BY DEF OwnerInv
  <2>3. \A q \in Procs : Running(q) /\ Current(q) \in {Read(r), Write(r)} =>
                           Running(q)' /\ Current(q)' = Current(q)
    BY <1>1
  <2>4. \A q \in Procs : Contains(held[q], Write(r)) => Contains(held'[q], Write(r))
    OBVIOUS
  <2> QED  BY <2>1, <2>2, <2>3, <2>4
<1>3. \A r \in Resources : /\ lease[r].blocked \cap lease[r].admitted = {}
                           /\ lease[r].writer = None => lease[r].blocked = {}
  BY DEF OwnerInv
<1> QED  BY <1>2, <1>3 DEF OwnerInv

\* Every step leaves the leases and the mutex with owners.
LEMMA OwnerStep ==
  ASSUME IInv, OwnerInv, NEW p \in Procs, Step(p) \/ Start(p)
  PROVE  OwnerInv'
<1>0. /\ Types /\ todo \in [Procs -> Seq(Steps)] /\ held \in [Procs -> Seq(Takes)]
      /\ mu \in Procs \cup {None} /\ lease \in Leases
  BY DEF IInv, Types
<1>1. mu # None => mu \in Procs /\ Contains(held[mu], Mutex)
  BY <1>0 DEF OwnerInv
<1>2. ASSUME Running(p), Take(p), Current(p).op = "take"
      PROVE  /\ todo'[p] = Tail(todo[p])
             /\ \A q \in Procs \ {p} : todo'[q] = todo[q] /\ held'[q] = held[q]
             /\ \A q \in Procs : \A x : Contains(held[q], x) => Contains(held'[q], x)
             /\ Contains(held'[p], Current(p))
  <2>1. /\ todo' = [todo EXCEPT ![p] = Tail(@)]
        /\ held'[p] = Append(held[p], Current(p)) /\ Current(p) \in Takes
        /\ \A q \in Procs \ {p} : held'[q] = held[q]
    BY <1>2, TakeEffect
  <2>2. \A x : Contains(held'[p], x) <=> Contains(held[p], x) \/ x = Current(p)
    BY <1>0, <2>1, OneAdded
  <2> QED  BY <1>0, <2>1, <2>2
<1>3. \A r, q : Read(r) # Write(q) /\ Mutex # Read(r) /\ Mutex # Write(r)
  BY StepFields DEF Mutex, step
<1>4. CASE RLockLease(p)
  <2> DEFINE r == Current(p).res
  <2>1. Running(p) /\ Current(p) = Read(r) /\ r \in Resources /\ Current(p).op = "take" /\ mu' = mu
    BY <1>0, <1>4, LeaseOf DEF RLockLease
  <2> HIDE DEF r
  <2>2. \A x \in Resources : Current(p) = Read(x) => x = r
    BY <2>1, StepFields
  <2>3. CASE lease[r].writer # None /\ p \notin lease[r].blocked \cup lease[r].admitted
             /\ lease' = [lease EXCEPT ![r].blocked = @ \cup {p}] /\ UNCHANGED <<todo, held>>
    <3>1. \A x \in Resources :
            /\ lease'[x].writer = lease[x].writer /\ lease'[x].admitted = lease[x].admitted
            /\ lease'[x].blocked = IF x = r THEN lease[x].blocked \cup {p} ELSE lease[x].blocked
      BY <1>0, <2>1, <2>3 DEF Leases
    <3>2. \A q : (Running(q) <=> Running(q)') /\ Current(q)' = Current(q)
      BY <2>3 DEF Running, Current
    <3> QED  BY <1>0, <2>1, <2>3, <3>1, <3>2 DEF OwnerInv, Leases
  <2>4. CASE Take(p) /\ lease' = lease /\ lease[r].writer = None /\ p \notin lease[r].admitted
    <3>1. \A x \in Resources : p \notin lease[x].blocked \cup lease[x].admitted
      BY <1>0, <2>1, <2>2, <2>4 DEF OwnerInv
    <3>2. \A q \in Procs \ {p} : (Running(q) <=> Running(q)') /\ Current(q)' = Current(q)
      BY <1>2, <2>1, <2>4 DEF Running, Current
    <3>3. \A q \in Procs : \A x : Contains(held[q], x) => Contains(held'[q], x)
      BY <1>2, <2>1, <2>4
    <3>4. \A x \in Resources : Current(p) # Write(x)
      BY <1>3, <2>1
    <3> QED  BY <1>0, <2>1, <2>4, <3>1, <3>2, <3>3, <3>4 DEF OwnerInv, Leases
  <2>5. CASE Take(p) /\ p \in lease[r].admitted /\ lease' = [lease EXCEPT ![r].admitted = @ \ {p}]
    <3>1. \A x \in Resources :
            /\ lease'[x].writer = lease[x].writer /\ lease'[x].blocked = lease[x].blocked
            /\ lease'[x].admitted = IF x = r THEN lease[x].admitted \ {p} ELSE lease[x].admitted
      BY <1>0, <2>1, <2>5 DEF Leases
    <3>2. \A x \in Resources : p \notin lease'[x].blocked \cup lease'[x].admitted
      <4>1. \A x \in Resources : p \in lease[x].blocked \cup lease[x].admitted => x = r
        BY <2>2 DEF OwnerInv
      <4>2. p \notin lease[r].blocked
        BY <2>1, <2>5 DEF OwnerInv
      <4> QED  BY <2>1, <3>1, <4>1, <4>2
    <3>3. \A q \in Procs \ {p} : (Running(q) <=> Running(q)') /\ Current(q)' = Current(q)
      BY <1>2, <2>1, <2>5 DEF Running, Current
    <3>4. \A q \in Procs : \A x : Contains(held[q], x) => Contains(held'[q], x)
      BY <1>2, <2>1, <2>5
    <3>5. \A x \in Resources : Current(p) # Write(x)
      BY <1>3, <2>1
    <3>6. ASSUME NEW x \in Resources
          PROVE  /\ lease[x].writer \in Procs \cup {None}
                 /\ lease[x].writer # None =>
                      \/ Contains(held[lease[x].writer], Write(x))
                      \/ Running(lease[x].writer) /\ Current(lease[x].writer) = Write(x)
                 /\ \A q \in lease[x].blocked \cup lease[x].admitted : q \in Procs /\ Running(q) /\ Current(q) = Read(x)
                 /\ lease[x].blocked \cap lease[x].admitted = {}
                 /\ lease[x].writer = None => lease[x].blocked = {}
      BY <1>0 DEF OwnerInv, Leases
    <3>7. ASSUME NEW x \in Resources
          PROVE  /\ \A w \in Procs : w = lease'[x].writer =>
                      Contains(held'[w], Write(x)) \/ (Running(w)' /\ Current(w)' = Write(x))
                 /\ lease'[x].writer \in Procs \cup {None}
                 /\ lease'[x].blocked \cap lease'[x].admitted = {}
                 /\ lease'[x].writer = None => lease'[x].blocked = {}
      <4>1. /\ lease'[x].writer = lease[x].writer /\ lease'[x].blocked = lease[x].blocked
            /\ lease'[x].admitted \subseteq lease[x].admitted
        BY <3>1
      <4>2. ASSUME NEW w \in Procs, w = lease'[x].writer
            PROVE  Contains(held'[w], Write(x)) \/ (Running(w)' /\ Current(w)' = Write(x))
        <5>1. Contains(held[w], Write(x)) \/ (Running(w) /\ Current(w) = Write(x))
          BY <3>6, <4>1, <4>2, NoneAssumption
        <5> QED  BY <3>3, <3>4, <3>5, <5>1
      <4> QED  BY <3>6, <4>1, <4>2
    <3>8. ASSUME NEW x \in Resources, NEW q \in lease'[x].blocked \cup lease'[x].admitted
          PROVE  Running(q)' /\ Current(q)' = Read(x)
      <4>1. q # p /\ q \in lease[x].blocked \cup lease[x].admitted
        BY <3>1, <3>2, <3>8
      <4> QED  BY <3>3, <3>6, <4>1
    <3>9. mu' # None => Contains(held'[mu'], Mutex)
      BY <1>1, <2>1, <3>4
    <3> QED  BY <3>7, <3>8, <3>9 DEF OwnerInv, Running, Current
  <2> QED  BY <1>4, <2>3, <2>4, <2>5 DEF RLockLease, r
<1>5. CASE LockLease(p)
  <2> DEFINE r == Current(p).res
  <2>1. Running(p) /\ Current(p) = Write(r) /\ r \in Resources /\ Current(p).op = "take" /\ mu' = mu
    BY <1>0, <1>5, LeaseOf DEF LockLease
  <2> HIDE DEF r
  <2>2. \A x \in Resources : p \notin lease[x].blocked \cup lease[x].admitted
    BY <1>3, <2>1 DEF OwnerInv
  <2>3. CASE lease[r].writer = None /\ lease' = [lease EXCEPT ![r].writer = p] /\ UNCHANGED <<todo, held>>
    <3>1. \A x \in Resources :
            /\ lease'[x].writer = (IF x = r THEN p ELSE lease[x].writer)
            /\ lease'[x].admitted = lease[x].admitted /\ lease'[x].blocked = lease[x].blocked
      BY <1>0, <2>1, <2>3 DEF Leases
    <3>2. \A q : (Running(q) <=> Running(q)') /\ Current(q)' = Current(q)
      BY <2>3 DEF Running, Current
    <3> QED  BY <1>0, <2>1, <2>3, <3>1, <3>2, NoneAssumption DEF OwnerInv, Leases
  <2>4. CASE Take(p) /\ lease' = lease /\ lease[r].writer = p
    <3>1. \A q \in Procs \ {p} : (Running(q) <=> Running(q)') /\ Current(q)' = Current(q)
      BY <1>2, <2>1, <2>4 DEF Running, Current
    <3>2. /\ \A q \in Procs : \A x : Contains(held[q], x) => Contains(held'[q], x)
          /\ Contains(held'[p], Write(r))
      BY <1>2, <2>1, <2>4
    <3>3. \A x \in Resources : Current(p) = Write(x) => x = r
      BY <2>1, StepFields
    <3>4. ASSUME NEW x \in Resources
          PROVE  /\ lease[x].writer \in Procs \cup {None}
                 /\ lease[x].writer # None =>
                      \/ Contains(held[lease[x].writer], Write(x))
                      \/ Running(lease[x].writer) /\ Current(lease[x].writer) = Write(x)
                 /\ \A q \in lease[x].blocked \cup lease[x].admitted :
                      q \in Procs /\ q # p /\ Running(q) /\ Current(q) = Read(x)
                 /\ lease[x].blocked \cap lease[x].admitted = {}
                 /\ lease[x].writer = None => lease[x].blocked = {}
      BY <1>0, <2>2 DEF OwnerInv, Leases
    <3>5. ASSUME NEW x \in Resources, NEW w \in Procs, w = lease[x].writer
          PROVE  Contains(held'[w], Write(x)) \/ (Running(w)' /\ Current(w)' = Write(x))
      <4>1. Contains(held[w], Write(x)) \/ (Running(w) /\ Current(w) = Write(x))
        BY <3>4, <3>5, NoneAssumption
      <4>2. CASE w = p /\ ~Contains(held[p], Write(x))
        BY <3>2, <3>3, <4>1, <4>2
      <4>3. CASE w # p \/ Contains(held[p], Write(x))
        BY <3>1, <3>2, <4>1, <4>3
      <4> QED  BY <4>2, <4>3
    <3>6. mu' # None => Contains(held'[mu'], Mutex)
      BY <1>1, <2>1, <3>2
    <3> QED  BY <2>4, <3>1, <3>4, <3>5, <3>6 DEF OwnerInv, Running, Current
  <2> QED  BY <1>5, <2>3, <2>4 DEF LockLease, r
<1>6. CASE LockMutex(p)
  <2>1. Running(p) /\ Current(p) = Mutex /\ Take(p) /\ mu' = p /\ lease' = lease /\ Current(p).op = "take"
    BY <1>6, TakeFields DEF LockMutex
  <2> QED  BY <1>0, <1>2, <1>3, <2>1, OwnersKept
<1>7. CASE LockScope(p)
  <2>1. /\ Running(p) /\ Current(p).op = "take" /\ isScope(Current(p)) /\ mu' = mu /\ lease' = lease
        /\ Take(p) \/ UNCHANGED <<todo, held>>
    BY <1>7 DEF LockScope
  <2>2. \A r \in Resources : Current(p) # Read(r) /\ Current(p) # Write(r)
    BY <2>1, StepFields DEF isScope
  <2>3. CASE Take(p)
    BY <1>0, <1>1, <1>2, <2>1, <2>2, OwnersKept
  <2>4. CASE UNCHANGED <<todo, held>>
    BY <1>0, <1>1, <2>1, <2>4, OwnersKept
  <2> QED  BY <2>1, <2>3, <2>4
<1>8. ASSUME NEW s \in Takes, mu' = IF s.lock = "mutex" THEN None ELSE mu,
             \A q \in Procs \ {p} : held'[q] = held[q],
             \A x : x # s /\ Contains(held[p], x) => Contains(held'[p], x)
      PROVE  mu' # None => mu' \in Procs /\ Contains(held'[mu'], Mutex)
  <2>1. Mutex.lock = "mutex"
    BY DEF Mutex, step
  <2> QED  BY <1>1, <1>8, <2>1
<1>9. CASE DropStep(p)
  <2>1. PICK s \in ToSet(held[p]) : Current(p) = Drop(s) /\ free(p, s) /\ dropped(p, s)
    BY <1>9 DEF DropStep
  <2>2. PICK x \in Takes : /\ Current(p) = Drop(x) /\ held'[p] = RemoveFirst(held[p], x)
                           /\ \A q \in Procs \ {p} : held'[q] = held[q]
                           /\ lease' = lease /\ (\A r : x # Write(r))
    BY <1>9, DropEffect
  <2>3. s \in Takes
    <3>1. DOMAIN held[p] = 1..Len(held[p])
      BY <1>0, LenProperties
    <3> QED  BY <1>0, <3>1, ElementOfSeq DEF ToSet
  <2>4. s = x
    BY <2>1, <2>2, <2>3, DropFields
  <2>5. Running(p) /\ todo' = [todo EXCEPT ![p] = Tail(@)] /\ mu' = (IF s.lock = "mutex" THEN None ELSE mu)
    BY <1>9, <2>1 DEF DropStep, Advance, free
  <2>6. \A y : y # s /\ Contains(held[p], y) => Contains(held'[p], y)
    BY <1>0, <2>2, <2>4, OneRemoved
  <2>7. mu' # None => mu' \in Procs /\ Contains(held'[mu'], Mutex)
    BY <1>8, <2>2, <2>3, <2>5, <2>6
  <2>8. Current(p).op = "drop" /\ \A r \in Resources : Current(p) # Read(r) /\ Current(p) # Write(r)
    BY <2>2, TakeFields
  <2> QED  BY <1>0, <2>2, <2>4, <2>5, <2>6, <2>7, <2>8, OwnersKept
<1>10. CASE CheckStep(p) \/ WorkStep(p) \/ EraseStep(p) \/ JournalStep(p)
  <2>1. /\ Running(p) /\ Current(p).op # "take" /\ mu' = mu /\ lease' = lease /\ held' = held
        /\ \A q \in Procs \ {p} : todo'[q] = todo[q]
    BY <1>0, <1>10 DEF CheckStep, WorkStep, EraseStep, JournalStep, Advance
  <2>2. \A r \in Resources : Current(p) # Read(r) /\ Current(p) # Write(r)
    BY <2>1, TakeFields
  <2> QED  BY <1>0, <1>1, <2>1, <2>2, OwnersKept
<1>11. CASE Return(p)
  <2> DEFINE s == Last(held[p])
  <2>1. /\ s \in Takes /\ held'[p] = Front(held[p]) /\ (\A q \in Procs \ {p} : held'[q] = held[q])
        /\ todo' = todo
        /\ \/ lease' = lease /\ \A r : s # Write(r)
           \/ \E r \in Resources :
                /\ s = Write(r)
                /\ lease' = [lease EXCEPT ![r] = [writer |-> None, blocked |-> {},
                                                  admitted |-> @.admitted \cup @.blocked]]
    <3> HIDE DEF s
    <3>1. PICK x \in Takes :
            /\ x = Last(held[p]) /\ held'[p] = Front(held[p]) /\ (\A q \in Procs \ {p} : held'[q] = held[q])
            /\ todo' = todo
            /\ \/ lease' = lease /\ \A r : x # Write(r)
               \/ \E r \in Resources :
                    /\ x = Write(r)
                    /\ lease' = [lease EXCEPT ![r] = [writer |-> None, blocked |-> {},
                                                      admitted |-> @.admitted \cup @.blocked]]
      BY <1>11, ReturnEffect
    <3>2. s = x
      BY <3>1 DEF s
    <3> QED  BY <3>1, <3>2
  <2>2. /\ mu' = (IF s.lock = "mutex" THEN None ELSE mu) /\ held[p] # << >> /\ held[p] \in Seq(Takes)
        /\ ~Running(p)
    BY <1>0, <1>11 DEF Return, free, Running
  <2> HIDE DEF s
  <2>3. \A x : x # s /\ Contains(held[p], x) => Contains(held'[p], x)
    BY <2>1, <2>2, FrontKeeps DEF s
  <2>4. mu' # None => mu' \in Procs /\ Contains(held'[mu'], Mutex)
    BY <1>8, <2>1, <2>2, <2>3
  <2>5. CASE lease' = lease /\ \A r : s # Write(r)
    BY <1>0, <2>1, <2>3, <2>4, <2>5, OwnersKept
  <2>6. ASSUME NEW r \in Resources, s = Write(r),
               lease' = [lease EXCEPT ![r] = [writer |-> None, blocked |-> {},
                                              admitted |-> @.admitted \cup @.blocked]]
        PROVE  OwnerInv'
    <3>1. \A x \in Resources :
            /\ lease'[x].writer = (IF x = r THEN None ELSE lease[x].writer)
            /\ lease'[x].blocked = (IF x = r THEN {} ELSE lease[x].blocked)
            /\ lease'[x].admitted = IF x = r THEN lease[r].admitted \cup lease[r].blocked ELSE lease[x].admitted
      BY <1>0, <2>6 DEF Leases
    <3>2. \A q : (Running(q) <=> Running(q)') /\ Current(q)' = Current(q)
      BY <2>1 DEF Running, Current
    <3>3. \A q \in Procs, x \in Resources :
            x # r /\ Contains(held[q], Write(x)) => Contains(held'[q], Write(x))
      BY <2>1, <2>3, <2>6, StepFields
    <3> QED  BY <1>0, <2>1, <2>4, <3>1, <3>2, <3>3 DEF OwnerInv, Leases
  <2> QED  BY <2>1, <2>5, <2>6
<1>12. CASE Start(p)
  <2>1. /\ ~Running(p) /\ mu' = mu /\ lease' = lease /\ held' = held
        /\ \A q \in Procs \ {p} : todo'[q] = todo[q]
    BY <1>0, <1>12 DEF Start, Running
  <2> QED  BY <1>0, <1>1, <2>1, OwnersKept
<1> QED  BY <1>4, <1>5, <1>6, <1>7, <1>9, <1>10, <1>11, <1>12 DEF Step

\* The lock that a sequence names once is found where it is.
LEMMA OnlyPlace ==
  ASSUME NEW S, NEW s \in Seq(S), NEW e, Once(s, e), NEW i \in 1..Len(s), s[i] = e
  PROVE  RemoveAt(s, i) = RemoveFirst(s, e)
<1> DEFINE I == {j \in 1..Len(s) : s[j] = e}
<1>1. Min(I) \in I
  <2>1. I # {} /\ I \subseteq Nat
    OBVIOUS
  <2> QED  BY <2>1, LeastNumber
<1>2. Min(I) = i
  BY <1>1 DEF Once
<1>3. RemoveFirst(s, e) = RemoveAt(s, Min(I))
  BY DEF RemoveFirst, SelectInSeq
<1> QED  BY <1>2, <1>3

LEMMA ScopeFields ==
  \A s \in Takes : /\ s.keys \in SUBSET Keys /\ s.write \in BOOLEAN
                   /\ Asked(s) \in [keys : SUBSET Keys, write : BOOLEAN]
<1>1. ASSUME NEW s \in Takes  PROVE s.keys \in SUBSET Keys /\ s.write \in BOOLEAN
  <2>1. \/ \E r \in Resources : s = Read(r) \/ s = Write(r)
        \/ s = Mutex \/ \E K \in SUBSET Keys : s = RLock(K) \/ s = Lock(K)
    BY DEF Takes
  <2>2. \A r, K : /\ Read(r).keys = {} /\ Write(r).keys = {} /\ Mutex.keys = {}
                  /\ RLock(K).keys = K /\ Lock(K).keys = K
                  /\ {Read(r).write, Write(r).write, Mutex.write, RLock(K).write, Lock(K).write} \subseteq BOOLEAN
    BY DEF step, Read, Write, Mutex, RLock, Lock
  <2> QED  BY <2>1, <2>2
<1> QED  BY <1>1 DEF Asked

\* A step that leaves the lock manager alone keeps what it knows, if it takes
\* no scope and gives none back.
LEMMA CallsKept ==
  ASSUME CallInv, UNCHANGED <<entries, waiters, req, pc>>, NEW p \in Procs,
         \A q \in Procs \ {p} : todo'[q] = todo[q] /\ held'[q] = held[q],
         todo'[p] = todo[p] \/ ~(Taking(p) /\ isScope(Current(p))),
         \A s \in Takes : isScope(s) /\ Contains(held[p], s) => Contains(held'[p], s)
  PROVE  CallInv'
<1>1. QueueOk'
  <2>1. QueueOk
    BY DEF CallInv
  <2> QED  BY <2>1 DEF QueueOk, Waiting
<1>2. ASSUME NEW q \in Procs, NEW k \in Kinds  PROVE CallOk(q, k)'
  <2>1. CallOk(q, k)
    BY DEF CallInv
  <2>2. pc' = pc /\ req' = req
    OBVIOUS
  <2>3. \A s \in Takes : isScope(s) /\ Contains(held[q], s) => Contains(held'[q], s)
    OBVIOUS
  <2>4. Taking(q) /\ isScope(Current(q)) => todo'[q] = todo[q]
    OBVIOUS
  <2>5. todo'[q] = todo[q] => Current(q)' = Current(q) /\ (Taking(q) => Taking(q)')
    BY DEF Taking, Running, Current
  <2> QED  BY <2>1, <2>2, <2>3, <2>4, <2>5 DEF CallOk, Waiting
<1> QED  BY <1>1, <1>2 DEF CallInv

\* Giving a scope back wakes the waiting and changes nothing else.
LEMMA CallReleased ==
  ASSUME CallInv, NEW p \in Procs, NEW s \in Takes, isScope(s), Scopes!Release(<<p, kind(s)>>),
         \A q \in Procs \ {p} : todo'[q] = todo[q] /\ held'[q] = held[q],
         ~(Taking(p) /\ isScope(Current(p))),
         \A x \in Takes : x # s /\ Contains(held[p], x) => Contains(held'[p], x)
  PROVE  CallInv'
<1> DEFINE c == <<p, kind(s)>>
<1>1. c \in Calls /\ QueueOk
  BY RankOfLock DEF CallInv, Calls
<1>2. /\ pc[c] = "held" /\ waiters' = waiters
      /\ req' = [req EXCEPT ![c] = Scopes!NoRequest]
      /\ pc' = [d \in Calls |-> CASE d = c -> "idle" [] pc[d] = "asleep" -> "awake" [] OTHER -> pc[d]]
  BY DEF Scopes!Release, Scopes!broadcast
<1> HIDE DEF c
<1>3. \A d \in Calls : /\ pc'[d] \in {"idle", "asleep", "awake", "held"}
                       /\ Waiting(d)' <=> Waiting(d)
                       /\ pc'[d] = "held" <=> pc[d] = "held" /\ d # c
                       /\ d # c => req'[d] = req[d]
  BY <1>1, <1>2 DEF QueueOk, Waiting
<1>4. QueueOk'
  <2>1. Scopes!NoRequest \in [keys : SUBSET Keys, write : BOOLEAN]
    BY DEF Scopes!NoRequest
  <2>2. req' \in [Calls -> [keys : SUBSET Keys, write : BOOLEAN]]
    BY <1>1, <1>2, <2>1 DEF QueueOk
  <2>3. pc' \in [Calls -> {"idle", "asleep", "awake", "held"}]
    BY <1>2, <1>3
  <2> QED  BY <1>1, <1>2, <1>3, <2>2, <2>3 DEF QueueOk
<1>5. ASSUME NEW q \in Procs, NEW k \in Kinds  PROVE CallOk(q, k)'
  <2> DEFINE d == <<q, k>>
  <2>1. d \in Calls /\ CallOk(q, k)
    BY DEF CallInv, Calls
  <2>2. /\ Waiting(d)' <=> Waiting(d)
        /\ pc'[d] = "held" <=> pc[d] = "held" /\ d # c
        /\ d # c => req'[d] = req[d]
    BY <1>3, <2>1
  <2>3. ASSUME Waiting(d)'  PROVE /\ Taking(q)' /\ isScope(Current(q))' /\ kind(Current(q))' = k
                                  /\ req'[d] = Asked(Current(q))'
    <3>1. /\ Taking(q) /\ isScope(Current(q)) /\ kind(Current(q)) = k /\ req[d] = Asked(Current(q))
          /\ d # c
      BY <1>2, <2>1, <2>2, <2>3 DEF CallOk, Waiting
    <3>2. q # p
      BY <3>1
    <3>3. Current(q)' = Current(q) /\ Taking(q)'
      BY <3>1, <3>2 DEF Taking, Running, Current
    <3> QED  BY <2>2, <3>1, <3>3
  <2>4. ASSUME pc'[d] = "held"
        PROVE  \E x \in Takes : Contains(held'[q], x) /\ isScope(x) /\ kind(x) = k /\ req'[d] = Asked(x)
    <3>1. PICK x \in Takes : Contains(held[q], x) /\ isScope(x) /\ kind(x) = k /\ req[d] = Asked(x)
      BY <2>1, <2>2, <2>4 DEF CallOk
    <3>2. d # c /\ req'[d] = req[d]
      BY <2>2, <2>4
    <3>3. q = p => x # s
      BY <3>1, <3>2 DEF c
    <3>4. Contains(held'[q], x)
      BY <3>1, <3>3
    <3> QED  BY <3>1, <3>2, <3>4
  <2> QED  BY <2>3, <2>4 DEF CallOk
<1> QED  BY <1>4, <1>5 DEF CallInv

\* Taking a scope, or waiting for it.
LEMMA CallTaken ==
  ASSUME IInv, CallInv, NEW p \in Procs, LockScope(p)
  PROVE  CallInv'
<1> DEFINE s == Current(p)
           c == call(p)
           r == [keys |-> Current(p).keys, write |-> Current(p).write]
<1>0. Types /\ QueueOk /\ held[p] \in Seq(Takes)
  BY DEF CallInv, IInv, Types
<1>1. /\ Running(p) /\ s.op = "take" /\ isScope(s) /\ Taking(p)
      /\ \/ (Scopes!AcquireAtOnce(c, r) \/ Scopes!AcquireAfterWait(c)) /\ Take(p)
         \/ (Scopes!EnqueueAndWait(c, r) \/ Scopes!WaitAgain(c)) /\ UNCHANGED <<todo, held>>
  BY DEF LockScope, Taking
<1>2. s \in Takes /\ r = Asked(s) /\ c = <<p, kind(s)>> /\ kind(s) \in Kinds /\ c \in Calls
  <2>1. s \in Takes
    BY <1>0, <1>1, Rest, StepKinds
  <2> QED  BY <1>1, <2>1, RankOfLock DEF Asked, call, Calls
<1>3. r \in [keys : SUBSET Keys, write : BOOLEAN]
  BY <1>2, ScopeFields
<1>4. \A k \in Kinds : Waiting(<<p, k>>) => <<p, k>> = c
  BY <1>2 DEF CallInv, CallOk
<1> HIDE DEF s, c, r
\* The calls of the others.
<1>5. ASSUME NEW q \in Procs \ {p}, NEW k \in Kinds, todo'[q] = todo[q], held'[q] = held[q],
             pc'[<<q, k>>] = pc[<<q, k>>], req'[<<q, k>>] = req[<<q, k>>]
      PROVE  CallOk(q, k)'
  <2>1. CallOk(q, k)
    BY DEF CallInv
  <2>2. Current(q)' = Current(q) /\ (Taking(q)' <=> Taking(q))
    BY <1>5 DEF Taking, Running, Current
  <2> QED  BY <1>5, <2>1, <2>2 DEF CallOk, Waiting
\* The other calls of p.
<1>6. ASSUME NEW k \in Kinds, <<p, k>> # c, pc'[<<p, k>>] = pc[<<p, k>>], req'[<<p, k>>] = req[<<p, k>>],
             \A x : Contains(held[p], x) => Contains(held'[p], x)
      PROVE  CallOk(p, k)'
  <2>1. CallOk(p, k) /\ ~Waiting(<<p, k>>)
    BY <1>4, <1>6 DEF CallInv
  <2> QED  BY <1>6, <2>1 DEF CallOk, Waiting
<1>8. CASE (Scopes!AcquireAtOnce(c, r) \/ Scopes!AcquireAfterWait(c)) /\ Take(p)
  <2>1. /\ todo' = [todo EXCEPT ![p] = Tail(@)]
        /\ held'[p] = Append(held[p], Current(p)) /\ Current(p) \in Takes
        /\ \A q \in Procs \ {p} : held'[q] = held[q]
    BY <1>1, <1>8, TakeEffect DEF s
  <2>2. \A x : Contains(held'[p], x) <=> Contains(held[p], x) \/ x = s
    BY <1>0, <2>1, OneAdded DEF s
  <2>3. \A q \in Procs \ {p} : todo'[q] = todo[q] /\ held'[q] = held[q]
    BY <1>0, <2>1 DEF Types
  <2>4. /\ pc' = [pc EXCEPT ![c] = "held"] /\ req'[c] = Asked(s)
        /\ \A d \in Calls : d # c => req'[d] = req[d]
        /\ req' \in [Calls -> [keys : SUBSET Keys, write : BOOLEAN]]
    <3>1. CASE Scopes!AcquireAtOnce(c, r)
      BY <1>0, <1>2, <1>3, <3>1 DEF Scopes!AcquireAtOnce, QueueOk
    <3>2. CASE Scopes!AcquireAfterWait(c)
      <4>1. pc[c] = "awake" /\ pc' = [pc EXCEPT ![c] = "held"] /\ req' = req
        BY <3>2 DEF Scopes!AcquireAfterWait
      <4>2. CallOk(p, kind(s))
        BY <1>2 DEF CallInv
      <4>3. req[c] = Asked(s)
        BY <1>2, <4>1, <4>2 DEF CallOk, Waiting, s
      <4> QED  BY <1>0, <4>1, <4>3 DEF QueueOk
    <3> QED  BY <1>8, <3>1, <3>2
  <2>5. /\ waiters' \in Seq(Calls) /\ \A d \in Calls : Once(waiters', d)
        /\ \A d \in Calls : Contains(waiters', d) <=> Contains(waiters, d) /\ d # c
    <3>1. CASE Scopes!AcquireAtOnce(c, r)
      <4>1. waiters' = waiters /\ pc[c] = "idle"
        BY <3>1 DEF Scopes!AcquireAtOnce
      <4>2. ~Contains(waiters, c)
        BY <1>0, <1>2, <4>1 DEF QueueOk, Waiting
      <4> QED  BY <1>0, <4>1, <4>2 DEF QueueOk
    <3>2. CASE Scopes!AcquireAfterWait(c)
      <4>1. PICK i \in 1..Len(waiters) : waiters[i] = c /\ waiters' = RemoveAt(waiters, i)
        BY <3>2 DEF Scopes!AcquireAfterWait, Scopes!RemoveAt, RemoveAt
      <4>2. waiters \in Seq(Calls) /\ \A d \in Calls : Once(waiters, d)
        BY <1>0 DEF QueueOk
      <4>3. waiters' = RemoveFirst(waiters, c)
        BY <1>2, <4>1, <4>2, OnlyPlace
      <4> QED  BY <1>2, <4>2, <4>3, OneRemoved
    <3> QED  BY <1>8, <3>1, <3>2
  <2>6. QueueOk'
    <3>1. pc' \in [Calls -> {"idle", "asleep", "awake", "held"}]
          /\ \A d \in Calls : (Waiting(d)' <=> Waiting(d) /\ d # c)
      BY <1>0, <1>2, <2>4 DEF QueueOk, Waiting
    <3> QED  BY <1>0, <2>4, <2>5, <3>1 DEF QueueOk
  <2>7. ASSUME NEW q \in Procs, NEW k \in Kinds  PROVE CallOk(q, k)'
    <3>1. <<q, k>> \in Calls /\ pc \in [Calls -> {"idle", "asleep", "awake", "held"}]
      BY <1>0 DEF Calls, QueueOk
    <3>2. CASE <<q, k>> = c
      <4>1. q = p /\ k = kind(s) /\ pc'[<<q, k>>] = "held" /\ req'[<<q, k>>] = Asked(s)
        BY <1>2, <2>4, <3>1, <3>2
      <4>2. Contains(held'[p], s)
        BY <2>2
      <4> QED  BY <1>1, <1>2, <4>1, <4>2 DEF CallOk, Waiting
    <3>3. CASE <<q, k>> # c
      <4>1. pc'[<<q, k>>] = pc[<<q, k>>] /\ req'[<<q, k>>] = req[<<q, k>>]
        BY <2>4, <3>1, <3>3
      <4>2. CASE q = p
        BY <1>6, <2>2, <3>3, <4>1, <4>2
      <4>3. CASE q # p
        BY <1>5, <2>3, <4>1, <4>3
      <4> QED  BY <4>2, <4>3
    <3> QED  BY <3>2, <3>3
  <2> QED  BY <2>6, <2>7 DEF CallInv
<1>9. CASE (Scopes!EnqueueAndWait(c, r) \/ Scopes!WaitAgain(c)) /\ UNCHANGED <<todo, held>>
  <2>1. /\ pc' = [pc EXCEPT ![c] = "asleep"] /\ req'[c] = Asked(s)
        /\ \A d \in Calls : d # c => req'[d] = req[d]
        /\ req' \in [Calls -> [keys : SUBSET Keys, write : BOOLEAN]]
    <3>1. CASE Scopes!EnqueueAndWait(c, r)
      BY <1>0, <1>2, <1>3, <3>1 DEF Scopes!EnqueueAndWait, QueueOk
    <3>2. CASE Scopes!WaitAgain(c)
      <4>1. pc[c] = "awake" /\ pc' = [pc EXCEPT ![c] = "asleep"] /\ req' = req
        BY <3>2 DEF Scopes!WaitAgain
      <4>2. CallOk(p, kind(s))
        BY <1>2 DEF CallInv
      <4>3. req[c] = Asked(s)
        BY <1>2, <4>1, <4>2 DEF CallOk, Waiting, s
      <4> QED  BY <1>0, <4>1, <4>3 DEF QueueOk
    <3> QED  BY <1>9, <3>1, <3>2
  <2>2. /\ waiters' \in Seq(Calls) /\ \A d \in Calls : Once(waiters', d)
        /\ \A d \in Calls : Contains(waiters', d) <=> Contains(waiters, d) \/ d = c
    <3>1. CASE Scopes!EnqueueAndWait(c, r)
      <4>1. waiters' = Append(waiters, c) /\ pc[c] = "idle"
        BY <3>1 DEF Scopes!EnqueueAndWait
      <4>2. waiters \in Seq(Calls) /\ ~Contains(waiters, c) /\ \A d \in Calls : Once(waiters, d)
        BY <1>0, <1>2, <4>1 DEF QueueOk, Waiting
      <4>3. /\ Append(waiters, c) \in Seq(Calls)
            /\ \A x : Contains(Append(waiters, c), x) <=> Contains(waiters, x) \/ x = c
            /\ \A x : ~Contains(waiters, x) => Once(Append(waiters, c), x)
            /\ \A x : x # c /\ Once(waiters, x) => Once(Append(waiters, c), x)
        BY <1>2, <4>2, OneAdded
      <4> QED  BY <4>1, <4>2, <4>3
    <3>2. CASE Scopes!WaitAgain(c)
      <4>1. waiters' = waiters /\ pc[c] = "awake"
        BY <3>2 DEF Scopes!WaitAgain
      <4>2. Contains(waiters, c)
        BY <1>0, <1>2, <4>1 DEF QueueOk, Waiting
      <4> QED  BY <1>0, <4>1, <4>2 DEF QueueOk
    <3> QED  BY <1>9, <3>1, <3>2
  <2>3. QueueOk'
    <3>1. pc' \in [Calls -> {"idle", "asleep", "awake", "held"}]
          /\ \A d \in Calls : (Waiting(d)' <=> Waiting(d) \/ d = c)
      BY <1>0, <1>2, <2>1 DEF QueueOk, Waiting
    <3> QED  BY <1>0, <2>1, <2>2, <3>1 DEF QueueOk
  <2>4. ASSUME NEW q \in Procs, NEW k \in Kinds  PROVE CallOk(q, k)'
    <3>1. <<q, k>> \in Calls /\ pc \in [Calls -> {"idle", "asleep", "awake", "held"}]
      BY <1>0 DEF Calls, QueueOk
    <3>2. CASE <<q, k>> = c
      <4>1. q = p /\ k = kind(s) /\ pc'[<<q, k>>] = "asleep" /\ req'[<<q, k>>] = Asked(s)
        BY <1>2, <2>1, <3>1, <3>2
      <4>2. Current(p)' = s /\ Taking(p)'
        BY <1>1, <1>9 DEF Taking, Running, Current, s
      <4> QED  BY <1>1, <4>1, <4>2 DEF CallOk, Waiting
    <3>3. CASE <<q, k>> # c
      <4>1. pc'[<<q, k>>] = pc[<<q, k>>] /\ req'[<<q, k>>] = req[<<q, k>>]
        BY <2>1, <3>1, <3>3
      <4>2. CASE q = p
        BY <1>6, <1>9, <3>3, <4>1, <4>2
      <4>3. CASE q # p
        BY <1>5, <1>9, <4>1, <4>3
      <4> QED  BY <4>2, <4>3
    <3> QED  BY <3>2, <3>3
  <2> QED  BY <2>3, <2>4 DEF CallInv
<1> QED  BY <1>1, <1>8, <1>9

\* Every step leaves the lock manager in agreement with the requests.
LEMMA CallStep ==
  ASSUME IInv, CallInv, OrderInv, NEW p \in Procs, Step(p) \/ Start(p)
  PROVE  CallInv'
<1>0. /\ Types /\ todo \in [Procs -> Seq(Steps)] /\ held \in [Procs -> Seq(Takes)]
  BY DEF IInv, Types
<1>1. ASSUME NEW s \in Takes, free(p, s), ~(Taking(p) /\ isScope(Current(p))),
             \A q \in Procs \ {p} : todo'[q] = todo[q] /\ held'[q] = held[q],
             \A x \in Takes : x # s /\ Contains(held[p], x) => Contains(held'[p], x)
      PROVE  CallInv'
  <2>1. CASE isScope(s)
    <3>1. Scopes!Release(<<p, kind(s)>>)
      BY <1>1, <2>1 DEF free
    <3> QED  BY <1>1, <2>1, <3>1, CallReleased
  <2>2. CASE ~isScope(s)
    <3>1. UNCHANGED <<entries, waiters, req, pc>>
      BY <1>1, <2>2 DEF free, scopeVars
    <3> QED  BY <1>1, <2>2, <3>1, CallsKept
  <2> QED  BY <2>1, <2>2
<1>2. ASSUME UNCHANGED scopeVars, ~(Taking(p) /\ isScope(Current(p))) \/ UNCHANGED todo,
             \A q \in Procs \ {p} : todo'[q] = todo[q] /\ held'[q] = held[q],
             \A x : Contains(held[p], x) => Contains(held'[p], x)
      PROVE  CallInv'
  BY <1>2, CallsKept DEF scopeVars
<1>3. CASE RLockLease(p) \/ LockLease(p) \/ LockMutex(p)
  <2>1. /\ Running(p) /\ Current(p).op = "take" /\ UNCHANGED scopeVars /\ ~isScope(Current(p))
        /\ Take(p) \/ UNCHANGED <<todo, held>>
    <3>1. CASE RLockLease(p) \/ LockLease(p)
      <4>1. Running(p) /\ Current(p) \in {Read(Current(p).res), Write(Current(p).res)}
        BY <3>1 DEF RLockLease, LockLease
      <4>2. Current(p).op = "take" /\ Current(p).lock = "lease"
        BY <1>0, <4>1, LeaseOf, StepFields
      <4> QED  BY <3>1, <4>1, <4>2 DEF RLockLease, LockLease, isScope
    <3>2. CASE LockMutex(p)
      <4>1. Mutex.op = "take" /\ Mutex.lock = "mutex"
        BY DEF Mutex, step
      <4> QED  BY <3>2, <4>1 DEF LockMutex, isScope
    <3> QED  BY <1>3, <3>1, <3>2
  <2>2. CASE Take(p)
    <3>1. /\ todo' = [todo EXCEPT ![p] = Tail(@)]
          /\ held'[p] = Append(held[p], Current(p)) /\ Current(p) \in Takes
          /\ \A q \in Procs \ {p} : held'[q] = held[q]
      BY <2>1, <2>2, TakeEffect
    <3>2. \A x : Contains(held[p], x) => Contains(held'[p], x)
      BY <1>0, <3>1, OneAdded
    <3> QED  BY <1>0, <1>2, <2>1, <3>1, <3>2
  <2>3. CASE UNCHANGED <<todo, held>>
    BY <1>2, <2>1, <2>3
  <2> QED  BY <2>1, <2>2, <2>3
<1>4. CASE LockScope(p)
  BY <1>4, CallTaken
<1>5. CASE DropStep(p)
  <2>1. PICK s \in ToSet(held[p]) : Current(p) = Drop(s) /\ free(p, s) /\ dropped(p, s)
    BY <1>5 DEF DropStep
  <2>2. s \in Takes
    <3>1. DOMAIN held[p] = 1..Len(held[p])
      BY <1>0, LenProperties
    <3> QED  BY <1>0, <3>1, ElementOfSeq DEF ToSet
  <2>3. held' = [held EXCEPT ![p] = RemoveFirst(@, s)] /\ todo' = [todo EXCEPT ![p] = Tail(@)]
    BY <1>5, <2>1 DEF DropStep, dropped, Advance
  <2>4. \A x : x # s /\ Contains(held[p], x) => Contains(held'[p], x)
    BY <1>0, <2>3, OneRemoved
  <2>5. Current(p).op = "drop"
    BY <2>1, <2>2, TakeFields
  <2> QED  BY <1>0, <1>1, <2>1, <2>2, <2>3, <2>4, <2>5 DEF Taking
<1>6. CASE CheckStep(p) \/ WorkStep(p) \/ EraseStep(p) \/ JournalStep(p)
  <2>1. /\ Current(p).op # "take" /\ UNCHANGED scopeVars /\ held' = held
        /\ \A q \in Procs \ {p} : todo'[q] = todo[q]
    BY <1>0, <1>6 DEF CheckStep, WorkStep, EraseStep, JournalStep, Advance
  <2> QED  BY <1>2, <2>1 DEF Taking
<1>7. CASE Return(p)
  <2>1. /\ held[p] # << >> /\ held[p] \in Seq(Takes) /\ todo' = todo /\ ~Taking(p)
        /\ free(p, Last(held[p])) /\ held' = [held EXCEPT ![p] = Front(@)]
    BY <1>0, <1>7 DEF Return, Taking, Running
  <2>2. Last(held[p]) \in Takes
    BY <2>1, LastRemoved
  <2>3. \A x : x # Last(held[p]) /\ Contains(held[p], x) => Contains(Front(held[p]), x)
    BY <2>1, FrontKeeps
  <2> QED  BY <1>0, <1>1, <2>1, <2>2, <2>3
<1>8. CASE Start(p)
  <2>1. /\ ~Taking(p) /\ UNCHANGED scopeVars /\ held' = held
        /\ \A q \in Procs \ {p} : todo'[q] = todo[q]
    BY <1>0, <1>8 DEF Start, Taking, Running
  <2> QED  BY <1>2, <2>1
<1> QED  BY <1>3, <1>4, <1>5, <1>6, <1>7, <1>8 DEF Step

LEMMA CircleStarts == ASSUME Init  PROVE CircleInv
<1> DEFINE e == << >>
<1>1. /\ todo = [p \in Procs |-> e] /\ held = [p \in Procs |-> e] /\ mu = None
      /\ lease = [r \in Resources |-> [writer |-> None, blocked |-> {}, admitted |-> {}]]
  BY DEF Init
<1>2. InOrder(e) /\ \A x : Once(e, x) /\ ~Contains(e, x)
  BY DEF InOrder, Once, Contains
<1>3. e \in Seq(Calls)
  BY EmptySeq
<1> HIDE DEF e
<1>4. OrderInv
  BY <1>1, <1>2 DEF OrderInv, Orderly
<1>5. OwnerInv
  BY <1>1 DEF OwnerInv
<1>6. /\ pc = [c \in Calls |-> "idle"] /\ waiters = e
      /\ req \in [Calls -> [keys : SUBSET Keys, write : BOOLEAN]]
  BY DEF Init, Scopes!Init, Scopes!NoRequest, e
<1>7. QueueOk
  BY <1>2, <1>3, <1>6 DEF QueueOk, Waiting
<1>8. \A p \in Procs, k \in Kinds : CallOk(p, k)
  BY <1>6 DEF CallOk, Waiting, Calls
<1> QED  BY <1>4, <1>5, <1>7, <1>8 DEF CircleInv, CallInv

\* Requests that take their locks in one order keep the invariant.
LEMMA CircleInvariant == ASSUME Ordered  PROVE Spec => [](IInv /\ CircleInv)
<1>1. Init => IInv /\ CircleInv
  BY InitInv, CircleStarts
<1>2. IInv /\ CircleInv /\ [Next]_vars => IInv' /\ CircleInv'
  <2> SUFFICES ASSUME IInv, CircleInv, [Next]_vars  PROVE IInv' /\ CircleInv'
    OBVIOUS
  <2>1. IInv'
    BY TypesStep, ProgramStep, HeldStep, JournalKept DEF IInv
  <2>2. CASE UNCHANGED vars
    <3>1. /\ todo' = todo /\ held' = held /\ mu' = mu /\ lease' = lease
          /\ pc' = pc /\ req' = req /\ waiters' = waiters
      BY <2>2 DEF vars, state, scopeVars
    <3>2. OrderInv'
      BY <3>1 DEF CircleInv, OrderInv
    <3>3. OwnerInv'
      BY <3>1 DEF CircleInv, OwnerInv, Running, Current
    <3>4. QueueOk'
      BY <3>1 DEF CircleInv, CallInv, QueueOk, Waiting
    <3>5. ASSUME NEW p \in Procs, NEW k \in Kinds  PROVE CallOk(p, k)'
      <4>1. CallOk(p, k)
        BY DEF CircleInv, CallInv
      <4> QED  BY <3>1, <4>1 DEF CallOk, Waiting, Taking, Running, Current
    <3> QED  BY <2>1, <3>2, <3>3, <3>4, <3>5 DEF CircleInv, CallInv
  <2>3. CASE Next
    <3>1. PICK p \in Procs : Step(p) \/ Start(p)
      BY <2>3 DEF Next
    <3>2. roster \in Rosters /\ OrderInv /\ CallInv /\ OwnerInv
      BY DEF IInv, Types, CircleInv
    <3>3. OrderInv'
      BY <3>1, <3>2, OrderStep
    <3>4. CallInv'
      BY <3>1, <3>2, CallStep
    <3>5. OwnerInv'
      BY <3>1, <3>2, OwnerStep
    <3> QED  BY <2>1, <3>3, <3>4, <3>5 DEF CircleInv
  <2> QED  BY <2>1, <2>2, <2>3
<1> QED  BY <1>1, <1>2, PTL DEF Spec

\* Scopes that get in each other's way are of one kind.
LEMMA SameKind ==
  ASSUME NEW s, NEW t, OneKind(s), OneKind(t), Scopes!waiterConflicts(Asked(s), Asked(t))
  PROVE  kind(s) = kind(t)
<1>1. PICK k \in s.keys, l \in t.keys : Scopes!keysConflict(k, l)
  BY DEF Scopes!waiterConflicts, Asked
<1>2. kindOf(k) = kindOf(l)
  BY <1>1 DEF Scopes!keysConflict, kindOf
<1>3. kind(s) = kindOf(k) /\ kind(t) = kindOf(l)
  BY <1>1 DEF kind, OneKind
<1> QED  BY <1>2, <1>3

\* How far a waiting request has come, and its place among those that have come
\* as far: its place in the queue, or behind the announced writer.
reach(p) == rank(Current(p))
inQueue(c) == {i \in 1..Len(waiters) : waiters[i] = c}
place(p) ==
  IF isScope(Current(p)) THEN Min(inQueue(call(p)))
  ELSE IF Current(p).write /\ lease[Current(p).res].writer = p THEN 1 ELSE 2

\* Whom a waiting request waits for has come further, if it waits as well, or
\* as far at an earlier place.
LEMMA WaitsForFurther ==
  ASSUME IInv, CircleInv,
         NEW p \in Procs, NEW q \in WaitsFor(p), q \in Procs, WaitsFor(q) # {}
  PROVE  /\ Taking(p) /\ Taking(q) /\ reach(p) \in 1..(Len(Order) + 5) /\ place(p) \in Nat
         /\ reach(p) < reach(q) \/ (reach(p) = reach(q) /\ place(q) < place(p))
<1>0. /\ Types /\ OrderInv /\ CallInv /\ OwnerInv /\ todo \in [Procs -> Seq(Steps)]
      /\ held \in [Procs -> Seq(Takes)] /\ lease \in Leases
  BY DEF IInv, Types, CircleInv
<1>1. \A x \in Procs : WaitsFor(x) # {} => Taking(x) /\ Current(x) \in Takes
  <2> SUFFICES ASSUME NEW x \in Procs, WaitsFor(x) # {}  PROVE Taking(x) /\ Current(x) \in Takes
    OBVIOUS
  <2>1. Running(x)
    BY DEF WaitsFor
  <2>2. Current(x).op = "take"
    BY <2>1 DEF WaitsFor
  <2>3. Current(x) \in Steps
    BY <1>0, <2>1, Rest
  <2> QED  BY <2>1, <2>2, <2>3, StepKinds DEF Taking
<1>2. Taking(p) /\ Current(p) \in Takes /\ Taking(q) /\ Current(q) \in Takes
  BY <1>1
<1>3. reach(p) \in 1..(Len(Order) + 5) /\ reach(q) \in 1..(Len(Order) + 5) /\ Len(Order) \in Nat
  BY <1>2, RankOfLock DEF reach
\* What q holds ranks below what it waits for.
<1>4. \A x \in Takes : Contains(held[q], x) => OneKind(x) /\ rank(x) < reach(q)
  <2> DEFINE t == todo[q]
  <2>1. t \in Seq(Steps) /\ t # << >> /\ InOrder(t) /\ Head(t) = Current(q) /\ Head(t).op = "take"
    BY <1>0, <1>2 DEF OrderInv, Orderly, Taking, Running, Current
  <2>2. \A x \in Takes : Contains(held[q], x) => OneKind(x) /\ Ahead(x, t)
    BY <1>0 DEF OrderInv, Orderly
  <2> HIDE DEF t
  <2>3. \A x : Ahead(x, t) /\ Head(t).op = "take" => rank(x) < rank(Head(t))
    BY <2>1, OrderAfter
  <2> QED  BY <2>1, <2>2, <2>3 DEF reach
<1>5. \A x \in {p, q} : OneKind(Current(x))
  <2> SUFFICES ASSUME NEW x \in {p, q}  PROVE OneKind(Current(x))
    OBVIOUS
  <2> DEFINE t == todo[x]
  <2>1. t \in Seq(Steps) /\ t # << >> /\ InOrder(t) /\ Head(t) = Current(x) /\ Head(t).op = "take"
    BY <1>0, <1>2 DEF OrderInv, Orderly, Taking, Running, Current
  <2> HIDE DEF t
  <2> QED  BY <2>1, OrderAfter
<1>6. Current(p).lock \in {"lease", "mutex", "scope"} /\ (Current(p).lock = "lease" => Current(p).res \in Resources)
  <2>1. \/ \E r \in Resources : Current(p) = Read(r) \/ Current(p) = Write(r)
        \/ Current(p) = Mutex \/ \E K \in SUBSET Keys : Current(p) = RLock(K) \/ Current(p) = Lock(K)
    BY <1>2 DEF Takes
  <2>2. \A r, K : Mutex.lock = "mutex" /\ RLock(K).lock = "scope" /\ Lock(K).lock = "scope"
    BY DEF step, Mutex, RLock, Lock
  <2> QED  BY <2>1, <2>2, StepFields
<1>7. CASE Current(p).lock = "mutex"
  <2>1. q = mu /\ mu # None
    BY <1>2, <1>7 DEF WaitsFor, Taking
  <2>2. Contains(held[q], Mutex) /\ Mutex \in Takes
    BY <1>0, <2>1, TakeFields DEF OwnerInv
  <2>3. rank(Mutex) = Len(Order) + 1 /\ rank(Current(p)) = Len(Order) + 1
    BY <1>7 DEF rank, Mutex, step
  <2>4. reach(p) < reach(q)
    BY <1>4, <2>2, <2>3 DEF reach
  <2>5. place(p) \in Nat
    BY <1>7 DEF place, isScope
  <2> QED  BY <1>2, <1>3, <2>4, <2>5
<1>8. CASE Current(p).lock = "lease"
  <2> DEFINE r == Current(p).res
  <2>1. r \in Resources /\ (Current(p) = Read(r) \/ Current(p) = Write(r))
    BY <1>2, <1>8, LeaseFields, StepFields
  <2>2. place(p) = (IF Current(p).write /\ lease[r].writer = p THEN 1 ELSE 2)
    BY <1>8 DEF place, isScope
  <2> HIDE DEF r
  <2>3. rank(Read(r)) = rank(Write(r)) /\ reach(p) = rank(Read(r))
    BY <2>1, RankOfLock DEF reach
  <2>4. \A x \in {Read(r), Write(r)} : Contains(held[q], x) => reach(p) < reach(q)
    BY <1>4, <2>1, <2>3, TakeFields
  <2>5. ASSUME q = lease[r].writer, ~(Current(p).write /\ lease[r].writer = p)
        PROVE  reach(p) < reach(q) \/ (reach(p) = reach(q) /\ place(q) < place(p))
    <3>1. CASE Contains(held[q], Write(r))
      BY <2>4, <3>1
    <3>2. CASE Current(q) = Write(r)
      <4>1. Write(r).write /\ Write(r).res = r /\ ~isScope(Write(r))
        BY StepFields DEF isScope
      <4>2. place(q) = 1 /\ place(p) = 2
        BY <2>2, <2>5, <3>2, <4>1 DEF place
      <4>3. reach(q) = reach(p)
        BY <2>3, <3>2 DEF reach
      <4> QED  BY <4>2, <4>3
    <3> QED  BY <1>0, <2>1, <2>5, <3>1, <3>2, NoneAssumption DEF OwnerInv
  <2>6. CASE Current(p) = Read(r)
    <3>1. ~Current(p).write
      BY <2>6, StepFields
    <3>2. q = lease[r].writer
      BY <1>2, <1>8, <3>1 DEF WaitsFor, Taking, r
    <3> QED  BY <1>2, <1>3, <2>2, <2>5, <3>1, <3>2
  <2>7. CASE Current(p) = Write(r)
    <3>1. Current(p).write
      BY <2>7, StepFields
    <3>2. CASE lease[r].writer # p
      <4>1. q = lease[r].writer
        BY <1>2, <1>8, <3>1, <3>2 DEF WaitsFor, Taking, r
      <4> QED  BY <1>2, <1>3, <2>2, <2>5, <3>2, <4>1
    <3>3. CASE lease[r].writer = p
      <4>1. q \in Readers(r)
        BY <1>2, <1>8, <3>1, <3>3 DEF WaitsFor, Taking, r
      <4>2. q \notin lease[r].admitted
        <5> SUFFICES ASSUME q \in lease[r].admitted  PROVE FALSE
          OBVIOUS
        <5>1. Current(q) = Read(r) /\ q \notin lease[r].blocked
          BY <1>0, <2>1 DEF OwnerInv
        <5>2. WaitsFor(q) = {}
          BY <5>1, StepFields DEF WaitsFor
        <5> QED  BY <5>2
      <4>3. Contains(held[q], Read(r))
        BY <4>1, <4>2 DEF Readers
      <4> QED  BY <1>2, <1>3, <2>2, <2>4, <4>3
    <3> QED  BY <3>2, <3>3
  <2> QED  BY <2>1, <2>6, <2>7
<1>9. CASE Current(p).lock = "scope"
  <2>1. /\ isScope(Current(p)) /\ pc[call(p)] = "asleep"
        /\ \E c \in Calls : /\ q = c[1]
                            /\ Scopes!Holds(c) \/ c \in Scopes!EarlierWaiters(call(p))
                            /\ Scopes!waiterConflicts(req[call(p)], req[c])
    BY <1>2, <1>9 DEF WaitsFor, Taking, isScope
  <2>2. PICK c \in Calls : /\ q = c[1]
                           /\ Scopes!Holds(c) \/ c \in Scopes!EarlierWaiters(call(p))
                           /\ Scopes!waiterConflicts(req[call(p)], req[c])
    BY <2>1
  <2>3. call(p) \in Calls /\ call(p) = <<p, kind(Current(p))>> /\ rank(Current(p)) = Len(Order) + 1 + kind(Current(p))
    BY <1>2, <2>1, RankOfLock DEF call, Calls
  <2>4. PICK k \in Kinds : c = <<q, k>>
    BY <2>2 DEF Calls
  <2>5. req[call(p)] = Asked(Current(p)) /\ Contains(waiters, call(p))
    <3>1. CallOk(p, kind(Current(p))) /\ QueueOk
      BY <1>0, <1>2, <2>1, RankOfLock DEF CallInv
    <3> QED  BY <2>1, <2>3, <3>1 DEF CallOk, QueueOk, Waiting
  <2>6. inQueue(call(p)) \in SUBSET Nat /\ inQueue(call(p)) # {} /\ place(p) = Min(inQueue(call(p))) /\ Min(inQueue(call(p))) \in inQueue(call(p))
    <3>1. inQueue(call(p)) \in SUBSET Nat /\ inQueue(call(p)) # {}
      BY <2>5 DEF Contains, inQueue
    <3> QED  BY <2>1, <3>1, LeastNumber DEF place
  <2>7. CallOk(q, k) /\ QueueOk
    BY <1>0 DEF CallInv
  <2>8. CASE Scopes!Holds(c)
    <3>1. PICK s \in Takes : Contains(held[q], s) /\ isScope(s) /\ kind(s) = k /\ req[c] = Asked(s)
      BY <2>4, <2>7, <2>8 DEF CallOk, Scopes!Holds
    <3>2. OneKind(s) /\ rank(s) < reach(q)
      BY <1>4, <3>1
    <3>3. kind(Current(p)) = kind(s)
      BY <1>5, <2>2, <2>5, <3>1, <3>2, SameKind
    <3>4. rank(s) = reach(p)
      BY <2>3, <3>1, <3>3, RankOfLock DEF reach
    <3> QED  BY <1>2, <1>3, <2>6, <3>2, <3>4
  <2>9. CASE ~Scopes!Holds(c)
    <3>1. PICK i \in 1..Len(waiters) : waiters[i] = c /\ \A j \in 1..i : waiters[j] # call(p)
      BY <2>2, <2>9 DEF Scopes!EarlierWaiters
    <3>2. Waiting(c)
      BY <2>2, <2>7, <3>1 DEF QueueOk, Contains
    <3>3. isScope(Current(q)) /\ kind(Current(q)) = k /\ req[c] = Asked(Current(q)) /\ c = call(q)
      BY <2>4, <2>7, <3>2 DEF CallOk, call
    <3>4. kind(Current(p)) = kind(Current(q))
      BY <1>5, <2>2, <2>5, <3>3, SameKind
    <3>5. reach(p) = reach(q)
      BY <1>2, <2>1, <3>3, <3>4, RankOfLock DEF reach
    <3>6. inQueue(call(q)) \in SUBSET Nat /\ i \in inQueue(call(q))
      BY <3>1, <3>3 DEF inQueue
    <3>7. Min(inQueue(call(q))) <= i /\ Min(inQueue(call(q))) \in Nat
      <4>1. /\ Min(inQueue(call(q))) \in inQueue(call(q))
            /\ \A n \in inQueue(call(q)) : Min(inQueue(call(q))) <= n
        BY <3>6, LeastNumber
      <4> QED  BY <3>6, <4>1
    <3>8. i < Min(inQueue(call(p)))
      <4>1. Min(inQueue(call(p))) \in 1..Len(waiters) /\ waiters[Min(inQueue(call(p)))] = call(p) /\ Len(waiters) \in Nat
        BY <2>6, <2>7, LenProperties DEF QueueOk, inQueue
      <4> QED  BY <3>1, <4>1
    <3>9. place(q) = Min(inQueue(call(q)))
      BY <3>3 DEF place
    <3> QED  BY <1>2, <1>3, <2>6, <3>5, <3>7, <3>8, <3>9
  <2> QED  BY <2>8, <2>9
<1> QED  BY <1>6, <1>7, <1>8, <1>9

\* Requests that take their locks in one order never wait for one another in a
\* circle, however many they are and whatever scopes of paths they ask for.
THEOREM OneOrderNoCircle == ASSUME Ordered  PROVE Spec => []NoCircularWait
<1>1. IInv /\ CircleInv => NoCircularWait
  <2> SUFFICES ASSUME IInv, CircleInv, NEW D \in (SUBSET Procs) \ {{}}, \A p \in D : WaitsFor(p) \cap D # {}
               PROVE  FALSE
    BY DEF NoCircularWait
  <2> DEFINE back(p) == (Len(Order) + 5) - reach(p)
             S == {n \in Nat : \E p \in D : n = back(p)}
  <2>1. ASSUME NEW p \in D
        PROVE  /\ reach(p) \in Nat /\ back(p) \in Nat /\ place(p) \in Nat
               /\ \E q \in D : \/ reach(p) < reach(q) /\ back(q) < back(p)
                               \/ reach(p) = reach(q) /\ place(q) < place(p)
    <3>1. PICK q \in D : q \in WaitsFor(p)
      BY <2>1
    <3>2. PICK y \in D : y \in WaitsFor(q)
      BY <2>1, <3>1
    <3>3. p \in Procs /\ q \in Procs /\ y \in Procs
      BY <2>1, <3>1, <3>2
    <3>4. WaitsFor(q) # {} /\ WaitsFor(y) # {}
      BY <3>1, <3>2
    <3>5. /\ reach(p) \in 1..(Len(Order) + 5) /\ place(p) \in Nat
          /\ reach(p) < reach(q) \/ (reach(p) = reach(q) /\ place(q) < place(p))
      BY <3>1, <3>3, <3>4, WaitsForFurther
    <3>6. reach(q) \in 1..(Len(Order) + 5)
      BY <3>2, <3>3, <3>4, WaitsForFurther
    <3>7. Len(Order) \in Nat
      BY RankOfLock
    <3> QED  BY <3>1, <3>5, <3>6, <3>7
  <2>2. PICK d \in D : TRUE
    OBVIOUS
  <2>3. \A p \in D : back(p) \in Nat /\ back(p) \in S
    BY <2>1
  <2>4. S \in SUBSET Nat /\ S # {}
    BY <2>2, <2>3
  <2>5. Min(S) \in S /\ \A n \in S : Min(S) <= n
    <3> HIDE DEF S
    <3> QED  BY <2>4, LeastNumber
  <2>6. PICK a \in D : \A p \in D : back(a) <= back(p)
    BY <2>3, <2>5
  <2> HIDE DEF S
  <2> DEFINE T == {n \in Nat : \E p \in D : reach(p) = reach(a) /\ n = place(p)}
  <2>7. \A p \in D : reach(p) = reach(a) => place(p) \in T
    BY <2>1
  <2>8. T \in SUBSET Nat /\ T # {}
    BY <2>6, <2>7
  <2>9. Min(T) \in T /\ \A n \in T : Min(T) <= n
    <3> HIDE DEF T
    <3> QED  BY <2>8, LeastNumber
  <2>10. PICK b \in D : reach(b) = reach(a) /\ \A p \in D : reach(p) = reach(a) => place(b) <= place(p)
    BY <2>7, <2>9
  <2> HIDE DEF T, back
  <2>11. PICK c \in D : \/ reach(b) < reach(c) /\ back(c) < back(b)
                        \/ reach(b) = reach(c) /\ place(c) < place(b)
    BY <2>1, <2>10
  <2>12. back(b) = back(a)
    BY <2>10 DEF back
  <2>13. back(a) <= back(c) /\ back(a) \in Nat /\ back(c) \in Nat /\ place(b) \in Nat /\ place(c) \in Nat
    BY <2>1, <2>6, <2>11
  <2> QED  BY <2>10, <2>11, <2>12, <2>13
<1> QED  BY <1>1, CircleInvariant, PTL
=============================================================================
