-------------------------- MODULE PathLocksProofs --------------------------
(***************************************************************************)
(* Proofs about locks.Manager for any finite set of callers, any keys and  *)
(* any requests.  The inductive invariant LockInv adds to the checked      *)
(* invariants that the queue holds exactly the waiting callers, once each, *)
(* and that only idle callers have no request.                             *)
(***************************************************************************)
EXTENDS ArrivalOrder, FiniteSetTheorems, SequenceTheorems, TLAPS

RequestInv == \A c \in Callers : pc[c] # "idle" => req[c] \in Requests

QueueInv ==
  /\ \A i, j \in 1..Len(waiters) : waiters[i] = waiters[j] => i = j
  /\ \A i \in 1..Len(waiters) : Waiting(waiters[i])
  /\ \A c \in Callers : Waiting(c) => \E i \in 1..Len(waiters) : waiters[i] = c

LockInv ==
  /\ TypeOK
  /\ RequestInv
  /\ QueueInv
  /\ EntriesCountHolders
  /\ MutualExclusion
  /\ NoLostWakeup
-----------------------------------------------------------------------------
(* Conflicts do not depend on who came first. *)
LEMMA ConflictSymmetric ==
  ASSUME NEW r, NEW s, waiterConflicts(r, s)
  PROVE  waiterConflicts(s, r)
BY DEF waiterConflicts, keysConflict

(* Removing one element keeps the order of the others. *)
LEMMA RemoveAtShifts ==
  ASSUME NEW S, NEW s \in Seq(S), NEW i \in 1..Len(s)
  PROVE  /\ RemoveAt(s, i) \in Seq(S)
         /\ Len(RemoveAt(s, i)) = Len(s) - 1
         /\ \A j \in 1..(Len(s) - 1) :
              RemoveAt(s, i)[j] = IF j < i THEN s[j] ELSE s[j + 1]
<1> DEFINE a == SubSeq(s, 1, i - 1)
           b == SubSeq(s, i + 1, Len(s))
<1>1. /\ a \in Seq(S) /\ Len(a) = i - 1
      /\ \A j \in 1..(i - 1) : a[j] = s[j]
  BY SubSeqProperties
<1>2. /\ b \in Seq(S) /\ Len(b) = Len(s) - i
      /\ \A j \in 1..(Len(s) - i) : b[j] = s[j + i]
  BY SubSeqProperties
<1>3. RemoveAt(s, i) = a \o b
  BY DEF RemoveAt
<1> HIDE DEF a, b
<1>4. /\ a \o b \in Seq(S)
      /\ Len(a \o b) = Len(a) + Len(b)
      /\ \A j \in 1..(Len(a) + Len(b)) :
           (a \o b)[j] = IF j <= Len(a) THEN a[j] ELSE b[j - Len(a)]
  BY <1>1, <1>2, ConcatProperties
<1>5. \A j \in 1..(Len(s) - 1) : (a \o b)[j] = IF j < i THEN s[j] ELSE s[j + 1]
  BY <1>1, <1>2, <1>4
<1> QED  BY <1>1, <1>2, <1>3, <1>4, <1>5

(* Every holder is counted in the entry of each of its keys. *)
LEMMA HolderIsCounted ==
  ASSUME LockInv, NEW c \in Callers, Holds(c), NEW k \in req[c].keys
  PROVE  /\ k \in Keys
         /\ req[c].write => entries[k].writers >= 1
         /\ ~req[c].write => entries[k].readers >= 1
         /\ Active(k)
<1>1. req[c] \in Requests /\ k \in Keys
  BY RequestsAssumption DEF LockInv, RequestInv, Holds
<1>2. /\ IsFiniteSet(ReadersOf(k)) /\ IsFiniteSet(WritersOf(k))
      /\ Cardinality(ReadersOf(k)) \in Nat /\ Cardinality(WritersOf(k)) \in Nat
  BY CallersAssumption, FS_Subset, FS_CardinalityType DEF ReadersOf, WritersOf
<1>4. /\ c \in ReadersOf(k) => Cardinality(ReadersOf(k)) # 0
      /\ c \in WritersOf(k) => Cardinality(WritersOf(k)) # 0
  BY <1>2, FS_EmptySet
<1>5. /\ entries[k].readers = Cardinality(ReadersOf(k))
      /\ entries[k].writers = Cardinality(WritersOf(k))
  BY <1>1 DEF LockInv, EntriesCountHolders
<1>6. /\ req[c].write => c \in WritersOf(k)
      /\ ~req[c].write => c \in ReadersOf(k)
  BY DEF ReadersOf, WritersOf
<1> QED  BY <1>1, <1>2, <1>4, <1>5, <1>6 DEF Active

(* What canAcquire grants conflicts with no current holder. *)
LEMMA GrantExcludesHolders ==
  ASSUME LockInv, NEW r \in Requests, ~conflictsWithActive(r),
         NEW d \in Callers, Holds(d)
  PROVE  ~waiterConflicts(r, req[d])
<1> SUFFICES ASSUME NEW l \in r.keys, NEW k \in req[d].keys, keysConflict(l, k),
                    r.write \/ req[d].write
             PROVE  FALSE
  BY DEF waiterConflicts
<1>1. k \in Keys /\ Active(k) /\ (req[d].write => entries[k].writers >= 1)
  BY HolderIsCounted
<1>2. entries[k].writers \in Nat
  BY <1>1 DEF LockInv, TypeOK, Counter
<1> QED  BY <1>1, <1>2 DEF conflictsWithActive

(* TypeOK is preserved by every step of the manager. *)
LEMMA TypeStep == LockInv /\ [Next]_vars => TypeOK'
<1> SUFFICES ASSUME LockInv, [Next]_vars PROVE TypeOK'
  OBVIOUS
<1> USE RequestsAssumption DEF LockInv, TypeOK, Counter
<1>1. ASSUME NEW c \in Callers, NEW r \in Requests, AcquireAtOnce(c, r) PROVE TypeOK'
  BY <1>1 DEF AcquireAtOnce, addEntry
<1>2. ASSUME NEW c \in Callers, NEW r \in Requests, EnqueueAndWait(c, r) PROVE TypeOK'
  BY <1>2, AppendProperties DEF EnqueueAndWait
<1>3. ASSUME NEW c \in Callers, AcquireAfterWait(c) PROVE TypeOK'
  BY <1>3, RemoveAtShifts DEF AcquireAfterWait, addEntry
<1>4. ASSUME NEW c \in Callers, WaitAgain(c) PROVE TypeOK'
  BY <1>4 DEF WaitAgain
<1>5. ASSUME NEW c \in Callers, Release(c) PROVE TypeOK'
  <2>1. ASSUME NEW k \in Keys PROVE entries'[k] \in Counter
    <3>1. entries[k].readers \in Nat /\ entries[k].writers \in Nat
      OBVIOUS
    <3>2. k \in req[c].keys => /\ req[c].write => entries[k].writers >= 1
                               /\ ~req[c].write => entries[k].readers >= 1
      BY <1>5, HolderIsCounted DEF Release, Holds
    <3>3. entries'[k] = IF k \notin req[c].keys THEN entries[k]
                        ELSE IF req[c].write THEN [entries[k] EXCEPT !.writers = @ - 1]
                        ELSE [entries[k] EXCEPT !.readers = @ - 1]
      BY <1>5 DEF Release, removeEntry
    <3>4. CASE k \notin req[c].keys
      BY <3>3, <3>4
    <3>5. CASE k \in req[c].keys /\ req[c].write
      <4>1. entries[k].writers - 1 \in Nat
        BY <3>1, <3>2, <3>5
      <4> QED  BY <3>1, <3>3, <3>5, <4>1
    <3>6. CASE k \in req[c].keys /\ ~req[c].write
      <4>1. entries[k].readers - 1 \in Nat
        BY <3>1, <3>2, <3>6
      <4> QED  BY <3>1, <3>3, <3>6, <4>1
    <3> QED  BY <3>4, <3>5, <3>6
  <2>2. entries' \in [Keys -> Counter]
    BY <1>5, <2>1 DEF Release, removeEntry
  <2>3. pc' \in [Callers -> {"idle", "asleep", "awake", "held"}]
    BY <1>5 DEF Release, broadcast
  <2> QED  BY <1>5, <2>2, <2>3 DEF Release
<1>6. CASE UNCHANGED vars
  BY <1>6 DEF vars
<1> QED  BY <1>1, <1>2, <1>3, <1>4, <1>5, <1>6 DEF Next

(* The queue and the request table stay consistent with the callers' states. *)
LEMMA QueueStep == LockInv /\ [Next]_vars => RequestInv' /\ QueueInv'
<1> SUFFICES ASSUME LockInv, [Next]_vars PROVE RequestInv' /\ QueueInv'
  OBVIOUS
<1> USE DEF LockInv, TypeOK, RequestInv, QueueInv, Waiting
<1>1. ASSUME NEW c \in Callers, NEW r \in Requests, AcquireAtOnce(c, r)
      PROVE  RequestInv' /\ QueueInv'
  BY <1>1 DEF AcquireAtOnce
<1>2. ASSUME NEW c \in Callers, NEW r \in Requests, EnqueueAndWait(c, r)
      PROVE  RequestInv' /\ QueueInv'
  <2>1. /\ waiters' = Append(waiters, c) /\ Len(waiters') = Len(waiters) + 1
        /\ \A i \in 1..Len(waiters) : waiters'[i] = waiters[i]
        /\ waiters'[Len(waiters) + 1] = c
    BY <1>2, AppendProperties DEF EnqueueAndWait
  <2>2. \A i \in 1..Len(waiters) : waiters[i] # c
    BY <1>2 DEF EnqueueAndWait
  <2>3. pc' = [pc EXCEPT ![c] = "asleep"] /\ req' = [req EXCEPT ![c] = r]
    BY <1>2 DEF EnqueueAndWait
  <2>4. \A i \in 1..Len(waiters) : waiters[i] \in Callers
    OBVIOUS
  <2>5. RequestInv'
    BY <2>3
  <2>6. \A i, j \in 1..Len(waiters') : waiters'[i] = waiters'[j] => i = j
    BY <2>1, <2>2
  <2>7. ASSUME NEW i \in 1..Len(waiters')
        PROVE  pc'[waiters'[i]] \in {"asleep", "awake"}
    <3>1. pc \in [Callers -> {"idle", "asleep", "awake", "held"}]
      OBVIOUS
    <3>2. CASE i = Len(waiters) + 1
      BY ONLY <2>1, <2>3, <3>1, <3>2
    <3>3. CASE i \in 1..Len(waiters)
      <4>1. /\ waiters'[i] = waiters[i] /\ waiters[i] # c
            /\ waiters[i] \in Callers
        BY ONLY <2>1, <2>2, <2>4, <3>3
      <4>2. pc[waiters[i]] \in {"asleep", "awake"}
        BY <3>3
      <4> QED  BY ONLY <2>3, <3>1, <4>1, <4>2
    <3>4. Len(waiters) \in Nat
      OBVIOUS
    <3> QED  BY ONLY <2>1, <2>7, <3>2, <3>3, <3>4
  <2>8. \A d \in Callers : Waiting(d)' => \E i \in 1..Len(waiters') : waiters'[i] = d
    BY <2>1, <2>3
  <2> QED  BY <2>5, <2>6, <2>7, <2>8
<1>3. ASSUME NEW c \in Callers, AcquireAfterWait(c) PROVE RequestInv' /\ QueueInv'
  <2>1. PICK i \in 1..Len(waiters) : waiters[i] = c /\ waiters' = RemoveAt(waiters, i)
    BY <1>3 DEF AcquireAfterWait
  <2>2. /\ Len(waiters') = Len(waiters) - 1
        /\ \A j \in 1..(Len(waiters) - 1) :
             waiters'[j] = IF j < i THEN waiters[j] ELSE waiters[j + 1]
    BY ONLY TypeOK, <2>1, RemoveAtShifts DEF TypeOK
  <2>3. pc' = [pc EXCEPT ![c] = "held"] /\ req' = req /\ pc[c] = "awake"
    BY <1>3 DEF AcquireAfterWait
  <2>4. Len(waiters) \in Nat /\ \A j \in 1..Len(waiters) : waiters[j] \in Callers
    OBVIOUS
  <2>5. RequestInv'
    BY <2>3
  <2>6. \A j, k \in 1..Len(waiters') : waiters'[j] = waiters'[k] => j = k
    BY <2>2, <2>4
  <2>7. ASSUME NEW j \in 1..Len(waiters')
        PROVE  pc'[waiters'[j]] \in {"asleep", "awake"}
    <3>1. PICK k \in 1..Len(waiters) : waiters'[j] = waiters[k] /\ k # i
      <4>1. CASE j < i
        BY ONLY <2>2, <2>4, <2>7, <4>1
      <4>2. CASE ~(j < i)
        <5>1. j + 1 \in 1..Len(waiters) /\ j + 1 # i
          BY ONLY <2>2, <2>4, <2>7, <4>2, <2>1
        <5> QED  BY ONLY <2>2, <2>4, <2>7, <4>2, <5>1
      <4> QED  BY <4>1, <4>2
    <3>2. waiters[k] # c
      BY <2>1, <3>1
    <3>3. pc[waiters[k]] \in {"asleep", "awake"} /\ waiters[k] \in Callers
      BY <2>4
    <3>4. pc \in [Callers -> {"idle", "asleep", "awake", "held"}]
      OBVIOUS
    <3> QED  BY ONLY <2>3, <3>1, <3>2, <3>3, <3>4
  <2>8. ASSUME NEW d \in Callers, Waiting(d)'
        PROVE  \E j \in 1..Len(waiters') : waiters'[j] = d
    <3>1. d # c /\ Waiting(d)
      BY <2>3, <2>8
    <3>2. PICK j \in 1..Len(waiters) : waiters[j] = d
      BY <3>1
    <3>3. j # i
      BY <2>1, <3>1, <3>2
    <3>4. CASE j < i
      BY <2>2, <2>4, <3>2, <3>4
    <3>5. CASE j > i
      <4>1. j - 1 \in 1..(Len(waiters) - 1) /\ ~(j - 1 < i)
        BY <2>4, <3>5
      <4>2. waiters'[j - 1] = waiters[j - 1 + 1]
        BY <2>2, <4>1
      <4>3. j - 1 + 1 = j
        OBVIOUS
      <4> QED  BY <2>2, <3>2, <4>1, <4>2, <4>3
    <3> QED  BY <3>3, <3>4, <3>5
  <2> QED  BY <2>5, <2>6, <2>7, <2>8
<1>4. ASSUME NEW c \in Callers, WaitAgain(c) PROVE RequestInv' /\ QueueInv'
  BY <1>4 DEF WaitAgain
<1>5. ASSUME NEW c \in Callers, Release(c) PROVE RequestInv' /\ QueueInv'
  <2>1. /\ waiters' = waiters /\ req' = [req EXCEPT ![c] = NoRequest]
        /\ pc[c] = "held" /\ pc'[c] = "idle"
        /\ \A d \in Callers \ {c} : pc'[d] = IF pc[d] = "asleep" THEN "awake" ELSE pc[d]
    BY <1>5 DEF Release, broadcast
  <2>2. \A i \in 1..Len(waiters) : waiters[i] \in Callers
    OBVIOUS
  <2>3. RequestInv'
    BY <2>1
  <2>4. \A d \in Callers : Waiting(d)' <=> Waiting(d)
    BY <2>1
  <2> QED  BY <2>1, <2>2, <2>3, <2>4
<1>6. CASE UNCHANGED vars
  BY <1>6 DEF vars
<1> QED  BY <1>1, <1>2, <1>3, <1>4, <1>5, <1>6 DEF Next

(* What the two ways of getting a lock have in common. *)
Granted(c, r) ==
  /\ r \in Requests /\ ~Holds(c) /\ ~conflictsWithActive(r)
  /\ addEntry(r)
  /\ req'[c] = r /\ Holds(c)'
  /\ \A d \in Callers \ {c} : req'[d] = req[d] /\ (Holds(d)' <=> Holds(d))

LEMMA AcquireGrants ==
  ASSUME LockInv, NEW c \in Callers
  PROVE  /\ \A r \in Requests : AcquireAtOnce(c, r) => Granted(c, r)
         /\ AcquireAfterWait(c) => Granted(c, req[c])
BY DEF LockInv, TypeOK, RequestInv, Granted, Holds, canAcquire,
       AcquireAtOnce, AcquireAfterWait

(* A grant adds one to each counter of its keys and leaves the rest alone. *)
LEMMA GrantCounts ==
  ASSUME LockInv, NEW c \in Callers, NEW r, Granted(c, r), NEW k \in Keys
  PROVE  /\ entries[k].readers \in Nat /\ entries[k].writers \in Nat
         /\ entries'[k].readers = entries[k].readers
                                    + IF k \in r.keys /\ ~r.write THEN 1 ELSE 0
         /\ entries'[k].writers = entries[k].writers
                                    + IF k \in r.keys /\ r.write THEN 1 ELSE 0
<1>1. /\ entries[k] \in Counter
      /\ entries'[k] = IF k \notin r.keys THEN entries[k]
                       ELSE IF r.write THEN [entries[k] EXCEPT !.writers = @ + 1]
                       ELSE [entries[k] EXCEPT !.readers = @ + 1]
  BY DEF LockInv, TypeOK, Granted, addEntry
<1>3. CASE k \notin r.keys
  BY <1>1, <1>3 DEF Counter
<1>4. CASE k \in r.keys /\ r.write
  BY <1>1, <1>4 DEF Counter
<1>5. CASE k \in r.keys /\ ~r.write
  BY <1>1, <1>5 DEF Counter
<1> QED  BY <1>3, <1>4, <1>5

(* A grant or a release moves exactly one caller in or out of the holders. *)
LEMMA HolderSetsGrow ==
  ASSUME LockInv, NEW c \in Callers, NEW r, Granted(c, r), NEW k \in Keys
  PROVE  /\ c \notin ReadersOf(k) /\ c \notin WritersOf(k)
         /\ ReadersOf(k)' = IF k \in r.keys /\ ~r.write THEN ReadersOf(k) \cup {c}
                            ELSE ReadersOf(k)
         /\ WritersOf(k)' = IF k \in r.keys /\ r.write THEN WritersOf(k) \cup {c}
                            ELSE WritersOf(k)
<1> USE DEF Granted
<1>1. c \notin ReadersOf(k) /\ c \notin WritersOf(k)
  BY DEF ReadersOf, WritersOf
<1>2. /\ \A d \in Callers : d \in ReadersOf(k)' <=> Holds(d)' /\ k \in req'[d].keys /\ ~req'[d].write
      /\ \A d \in Callers : d \in WritersOf(k)' <=> Holds(d)' /\ k \in req'[d].keys /\ req'[d].write
      /\ ReadersOf(k)' \subseteq Callers /\ WritersOf(k)' \subseteq Callers
  BY DEF ReadersOf, WritersOf
<1>3. /\ \A d \in Callers : d \in ReadersOf(k) <=> Holds(d) /\ k \in req[d].keys /\ ~req[d].write
      /\ \A d \in Callers : d \in WritersOf(k) <=> Holds(d) /\ k \in req[d].keys /\ req[d].write
      /\ ReadersOf(k) \subseteq Callers /\ WritersOf(k) \subseteq Callers
  BY DEF ReadersOf, WritersOf
<1> QED  BY <1>1, <1>2, <1>3

LEMMA HolderSetsShrink ==
  ASSUME LockInv, NEW c \in Callers, Release(c), NEW k \in Keys
  PROVE  /\ c \in ReadersOf(k) <=> k \in req[c].keys /\ ~req[c].write
         /\ c \in WritersOf(k) <=> k \in req[c].keys /\ req[c].write
         /\ ReadersOf(k)' = ReadersOf(k) \ {c}
         /\ WritersOf(k)' = WritersOf(k) \ {c}
<1>1. /\ Holds(c) /\ ~Holds(c)'
      /\ \A d \in Callers \ {c} : req'[d] = req[d] /\ (Holds(d)' <=> Holds(d))
  BY DEF Release, broadcast, Holds, LockInv, TypeOK
<1>2. /\ \A d \in Callers : d \in ReadersOf(k)' <=> Holds(d)' /\ k \in req'[d].keys /\ ~req'[d].write
      /\ \A d \in Callers : d \in WritersOf(k)' <=> Holds(d)' /\ k \in req'[d].keys /\ req'[d].write
      /\ ReadersOf(k)' \subseteq Callers /\ WritersOf(k)' \subseteq Callers
  BY DEF ReadersOf, WritersOf
<1>3. /\ \A d \in Callers : d \in ReadersOf(k) <=> Holds(d) /\ k \in req[d].keys /\ ~req[d].write
      /\ \A d \in Callers : d \in WritersOf(k) <=> Holds(d) /\ k \in req[d].keys /\ req[d].write
      /\ ReadersOf(k) \subseteq Callers /\ WritersOf(k) \subseteq Callers
  BY DEF ReadersOf, WritersOf
<1> QED  BY <1>1, <1>2, <1>3

(* The counters keep counting the holders. *)
LEMMA CountStep == LockInv /\ [Next]_vars => EntriesCountHolders'
<1> SUFFICES ASSUME LockInv, [Next]_vars, NEW k \in Keys
             PROVE  /\ entries'[k].readers = Cardinality(ReadersOf(k)')
                    /\ entries'[k].writers = Cardinality(WritersOf(k)')
  BY DEF EntriesCountHolders
<1> DEFINE Goal == /\ entries'[k].readers = Cardinality(ReadersOf(k)')
                   /\ entries'[k].writers = Cardinality(WritersOf(k)')
<1>1. /\ entries[k].readers = Cardinality(ReadersOf(k))
      /\ entries[k].writers = Cardinality(WritersOf(k))
  BY DEF LockInv, EntriesCountHolders
<1>2. IsFiniteSet(ReadersOf(k)) /\ IsFiniteSet(WritersOf(k))
  BY CallersAssumption, FS_Subset DEF ReadersOf, WritersOf
<1>3. ASSUME NEW c \in Callers, NEW r, Granted(c, r) PROVE Goal
  <2>1. /\ Cardinality(ReadersOf(k) \cup {c}) = Cardinality(ReadersOf(k)) + 1
        /\ Cardinality(WritersOf(k) \cup {c}) = Cardinality(WritersOf(k)) + 1
    BY <1>2, <1>3, HolderSetsGrow, FS_AddElement
  <2>2. /\ ReadersOf(k)' = IF k \in r.keys /\ ~r.write THEN ReadersOf(k) \cup {c}
                           ELSE ReadersOf(k)
        /\ WritersOf(k)' = IF k \in r.keys /\ r.write THEN WritersOf(k) \cup {c}
                           ELSE WritersOf(k)
    BY <1>3, HolderSetsGrow
  <2>3. /\ entries[k].readers \in Nat /\ entries[k].writers \in Nat
        /\ entries'[k].readers = entries[k].readers
                                   + IF k \in r.keys /\ ~r.write THEN 1 ELSE 0
        /\ entries'[k].writers = entries[k].writers
                                   + IF k \in r.keys /\ r.write THEN 1 ELSE 0
    BY <1>3, GrantCounts
  <2> QED  BY ONLY <1>1, <2>1, <2>2, <2>3
<1>4. ASSUME NEW c \in Callers, Release(c) PROVE Goal
  <2>1. /\ c \in ReadersOf(k) => Cardinality(ReadersOf(k) \ {c}) = Cardinality(ReadersOf(k)) - 1
        /\ c \in WritersOf(k) => Cardinality(WritersOf(k) \ {c}) = Cardinality(WritersOf(k)) - 1
    BY <1>2, FS_RemoveElement
  <2>2. /\ c \notin ReadersOf(k) => ReadersOf(k) \ {c} = ReadersOf(k)
        /\ c \notin WritersOf(k) => WritersOf(k) \ {c} = WritersOf(k)
    OBVIOUS
  <2>3. /\ entries[k] \in Counter
        /\ entries'[k] = IF k \notin req[c].keys THEN entries[k]
                         ELSE IF req[c].write THEN [entries[k] EXCEPT !.writers = @ - 1]
                         ELSE [entries[k] EXCEPT !.readers = @ - 1]
    BY <1>4 DEF Release, removeEntry, LockInv, TypeOK
  <2>4. /\ entries'[k].readers = IF k \in req[c].keys /\ ~req[c].write
                                 THEN entries[k].readers - 1 ELSE entries[k].readers
        /\ entries'[k].writers = IF k \in req[c].keys /\ req[c].write
                                 THEN entries[k].writers - 1 ELSE entries[k].writers
    BY <2>3 DEF Counter
  <2> QED  BY <1>1, <1>4, <2>1, <2>2, <2>4, HolderSetsShrink
<1>5. ASSUME UNCHANGED entries, UNCHANGED ReadersOf(k), UNCHANGED WritersOf(k) PROVE Goal
  BY <1>1, <1>5
<1>6. ASSUME NEW c \in Callers, NEW r \in Requests, EnqueueAndWait(c, r) PROVE Goal
  BY <1>5, <1>6 DEF EnqueueAndWait, ReadersOf, WritersOf, Holds, LockInv, TypeOK
<1>7. ASSUME NEW c \in Callers, WaitAgain(c) PROVE Goal
  BY <1>5, <1>7 DEF WaitAgain, ReadersOf, WritersOf, Holds, LockInv, TypeOK
<1>8. CASE UNCHANGED vars
  BY <1>5, <1>8 DEF vars, ReadersOf, WritersOf, Holds
<1> QED  BY <1>3, <1>4, <1>6, <1>7, <1>8, AcquireGrants DEF Next

(* Two conflicting requests are never held together after a step either. *)
LEMMA ExclusionStep == LockInv /\ [Next]_vars => MutualExclusion'
<1> SUFFICES ASSUME LockInv, [Next]_vars, NEW a \in Callers, NEW b \in Callers,
                    a # b, Holds(a)', Holds(b)'
             PROVE  ~waiterConflicts(req'[a], req'[b])
  BY DEF MutualExclusion
<1> DEFINE Goal == ~waiterConflicts(req'[a], req'[b])
<1>1. ASSUME NEW c \in Callers, NEW r, Granted(c, r) PROVE Goal
  <2>1. \A d \in Callers \ {c} : Holds(d)' => Holds(d) /\ req'[d] = req[d]
    BY <1>1 DEF Granted
  <2>2. \A d \in Callers : Holds(d) => ~waiterConflicts(r, req[d]) /\ ~waiterConflicts(req[d], r)
    BY <1>1, GrantExcludesHolders, ConflictSymmetric DEF Granted
  <2>3. req'[c] = r
    BY <1>1 DEF Granted
  <2>4. CASE a = c
    BY <2>1, <2>2, <2>3, <2>4
  <2>5. CASE b = c
    BY <2>1, <2>2, <2>3, <2>5
  <2>6. CASE a # c /\ b # c
    BY <2>1, <2>6 DEF LockInv, MutualExclusion
  <2> QED  BY <2>4, <2>5, <2>6
<1>2. ASSUME \A d \in Callers : Holds(d)' => Holds(d) /\ req'[d] = req[d] PROVE Goal
  BY <1>2 DEF LockInv, MutualExclusion
<1>3. ASSUME NEW c \in Callers, Release(c) PROVE Goal
  <2>1. \A d \in Callers : Holds(d)' => Holds(d) /\ req'[d] = req[d]
    BY <1>3 DEF Release, broadcast, Holds, LockInv, TypeOK
  <2> QED  BY <1>2, <2>1
<1>4. ASSUME NEW c \in Callers, NEW r \in Requests, EnqueueAndWait(c, r) PROVE Goal
  BY <1>2, <1>4 DEF EnqueueAndWait, Holds, LockInv, TypeOK
<1>5. ASSUME NEW c \in Callers, WaitAgain(c) PROVE Goal
  BY <1>2, <1>5 DEF WaitAgain, Holds, LockInv, TypeOK
<1>6. CASE UNCHANGED vars
  BY <1>2, <1>6 DEF vars, Holds
<1> QED  BY <1>1, <1>3, <1>4, <1>5, <1>6, AcquireGrants DEF Next

(* Counters only grow on a grant, so whoever was blocked by them stays so. *)
LEMMA GrantKeepsBlocking ==
  ASSUME LockInv, NEW c \in Callers, NEW r, Granted(c, r),
         NEW s, conflictsWithActive(s)
  PROVE  conflictsWithActive(s)'
<1>1. PICK k \in Keys : /\ Active(k)
                        /\ entries[k].writers > 0 \/ s.write
                        /\ \E l \in s.keys : keysConflict(l, k)
  BY DEF conflictsWithActive
<1>2. /\ entries[k].readers \in Nat /\ entries[k].writers \in Nat
      /\ entries'[k].readers \in Nat /\ entries'[k].writers \in Nat
      /\ entries'[k].readers >= entries[k].readers
      /\ entries'[k].writers >= entries[k].writers
  BY GrantCounts
<1>3. Active(k)' /\ (entries'[k].writers > 0 \/ s.write)
  BY <1>1, <1>2 DEF Active
<1> QED  BY <1>1, <1>3 DEF conflictsWithActive

(* The new holder blocks everyone whom its queue entry blocked. *)
LEMMA GrantTakesOverBlocking ==
  ASSUME LockInv, NEW c \in Callers, NEW r, Granted(c, r),
         NEW s, waiterConflicts(s, r)
  PROVE  conflictsWithActive(s)'
<1>1. PICK l \in s.keys, k \in r.keys : keysConflict(l, k) /\ (s.write \/ r.write)
  BY DEF waiterConflicts
<1>2. k \in Keys /\ r.write \in BOOLEAN
  BY RequestsAssumption DEF Granted
<1>3. /\ entries'[k].readers \in Nat /\ entries'[k].writers \in Nat
      /\ r.write => entries'[k].writers > 0
      /\ ~r.write => entries'[k].readers > 0
  BY <1>2, GrantCounts
<1>4. Active(k)' /\ (entries'[k].writers > 0 \/ s.write)
  BY <1>1, <1>3 DEF Active
<1> QED  BY <1>1, <1>2, <1>4 DEF conflictsWithActive

(* Nobody is left asleep who could proceed. *)
LEMMA WakeupStep == LockInv /\ [Next]_vars => NoLostWakeup'
<1> SUFFICES ASSUME LockInv, [Next]_vars, NEW c \in Callers, pc'[c] = "asleep"
             PROVE  ~canAcquire(c, req[c])'
  BY DEF NoLostWakeup
<1> DEFINE Goal == ~canAcquire(c, req[c])'
<1>1. ASSUME UNCHANGED <<entries, waiters, req>>, ~canAcquire(c, req[c]) PROVE Goal
  BY <1>1 DEF canAcquire, conflictsWithActive, Active, EarlierWaiters
<1>2. pc[c] = "asleep" => ~canAcquire(c, req[c])
  BY DEF LockInv, NoLostWakeup
<1>3. ASSUME NEW d \in Callers, NEW r \in Requests, AcquireAtOnce(d, r) PROVE Goal
  <2>1. /\ pc[d] = "idle" /\ c # d /\ pc[c] = "asleep" /\ req'[c] = req[c]
        /\ \A e \in Callers \ {d} : req'[e] = req[e]
        /\ waiters' = waiters
    BY <1>3 DEF AcquireAtOnce, LockInv, TypeOK
  <2>2. Granted(d, r)
    BY <1>3, AcquireGrants
  <2>3. EarlierWaiters(c)' = EarlierWaiters(c) /\ d \notin EarlierWaiters(c)
    BY <2>1 DEF EarlierWaiters, LockInv, QueueInv, Waiting
  <2>4. CASE conflictsWithActive(req[c])
    <3>1. conflictsWithActive(req[c])'
      <4>1. \A s : conflictsWithActive(s) => conflictsWithActive(s)'
        BY <2>2, GrantKeepsBlocking
      <4> QED  BY <2>1, <2>4, <4>1 DEF conflictsWithActive
    <3> QED  BY <3>1 DEF canAcquire
  <2>5. CASE \E e \in EarlierWaiters(c) : waiterConflicts(req[c], req[e])
    BY <2>1, <2>3, <2>5 DEF canAcquire, EarlierWaiters
  <2> QED  BY <1>2, <2>1, <2>4, <2>5 DEF canAcquire
<1>4. ASSUME NEW d \in Callers, NEW r \in Requests, EnqueueAndWait(d, r) PROVE Goal
  <2>1. /\ pc[d] = "idle" /\ req'[d] = r /\ entries' = entries
        /\ \A e \in Callers \ {d} : req'[e] = req[e] /\ pc'[e] = pc[e]
        /\ ~canAcquire(d, r)
    BY <1>4 DEF EnqueueAndWait, LockInv, TypeOK
  <2>2. ~canAcquire(c, req'[c])
    <3>1. CASE c = d
      BY <2>1, <3>1
    <3>2. CASE c # d
      BY <1>2, <2>1, <3>2
    <3> QED  BY <3>1, <3>2
  <2>3. /\ Len(waiters) \in Nat /\ Len(waiters') = Len(waiters) + 1
        /\ \A i \in 1..Len(waiters) : waiters'[i] = waiters[i]
    BY <1>4, AppendProperties DEF EnqueueAndWait, LockInv, TypeOK
  <2>4. EarlierWaiters(c) \subseteq EarlierWaiters(c)' /\ d \notin EarlierWaiters(c)
    <3>1. d \notin EarlierWaiters(c)
      BY <2>1 DEF EarlierWaiters, LockInv, QueueInv, Waiting
    <3>2. ASSUME NEW e \in EarlierWaiters(c) PROVE e \in EarlierWaiters(c)'
      <4>1. PICK i \in 1..Len(waiters) : waiters[i] = e /\ \A j \in 1..i : waiters[j] # c
        BY <3>2 DEF EarlierWaiters
      <4>2. i \in 1..Len(waiters') /\ waiters'[i] = e /\ \A j \in 1..i : waiters'[j] # c
        BY <2>3, <4>1
      <4> QED  BY <4>2 DEF EarlierWaiters
    <3> QED  BY <3>1, <3>2
  <2>5. CASE conflictsWithActive(req'[c])
    BY <2>1, <2>5 DEF canAcquire, conflictsWithActive, Active
  <2>6. CASE \E e \in EarlierWaiters(c) : waiterConflicts(req'[c], req[e])
    <3>1. PICK e \in EarlierWaiters(c) : waiterConflicts(req'[c], req[e])
      BY <2>6
    <3>2. e \in EarlierWaiters(c)' /\ req'[e] = req[e]
      BY <2>1, <2>4, <3>1 DEF EarlierWaiters
    <3> QED  BY <3>1, <3>2 DEF canAcquire
  <2> QED  BY <2>2, <2>5, <2>6 DEF canAcquire
<1>5. ASSUME NEW d \in Callers, AcquireAfterWait(d) PROVE Goal
  <2>1. /\ c # d /\ pc[c] = "asleep" /\ req' = req
    BY <1>5 DEF AcquireAfterWait, LockInv, TypeOK
  <2>2. Granted(d, req[d])
    BY <1>5, AcquireGrants
  <2>3. \A s : conflictsWithActive(s) \/ waiterConflicts(s, req[d]) => conflictsWithActive(s)'
    BY <2>2, GrantKeepsBlocking, GrantTakesOverBlocking
  <2>4. CASE conflictsWithActive(req[c]) \/ waiterConflicts(req[c], req[d])
    <3>1. conflictsWithActive(req[c])'
      BY <2>1, <2>3, <2>4 DEF conflictsWithActive
    <3> QED  BY <3>1 DEF canAcquire
  <2>5. CASE \E e \in EarlierWaiters(c) : e # d /\ waiterConflicts(req[c], req[e])
    <3>1. PICK e \in EarlierWaiters(c) : e # d /\ waiterConflicts(req[c], req[e])
      BY <2>5
    <3>2. PICK i \in 1..Len(waiters) : waiters[i] = e /\ \A j \in 1..i : waiters[j] # c
      BY <3>1 DEF EarlierWaiters
    <3>3. PICK m \in 1..Len(waiters) : waiters[m] = d /\ waiters' = RemoveAt(waiters, m)
      BY <1>5 DEF AcquireAfterWait
    <3>0. waiters \in Seq(Callers) /\ Len(waiters) \in Nat
      BY DEF LockInv, TypeOK
    <3>4. /\ Len(waiters') = Len(waiters) - 1
          /\ \A j \in 1..(Len(waiters) - 1) :
               waiters'[j] = IF j < m THEN waiters[j] ELSE waiters[j + 1]
      BY ONLY <3>0, <3>3, RemoveAtShifts
    <3>5. i # m
      BY <3>1, <3>2, <3>3
    <3>6. CASE i < m
      <4>1. i \in 1..Len(waiters') /\ waiters'[i] = e /\ \A j \in 1..i : waiters'[j] # c
        BY <3>0, <3>2, <3>4, <3>6
      <4> QED  BY <2>1, <3>1, <4>1 DEF canAcquire, EarlierWaiters
    <3>7. CASE i > m
      <4> DEFINE n == i - 1
      <4>1. n \in 1..Len(waiters') /\ n + 1 = i /\ ~(n < m)
        BY <3>0, <3>4, <3>7
      <4>2. waiters'[n] = e
        BY <3>0, <3>2, <3>4, <4>1
      <4>3. \A j \in 1..n : j + 1 \in 1..i /\ j \in 1..i
        BY <4>1
      <4>4. \A j \in 1..n : waiters'[j] # c
        BY <3>0, <3>2, <3>4, <4>1, <4>3
      <4> QED  BY <2>1, <3>1, <4>1, <4>2, <4>4 DEF canAcquire, EarlierWaiters
    <3> QED  BY <3>5, <3>6, <3>7
  <2> QED  BY <1>2, <2>1, <2>4, <2>5 DEF canAcquire
<1>6. ASSUME NEW d \in Callers, WaitAgain(d) PROVE Goal
  <2>1. UNCHANGED <<entries, waiters, req>> /\ ~canAcquire(d, req[d])
    BY <1>6 DEF WaitAgain
  <2>2. c = d \/ pc[c] = "asleep"
    BY <1>6 DEF WaitAgain, LockInv, TypeOK
  <2> QED  BY <1>1, <1>2, <2>1, <2>2
<1>7. ASSUME NEW d \in Callers, Release(d) PROVE FALSE
  BY <1>7 DEF Release, broadcast
<1>8. CASE UNCHANGED vars
  BY <1>1, <1>2, <1>8 DEF vars
<1> QED  BY <1>3, <1>4, <1>5, <1>6, <1>7, <1>8 DEF Next

LEMMA InitLockInv == Init => LockInv
<1> SUFFICES ASSUME Init PROVE LockInv
  OBVIOUS
<1>1. TypeOK
  BY DEF Init, TypeOK, Counter
<1>2. RequestInv /\ QueueInv /\ MutualExclusion /\ NoLostWakeup
  BY DEF Init, RequestInv, QueueInv, Waiting, MutualExclusion, Holds, NoLostWakeup
<1>3. \A k \in Keys : ReadersOf(k) = {} /\ WritersOf(k) = {}
  BY DEF Init, ReadersOf, WritersOf, Holds
<1>4. EntriesCountHolders
  BY <1>3, FS_EmptySet DEF Init, EntriesCountHolders
<1> QED  BY <1>1, <1>2, <1>4 DEF LockInv
-----------------------------------------------------------------------------
(* The inductive invariant of locks.Manager. *)
THEOREM LockInvariant == Spec => []LockInv
<1>1. LockInv /\ [Next]_vars => LockInv'
  BY TypeStep, QueueStep, CountStep, ExclusionStep, WakeupStep DEF LockInv
<1> QED  BY InitLockInv, <1>1, PTL DEF Spec

(* The counters of acquire and its release function never underflow, and   *)
(* every table keeps its type, for any callers, keys and requests.         *)
THEOREM LocksWellTyped == Spec => []TypeOK
BY LockInvariant, PTL DEF LockInv

(* Overlapping scopes, one of them writing, are never held together.       *)
THEOREM LocksExclude == Spec => []MutualExclusion
BY LockInvariant, PTL DEF LockInv

(* The active entries of locks.Manager are exactly its current holders.    *)
THEOREM LocksCountHolders == Spec => []EntriesCountHolders
BY LockInvariant, PTL DEF LockInv

(* Nobody sleeps in cond.Wait who could proceed, although acquire does not *)
(* broadcast when it takes a waiter off the queue.                         *)
THEOREM LocksLoseNoWakeup == Spec => []NoLostWakeup
BY LockInvariant, PTL DEF LockInv

(* Mutual exclusion, counters and wake-ups hold together at every step.    *)
THEOREM LocksStayConsistent == Spec => []LocksConsistent
BY LockInvariant, PTL DEF LockInv, LocksConsistent

-----------------------------------------------------------------------------
(* The order of arrivals.  The queue keeps it: whoever waits stands before *)
(* everyone who arrived later and waits as well.                           *)
QueueOrder ==
  \A p \in ahead : \A i, j \in 1..Len(waiters) :
    waiters[i] = p[1] /\ waiters[j] = p[2] => i < j

ArrivalInv == \A p \in ahead : Waiting(p[1]) /\ pc[p[2]] # "idle"

OrderInv ==
  /\ ahead \subseteq Callers \X Callers
  /\ ArrivalInv
  /\ QueueOrder
  /\ ServedInTurn

(* A pair of a later state: it was one before, or its second has arrived. *)
LEMMA PairGoesOn ==
  ASSUME OrderInv, Arrivals, NEW p \in ahead'
  PROVE  /\ p[1] \in Callers /\ p[2] \in Callers
         /\ Waiting(p[1]) /\ Waiting(p[1])' /\ pc'[p[2]] # "idle"
         /\ p \in ahead \/ pc[p[2]] = "idle"
BY DEF Arrivals, OrderInv, ArrivalInv

(* A waiter is ahead of everyone who is not in the queue before it. *)
LEMMA WaiterIsEarlier ==
  ASSUME LockInv, NEW c \in Callers, NEW d \in Callers, Waiting(c), c # d,
         \A i, j \in 1..Len(waiters) : waiters[i] = c /\ waiters[j] = d => i < j
  PROVE  c \in EarlierWaiters(d)
<1>1. PICK i \in 1..Len(waiters) : waiters[i] = c
  BY DEF LockInv, QueueInv
<1>2. Len(waiters) \in Nat
  BY DEF LockInv, TypeOK
<1>3. \A j \in 1..i : j \in 1..Len(waiters) /\ ~(i < j)
  BY <1>1, <1>2
<1>4. \A j \in 1..i : waiters[j] # d
  BY <1>1, <1>3
<1> QED  BY <1>1, <1>4 DEF EarlierWaiters

(* A grant to someone who arrived later conflicts with nobody who waits. *)
LEMMA GrantInTurn ==
  ASSUME LockInv, OrderInv, Arrivals, NEW p \in ahead', NEW r,
         pc[p[2]] # "held", canAcquire(p[2], r)
  PROVE  ~waiterConflicts(req[p[1]], r)
<1>1. /\ p[1] \in Callers /\ p[2] \in Callers /\ Waiting(p[1])
      /\ p \in ahead \/ pc[p[2]] = "idle"
  BY PairGoesOn
<1>2. \A i, j \in 1..Len(waiters) : waiters[i] = p[1] /\ waiters[j] = p[2] => i < j
  <2>1. CASE p \in ahead
    BY <2>1 DEF OrderInv, QueueOrder
  <2>2. CASE pc[p[2]] = "idle"
    BY <2>2 DEF LockInv, QueueInv, Waiting
  <2> QED  BY <1>1, <2>1, <2>2
<1>3. p[1] # p[2]
  <2>1. CASE p \in ahead
    <3>1. PICK i \in 1..Len(waiters) : waiters[i] = p[1]
      BY <1>1 DEF LockInv, QueueInv
    <3>2. ~(i < i)
      BY <3>1 DEF LockInv, TypeOK
    <3> QED  BY <1>2, <3>1, <3>2
  <2>2. CASE pc[p[2]] = "idle"
    BY <1>1, <2>2 DEF Waiting
  <2> QED  BY <1>1, <2>1, <2>2
<1>4. p[1] \in EarlierWaiters(p[2])
  BY <1>1, <1>2, <1>3, WaiterIsEarlier
<1>5. ~waiterConflicts(r, req[p[1]])
  BY <1>1, <1>4 DEF canAcquire
<1> QED  BY <1>5, ConflictSymmetric

(* Every step keeps the order of the queue. *)
LEMMA QueueOrderStep ==
  ASSUME LockInv, OrderInv, [Next]_vars, Arrivals  PROVE QueueOrder'
<1> SUFFICES ASSUME NEW p \in ahead', NEW i \in 1..Len(waiters'), NEW j \in 1..Len(waiters'),
                    waiters'[i] = p[1], waiters'[j] = p[2]
             PROVE  i < j
  BY DEF QueueOrder
<1>0. /\ waiters \in Seq(Callers) /\ Len(waiters) \in Nat
      /\ \A k \in 1..Len(waiters) : waiters[k] \in Callers /\ Waiting(waiters[k])
  BY DEF LockInv, TypeOK, QueueInv
<1>1. /\ Waiting(p[1])
      /\ p \in ahead \/ pc[p[2]] = "idle"
  BY PairGoesOn
<1>2. \A k, m \in 1..Len(waiters) : waiters[k] = p[1] /\ waiters[m] = p[2] => k < m
  <2>1. CASE p \in ahead
    BY <2>1 DEF OrderInv, QueueOrder
  <2>2. CASE pc[p[2]] = "idle"
    BY <1>0, <2>2 DEF Waiting
  <2> QED  BY <1>1, <2>1, <2>2
<1>3. ASSUME waiters' = waiters  PROVE i < j
  BY <1>2, <1>3
<1>4. ASSUME NEW c \in Callers, NEW r \in Requests, EnqueueAndWait(c, r)  PROVE i < j
  <2>1. /\ pc[c] = "idle" /\ Len(waiters') = Len(waiters) + 1
        /\ \A k \in 1..Len(waiters) : waiters'[k] = waiters[k]
        /\ waiters'[Len(waiters) + 1] = c
    BY <1>0, <1>4, AppendProperties DEF EnqueueAndWait
  <2>2. i \in 1..Len(waiters)
    BY <1>0, <1>1, <2>1 DEF Waiting
  <2>3. CASE j = Len(waiters) + 1
    BY <1>0, <2>2, <2>3
  <2>4. CASE j \in 1..Len(waiters)
    BY <1>2, <2>1, <2>2, <2>4
  <2> QED  BY <1>0, <2>1, <2>3, <2>4
<1>5. ASSUME NEW c \in Callers, AcquireAfterWait(c)  PROVE i < j
  <2>1. PICK m \in 1..Len(waiters) : waiters' = RemoveAt(waiters, m)
    BY <1>5 DEF AcquireAfterWait
  <2>2. /\ Len(waiters') = Len(waiters) - 1
        /\ \A k \in 1..(Len(waiters) - 1) :
             waiters'[k] = IF k < m THEN waiters[k] ELSE waiters[k + 1]
    BY ONLY <1>0, <2>1, RemoveAtShifts
  <2> DEFINE old(k) == IF k < m THEN k ELSE k + 1
  <2>3. /\ old(i) \in 1..Len(waiters) /\ old(j) \in 1..Len(waiters)
        /\ waiters[old(i)] = p[1] /\ waiters[old(j)] = p[2]
    BY <1>0, <2>1, <2>2
  <2>4. old(i) < old(j)
    BY <1>2, <2>3
  <2> QED  BY <1>0, <2>1, <2>2, <2>4
<1>6. CASE UNCHANGED vars
  BY <1>3, <1>6 DEF vars
<1> QED  BY <1>3, <1>4, <1>5, <1>6 DEF Next, AcquireAtOnce, WaitAgain, Release

(* A step of the manager serves nobody out of turn. *)
LEMMA TurnStep ==
  ASSUME LockInv, OrderInv, [Next]_vars, Arrivals  PROVE ServedInTurn'
<1> SUFFICES ASSUME NEW p \in ahead', Holds(p[2])'
             PROVE  ~waiterConflicts(req'[p[1]], req'[p[2]])
  BY DEF ServedInTurn
<1> DEFINE Goal == ~waiterConflicts(req'[p[1]], req'[p[2]])
<1>0. TypeOK
  BY DEF LockInv
<1>1. /\ p[1] \in Callers /\ p[2] \in Callers
      /\ Waiting(p[1]) /\ Waiting(p[1])' /\ p[1] # p[2]
      /\ p \in ahead \/ pc[p[2]] = "idle"
  BY PairGoesOn DEF Waiting, Holds
<1>2. ASSUME Holds(p[2]), req'[p[1]] = req[p[1]], req'[p[2]] = req[p[2]]  PROVE Goal
  BY <1>1, <1>2 DEF OrderInv, ServedInTurn, Holds
<1>3. ASSUME NEW c \in Callers, NEW r, pc[c] # "held", canAcquire(c, r), req'[c] = r,
             \A d \in Callers \ {c} : req'[d] = req[d] /\ pc'[d] = pc[d], ~Waiting(c)'
      PROVE  Goal
  <2>1. p[1] # c
    BY <1>1, <1>3
  <2>2. CASE p[2] = c
    BY <1>1, <1>3, <2>1, <2>2, GrantInTurn
  <2>3. CASE p[2] # c
    BY <1>1, <1>2, <1>3, <2>1, <2>3 DEF Holds
  <2> QED  BY <2>2, <2>3
<1>4. ASSUME NEW c \in Callers, NEW r \in Requests, AcquireAtOnce(c, r)  PROVE Goal
  <2>1. /\ pc[c] # "held" /\ canAcquire(c, r) /\ req'[c] = r /\ ~Waiting(c)'
        /\ \A d \in Callers \ {c} : req'[d] = req[d] /\ pc'[d] = pc[d]
    BY <1>0, <1>4 DEF AcquireAtOnce, TypeOK, Waiting
  <2> QED  BY <1>3, <2>1
<1>5. ASSUME NEW c \in Callers, AcquireAfterWait(c)  PROVE Goal
  <2>1. /\ pc[c] # "held" /\ canAcquire(c, req[c]) /\ req'[c] = req[c] /\ ~Waiting(c)'
        /\ \A d \in Callers \ {c} : req'[d] = req[d] /\ pc'[d] = pc[d]
    BY <1>0, <1>5 DEF AcquireAfterWait, TypeOK, Waiting
  <2> QED  BY <1>3, <2>1
<1>6. ASSUME NEW c \in Callers, NEW r \in Requests, EnqueueAndWait(c, r)  PROVE Goal
  <2>1. pc[c] = "idle" /\ pc' = [pc EXCEPT ![c] = "asleep"] /\ req' = [req EXCEPT ![c] = r]
    BY <1>6 DEF EnqueueAndWait
  <2> QED  BY <1>0, <1>1, <1>2, <2>1 DEF TypeOK, Waiting, Holds
<1>7. ASSUME NEW c \in Callers, WaitAgain(c)  PROVE Goal
  BY <1>0, <1>1, <1>2, <1>7 DEF WaitAgain, TypeOK, Holds
<1>8. ASSUME NEW c \in Callers, Release(c)  PROVE Goal
  <2>1. /\ pc[c] = "held" /\ pc'[c] = "idle" /\ req' = [req EXCEPT ![c] = NoRequest]
        /\ \A d \in Callers \ {c} : pc'[d] = "held" => pc[d] = "held"
    BY <1>8 DEF Release, broadcast
  <2> QED  BY <1>0, <1>1, <1>2, <2>1 DEF TypeOK, Waiting, Holds
<1>9. CASE UNCHANGED vars
  BY <1>1, <1>2, <1>9 DEF vars, Holds
<1> QED  BY <1>4, <1>5, <1>6, <1>7, <1>8, <1>9 DEF Next

(* The order of arrivals, with what keeps it. *)
LEMMA OrderInvariant == OrderSpec => [](LockInv /\ OrderInv)
<1>1. OrderInit => LockInv /\ OrderInv
  BY InitLockInv DEF OrderInit, OrderInv, ArrivalInv, QueueOrder, ServedInTurn
<1>2. LockInv /\ OrderInv /\ [OrderNext]_orderVars => LockInv' /\ OrderInv'
  <2> SUFFICES ASSUME LockInv, OrderInv, [OrderNext]_orderVars  PROVE LockInv' /\ OrderInv'
    OBVIOUS
  <2>1. [Next]_vars
    BY DEF OrderNext, orderVars, vars
  <2>2. LockInv'
    BY <2>1, TypeStep, QueueStep, CountStep, ExclusionStep, WakeupStep DEF LockInv
  <2>3. CASE OrderNext
    <3>1. Arrivals
      BY <2>3 DEF OrderNext
    <3>2. ahead' \subseteq Callers \X Callers
      BY <3>1 DEF Arrivals
    <3>3. ArrivalInv'
      BY <3>1, PairGoesOn DEF ArrivalInv
    <3>4. QueueOrder' /\ ServedInTurn'
      BY <2>1, <3>1, QueueOrderStep, TurnStep
    <3> QED  BY <2>2, <3>2, <3>3, <3>4 DEF OrderInv
  <2>4. CASE UNCHANGED orderVars
    BY <2>2, <2>4 DEF orderVars, OrderInv, ArrivalInv, Waiting, QueueOrder, ServedInTurn, Holds
  <2> QED  BY <2>3, <2>4
<1> QED  BY <1>1, <1>2, PTL DEF OrderSpec

(* Conflicting requests are granted in the order in which they called     *)
(* acquire: the queue keeps the arrivals in order through every grant,     *)
(* wake-up and release, and canAcquire heeds all who stand before.         *)
THEOREM LocksKeepOrder == OrderSpec => []ServedInTurn
BY OrderInvariant, PTL DEF OrderInv
-----------------------------------------------------------------------------
(* Queue, counters and condition variable implement the abstract lock: a   *)
(* caller comes to hold a request only while nobody holds a conflicting    *)
(* one.                                                                    *)
THEOREM LocksImplementScopeLock == Spec => ImplementsScopeLock
<1> DEFINE held == [c \in Callers |-> IF Holds(c) THEN req[c] ELSE NoRequest]
<1>1. Init => Abstract!Init
  BY DEF Init, Abstract!Init, Holds
<1>2. LockInv /\ [Next]_vars => [Abstract!Next]_held
  <2> SUFFICES ASSUME LockInv, [Next]_vars PROVE [Abstract!Next]_held
    OBVIOUS
  <2>0. NoRequest \notin Requests
    BY RequestsAssumption DEF NoRequest
  <2>1. ASSUME NEW c \in Callers, NEW r, Granted(c, r) PROVE Abstract!Next
    <3>1. held[c] = NoRequest /\ held' = [held EXCEPT ![c] = r] /\ r \in Requests
      BY <2>1 DEF Granted
    <3>2. \A d \in Callers : held[d] # NoRequest => ~waiterConflicts(r, held[d])
      BY <2>1, GrantExcludesHolders DEF Granted
    <3> QED  BY <3>1, <3>2 DEF Abstract!Next, Abstract!Grant
  <2>2. ASSUME NEW c \in Callers, Release(c) PROVE Abstract!Next
    <3>1. Holds(c) /\ ~Holds(c)' /\ req[c] \in Requests
          /\ \A d \in Callers \ {c} : req'[d] = req[d] /\ (Holds(d)' <=> Holds(d))
      BY <2>2 DEF Release, broadcast, Holds, LockInv, TypeOK, RequestInv
    <3>2. held[c] # NoRequest /\ held' = [held EXCEPT ![c] = NoRequest]
      BY <2>0, <3>1
    <3> QED  BY <3>2 DEF Abstract!Next, Abstract!Drop
  <2>3. ASSUME \A d \in Callers : (Holds(d)' <=> Holds(d)) /\ (Holds(d) => req'[d] = req[d])
        PROVE  UNCHANGED held
    BY <2>3
  <2>4. ASSUME NEW c \in Callers, NEW r \in Requests, EnqueueAndWait(c, r) PROVE UNCHANGED held
    BY <2>3, <2>4 DEF EnqueueAndWait, Holds, LockInv, TypeOK
  <2>5. ASSUME NEW c \in Callers, WaitAgain(c) PROVE UNCHANGED held
    BY <2>3, <2>5 DEF WaitAgain, Holds, LockInv, TypeOK
  <2>6. CASE UNCHANGED vars
    BY <2>3, <2>6 DEF vars, Holds
  <2> QED  BY <2>1, <2>2, <2>4, <2>5, <2>6, AcquireGrants DEF Next
<1> QED  BY <1>1, <1>2, LockInvariant, PTL DEF Spec, ImplementsScopeLock, Abstract!Spec
=============================================================================
