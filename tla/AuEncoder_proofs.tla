-------------------------- MODULE AuEncoder_proofs --------------------------
(***************************************************************************)
(* The interner's invariants hold for every set of strings, every capacity *)
(* and every threshold; and what AuEncoder promises of the stream it       *)
(* writes, for every interval too and streams of every length.             *)
(***************************************************************************)
EXTENDS AuEncoder, TLAPS, FiniteSetTheorems, SequenceTheorems

-----------------------------------------------------------------------------
(***************************************************************************)
(* The interner.                                                           *)
(***************************************************************************)
\* The inductive invariant, in two halves that no operation mixes.  That the
\* hash is finite makes the length of a re-indexed vector a number; that it
\* points into the vector makes that length no greater than before.
DictInv ==
  /\ dictInOrder \in Seq(Str)
  /\ IsHash(dictionary, InternEntry)
  /\ IsFiniteSet(DOMAIN dictionary)
  /\ capacity \in Nat
  /\ IndexNamesItsString
  /\ ViewsNeverDangle

TrackerInv ==
  /\ inOrder \in Seq(Str)
  /\ IsHash(seen, Nat)
  /\ freeNodes \in Nat
  /\ TrackerConsistent

InternInv == DictInv /\ TrackerInv

-----------------------------------------------------------------------------
(***************************************************************************)
(* Lemmas about the operators.                                             *)
(***************************************************************************)

\* A hash whose strings all sit in a vector has no more strings than the
\* vector has places.
LEMMA HashNoLargerThanVector ==
  ASSUME NEW q \in Seq(Str), NEW D,
         \A s \in D : \E i \in DOMAIN q : q[i] = s
  PROVE  IsFiniteSet(D) /\ Cardinality(D) <= Len(q)
<1> DEFINE place == [s \in D |-> CHOOSE i \in 1..Len(q) : q[i] = s]
<1>1. Len(q) \in Nat /\ DOMAIN q = 1..Len(q)
  BY LenProperties
<1>2. IsFiniteSet(1..Len(q)) /\ Cardinality(1..Len(q)) = Len(q)
  BY SMTT(30), <1>1, FS_Interval
<1>3. \A s \in D : place[s] \in 1..Len(q) /\ q[place[s]] = s
  BY <1>1
<1>4. place \in Injection(D, 1..Len(q))
  BY <1>3 DEF Injection, IsInjective
<1>5. QED
  BY <1>2, <1>4, FS_Injection

\* doReIndex on a finite hash: the vector it builds holds exactly the hash's
\* strings, and the hash it builds names each string's place.
LEMMA ReindexedAgrees ==
  ASSUME NEW d, IsHash(d, InternEntry), IsFiniteSet(DOMAIN d),
         NEW o \in SortedOrders(d)
  PROVE  /\ o \in Seq(Str)
         /\ Len(o) = Cardinality(DOMAIN d)
         /\ IsHash(Indexing(o, d), InternEntry)
         /\ DOMAIN Indexing(o, d) = DOMAIN d
         /\ \A s \in DOMAIN d :
              /\ Indexing(o, d)[s].internIndex + 1 \in DOMAIN o
              /\ o[Indexing(o, d)[s].internIndex + 1] = s
<1>1. Cardinality(DOMAIN d) \in Nat
  BY FS_CardinalityType
<1>2. o \in [1..Cardinality(DOMAIN d) -> DOMAIN d] /\ DOMAIN d \subseteq Str
  BY DEF SortedOrders, IsHash
<1>3. o \in Seq(Str) /\ Len(o) = Cardinality(DOMAIN d)
  BY <1>1, <1>2
<1>4. ASSUME NEW s \in DOMAIN d
      PROVE  /\ Indexing(o, d)[s] \in InternEntry
             /\ Indexing(o, d)[s].internIndex + 1 \in DOMAIN o
             /\ o[Indexing(o, d)[s].internIndex + 1] = s
  <2> DEFINE p == CHOOSE i \in DOMAIN o : o[i] = s
  <2>1. \E i \in DOMAIN o : o[i] = s
    BY DEF SortedOrders
  <2>2. p \in DOMAIN o /\ o[p] = s
    BY <2>1
  <2>3. p \in 1..Cardinality(DOMAIN d)
    BY <2>2, <1>2
  <2>4. p - 1 \in Nat /\ (p - 1) + 1 = p
    BY <2>3, <1>1
  <2>5. Indexing(o, d)[s] = [internIndex |-> p - 1, occurences |-> d[s].occurences]
    BY DEF Indexing
  <2>6. d[s].occurences \in Nat
    BY DEF IsHash, InternEntry
  <2>7. QED
    BY <2>2, <2>4, <2>5, <2>6 DEF InternEntry
<1>5. DOMAIN Indexing(o, d) = DOMAIN d
  BY DEF Indexing
<1>6. IsHash(Indexing(o, d), InternEntry)
  BY <1>2, <1>4, <1>5 DEF IsHash, Indexing
<1>7. QED
  BY <1>3, <1>4, <1>5, <1>6
-----------------------------------------------------------------------------
(***************************************************************************)
(* The tracker keeps its half of the invariant.                            *)
(***************************************************************************)
\* Taking one node out of the list takes one string out of the tracker.
LEMMA PromoteTracker ==
  ASSUME NEW s \in Str, TrackerInv, Frequent(s), Promote(s)
  PROVE  TrackerInv'
<1>1. PICK i \in DOMAIN inOrder : inOrder[i] = s /\ inOrder' = RemoveAt(inOrder, i)
  BY DEF Promote
<1> DEFINE a == SubSeq(inOrder, 1, i - 1)
<1> DEFINE b == SubSeq(inOrder, i + 1, Len(inOrder))
<1> DEFINE n == Len(inOrder)
<1>2. n \in Nat /\ i \in 1..n /\ \A k \in 1..n : inOrder[k] \in Str
  BY LenProperties, ElementOfSeq DEF TrackerInv
<1>3. /\ a \in Seq(Str) /\ Len(a) = i - 1
      /\ \A k \in 1..(i - 1) : a[k] = inOrder[k]
  <2>1. /\ a \in Seq(Str)
        /\ Len(a) = IF 1 <= i - 1 THEN (i - 1) - 1 + 1 ELSE 0
        /\ \A k \in 1..((i - 1) - 1 + 1) : a[k] = inOrder[1 + k - 1]
    BY <1>2, SubSeqProperties
  <2>2. QED
    BY <2>1, <1>2
<1>4. /\ b \in Seq(Str) /\ Len(b) = n - i
      /\ \A k \in 1..(n - i) : b[k] = inOrder[i + k]
  <2>1. /\ b \in Seq(Str)
        /\ Len(b) = IF i + 1 <= n THEN n - (i + 1) + 1 ELSE 0
        /\ \A k \in 1..(n - (i + 1) + 1) : b[k] = inOrder[(i + 1) + k - 1]
    BY <1>2, SubSeqProperties
  <2>2. QED
    BY <2>1, <1>2
<1>4a. inOrder' = a \o b
  BY <1>1 DEF RemoveAt
<1>4b. n = Len(inOrder)
  OBVIOUS
<1> HIDE DEF a, b, n
<1>5. /\ inOrder' \in Seq(Str) /\ Len(inOrder') = n - 1
      /\ \A k \in 1..(n - 1) :
           inOrder'[k] = IF k < i THEN inOrder[k] ELSE inOrder[k + 1]
  <2>1. inOrder' = a \o b
    BY <1>4a
  <2>2. /\ inOrder' \in Seq(Str)
        /\ Len(inOrder') = Len(a) + Len(b)
        /\ \A k \in 1..(Len(a) + Len(b)) :
             inOrder'[k] = IF k <= Len(a) THEN a[k] ELSE b[k - Len(a)]
    BY <2>1, <1>3, <1>4, ConcatProperties
  <2>3. Len(a) + Len(b) = n - 1
    BY <1>2, <1>3, <1>4
  <2>4. ASSUME NEW k \in 1..(n - 1)
        PROVE  inOrder'[k] = IF k < i THEN inOrder[k] ELSE inOrder[k + 1]
    <3>1. inOrder'[k] = IF k <= i - 1 THEN a[k] ELSE b[k - (i - 1)]
      BY <2>2, <2>3, <1>3
    <3>2. CASE k < i
      BY <3>1, <3>2, <1>2, <1>3
    <3>3. CASE ~(k < i)
      <4>1. k - (i - 1) \in 1..(n - i) /\ i + (k - (i - 1)) = k + 1
        BY <3>3, <1>2
      <4>2. QED
        BY <3>1, <3>3, <4>1, <1>2, <1>4
    <3>4. QED
      BY <3>2, <3>3
  <2>5. QED
    BY <2>2, <2>3, <2>4
<1>6. DOMAIN inOrder = 1..n /\ DOMAIN inOrder' = 1..(n - 1)
  BY <1>4b, <1>5, LenProperties DEF TrackerInv
<1>6a. /\ \A k, m \in 1..n : inOrder[k] = inOrder[m] => k = m
       /\ \A k \in 1..n : inOrder[k] \in DOMAIN seen
       /\ \A t \in DOMAIN seen : \E k \in 1..n : inOrder[k] = t
       /\ n <= InternCacheSize /\ freeNodes + n = InternCacheSize + 1
  BY <1>4b, <1>6 DEF TrackerInv, TrackerConsistent
<1>7. DOMAIN seen' = DOMAIN seen \ {s}
  BY DEF Promote
<1>8. {inOrder'[k] : k \in DOMAIN inOrder'} = DOMAIN seen \ {s}
  <2>1. ASSUME NEW k \in 1..(n - 1)
        PROVE  inOrder'[k] \in DOMAIN seen \ {s}
    <3>1. PICK x \in 1..n : x = (IF k < i THEN k ELSE k + 1)
      BY <1>2
    <3>2. inOrder'[k] = inOrder[x]
      BY <3>1, <1>5
    <3>3. x # i
      BY <3>1, <1>2
    <3>4. inOrder[x] # s
      BY <3>3, <1>1, <1>2, <1>6a
    <3>5. QED
      BY <3>2, <3>4, <1>6a
  <2>2. ASSUME NEW t \in DOMAIN seen \ {s}
        PROVE  \E k \in 1..(n - 1) : inOrder'[k] = t
    <3>1a. t \in DOMAIN seen /\ t # s
      OBVIOUS
    <3>1b. \E k \in 1..n : inOrder[k] = t
      BY <3>1a, <1>6a
    <3>1. PICK m \in 1..n : inOrder[m] = t
      BY <3>1b
    <3>2. m # i
      BY <3>1, <1>1
    <3>3. CASE m < i
      <4>1. m \in 1..(n - 1)
        BY <3>3, <1>2
      <4>2. QED
        BY <4>1, <3>1, <3>3, <1>5
    <3>4. CASE m > i
      <4>1. m - 1 \in 1..(n - 1) /\ ~(m - 1 < i) /\ (m - 1) + 1 = m
        BY <3>4, <1>2
      <4>2. QED
        BY <4>1, <3>1, <1>5
    <3>5. QED
      BY <3>2, <3>3, <3>4, <1>2
  <2>3. QED
    BY <2>1, <2>2, <1>6
<1>9. \A k, m \in DOMAIN inOrder' : inOrder'[k] = inOrder'[m] => k = m
  <2>1. SUFFICES ASSUME NEW k \in 1..(n - 1), NEW m \in 1..(n - 1),
                        inOrder'[k] = inOrder'[m]
                 PROVE  k = m
    BY <1>6
  <2>2. PICK x \in 1..n, y \in 1..n :
          /\ x = (IF k < i THEN k ELSE k + 1)
          /\ y = (IF m < i THEN m ELSE m + 1)
    BY <1>2
  <2>3. inOrder[x] = inOrder[y]
    BY <2>1, <2>2, <1>5
  <2>4. x = y
    BY <2>3, <1>6a
  <2>5. QED
    BY <2>2, <2>4, <1>2
<1>10. IsHash(seen', Nat)
  BY <1>7 DEF Promote, IsHash, TrackerInv
<1>11. freeNodes' \in Nat /\ freeNodes' + Len(inOrder') = InternCacheSize + 1
  <2>1. freeNodes' = freeNodes + 1 /\ freeNodes \in Nat
    BY DEF Promote, TrackerInv
  <2>2. InternCacheSize \in Nat
    BY InternAssumption
  <2>3. Len(inOrder') = n - 1 /\ n \in Nat /\ freeNodes + n = InternCacheSize + 1
    BY <1>2, <1>5, <1>6a
  <2>. QED
    BY <2>1, <2>2, <2>3
<1>12. Len(inOrder') <= InternCacheSize
  BY <1>2, <1>5, <1>6a, InternAssumption
<1>13. QED
  BY <1>5, <1>7, <1>8, <1>9, <1>10, <1>11, <1>12 DEF TrackerInv, TrackerConsistent

LEMMA CountAgainTracker ==
  ASSUME NEW s \in Str, TrackerInv, CountAgain(s)
  PROVE  TrackerInv'
BY DEF TrackerInv, TrackerConsistent, CountAgain, IsHash

\* Starting to track a string: with the cache full the oldest one leaves, so
\* the list stays within INTERN_CACHE_SIZE; otherwise a node is free.
LEMMA StartTrackingTracker ==
  ASSUME NEW s \in Str, TrackerInv, StartTracking(s)
  PROVE  TrackerInv'
<1> DEFINE n == Len(inOrder)
<1> DEFINE full == n >= InternCacheSize
<1> DEFINE kept == IF full THEN Tail(inOrder) ELSE inOrder
<1> DEFINE evicted == IF full THEN {Head(inOrder)} ELSE {}
<1>1. n \in Nat /\ DOMAIN inOrder = 1..n /\ \A k \in 1..n : inOrder[k] \in Str
  BY LenProperties, ElementOfSeq DEF TrackerInv
<1>2. /\ \A k, m \in 1..n : inOrder[k] = inOrder[m] => k = m
      /\ \A k \in 1..n : inOrder[k] \in DOMAIN seen
      /\ \A t \in DOMAIN seen : \E k \in 1..n : inOrder[k] = t
      /\ n <= InternCacheSize /\ freeNodes + n = InternCacheSize + 1
  BY <1>1 DEF TrackerInv, TrackerConsistent
<1>3. /\ inOrder' = Append(kept, s)
      /\ seen' = [t \in (DOMAIN seen \ evicted) \cup {s} |->
                    IF t = s THEN 1 ELSE seen[t]]
      /\ freeNodes' = IF full THEN freeNodes ELSE freeNodes - 1
      /\ s \notin DOMAIN seen
  BY DEF StartTracking
<1>4. /\ kept \in Seq(Str)
      /\ Len(kept) \in Nat /\ Len(kept) = (IF full THEN n - 1 ELSE n)
      /\ \A k \in 1..Len(kept) : kept[k] \in DOMAIN seen \ evicted
      /\ \A t \in DOMAIN seen \ evicted : \E k \in 1..Len(kept) : kept[k] = t
      /\ \A k, m \in 1..Len(kept) : kept[k] = kept[m] => k = m
  <2>1. CASE ~full
    BY <2>1, <1>1, <1>2 DEF TrackerInv
  <2>2. CASE full
    <3>1. inOrder # <<>>
      BY <2>2, <1>1, InternAssumption
    <3>2. /\ kept \in Seq(Str) /\ Len(kept) = n - 1
          /\ \A k \in 1..(n - 1) : kept[k] = inOrder[k + 1]
          /\ evicted = {inOrder[1]}
      BY <2>2, <3>1, HeadTailProperties DEF TrackerInv
    <3>3. n - 1 \in Nat
      BY <2>2, <1>1, InternAssumption
    <3> HIDE DEF kept, evicted, n
    <3>4. ASSUME NEW k \in 1..(n - 1)
          PROVE  kept[k] \in DOMAIN seen \ evicted
      <4>1. k + 1 \in 1..n /\ 1 \in 1..n /\ k + 1 # 1
        BY <1>1, <3>3
      <4>2. inOrder[k + 1] # inOrder[1] /\ inOrder[k + 1] \in DOMAIN seen
        BY <4>1, <1>2
      <4>3. QED
        BY <4>2, <3>2
    <3>5. ASSUME NEW t \in DOMAIN seen \ evicted
          PROVE  \E k \in 1..(n - 1) : kept[k] = t
      <4>1. PICK m \in 1..n : inOrder[m] = t
        BY <1>2
      <4>1a. m # 1
        BY <4>1, <3>2
      <4>2. m - 1 \in 1..(n - 1) /\ (m - 1) + 1 = m
        BY <4>1a, <1>1
      <4>3. kept[m - 1] = inOrder[m]
        BY <4>2, <3>2
      <4>4. QED
        BY <4>1, <4>2, <4>3
    <3>6. ASSUME NEW k \in 1..(n - 1), NEW m \in 1..(n - 1), kept[k] = kept[m]
          PROVE  k = m
      <4>1. inOrder[k + 1] = inOrder[m + 1]
        BY <3>2, <3>6
      <4>2. k + 1 \in 1..n /\ m + 1 \in 1..n
        BY <1>1
      <4>3. k + 1 = m + 1
        BY <4>1, <4>2, <1>2
      <4>4. QED
        BY <4>3
    <3>7. QED
      BY <2>2, <3>2, <3>3, <3>4, <3>5, <3>6
  <2>3. QED
    BY <2>1, <2>2
<1>4a. n = Len(inOrder)
  OBVIOUS
<1> HIDE DEF kept, evicted, n
<1>5. /\ inOrder' \in Seq(Str) /\ Len(inOrder') = Len(kept) + 1
      /\ \A k \in 1..Len(kept) : inOrder'[k] = kept[k]
      /\ inOrder'[Len(kept) + 1] = s
      /\ DOMAIN inOrder' = 1..(Len(kept) + 1)
  BY <1>3, <1>4, AppendProperties, LenProperties
<1>6. DOMAIN seen' = (DOMAIN seen \ evicted) \cup {s}
  BY <1>3
<1>7. {inOrder'[k] : k \in DOMAIN inOrder'} = DOMAIN seen'
  <2> DEFINE m == Len(kept)
  <2>1. m \in Nat /\ DOMAIN inOrder' = 1..(m + 1)
    BY <1>4, <1>5
  <2>2. \A k \in 1..(m + 1) : k \in 1..m \/ k = m + 1
    BY <2>1
  <2>3. \A k \in 1..m : k \in 1..(m + 1)
    BY <2>1
  <2>4. m + 1 \in 1..(m + 1)
    BY <2>1
  <2>5. ASSUME NEW k \in 1..(m + 1)
        PROVE  inOrder'[k] \in DOMAIN seen'
    BY <2>2, <1>4, <1>5, <1>6
  <2>6. ASSUME NEW t \in DOMAIN seen'
        PROVE  \E k \in 1..(m + 1) : inOrder'[k] = t
    BY <2>3, <2>4, <1>4, <1>5, <1>6
  <2>7. QED
    BY <2>1, <2>5, <2>6
<1>8. \A k, m \in DOMAIN inOrder' : inOrder'[k] = inOrder'[m] => k = m
  BY <1>3, <1>4, <1>5
<1>9. IsHash(seen', Nat)
  BY <1>3, <1>6 DEF IsHash, TrackerInv
<1>10. /\ freeNodes' \in Nat
       /\ Len(inOrder') <= InternCacheSize
       /\ freeNodes' + Len(inOrder') = InternCacheSize + 1
  <2>1. /\ n \in Nat /\ freeNodes \in Nat /\ InternCacheSize \in Nat
        /\ n <= InternCacheSize /\ freeNodes + n = InternCacheSize + 1
    BY <1>1, <1>2, InternAssumption DEF TrackerInv
  <2>2. Len(inOrder') = (IF full THEN n - 1 ELSE n) + 1
    BY <1>4, <1>5
  <2>3. freeNodes' = IF full THEN freeNodes ELSE freeNodes - 1
    BY <1>3
  <2>4. QED
    BY <2>1, <2>2, <2>3
<1>11. QED
  BY <1>5, <1>7, <1>8, <1>9, <1>10 DEF TrackerInv, TrackerConsistent

-----------------------------------------------------------------------------
(***************************************************************************)
(* The hash and the vector keep theirs.                                    *)
(***************************************************************************)

\* A new string goes behind a vector the hash agrees with.
LEMMA AppendEntryAgrees ==
  ASSUME NEW s \in Str, NEW o \in Seq(Str), NEW d,
         IsHash(d, InternEntry), IsFiniteSet(DOMAIN d), s \notin DOMAIN d,
         \A t \in DOMAIN d : /\ d[t].internIndex + 1 \in DOMAIN o
                             /\ o[d[t].internIndex + 1] = t,
         AppendEntry(s, o, d), capacity' \in Nat, Len(o) < capacity'
  PROVE  DictInv'
<1>1. /\ Len(o) \in Nat /\ DOMAIN o = 1..Len(o)
      /\ dictInOrder' \in Seq(Str) /\ Len(dictInOrder') = Len(o) + 1
      /\ DOMAIN dictInOrder' = 1..(Len(o) + 1)
      /\ \A i \in 1..Len(o) : dictInOrder'[i] = o[i]
      /\ dictInOrder'[Len(o) + 1] = s
  BY LenProperties, AppendProperties DEF AppendEntry
<1>2. /\ DOMAIN dictionary' = DOMAIN d \cup {s}
      /\ dictionary'[s] = [internIndex |-> Len(o), occurences |-> 1]
      /\ \A t \in DOMAIN d : dictionary'[t] = d[t]
      /\ dictionary' \in [DOMAIN d \cup {s} -> InternEntry]
  BY <1>1 DEF AppendEntry, IsHash, InternEntry
<1>3. IsHash(dictionary', InternEntry)
  BY <1>2 DEF IsHash
<1>4. IsFiniteSet(DOMAIN dictionary')
  BY <1>2, FS_AddElement
<1>5. ASSUME NEW t \in DOMAIN dictionary'
      PROVE  /\ dictionary'[t].internIndex + 1 \in DOMAIN dictInOrder'
             /\ dictInOrder'[dictionary'[t].internIndex + 1] = t
  <2>1. CASE t = s
    BY <2>1, <1>1, <1>2
  <2>2. CASE t \in DOMAIN d
    BY <2>2, <1>1, <1>2
  <2>3. QED
    BY <2>1, <2>2, <1>2
<1>6. Len(dictInOrder') <= capacity'
  BY <1>1
<1>7. QED
  BY <1>1, <1>3, <1>4, <1>5, <1>6 DEF DictInv, IndexNamesItsString, ViewsNeverDangle

\* The same, with s put into a vector that may be full.
LEMMA AddEntryAgrees ==
  ASSUME NEW s \in Str, DictInv, s \notin DOMAIN dictionary, AddEntry(s)
  PROVE  DictInv'
<1>1. Len(dictInOrder) \in Nat /\ DOMAIN dictInOrder = 1..Len(dictInOrder)
  BY LenProperties DEF DictInv
<1>2. CASE Len(dictInOrder) = capacity
  <2>1. capacity' = GrowCapacity /\ capacity' \in Nat /\ capacity < capacity'
    BY <1>2 DEF AddEntry, GrowCapacity, DictInv
  <2>2. PICK o \in SortedOrders(dictionary) :
          AppendEntry(s, o, Indexing(o, dictionary))
    BY <1>2 DEF AddEntry
  <2>3. Cardinality(DOMAIN dictionary) <= Len(dictInOrder)
    BY <1>1, HashNoLargerThanVector DEF DictInv, IndexNamesItsString
  <2> DEFINE d == Indexing(o, dictionary)
  <2>4. /\ o \in Seq(Str) /\ Len(o) = Cardinality(DOMAIN dictionary)
        /\ IsHash(d, InternEntry) /\ DOMAIN d = DOMAIN dictionary
        /\ \A t \in DOMAIN d : /\ d[t].internIndex + 1 \in DOMAIN o
                               /\ o[d[t].internIndex + 1] = t
    BY ReindexedAgrees DEF DictInv
  <2>5. IsFiniteSet(DOMAIN d)
    BY <2>4 DEF DictInv
  <2>6. Len(o) < capacity'
    BY <1>1, <1>2, <2>1, <2>3, <2>4, FS_CardinalityType DEF DictInv
  <2> HIDE DEF d
  <2>7. AppendEntry(s, o, d)
    BY <2>2 DEF d
  <2>8. QED
    BY <2>1, <2>4, <2>5, <2>6, <2>7, AppendEntryAgrees
<1>3. CASE Len(dictInOrder) # capacity
  <2>1. AppendEntry(s, dictInOrder, dictionary) /\ capacity' = capacity
    BY <1>3 DEF AddEntry
  <2>2. Len(dictInOrder) < capacity'
    <3>1. Len(dictInOrder) <= capacity /\ capacity \in Nat /\ capacity' = capacity
      BY <2>1 DEF DictInv, ViewsNeverDangle
    <3>2. \A m, c \in Nat : m <= c /\ m # c => m < c
      OBVIOUS
    <3>3. QED
      BY <1>1, <1>3, <3>1, <3>2
  <2>3. QED
    BY <2>1, <2>2, AppendEntryAgrees DEF DictInv, IndexNamesItsString
<1>4. QED
  BY <1>2, <1>3

LEMMA SurvivorsAgree ==
  ASSUME DictInv, NEW threshold
  PROVE  /\ DOMAIN Survivors(threshold) \subseteq DOMAIN dictionary
         /\ IsHash(Survivors(threshold), InternEntry)
         /\ IsFiniteSet(DOMAIN Survivors(threshold))
         /\ \A s \in DOMAIN Survivors(threshold) :
              Survivors(threshold)[s] = dictionary[s]
<1>1. /\ DOMAIN Survivors(threshold) \subseteq DOMAIN dictionary
      /\ \A s \in DOMAIN Survivors(threshold) :
           Survivors(threshold)[s] = dictionary[s]
  BY DEF Survivors
<1>2. IsHash(Survivors(threshold), InternEntry)
  BY <1>1 DEF IsHash, DictInv, Survivors
<1>3. QED
  BY <1>1, <1>2, FS_Subset DEF DictInv
-----------------------------------------------------------------------------
(***************************************************************************)
(* One lemma per operation.                                                *)
(***************************************************************************)
LEMMA IdxKeepsInv ==
  ASSUME InternInv, NEW s \in Str, NEW hint \in Hints, Idx(s, hint)
  PROVE  InternInv'
<1>1. CASE UNCHANGED internVars
  BY <1>1 DEF internVars, InternInv, DictInv, TrackerInv, IndexNamesItsString,
              ViewsNeverDangle, TrackerConsistent
<1>2. CASE IdxHit(s)
  <2>1. TrackerInv'
    BY <1>2 DEF IdxHit, InternInv, TrackerInv, TrackerConsistent
  <2>2. /\ DOMAIN dictionary' = DOMAIN dictionary
        /\ \A t \in DOMAIN dictionary :
             /\ dictionary'[t] \in InternEntry
             /\ dictionary'[t].internIndex = dictionary[t].internIndex
    BY <1>2 DEF IdxHit, InternInv, DictInv, IsHash, InternEntry
  <2>3. IsHash(dictionary', InternEntry)
    BY <1>2, <2>2 DEF IdxHit, InternInv, DictInv, IsHash
  <2>4. UNCHANGED <<dictInOrder, capacity>>
    BY <1>2 DEF IdxHit
  <2>5. QED
    BY <2>1, <2>2, <2>3, <2>4 DEF InternInv, DictInv, IndexNamesItsString,
                                  ViewsNeverDangle
<1>3. CASE IdxTrack(s, hint)
  <2>1. DictInv'
    BY <1>3 DEF IdxTrack, InternInv, DictInv, IndexNamesItsString, ViewsNeverDangle
  <2>2. CountAgain(s) \/ StartTracking(s)
    BY <1>3 DEF IdxTrack
  <2>3. TrackerInv'
    BY <2>2, CountAgainTracker, StartTrackingTracker DEF InternInv
  <2>4. QED
    BY <2>1, <2>3 DEF InternInv
<1>4. CASE IdxAdd(s, hint)
  <2>1. DictInv'
    BY <1>4, AddEntryAgrees DEF IdxAdd, InternInv
  <2>2. CASE UNCHANGED trackerVars
    BY <2>1, <2>2 DEF trackerVars, InternInv, TrackerInv, TrackerConsistent
  <2>3. CASE Frequent(s) /\ Promote(s)
    BY <2>1, <2>3, PromoteTracker DEF InternInv
  <2>4. QED
    BY <1>4, <2>2, <2>3 DEF IdxAdd
<1>5. QED
  BY <1>1, <1>2, <1>3, <1>4 DEF Idx

LEMMA ClearKeepsInv ==
  ASSUME InternInv, NEW all \in BOOLEAN, Clear(all)
  PROVE  InternInv'
<1>1. DictInv'
  <2>1. /\ dictInOrder' = <<>> /\ Len(dictInOrder') = 0 /\ capacity' = capacity
        /\ DOMAIN dictionary' = {} /\ IsHash(dictionary', InternEntry)
    BY DEF Clear, EmptyHash, IsHash
  <2>2. QED
    BY <2>1, FS_EmptySet DEF InternInv, DictInv, IndexNamesItsString, ViewsNeverDangle
<1>2. TrackerInv'
  <2>1. CASE all
    <3>1. /\ inOrder' = <<>> /\ Len(inOrder') = 0 /\ DOMAIN inOrder' = {}
          /\ DOMAIN seen' = {} /\ IsHash(seen', Nat)
          /\ freeNodes' = freeNodes + Len(inOrder)
      BY <2>1 DEF Clear, EmptyHash, IsHash
    <3>2. Len(inOrder) \in Nat
      BY LenProperties DEF InternInv, TrackerInv
    <3>3. QED
      BY <3>1, <3>2, InternAssumption DEF InternInv, TrackerInv, TrackerConsistent
  <2>2. CASE ~all
    BY <2>2 DEF Clear, trackerVars, InternInv, TrackerInv, TrackerConsistent
  <2>3. QED
    BY <2>1, <2>2
<1>3. QED
  BY <1>1, <1>2 DEF InternInv

LEMMA PurgeKeepsInv ==
  ASSUME InternInv, NEW threshold, Purge(threshold)
  PROVE  InternInv'
<1>1. DictInv'
  BY SurvivorsAgree DEF Purge, InternInv, DictInv, IndexNamesItsString,
                        ViewsNeverDangle
<1>2. QED
  BY <1>1 DEF Purge, InternInv, TrackerInv, TrackerConsistent

LEMMA ReIndexKeepsInv ==
  ASSUME InternInv, NEW threshold, ReIndex(threshold)
  PROVE  InternInv'
<1> DEFINE kept == Survivors(threshold)
<1>1. PICK o \in SortedOrders(kept) :
        dictInOrder' = o /\ dictionary' = Indexing(o, kept)
  BY DEF ReIndex
<1>2. /\ DOMAIN kept \subseteq DOMAIN dictionary
      /\ IsHash(kept, InternEntry) /\ IsFiniteSet(DOMAIN kept)
  BY SurvivorsAgree DEF InternInv
<1>3. DictInv
  BY DEF InternInv
<1> HIDE DEF kept
<1>4. /\ o \in Seq(Str) /\ Len(o) = Cardinality(DOMAIN kept)
      /\ IsHash(Indexing(o, kept), InternEntry)
      /\ DOMAIN Indexing(o, kept) = DOMAIN kept
      /\ \A s \in DOMAIN kept :
           /\ Indexing(o, kept)[s].internIndex + 1 \in DOMAIN o
           /\ o[Indexing(o, kept)[s].internIndex + 1] = s
  BY <1>2, ReindexedAgrees
<1>5. Cardinality(DOMAIN kept) <= Len(dictInOrder)
  BY <1>2, <1>3, HashNoLargerThanVector DEF DictInv, IndexNamesItsString
<1>6. Len(o) <= capacity
  BY <1>2, <1>3, <1>4, <1>5, FS_CardinalityType, LenProperties
     DEF DictInv, ViewsNeverDangle
<1>7. UNCHANGED <<capacity, inOrder, seen, freeNodes>>
  BY DEF ReIndex
<1>8. DictInv'
  BY <1>1, <1>2, <1>3, <1>4, <1>6, <1>7
     DEF DictInv, IndexNamesItsString, ViewsNeverDangle
<1>9. QED
  BY <1>7, <1>8 DEF InternInv, TrackerInv, TrackerConsistent

\* Re-indexing drops what a purge took out of the hash and adds nothing.
LEMMA ReIndexShortens ==
  ASSUME InternInv, NEW threshold, ReIndex(threshold)
  PROVE  Len(dictInOrder') <= Len(dictInOrder)
<1> DEFINE kept == Survivors(threshold)
<1>1. PICK o \in SortedOrders(kept) : dictInOrder' = o
  BY DEF ReIndex
<1>2. /\ DOMAIN kept \subseteq DOMAIN dictionary
      /\ IsHash(kept, InternEntry) /\ IsFiniteSet(DOMAIN kept)
  BY SurvivorsAgree DEF InternInv
<1> HIDE DEF kept
<1>3. Len(o) = Cardinality(DOMAIN kept)
  BY <1>2, ReindexedAgrees
<1>4. Cardinality(DOMAIN kept) <= Len(dictInOrder)
  BY <1>2, HashNoLargerThanVector DEF InternInv, DictInv, IndexNamesItsString
<1>5. QED
  BY <1>1, <1>3, <1>4

\* Asking for an index puts at most the one string into the vector, at its
\* end, unless the vector has to grow for it.
LEMMA IdxAppends ==
  ASSUME InternInv, NEW s \in Str, NEW hint, Idx(s, hint),
         Len(dictInOrder) < capacity \/ capacity' = capacity
  PROVE  /\ capacity' = capacity
         /\ dictInOrder' = dictInOrder \/ dictInOrder' = Append(dictInOrder, s)
<1>1. CASE IdxAdd(s, hint)
  <2>1. Len(dictInOrder) \in Nat /\ capacity \in Nat
    BY LenProperties DEF InternInv, DictInv
  <2>2. AddEntry(s)
    BY <1>1 DEF IdxAdd
  <2>3. Len(dictInOrder) # capacity
    BY <2>1, <2>2 DEF AddEntry, GrowCapacity
  <2>4. QED
    BY <2>2, <2>3 DEF AddEntry, AppendEntry
<1>2. QED
  BY <1>1 DEF Idx, IdxHit, IdxTrack, internVars
-----------------------------------------------------------------------------
(***************************************************************************)
(* The theorems.                                                           *)
(***************************************************************************)
LEMMA InternInitInv == InternInit => InternInv
<1> SUFFICES ASSUME InternInit PROVE InternInv
  OBVIOUS
<1>1. /\ dictInOrder = <<>> /\ Len(dictInOrder) = 0
      /\ DOMAIN dictionary = {} /\ IsHash(dictionary, InternEntry)
      /\ inOrder = <<>> /\ Len(inOrder) = 0 /\ DOMAIN inOrder = {}
      /\ DOMAIN seen = {} /\ IsHash(seen, Nat)
  BY DEF InternInit, EmptyHash, IsHash
<1>2. DictInv
  BY <1>1, FS_EmptySet, InternAssumption
     DEF InternInit, DictInv, IndexNamesItsString, ViewsNeverDangle
<1>3. TrackerInv
  BY <1>1, InternAssumption DEF InternInit, TrackerInv, TrackerConsistent
<1>4. QED
  BY <1>2, <1>3 DEF InternInv

LEMMA InternNextInv == InternInv /\ [InternNext]_internVars => InternInv'
<1> SUFFICES ASSUME InternInv, [InternNext]_internVars
             PROVE  InternInv'
  OBVIOUS
<1>1. CASE UNCHANGED internVars
  BY <1>1 DEF internVars, InternInv, DictInv, TrackerInv, IndexNamesItsString,
              ViewsNeverDangle, TrackerConsistent
<1>2. CASE \E s \in Str, hint \in Hints : WithinCounts /\ Idx(s, hint)
  BY <1>2, IdxKeepsInv
<1>3. CASE \E all \in BOOLEAN : Clear(all)
  BY <1>3, ClearKeepsInv
<1>4. CASE \E threshold \in 1..MaxCount : Purge(threshold) \/ ReIndex(threshold)
  BY <1>4, PurgeKeepsInv, ReIndexKeepsInv
<1>5. QED
  BY <1>1, <1>2, <1>3, <1>4 DEF InternNext

\* The inductive invariant holds of every behaviour of the interner.
THEOREM InternInvariant == InternSpec => []InternInv
BY InternInitInv, InternNextInv, PTL DEF InternSpec

\* Every variable of AuStringIntern keeps its type.
THEOREM InternTypeCorrect == InternSpec => []InternTypeOK
<1>1. InternInv => InternTypeOK
  BY DEF InternInv, DictInv, TrackerInv, InternTypeOK
<1>2. QED
  BY <1>1, InternInvariant, PTL

\* The index the hash stores for a string is that string's position in the
\* vector, through every purge, clear and re-index.
THEOREM HashAgreesWithVector == InternSpec => []IndexNamesItsString
<1>1. InternInv => IndexNamesItsString
  BY DEF InternInv, DictInv
<1>2. QED
  BY <1>1, InternInvariant, PTL

\* The vector never outgrows its reservation while the hash's string_views
\* point into it.
THEOREM NoDanglingViews == InternSpec => []ViewsNeverDangle
<1>1. InternInv => ViewsNeverDangle
  BY DEF InternInv, DictInv
<1>2. QED
  BY <1>1, InternInvariant, PTL

\* The usage tracker's list and hash hold the same strings and its nodes are
\* neither lost nor duplicated, so it never runs out of them.
THEOREM TrackerNeverLeaks == InternSpec => []TrackerConsistent
<1>1. InternInv => TrackerConsistent
  BY DEF InternInv, TrackerInv
<1>2. QED
  BY <1>1, InternInvariant, PTL

-----------------------------------------------------------------------------
(***************************************************************************)
(* The stream.                                                             *)
(***************************************************************************)
\* BackrefsLand, BackrefsBounded and the first half of BackrefsFit as
\* statements about a log, to apply them to the logs finalizeAndWrite passes
\* through on the way from enc to enc'.
Lands(log) ==
  \A i \in 1..Len(log) : HasBackref(log[i]) =>
    \E j \in 1..(i - 1) :
      /\ IsDict(log[j])
      /\ \A k \in (j + 1)..(i - 1) : ~IsDict(log[k])
      /\ log[j].sor + log[i].backref = log[i].sor

Bounded(log) ==
  \A i \in 1..Len(log) : HasBackref(log[i]) =>
    \/ log[i].backref <= BackrefThreshold
    \/ /\ i > 1
       /\ IsDict(log[i - 1])
       /\ log[i].backref = log[i - 1].size

Representable(log) == \A i \in 1..Len(log) : log[i].backref <= MaxBackref

LogOK(e) ==
  /\ e \in EncState
  /\ Lands(e.log)
  /\ Bounded(e.log)
  /\ Representable(e.log)

\* What makes BackrefsLand inductive: backref_ is always the distance from
\* the next byte of the stream back to the last A or C record.
DictBehind(e) ==
  \E j \in 1..Len(e.log) :
    /\ IsDict(e.log[j])
    /\ \A k \in (j + 1)..Len(e.log) : ~IsDict(e.log[k])
    /\ e.log[j].sor + e.backref = e.end

\* Why the next record satisfies BackrefsBounded.
Close(e) ==
  \/ e.backref <= BackrefThreshold
  \/ /\ Len(e.log) > 0
     /\ IsDict(e.log[Len(e.log)])
     /\ e.backref = e.log[Len(e.log)].size

LogInv(e) == LogOK(e) /\ DictBehind(e)

EncInv ==
  /\ InternInv
  /\ EncTypeOK
  /\ LogInv(enc)
  /\ BackrefsFit

-----------------------------------------------------------------------------
(***************************************************************************)
(* Sizes are numbers.                                                      *)
(***************************************************************************)
LEMMA VarintLenType == \A n : VarintLen(n) \in Nat
<1> TAKE n
<1>1. IsFiniteSet(0..3)
  <2>1. \A a, b \in Int : IsFiniteSet(a..b)
    BY FS_Interval
  <2>2. 0 \in Int /\ 3 \in Int
    OBVIOUS
  <2>3. QED
    BY <2>1, <2>2, Zenon
<1> DEFINE bytes == {k \in 0..3 : k = 0 \/ 128^k <= n}
<1>2. bytes \subseteq 0..3 /\ VarintLen(n) = Cardinality(bytes)
  BY DEF VarintLen
<1> HIDE DEF bytes
<1>3. QED
  BY <1>1, <1>2, FS_Subset, FS_CardinalityType

LEMMA AddSizePositive ==
  ASSUME dictInOrder \in Seq(Str), NEW e \in EncState
  PROVE  AddSize(e) \in Nat /\ AddSize(e) > 0
<1> DEFINE strings == e.lastDictSize + 1 .. Len(dictInOrder)
<1> DEFINE bytes == 1..MaxStringSize
<1>1. Len(dictInOrder) \in Nat /\ e.lastDictSize + 1 \in Nat
  BY LenProperties DEF EncState
<1>2. IsFiniteSet(strings)
  BY SMTT(30), <1>1, FS_Interval
<1>3. MaxStringSize \in Nat
  BY EncoderAssumption DEF MaxStringSize
<1>4. IsFiniteSet(bytes)
  BY <1>3, FS_Interval
<1>5. IsFiniteSet(strings \X bytes)
  BY <1>2, <1>4, FS_Product
<1>6. NewBytes(e) \subseteq strings \X bytes
  BY DEF NewBytes
<1>7. Cardinality(NewBytes(e)) \in Nat
  BY <1>5, <1>6, FS_Subset, FS_CardinalityType
<1>8. QED
  BY <1>7 DEF AddSize, AddOverhead, BackrefSize, TermSize

LEMMA TokenSizeType == ASSUME NEW t \in Token PROVE TokenSize(t) \in Nat
<1>1. CASE t.kind = "ref"
  BY <1>1, VarintLenType DEF TokenSize
<1>2. CASE t.kind = "inline" /\ t.value = Scalar
  BY <1>2, EncoderAssumption DEF TokenSize
<1>3. CASE t.kind = "inline" /\ t.value # Scalar
  <2>1. t.value \in Str
    BY <1>3 DEF Token, Value
  <2>2. StrLen[t.value] \in Nat
    BY <2>1, InternAssumption
  <2>3. StringSize(t.value) \in Nat
    BY <2>2, VarintLenType DEF StringSize, StringOverhead
  <2>4. QED
    BY <1>3, <2>3 DEF TokenSize
<1>4. QED
  BY <1>1, <1>2, <1>3 DEF Token

-----------------------------------------------------------------------------
(***************************************************************************)
(* Each kind of record keeps the log well-formed.                          *)
(***************************************************************************)

\* The step they share: a record whose backref is the running distance goes
\* to the end of the log.
LEMMA AppendKeepsLog ==
  ASSUME NEW e, LogOK(e), NEW r \in Record,
         HasBackref(r) => /\ DictBehind(e) /\ Close(e)
                          /\ r.sor = e.end /\ r.backref = e.backref,
         r.backref <= MaxBackref
  PROVE  /\ Append(e.log, r) \in Seq(Record)
         /\ Lands(Append(e.log, r))
         /\ Bounded(Append(e.log, r))
         /\ Representable(Append(e.log, r))
<1> DEFINE n == Len(e.log)
<1> DEFINE log == Append(e.log, r)
<1>1. /\ e.log \in Seq(Record) /\ n \in Nat /\ e.end \in Nat /\ e.backref \in Nat
  BY LenProperties DEF LogOK, EncState
<1>2. /\ log \in Seq(Record) /\ Len(log) = n + 1
      /\ \A i \in 1..n : log[i] = e.log[i]
      /\ log[n + 1] = r
  BY <1>1, AppendProperties
<1>2a. n = Len(e.log)
  OBVIOUS
<1> HIDE DEF n, log
<1>3. Lands(log)
  <2> SUFFICES ASSUME NEW i \in 1..(n + 1), HasBackref(log[i])
               PROVE  \E j \in 1..(i - 1) :
                        /\ IsDict(log[j])
                        /\ \A k \in (j + 1)..(i - 1) : ~IsDict(log[k])
                        /\ log[j].sor + log[i].backref = log[i].sor
    BY <1>2 DEF Lands
  <2>1. CASE i \in 1..n
    <3>1. PICK j \in 1..(i - 1) :
            /\ IsDict(e.log[j])
            /\ \A k \in (j + 1)..(i - 1) : ~IsDict(e.log[k])
            /\ e.log[j].sor + e.log[i].backref = e.log[i].sor
      BY <2>1, <1>2, <1>2a DEF LogOK, Lands
    <3>2. /\ j \in 1..n
          /\ \A k \in (j + 1)..(i - 1) : k \in 1..n
      BY <2>1, <1>1, <3>1
    <3>3. QED
      BY <2>1, <3>1, <3>2, <1>2
  <2>2. CASE i = n + 1
    <3>1. /\ DictBehind(e) /\ r.sor = e.end /\ r.backref = e.backref
      BY <2>2, <1>2
    <3>2. PICK j \in 1..n :
            /\ IsDict(e.log[j])
            /\ \A k \in (j + 1)..n : ~IsDict(e.log[k])
            /\ e.log[j].sor + e.backref = e.end
      BY <3>1, <1>2a DEF DictBehind
    <3>3. /\ i - 1 = n /\ \A k \in (j + 1)..n : k \in 1..n
      BY <2>2, <1>1
    <3>4. QED
      BY <2>2, <3>1, <3>2, <3>3, <1>2
  <2>3. QED
    BY <2>1, <2>2, <1>1
<1>4. Bounded(log)
  <2> SUFFICES ASSUME NEW i \in 1..(n + 1), HasBackref(log[i])
               PROVE  \/ log[i].backref <= BackrefThreshold
                      \/ /\ i > 1
                         /\ IsDict(log[i - 1])
                         /\ log[i].backref = log[i - 1].size
    BY <1>2 DEF Bounded
  <2>1. CASE i \in 1..n
    <3>1. i > 1 => i - 1 \in 1..n
      BY <2>1, <1>1
    <3>2. \/ e.log[i].backref <= BackrefThreshold
          \/ /\ i > 1
             /\ IsDict(e.log[i - 1])
             /\ e.log[i].backref = e.log[i - 1].size
      BY <2>1, <1>2, <1>2a DEF LogOK, Bounded
    <3>3. QED
      BY <2>1, <3>1, <3>2, <1>2
  <2>2. CASE i = n + 1
    <3>1. Close(e) /\ r.backref = e.backref
      BY <2>2, <1>2
    <3>2. i - 1 = n /\ (n > 0 => n \in 1..n /\ i > 1)
      BY <2>2, <1>1
    <3>3. QED
      BY <2>2, <3>1, <3>2, <1>2, <1>2a DEF Close
  <2>3. QED
    BY <2>1, <2>2, <1>1
<1>5. Representable(log)
  <2> SUFFICES ASSUME NEW i \in 1..(n + 1)
               PROVE  log[i].backref <= MaxBackref
    BY <1>2 DEF Representable
  <2>1. CASE i \in 1..n
    BY <2>1, <1>2, <1>2a DEF LogOK, Representable
  <2>2. CASE i = n + 1
    BY <2>2, <1>2
  <2>3. QED
    BY <2>1, <2>2, <1>1
<1>6. QED
  BY <1>2, <1>3, <1>4, <1>5 DEF log

LEMMA DictRightBehind ==
  ASSUME NEW e, NEW n \in Nat, Len(e.log) = n, n > 0, IsDict(e.log[n]),
         e.log[n].sor + e.backref = e.end
  PROVE  DictBehind(e)
<1>1. n \in 1..n /\ \A k \in (n + 1)..n : ~IsDict(e.log[k])
  OBVIOUS
<1>2. QED
  BY <1>1 DEF DictBehind

\* A clear record needs no dictionary behind it, and is one to the next.
LEMMA EmitDictClearKeepsLog ==
  ASSUME NEW e, LogOK(e)
  PROVE  LogInv(EmitDictClear(e)) /\ Close(EmitDictClear(e))
<1> DEFINE r == Rec("C", e.end, ClearSize, 0, <<>>)
<1> DEFINE n == Len(e.log)
<1>1. e.log \in Seq(Record) /\ n \in Nat /\ e.end \in Nat
  BY LenProperties DEF LogOK, EncState
<1>2. r \in Record /\ ~HasBackref(r) /\ IsDict(r) /\ r.size = ClearSize
      /\ r.sor = e.end /\ r.backref = 0
  BY <1>1 DEF Rec, Record, HasBackref, IsDict, ClearSize, TermSize
<1>3. /\ Len(Append(e.log, r)) = n + 1
      /\ Append(e.log, r)[n + 1] = r
  BY <1>1, <1>2, AppendProperties
<1>4. EmitDictClear(e) = [log |-> Append(e.log, r), end |-> e.end + ClearSize,
                          backref |-> ClearSize, lastDictSize |-> 0]
  BY DEF EmitDictClear, Emit
<1> HIDE DEF r, n
<1>5. /\ Append(e.log, r) \in Seq(Record)
      /\ Lands(Append(e.log, r))
      /\ Bounded(Append(e.log, r))
      /\ Representable(Append(e.log, r))
  BY <1>2, AppendKeepsLog, EncoderAssumption
<1>6. LogOK(EmitDictClear(e))
  BY <1>1, <1>4, <1>5 DEF LogOK, EncState, ClearSize, TermSize
<1>7. DictBehind(EmitDictClear(e))
  BY <1>1, <1>2, <1>3, <1>4 DEF DictBehind
<1>8. Close(EmitDictClear(e))
  BY <1>1, <1>2, <1>3, <1>4 DEF Close
<1>9. QED
  BY <1>6, <1>7, <1>8 DEF LogInv

\* A clear record is the last of the log it ends.
LEMMA ClearIsLast ==
  ASSUME NEW e, LogInv(e)
  PROVE  LET c == EmitDictClear(e)
         IN /\ c.log # <<>>
            /\ IsDict(c.log[Len(c.log)])
            /\ c.lastDictSize = 0
<1> DEFINE r == Rec("C", e.end, ClearSize, 0, <<>>)
<1>1. e.log \in Seq(Record) /\ e.end \in Nat
  BY DEF LogInv, LogOK, EncState
<1>2. r \in Record /\ IsDict(r)
  BY <1>1 DEF Rec, Record, IsDict, ClearSize, TermSize
<1>3. EmitDictClear(e).log = Append(e.log, r) /\ EmitDictClear(e).lastDictSize = 0
  BY DEF EmitDictClear, Emit
<1> HIDE DEF r
<1>4. QED
  BY <1>1, <1>2, <1>3, AppendProperties

\* So does an add record, which also needs the dictionary behind it.
LEMMA ExportDictKeepsLog ==
  ASSUME dictInOrder \in Seq(Str), NEW e, LogInv(e), Close(e),
         HasNewStrings(e) => e.backref <= MaxBackref
  PROVE  LogInv(ExportDict(e)) /\ Close(ExportDict(e))
<1>1. CASE ~HasNewStrings(e)
  BY <1>1 DEF ExportDict
<1>2. CASE HasNewStrings(e)
  <2> DEFINE new == SubSeq(dictInOrder, e.lastDictSize + 1, Len(dictInOrder))
  <2> DEFINE r == Rec("A", e.end, AddSize(e), e.backref, new)
  <2> DEFINE n == Len(e.log)
  <2>1. /\ e \in EncState /\ e.log \in Seq(Record) /\ n \in Nat /\ e.end \in Nat
        /\ e.backref \in Nat /\ e.lastDictSize \in Nat
        /\ Len(dictInOrder) \in Nat
    BY LenProperties DEF LogInv, LogOK, EncState
  <2>2. AddSize(e) \in Nat
    BY <2>1, AddSizePositive
  <2>3. new \in Seq(Str)
    <3>1. \A i \in 1..Len(dictInOrder) : dictInOrder[i] \in Str
      BY <2>1, ElementOfSeq
    <3>2. \A i \in e.lastDictSize + 1..Len(dictInOrder) : dictInOrder[i] \in Str
      BY <2>1, <3>1
    <3>3. QED
      BY <2>1, <3>2, SubSeqProperties
  <2>4. /\ r \in Record /\ IsDict(r) /\ r.size = AddSize(e)
        /\ r.sor = e.end /\ r.backref = e.backref
    BY <2>1, <2>2, <2>3 DEF Rec, Record, IsDict
  <2>5. /\ Len(Append(e.log, r)) = n + 1
        /\ Append(e.log, r)[n + 1] = r
    BY <2>1, <2>4, AppendProperties
  <2>6. ExportDict(e) = [log |-> Append(e.log, r), end |-> e.end + AddSize(e),
                         backref |-> AddSize(e),
                         lastDictSize |-> Len(dictInOrder)]
    BY <1>2 DEF ExportDict, Emit
  <2> HIDE DEF new, r, n
  <2>7. /\ Append(e.log, r) \in Seq(Record)
        /\ Lands(Append(e.log, r))
        /\ Bounded(Append(e.log, r))
        /\ Representable(Append(e.log, r))
    BY <1>2, <2>4, AppendKeepsLog DEF LogInv
  <2>8. LogOK(ExportDict(e))
    BY <2>1, <2>2, <2>6, <2>7 DEF LogOK, EncState
  <2>9. DictBehind(ExportDict(e))
    <3>1. /\ n + 1 \in Nat /\ n + 1 > 0 /\ Len(ExportDict(e).log) = n + 1
          /\ IsDict(ExportDict(e).log[n + 1])
      BY <2>1, <2>4, <2>5, <2>6
    <3>2. /\ ExportDict(e).log[n + 1].sor = e.end
          /\ ExportDict(e).backref = AddSize(e)
          /\ ExportDict(e).end = e.end + AddSize(e)
      BY <2>4, <2>5, <2>6
    <3>3. QED
      BY <3>1, <3>2, DictRightBehind
  <2>10. Close(ExportDict(e))
    BY <2>1, <2>4, <2>5, <2>6 DEF Close
  <2>11. QED
    BY <2>8, <2>9, <2>10 DEF LogInv
<1>3. QED
  BY <1>1, <1>2

\* A value leaves the last dictionary record where it is, one value further
\* back.
LEMMA EmitValueKeepsLog ==
  ASSUME buf \in [toks : Seq(Token), size : Nat],
         NEW e, LogInv(e), Close(e), e.backref <= MaxBackref
  PROVE  LogInv(EmitValue(e))
<1> DEFINE r == Rec("V", e.end, ValueSize, e.backref, buf.toks)
<1> DEFINE n == Len(e.log)
<1>1. /\ e \in EncState /\ e.log \in Seq(Record) /\ n \in Nat /\ e.end \in Nat
      /\ e.backref \in Nat /\ e.lastDictSize \in Nat
  BY LenProperties DEF LogInv, LogOK, EncState
<1>2. ValueSize \in Nat
  BY VarintLenType DEF ValueSize, ValueLen, BackrefSize, TermSize
<1>3. /\ r \in Record /\ ~IsDict(r) /\ r.sor = e.end /\ r.backref = e.backref
  BY <1>1, <1>2 DEF Rec, Record, IsDict
<1>4. /\ Len(Append(e.log, r)) = n + 1
      /\ \A i \in 1..n : Append(e.log, r)[i] = e.log[i]
      /\ Append(e.log, r)[n + 1] = r
  BY <1>1, <1>3, AppendProperties
<1>5. EmitValue(e) = [log |-> Append(e.log, r), end |-> e.end + ValueSize,
                      backref |-> e.backref + ValueSize,
                      lastDictSize |-> e.lastDictSize]
  BY DEF EmitValue, Emit
<1>5a. n = Len(e.log)
  OBVIOUS
<1> HIDE DEF r, n
<1>6. /\ Append(e.log, r) \in Seq(Record)
      /\ Lands(Append(e.log, r))
      /\ Bounded(Append(e.log, r))
      /\ Representable(Append(e.log, r))
  BY <1>3, AppendKeepsLog DEF LogInv
<1>7. LogOK(EmitValue(e))
  BY <1>1, <1>2, <1>5, <1>6 DEF LogOK, EncState
<1>8. DictBehind(EmitValue(e))
  <2>1. PICK j \in 1..n : /\ IsDict(e.log[j])
                          /\ \A k \in (j + 1)..n : ~IsDict(e.log[k])
                          /\ e.log[j].sor + e.backref = e.end
    BY <1>5a DEF LogInv, DictBehind
  <2>2. e.log[j].sor \in Nat
    <3>1. e.log[j] \in Record
      BY <1>1, <1>5a, ElementOfSeq
    <3>2. QED
      BY <3>1 DEF Record
  <2>3. ASSUME NEW k \in (j + 1)..(n + 1)
        PROVE  ~IsDict(Append(e.log, r)[k])
    <3>1. (k \in (j + 1)..n /\ k \in 1..n) \/ k = n + 1
      BY <1>1
    <3>2. QED
      BY <3>1, <2>1, <1>3, <1>4
  <2>4. e.log[j].sor + (e.backref + ValueSize) = e.end + ValueSize
    BY SMTT(30), <1>1, <1>2, <2>1, <2>2
  <2>5. j \in 1..(n + 1) /\ Append(e.log, r)[j] = e.log[j]
    BY <1>1, <1>4
  <2> DEFINE v == EmitValue(e)
  <2>6. /\ Len(v.log) = n + 1 /\ IsDict(v.log[j])
        /\ \A k \in (j + 1)..(n + 1) : ~IsDict(v.log[k])
        /\ v.log[j].sor + v.backref = v.end
    BY SMTT(30), <1>4, <1>5, <2>1, <2>3, <2>4, <2>5
  <2> HIDE DEF v
  <2>7. DictBehind(v)
    BY <2>5, <2>6 DEF DictBehind
  <2>8. QED
    BY <2>7 DEF v
<1>9. QED
  BY <1>7, <1>8 DEF LogInv

\* A refresh when the distance has passed the threshold is what keeps the
\* next record close.
LEMMA RefreshedKeepsLog ==
  ASSUME NEW e, LogInv(e)
  PROVE  LogInv(Refreshed(e)) /\ Close(Refreshed(e))
<1>1. CASE e.backref > BackrefThreshold
  BY <1>1, EmitDictClearKeepsLog DEF Refreshed, LogInv
<1>2. CASE ~(e.backref > BackrefThreshold)
  <2>1. e.backref <= BackrefThreshold
    BY <1>2, EncoderAssumption DEF LogInv, LogOK, EncState
  <2>2. QED
    BY <1>2, <2>1 DEF Refreshed, Close
<1>3. QED
  BY <1>1, <1>2

\* After a refresh the distance fits: it is at most the threshold or the size
\* of a clear record.
LEMMA RefreshedFits ==
  ASSUME NEW e, LogInv(e), BackrefThreshold <= MaxBackref
  PROVE  Refreshed(e).backref <= MaxBackref
<1>1. CASE e.backref > BackrefThreshold
  BY <1>1, EncoderAssumption DEF Refreshed, EmitDictClear, ClearSize, TermSize
<1>2. CASE ~(e.backref > BackrefThreshold)
  BY <1>2, EncoderAssumption DEF Refreshed, LogInv, LogOK, EncState
<1>3. QED
  BY <1>1, <1>2

\* finalizeAndWrite and the maintenance after it, as far as the log goes.
LEMMA EndRecordKeepsLog ==
  ASSUME dictInOrder \in Seq(Str), buf \in [toks : Seq(Token), size : Nat],
         LogInv(enc), Fits(Refreshed(enc))
  PROVE  LET e3 == Reindexed(EmitValue(ExportDict(Refreshed(enc))))
         IN LogInv(Cleared(e3))
<1> DEFINE e1 == Refreshed(enc)
<1> DEFINE e2 == EmitValue(ExportDict(e1))
<1> DEFINE e3 == Reindexed(e2)
<1>1. LogInv(e1) /\ Close(e1)
  BY RefreshedKeepsLog
<1>2. /\ HasNewStrings(e1) => e1.backref <= MaxBackref
      /\ ExportDict(e1).backref <= MaxBackref
  BY DEF Fits
<1> HIDE DEF e1
<1>3. LogInv(ExportDict(e1)) /\ Close(ExportDict(e1))
  BY <1>1, <1>2, ExportDictKeepsLog
<1>4. LogInv(e2)
  BY <1>2, <1>3, EmitValueKeepsLog
<1> HIDE DEF e2
<1>5. LogInv(e3)
  BY <1>4, EmitDictClearKeepsLog DEF Reindexed, LogInv
<1> HIDE DEF e3
<1>6. LogInv(Cleared(e3))
  BY <1>5, EmitDictClearKeepsLog DEF Cleared, LogInv
<1>7. QED
  BY <1>6 DEF e1, e2, e3
-----------------------------------------------------------------------------
(***************************************************************************)
(* Every step keeps the invariant.                                         *)
(***************************************************************************)

\* The conjuncts of BackrefsFit, BackrefsLand and BackrefsBounded that speak
\* of the log are LogInv's.
LEMMA LogInvCovers ==
  ASSUME LogInv(enc)
  PROVE  /\ BackrefsLand
         /\ BackrefsBounded
         /\ \A i \in DOMAIN enc.log : enc.log[i].backref <= MaxBackref
<1>1. DOMAIN enc.log = 1..Len(enc.log)
  BY LenProperties DEF LogInv, LogOK, EncState
<1>2. QED
  BY <1>1 DEF LogInv, LogOK, Lands, Bounded, Representable, BackrefsLand,
              BackrefsBounded

LEMMA WriteStringKeepsInv ==
  ASSUME EncInv, NEW s \in Str, NEW hint \in Hints, WriteString(s, hint)
  PROVE  EncInv'
<1>1. InternInv'
  BY IdxKeepsInv DEF WriteString, EncInv
<1>2. InternTypeOK'
  BY <1>1 DEF InternInv, DictInv, TrackerInv, InternTypeOK
<1>3. PICK t \in Token : Put(t)
  <2>1. CASE ~Inline(s, hint) /\ s \in DOMAIN dictionary'
    <3>1. dictionary'[s].internIndex \in Nat
      BY <1>1, <2>1 DEF InternInv, DictInv, IsHash, InternEntry
    <3>2. Ref(dictionary'[s].internIndex) \in Token
      BY <3>1 DEF Ref, Token
    <3>3. QED
      BY <2>1, <3>2 DEF WriteString
  <2>2. CASE ~(~Inline(s, hint) /\ s \in DOMAIN dictionary')
    <3>1. InlineToken(s) \in Token
      BY DEF InlineToken, Token, Value
    <3>2. Put(InlineToken(s))
      BY <2>2 DEF WriteString
    <3>3. QED
      BY <3>1, <3>2
  <2>3. QED
    BY <2>1, <2>2
<1>4. buf' \in [toks : Seq(Token), size : Nat]
  <2>1. TokenSize(t) \in Nat
    BY TokenSizeType
  <2>2. /\ buf.toks \in Seq(Token) /\ buf.size \in Nat
    BY DEF EncInv, EncTypeOK
  <2>3. Append(buf.toks, t) \in Seq(Token)
    BY <2>2, AppendProperties
  <2>4. QED
    BY <1>3, <2>1, <2>2, <2>3 DEF Put
<1>5. saying' \in Seq(Value)
  <2>1. s \in Value /\ saying \in Seq(Value) /\ saying' = Append(saying, s)
    BY DEF WriteString, EncInv, EncTypeOK, Value
  <2>2. QED
    BY <2>1, AppendProperties
<1>6. UNCHANGED <<enc, records, flushed, failed, sent, calls>> /\ ~failed
  BY DEF WriteString, MaySay, MayAct
<1>7. EncTypeOK'
  BY <1>2, <1>4, <1>5, <1>6 DEF EncInv, EncTypeOK
<1>8. LogInv(enc)'
  BY <1>6 DEF EncInv
<1>9. BackrefsFit'
  BY <1>6 DEF EncInv, BackrefsFit
<1>10. QED
  BY <1>1, <1>7, <1>8, <1>9 DEF EncInv

LEMMA WriteScalarKeepsInv ==
  ASSUME EncInv, WriteScalar
  PROVE  EncInv'
<1>1. /\ UNCHANGED internVars
      /\ UNCHANGED <<enc, records, flushed, failed, sent, calls>> /\ ~failed
  BY DEF WriteScalar, MaySay, MayAct
<1>2. InternInv' /\ InternTypeOK'
  BY <1>1 DEF internVars, EncInv, EncTypeOK, InternInv, DictInv, TrackerInv,
              IndexNamesItsString, ViewsNeverDangle, TrackerConsistent,
              InternTypeOK
<1>3. buf' \in [toks : Seq(Token), size : Nat]
  <2> DEFINE t == InlineToken(Scalar)
  <2>1. t \in Token
    BY DEF InlineToken, Token, Value
  <2> HIDE DEF t
  <2>2. TokenSize(t) \in Nat
    BY <2>1, TokenSizeType
  <2>3. buf.toks \in Seq(Token) /\ buf.size \in Nat
    BY DEF EncInv, EncTypeOK
  <2>4. Append(buf.toks, t) \in Seq(Token)
    BY <2>1, <2>3, AppendProperties
  <2>5. Put(t)
    BY DEF WriteScalar, t
  <2>6. QED
    BY <2>2, <2>3, <2>4, <2>5 DEF Put
<1>4. saying' \in Seq(Value)
  <2>1. Scalar \in Value /\ saying \in Seq(Value)
        /\ saying' = Append(saying, Scalar)
    BY DEF WriteScalar, EncInv, EncTypeOK, Value
  <2>2. QED
    BY <2>1, AppendProperties
<1>5. EncTypeOK'
  BY <1>1, <1>2, <1>3, <1>4 DEF EncInv, EncTypeOK
<1>6. LogInv(enc)'
  BY <1>1 DEF EncInv
<1>7. BackrefsFit'
  BY <1>1 DEF EncInv, BackrefsFit
<1>8. QED
  BY <1>2, <1>5, <1>6, <1>7 DEF EncInv

LEMMA EndRecordKeepsInv ==
  ASSUME EncInv, EndRecord
  PROVE  EncInv'
<1> DEFINE e2 == EmitValue(ExportDict(Refreshed(enc)))
<1> DEFINE e3 == Reindexed(e2)
<1>1. /\ Fits(Refreshed(enc))
      /\ MaintainIntern(e3)
      /\ enc' = Cleared(e3)
      /\ flushed' = Len(e2.log)
      /\ records' = records + 1
      /\ buf' = [toks |-> <<>>, size |-> 0]
      /\ sent' = Append(sent, saying)
      /\ saying' = <<>>
      /\ UNCHANGED <<failed, calls>> /\ ~failed
  BY DEF EndRecord
<1>2. /\ dictInOrder \in Seq(Str) /\ buf \in [toks : Seq(Token), size : Nat]
      /\ LogInv(enc)
  BY DEF EncInv, EncTypeOK, InternTypeOK
<1>3. LogInv(enc)'
  BY <1>1, <1>2, EndRecordKeepsLog
<1>4. LogInv(e2)
  <2>1. LogInv(Refreshed(enc)) /\ Close(Refreshed(enc))
    BY <1>2, RefreshedKeepsLog
  <2>2. LogInv(ExportDict(Refreshed(enc))) /\ Close(ExportDict(Refreshed(enc)))
    BY <1>1, <1>2, <2>1, ExportDictKeepsLog DEF Fits
  <2>3. QED
    BY <1>1, <1>2, <2>2, EmitValueKeepsLog DEF Fits
<1> HIDE DEF e2, e3
<1>5. flushed' \in Nat
  BY <1>1, <1>4, LenProperties DEF LogInv, LogOK, EncState
<1>6. InternInv'
  <2>1. CASE Clear(TRUE)
    BY <2>1, ClearKeepsInv DEF EncInv
  <2>2. CASE ReIndex(PurgeThreshold)
    BY <2>2, ReIndexKeepsInv DEF EncInv
  <2>3. CASE Purge(PurgeThreshold)
    BY <2>3, PurgeKeepsInv DEF EncInv
  <2>4. CASE UNCHANGED internVars
    BY <2>4 DEF internVars, EncInv, InternInv, DictInv, TrackerInv,
                IndexNamesItsString, ViewsNeverDangle, TrackerConsistent
  <2>5. QED
    BY <1>1, <2>1, <2>2, <2>3, <2>4 DEF MaintainIntern
<1>7. InternTypeOK'
  BY <1>6 DEF InternInv, DictInv, TrackerInv, InternTypeOK
<1>8. /\ buf' \in [toks : Seq(Token), size : Nat]
      /\ saying' \in Seq(Value)
      /\ sent' \in Seq(Seq(Value))
      /\ records' \in Nat
  <2>1. sent \in Seq(Seq(Value)) /\ saying \in Seq(Value) /\ records \in Nat
    BY DEF EncInv, EncTypeOK
  <2>2. sent' \in Seq(Seq(Value))
    BY <1>1, <2>1, AppendProperties
  <2>3. QED
    BY <1>1, <2>1, <2>2
<1>9. EncTypeOK'
  BY <1>1, <1>3, <1>5, <1>7, <1>8 DEF EncInv, EncTypeOK, LogInv, LogOK
<1>10. BackrefsFit'
  BY <1>1, <1>3, LogInvCovers DEF BackrefsFit, LogInv, LogOK, EncState, Representable
<1>11. QED
  BY <1>3, <1>6, <1>9, <1>10 DEF EncInv

\* checkedBackref throws only over a dictionary record that is too large.
LEMMA EndRecordThrowsKeepsInv ==
  ASSUME EncInv, EndRecordThrows
  PROVE  EncInv'
<1> DEFINE e1 == Refreshed(enc)
<1>1. /\ UNCHANGED internVars
      /\ UNCHANGED <<enc, buf, records, flushed, saying, sent, calls>>
      /\ failed' = TRUE /\ ~Fits(e1)
  BY DEF EndRecordThrows
<1>2. InternInv' /\ InternTypeOK'
  BY <1>1 DEF internVars, EncInv, EncTypeOK, InternInv, DictInv, TrackerInv,
              IndexNamesItsString, ViewsNeverDangle, TrackerConsistent,
              InternTypeOK
<1>3. EncTypeOK'
  BY <1>1, <1>2 DEF EncInv, EncTypeOK
<1>4. LogInv(enc)'
  BY <1>1 DEF EncInv
<1>5. ASSUME BackrefThreshold <= MaxBackref
      PROVE  HasNewStrings(e1) /\ AddSize(e1) > MaxBackref
  <2>1. LogInv(e1) /\ e1.backref <= MaxBackref
    BY <1>5, RefreshedKeepsLog, RefreshedFits DEF EncInv
  <2> HIDE DEF e1
  <2>2. ~(ExportDict(e1).backref <= MaxBackref)
    BY <1>1, <2>1 DEF Fits
  <2>3. HasNewStrings(e1) /\ ExportDict(e1).backref = AddSize(e1)
    BY <2>1, <2>2 DEF ExportDict
  <2>4. AddSize(e1) \in Nat
    BY <2>1, AddSizePositive DEF LogInv, LogOK, EncInv, EncTypeOK, InternTypeOK
  <2>5. QED
    BY <2>2, <2>3, <2>4, EncoderAssumption
<1>6. UNCHANGED <<e1, HasNewStrings(e1), AddSize(e1)>>
  BY <1>1 DEF internVars, Refreshed, EmitDictClear, Emit, HasNewStrings, AddSize, NewBytes
<1>7. BackrefsFit'
  BY <1>1, <1>5, <1>6 DEF EncInv, BackrefsFit
<1>8. QED
  BY <1>2, <1>3, <1>4, <1>7 DEF EncInv

\* The dictionary operations change the interner and at most add a clear.
LEMMA DictionaryCallKeepsInv ==
  ASSUME EncInv, InternInv', ~failed, calls' = calls + 1,
         enc' = enc \/ enc' = EmitDictClear(enc),
         UNCHANGED <<buf, records, flushed, failed, saying, sent>>
  PROVE  EncInv'
<1>1. InternTypeOK'
  BY DEF InternInv, DictInv, TrackerInv, InternTypeOK
<1>2. LogInv(enc)'
  BY EmitDictClearKeepsLog DEF EncInv, LogInv
<1>3. EncTypeOK'
  BY <1>1, <1>2 DEF EncInv, EncTypeOK, LogInv, LogOK
<1>4. BackrefsFit'
  BY <1>2, LogInvCovers DEF BackrefsFit, LogInv, LogOK, EncState, Representable
<1>5. QED
  BY <1>2, <1>3, <1>4 DEF EncInv

LEMMA EncNextInv == EncInv /\ [EncNext]_encVars => EncInv'
<1> SUFFICES ASSUME EncInv, [EncNext]_encVars
             PROVE  EncInv'
  OBVIOUS
<1>1. ASSUME NEW s \in Str, NEW hint \in Hints, WriteString(s, hint)
      PROVE  EncInv'
  BY <1>1, WriteStringKeepsInv
<1>2. CASE WriteScalar
  BY <1>2, WriteScalarKeepsInv
<1>3. CASE EndRecord
  BY <1>3, EndRecordKeepsInv
<1>4. CASE EndRecordThrows
  BY <1>4, EndRecordThrowsKeepsInv
<1>5. ASSUME NEW all \in BOOLEAN, ClearDictionary(all)
      PROVE  EncInv'
  <2>1. InternInv'
    BY <1>5, ClearKeepsInv DEF ClearDictionary, EncInv
  <2>2. QED
    BY <1>5, <2>1, DictionaryCallKeepsInv DEF ClearDictionary, BetweenRecords, MayAct
<1>6. ASSUME NEW threshold \in 1..MaxCount, PurgeDictionary(threshold)
      PROVE  EncInv'
  <2>1. InternInv'
    BY <1>6, PurgeKeepsInv DEF PurgeDictionary, EncInv
  <2>2. QED
    BY <1>6, <2>1, DictionaryCallKeepsInv DEF PurgeDictionary, BetweenRecords, MayAct
<1>7. ASSUME NEW threshold \in 1..MaxCount, ReIndexDictionary(threshold)
      PROVE  EncInv'
  <2>1. InternInv'
    BY <1>7, ReIndexKeepsInv DEF ReIndexDictionary, EncInv
  <2>2. QED
    BY <1>7, <2>1, DictionaryCallKeepsInv DEF ReIndexDictionary, BetweenRecords, MayAct
<1>8. CASE UNCHANGED encVars
  <2>1. /\ UNCHANGED internVars
        /\ UNCHANGED <<enc, buf, records, flushed, failed, saying, sent, calls>>
    BY <1>8 DEF encVars, internVars
  <2>2. InternInv' /\ InternTypeOK'
    BY <2>1 DEF internVars, EncInv, EncTypeOK, InternInv, DictInv, TrackerInv,
                IndexNamesItsString, ViewsNeverDangle, TrackerConsistent,
                InternTypeOK
  <2>3. EncTypeOK' /\ LogInv(enc)'
    BY <2>1, <2>2 DEF EncInv, EncTypeOK
  <2>4. BackrefsFit'
    BY <2>1 DEF EncInv, BackrefsFit, internVars, Refreshed, EmitDictClear, Emit,
                HasNewStrings, AddSize, NewBytes
  <2>5. QED
    BY <2>2, <2>3, <2>4 DEF EncInv
<1>9. QED
  BY <1>1, <1>2, <1>3, <1>4, <1>5, <1>6, <1>7, <1>8 DEF EncNext

LEMMA EncInitInv == EncInit => EncInv
<1> SUFFICES ASSUME EncInit PROVE EncInv
  OBVIOUS
<1> DEFINE h == Rec("H", 0, HeaderSize, 0, <<>>)
<1> DEFINE e0 == [log |-> <<h>>, end |-> HeaderSize, backref |-> 0,
                  lastDictSize |-> 0]
<1>1. InternInv /\ InternTypeOK
  BY InternInitInv DEF EncInit, InternInv, DictInv, TrackerInv, InternTypeOK
<1>2. h \in Record /\ ~HasBackref(h) /\ h.backref = 0
  BY EncoderAssumption DEF Rec, Record, HasBackref
<1>3. enc = EmitDictClear(e0)
  BY DEF EncInit
<1> HIDE DEF h
<1>4. /\ <<h>> \in Seq(Record) /\ Len(<<h>>) = 1
      /\ \A i \in 1..1 : <<h>>[i] = h
  BY <1>2
<1>5. LogOK(e0)
  BY <1>2, <1>4, EncoderAssumption
     DEF LogOK, EncState, Lands, Bounded, Representable
<1> HIDE DEF e0
<1>6. LogInv(enc)
  BY <1>3, <1>5, EmitDictClearKeepsLog
<1>7. EncTypeOK
  <2>1. enc \in EncState
    BY <1>6 DEF LogInv, LogOK
  <2>2. /\ buf \in [toks : Seq(Token), size : Nat]
        /\ records \in Nat /\ flushed \in Nat /\ failed \in BOOLEAN
        /\ saying \in Seq(Value) /\ sent \in Seq(Seq(Value)) /\ calls \in Nat
    <3>1. /\ buf = [toks |-> <<>>, size |-> 0] /\ records = 0 /\ flushed = 0
          /\ failed = FALSE /\ saying = <<>> /\ sent = <<>> /\ calls = 0
      BY DEF EncInit
    <3>2. \A S : <<>> \in Seq(S)
      OBVIOUS
    <3>3. QED
      BY <3>1, <3>2
  <2>3. QED
    BY <1>1, <2>1, <2>2 DEF EncTypeOK
<1>8. BackrefsFit
  BY <1>6, LogInvCovers DEF EncInit, BackrefsFit
<1>9. QED
  BY <1>1, <1>6, <1>7, <1>8 DEF EncInv
-----------------------------------------------------------------------------
(***************************************************************************)
(* Large dictionaries do not outlive the record that made them so.         *)
(***************************************************************************)

\* Once a record is out, its maintenance has cleared the dictionary, or
\* re-indexed it, or the dictionary is within clearThreshold: exportDict, right
\* before, leaves lastDictSize_ at the size of the vector or above.
LEMMA EndRecordMaintains ==
  ASSUME EncInv, EndRecord
  PROVE  \/ dictInOrder' = <<>>
         \/ /\ Due(ReindexInterval)
            /\ ReIndex(PurgeThreshold)
            /\ enc'.log # <<>> /\ IsDict(enc'.log[Len(enc'.log)])
            /\ enc'.lastDictSize = 0
         \/ /\ ~Due(ReindexInterval)
            /\ dictInOrder' = dictInOrder
            /\ Len(dictInOrder) <= ClearThreshold
<1> DEFINE e1 == Refreshed(enc)
<1> DEFINE e2 == EmitValue(ExportDict(e1))
<1> DEFINE e3 == Reindexed(e2)
<1>1. MaintainIntern(e3) /\ enc' = Cleared(e3)
  BY DEF EndRecord
<1>2. LogInv(e2)
  <2>1. LogInv(e1) /\ Close(e1)
    BY RefreshedKeepsLog DEF EncInv
  <2>2. LogInv(ExportDict(e1)) /\ Close(ExportDict(e1))
    BY <2>1, ExportDictKeepsLog DEF EndRecord, Fits, EncInv, EncTypeOK, InternTypeOK
  <2>3. QED
    BY <2>2, EmitValueKeepsLog DEF EndRecord, Fits, EncInv, EncTypeOK
<1>3. Len(dictInOrder) \in Nat /\ Len(dictInOrder) <= e2.lastDictSize
  <2>1. e2.lastDictSize = ExportDict(e1).lastDictSize
    BY DEF EmitValue
  <2>2. Len(dictInOrder) \in Nat /\ e2.lastDictSize \in Nat
    BY <1>2, LenProperties DEF LogInv, LogOK, EncState, EncInv, EncTypeOK, InternTypeOK
  <2> HIDE DEF e1
  <2>3. QED
    BY <2>1, <2>2 DEF ExportDict, HasNewStrings
<1> HIDE DEF e2
<1>4. CASE ClearNow(e3)
  BY <1>1, <1>4 DEF MaintainIntern, Clear
<1>5. CASE ~ClearNow(e3) /\ Due(ReindexInterval)
  <2>1. enc' = EmitDictClear(e2) /\ ReIndex(PurgeThreshold)
    BY <1>1, <1>5 DEF Cleared, Reindexed, MaintainIntern
  <2>2. enc'.log # <<>> /\ IsDict(enc'.log[Len(enc'.log)]) /\ enc'.lastDictSize = 0
    BY <1>2, <2>1, ClearIsLast
  <2>3. QED
    BY <1>5, <2>1, <2>2
<1>6. CASE ~ClearNow(e3) /\ ~Due(ReindexInterval)
  <2>1. dictInOrder' = dictInOrder
    BY <1>1, <1>6 DEF MaintainIntern, Purge, internVars
  <2>2. ~(e2.lastDictSize > ClearThreshold)
    BY <1>6 DEF Reindexed, ClearNow
  <2>3. e2.lastDictSize \in Nat
    BY <1>2 DEF LogInv, LogOK, EncState
  <2>4. QED
    BY <1>3, <1>6, <2>1, <2>2, <2>3, EncoderAssumption
<1>7. QED
  BY <1>4, <1>5, <1>6

LEMMA EndRecordForgets ==
  ASSUME EncInv, EndRecord
  PROVE  LargeDictionariesForgotten'
<1>1. CASE dictInOrder' = <<>>
  BY <1>1, EncoderAssumption DEF LargeDictionariesForgotten
<1>2. CASE /\ enc'.log # <<>> /\ IsDict(enc'.log[Len(enc'.log)])
           /\ enc'.lastDictSize = 0
  BY <1>2 DEF LargeDictionariesForgotten
<1>3. CASE dictInOrder' = dictInOrder /\ Len(dictInOrder) <= ClearThreshold
  <2>1. Len(dictInOrder) \in Nat
    BY LenProperties DEF EncInv, EncTypeOK, InternTypeOK
  <2>2. QED
    BY <1>3, <2>1, EncoderAssumption DEF LargeDictionariesForgotten
<1>4. QED
  BY <1>1, <1>2, <1>3, EndRecordMaintains

LEMMA EncNextForgets ==
  EncInv /\ LargeDictionariesForgotten /\ [EncNext]_encVars
    => LargeDictionariesForgotten'
<1> SUFFICES ASSUME EncInv, LargeDictionariesForgotten, [EncNext]_encVars
             PROVE  LargeDictionariesForgotten'
  OBVIOUS
<1>1. ASSUME NEW t, Put(t) PROVE LargeDictionariesForgotten'
  <2>1. buf.toks \in Seq(Token) /\ buf'.toks = Append(buf.toks, t)
    BY <1>1 DEF Put, EncInv, EncTypeOK
  <2>2. buf'.toks # <<>>
    BY <2>1
  <2>3. QED
    BY <2>2 DEF LargeDictionariesForgotten
<1>2. ASSUME NEW s \in Str, NEW hint \in Hints, WriteString(s, hint)
      PROVE  LargeDictionariesForgotten'
  BY <1>1, <1>2 DEF WriteString
<1>3. CASE WriteScalar
  BY <1>1, <1>3 DEF WriteScalar
<1>4. CASE EndRecord
  BY <1>4, EndRecordForgets
<1>5. CASE EndRecordThrows
  BY <1>5 DEF EndRecordThrows, LargeDictionariesForgotten, internVars
<1>6. ASSUME NEW all \in BOOLEAN, ClearDictionary(all)
      PROVE  LargeDictionariesForgotten'
  <2>1. dictInOrder' = <<>> /\ Len(dictInOrder') = 0
    BY <1>6 DEF ClearDictionary, Clear
  <2>2. QED
    BY <2>1, EncoderAssumption DEF LargeDictionariesForgotten
<1>7. ASSUME NEW threshold \in 1..MaxCount, PurgeDictionary(threshold)
      PROVE  LargeDictionariesForgotten'
  BY <1>7 DEF PurgeDictionary, Purge, LargeDictionariesForgotten
<1>8. ASSUME NEW threshold \in 1..MaxCount, ReIndexDictionary(threshold)
      PROVE  LargeDictionariesForgotten'
  <2>1. enc' = EmitDictClear(enc) /\ LogInv(enc)
    BY <1>8 DEF ReIndexDictionary, EncInv
  <2>2. enc'.log # <<>> /\ IsDict(enc'.log[Len(enc'.log)]) /\ enc'.lastDictSize = 0
    BY <2>1, ClearIsLast
  <2>3. QED
    BY <2>2 DEF LargeDictionariesForgotten
<1>9. CASE UNCHANGED encVars
  BY <1>9 DEF encVars, LargeDictionariesForgotten
<1>10. QED
  BY <1>2, <1>3, <1>4, <1>5, <1>6, <1>7, <1>8, <1>9 DEF EncNext
-----------------------------------------------------------------------------
(***************************************************************************)
(* When the vector never has to grow.                                      *)
(***************************************************************************)

\* idx() has never had to grow the vector.
RoomReserved == capacity = ReserveSize

\* A record adds a string for each of its values at most, and the one that
\* follows a re-index starts with what the record before it added on top of
\* clearThreshold.  The code reserves 1680 strings and clears at 1400.
RecordsFit ==
  /\ ReindexInterval # 1
  /\ ClearThreshold + 2 * MaxTokens <= ReserveSize

JustReindexed == ReindexInterval # 0 /\ records % ReindexInterval = 0

\* How many strings the vector can hold before a record.
Base == IF JustReindexed THEN ClearThreshold + MaxTokens ELSE ClearThreshold

RoomInv ==
  /\ RoomReserved
  /\ Len(saying) <= MaxTokens
  /\ buf.toks = <<>> => saying = <<>>
  /\ Len(dictInOrder) <= Base + Len(saying)

LEMMA RoomTypes ==
  ASSUME EncTypeOK
  PROVE  /\ Len(saying) \in Nat /\ Len(dictInOrder) \in Nat
         /\ Base \in Nat
         /\ Base <= ClearThreshold + MaxTokens /\ ClearThreshold <= Base
         /\ ClearThreshold \in Nat /\ MaxTokens \in Nat
         /\ ReindexInterval \in Nat /\ records \in Nat
BY LenProperties, EncoderAssumption DEF EncTypeOK, InternTypeOK, Base

LEMMA EncNextKeepsRoom ==
  ASSUME RecordsFit, EncInv, EncInv', RoomInv, [EncNext]_encVars
  PROVE  RoomInv'
<1>1. /\ Len(saying) \in Nat /\ Len(dictInOrder) \in Nat
      /\ Base \in Nat
      /\ Base <= ClearThreshold + MaxTokens /\ ClearThreshold <= Base
      /\ ClearThreshold \in Nat /\ MaxTokens \in Nat
      /\ ReindexInterval \in Nat /\ records \in Nat
  BY RoomTypes DEF EncInv
<1>2. Base' \in Nat /\ ClearThreshold <= Base' /\ Len(dictInOrder') \in Nat
  <2>1. EncTypeOK'
    BY DEF EncInv
  <2>2. QED
    BY <2>1, LenProperties, EncoderAssumption DEF EncTypeOK, InternTypeOK, Base
<1>3. ASSUME NEW v, saying' = Append(saying, v), NEW t, Put(t),
             Len(saying) < MaxTokens, UNCHANGED <<records, capacity>>,
             \/ dictInOrder' = dictInOrder
             \/ \E s \in Str : dictInOrder' = Append(dictInOrder, s)
      PROVE  RoomInv'
  <2>1. Len(saying') = Len(saying) + 1
    BY <1>3 DEF EncInv, EncTypeOK
  <2>2. buf'.toks # <<>>
    <3>1. buf.toks \in Seq(Token) /\ buf'.toks = Append(buf.toks, t)
      BY <1>3 DEF Put, EncInv, EncTypeOK
    <3>2. QED
      BY <3>1
  <2>3. Len(dictInOrder') <= Len(dictInOrder) + 1
    BY SMTT(30), <1>1, <1>3 DEF EncInv, EncTypeOK, InternTypeOK
  <2>4. Base' = Base
    BY <1>3 DEF Base, JustReindexed
  <2>5. QED
    BY <1>1, <1>2, <1>3, <2>1, <2>2, <2>3, <2>4 DEF RoomInv, RoomReserved
<1>4. ASSUME NEW s \in Str, NEW hint \in Hints, WriteString(s, hint)
      PROVE  RoomInv'
  <2>1. Len(saying) < MaxTokens /\ Idx(s, hint)
    BY <1>4 DEF WriteString, MaySay
  <2>2. Len(dictInOrder) < capacity
    BY <1>1, <2>1, InternAssumption DEF RoomInv, RoomReserved, RecordsFit
  <2>3. /\ capacity' = capacity
        /\ dictInOrder' = dictInOrder \/ dictInOrder' = Append(dictInOrder, s)
    BY <2>1, <2>2, IdxAppends DEF EncInv
  <2>4. QED
    BY <1>3, <1>4, <2>1, <2>3 DEF WriteString
<1>5. CASE WriteScalar
  BY <1>3, <1>5 DEF WriteScalar, MaySay, internVars
<1>6. CASE EndRecord
  <2>1. saying' = <<>> /\ Len(saying') = 0 /\ records' = records + 1
    BY <1>6 DEF EndRecord
  <2>2. capacity' = capacity
    BY <1>6 DEF EndRecord, MaintainIntern, Clear, ReIndex, Purge, internVars
  <2>3. Len(dictInOrder') <= Base'
    <3>1. CASE dictInOrder' = <<>>
      BY <1>2, <3>1
    <3>2. CASE Due(ReindexInterval) /\ ReIndex(PurgeThreshold)
      <4>1. Len(dictInOrder') <= Len(dictInOrder)
        BY <3>2, ReIndexShortens DEF EncInv
      <4>2. JustReindexed'
        BY <2>1, <3>2 DEF JustReindexed, Due
      <4>3. ~JustReindexed
        BY <1>1, <3>2 DEF JustReindexed, Due, RecordsFit
      <4>4. QED
        BY <1>1, <1>2, <4>1, <4>2, <4>3 DEF Base, RoomInv
    <3>3. CASE dictInOrder' = dictInOrder /\ Len(dictInOrder) <= ClearThreshold
      BY <1>1, <1>2, <3>3
    <3>4. QED
      BY <1>6, <3>1, <3>2, <3>3, EndRecordMaintains
  <2>4. QED
    BY <1>1, <1>2, <2>1, <2>2, <2>3 DEF RoomInv, RoomReserved
<1>7. ASSUME capacity' = capacity, UNCHANGED <<buf, records, saying>>,
             Len(dictInOrder') <= Len(dictInOrder)
      PROVE  RoomInv'
  BY <1>1, <1>2, <1>7 DEF RoomInv, RoomReserved, Base, JustReindexed
<1>8. CASE EndRecordThrows \/ UNCHANGED encVars
  BY <1>1, <1>7, <1>8 DEF EndRecordThrows, internVars, encVars
<1>9. ASSUME NEW all \in BOOLEAN, ClearDictionary(all)
      PROVE  RoomInv'
  <2>1. Len(dictInOrder') = 0
    BY <1>9 DEF ClearDictionary, Clear
  <2>2. QED
    BY <1>1, <1>7, <1>9, <2>1 DEF ClearDictionary, Clear
<1>10. ASSUME NEW threshold \in 1..MaxCount, PurgeDictionary(threshold)
       PROVE  RoomInv'
  BY <1>1, <1>7, <1>10 DEF PurgeDictionary, Purge
<1>11. ASSUME NEW threshold \in 1..MaxCount, ReIndexDictionary(threshold)
       PROVE  RoomInv'
  <2>1. Len(dictInOrder') <= Len(dictInOrder)
    BY <1>11, ReIndexShortens DEF ReIndexDictionary, EncInv
  <2>2. QED
    BY <1>7, <1>11, <2>1 DEF ReIndexDictionary, ReIndex
<1>12. QED
  BY <1>4, <1>5, <1>6, <1>8, <1>9, <1>10, <1>11 DEF EncNext
-----------------------------------------------------------------------------
(***************************************************************************)
(* The theorems.                                                           *)
(***************************************************************************)

\* The inductive invariant holds of every behaviour of the encoder.
THEOREM EncInvariant == EncSpec => []EncInv
BY EncInitInv, EncNextInv, PTL DEF EncSpec

\* Every variable of AuEncoder keeps its type.
THEOREM EncTypeCorrect == EncSpec => []EncTypeOK
<1>1. EncInv => EncTypeOK
  BY DEF EncInv
<1>2. QED
  BY <1>1, EncInvariant, PTL

\* Every backref written lands on the nearest dictionary record before it.
THEOREM BackrefsAlwaysLand == EncSpec => []BackrefsLand
<1>1. EncInv => BackrefsLand
  BY LogInvCovers DEF EncInv
<1>2. QED
  BY <1>1, EncInvariant, PTL

\* Backrefs stay within backrefThreshold, but for those that point at the
\* record just before them.
THEOREM BackrefsStayBounded == EncSpec => []BackrefsBounded
<1>1. EncInv => BackrefsBounded
  BY LogInvCovers DEF EncInv
<1>2. QED
  BY <1>1, EncInvariant, PTL

\* No backref outgrows its 32 bits, and encode() throws only over a single
\* dictionary record too large to be pointed across.
THEOREM BackrefsAlwaysFit == EncSpec => []BackrefsFit
<1>1. EncInv => BackrefsFit
  BY DEF EncInv
<1>2. QED
  BY <1>1, EncInvariant, PTL

\* The interner inside the encoder keeps its invariant too: encode() and the
\* maintenance after it call its operations in an order that preserves it.
THEOREM EncKeepsInternInv == EncSpec => []InternInv
<1>1. EncInv => InternInv
  BY DEF EncInv
<1>2. QED
  BY <1>1, EncInvariant, PTL

\* No dictionary larger than clearThreshold outlives, for its readers, the
\* record that made it so.
THEOREM LargeDictionariesAlwaysForgotten == EncSpec => []LargeDictionariesForgotten
<1>1. EncInit => LargeDictionariesForgotten
  BY EncoderAssumption DEF EncInit, InternInit, LargeDictionariesForgotten
<1>2. QED
  BY <1>1, EncNextForgets, EncInvariant, PTL DEF EncSpec

\* When the records are short enough for what is reserved beyond
\* clearThreshold, the vector never grows.
THEOREM RoomStaysReserved == ASSUME RecordsFit PROVE EncSpec => []RoomReserved
<1>1. EncInit => RoomInv
  <2> SUFFICES ASSUME EncInit PROVE RoomInv
    OBVIOUS
  <2>1. EncTypeOK
    BY EncInitInv DEF EncInv
  <2>2. Len(dictInOrder) = 0 /\ Len(saying) = 0
    BY DEF EncInit, InternInit
  <2>3. QED
    BY <2>1, <2>2, RoomTypes DEF EncInit, InternInit, RoomInv, RoomReserved
<1>2. EncInv /\ EncInv' /\ RoomInv /\ [EncNext]_encVars => RoomInv'
  BY EncNextKeepsRoom
<1>3. RoomInv => RoomReserved
  BY DEF RoomInv
<1>4. QED
  BY <1>1, <1>2, <1>3, EncInvariant, PTL DEF EncSpec
=============================================================================
