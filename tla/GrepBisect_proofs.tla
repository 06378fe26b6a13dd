------------------------- MODULE GrepBisect_proofs -------------------------
(***************************************************************************)
(* The amounts by which the bisection of grep -o reads before and behind   *)
(* its range are enough, for every threshold, size of record and length of *)
(* file that RoughnessAssumption allows.                                   *)
(***************************************************************************)
EXTENDS GrepBisect, SequenceTheorems, WellFoundedInduction, TLAPS

Record == [at : Nat, size : Nat \ {0, 1}, class : Keyed \cup {"keyless"}]

BisectTypeOK ==
  /\ kind \in Kinds
  /\ recs \in Seq(Record)
  /\ wanted \in {{"match"}, {"match", "greater"}}
  /\ loc \in {"outside", "bisect", "probe", "scan", "returned", "failed"}
  /\ matchOrGreater \in BOOLEAN /\ origMatchOrGreater \in BOOLEAN
  /\ start \in Nat /\ end \in Nat /\ startOfScan \in Nat /\ pos \in Nat
  /\ suffixStartPos \in Nat
  /\ printed \in Seq(Nat)

Recs == Range(recs)
KeyedRecs == {r \in Recs : r.class \in Keyed}
WantedRecs == {r \in Recs : r.class \in wanted}
NotLess(r) == r.class \in {"match", "greater"}

\* Records follow one another from the start of the file to its end.
Laid ==
  /\ \A r \in Recs : FileStart <= r.at /\ r.at + r.size <= EndPos
  /\ \A r, q \in Recs : r.at < q.at => r.at + r.size <= q.at
  /\ \A r, q \in Recs : r.at = q.at => r = q
  /\ \A r \in Recs : r.at > FileStart => \E q \in Recs : q.at + q.size = r.at
  /\ EndPos # FileStart => \E q \in Recs : q.at + q.size = EndPos

\* A record is at most Disorder behind one that outranks it.
Rough ==
  \A r, q \in KeyedRecs : Rank[r.class] > Rank[q.class] => q.at - r.at <= Disorder

FileInv == Laid /\ Rough

\* Where a search for the next record may end.
IsLanding(p) == \E r \in Recs : p = IF kind = "au" THEN r.at ELSE After(r)

NoneBetween(p, q) == \A r \in KeyedRecs : ~(p <= r.at /\ r.at < q)

\* c is what a probe that lands on p reads.
FirstFrom(c, p) == c \in KeyedRecs /\ p <= c.at /\ NoneBetween(p, c.at)

\* The lower end of the range was found to be less; the upper end was not, or
\* it is the end of the file, or the range is down to one byte.
RangeInv ==
  /\ start < end /\ end <= EndPos
  /\ start = 0 \/ \E c \in KeyedRecs : c.class = "less" /\ start <= c.at
  /\ \/ end = EndPos
     \/ /\ IsLanding(end)
        /\ \E c \in KeyedRecs :
             FirstFrom(c, end) /\ NotLess(c) /\ c.at <= end + KeyGap
     \/ /\ end = start + 1
        /\ \E c \in KeyedRecs : NotLess(c) /\ c.at <= start + 2 * (KeyGap + 1)

ProbeInv ==
  /\ end - start > SCAN_THRESHOLD
  /\ startOfScan \in Landings(Middle)
  /\ \A p \in Landings(Middle) : startOfScan <= p
  /\ startOfScan <= pos
  /\ NoneBetween(startOfScan, pos)

\* The next record wanted is found before the scan gives up.
ScanInv ==
  /\ suffixStartPos <= pos
  /\ Range(printed) = {r.at : r \in {q \in WantedRecs : q.at < pos}}
  /\ \A i, j \in DOMAIN printed : i < j => printed[i] < printed[j]
  /\ (\E r \in WantedRecs : r.at >= pos) =>
       \E r \in WantedRecs : r.at >= pos /\ r.at - suffixStartPos <= SUFFIX_AMOUNT

SearchInv ==
  /\ loc \in {"bisect", "probe"} => matchOrGreater
  /\ loc \in {"outside", "bisect", "probe"} => printed = <<>>
  /\ Bisectable =>
       /\ loc \in {"bisect", "probe"} => RangeInv
       /\ loc = "probe" => ProbeInv
       /\ loc = "scan" => matchOrGreater = origMatchOrGreater
       /\ loc = "scan" /\ origMatchOrGreater = AsGiven => ScanInv
       /\ loc = "returned" /\ origMatchOrGreater = AsGiven =>
            PrintedAsWanted /\ matchOrGreater = AsGiven

BisectInv == BisectTypeOK /\ FileInv /\ SearchInv
-----------------------------------------------------------------------------
(***************************************************************************)
(* Least and greatest elements.                                            *)
(***************************************************************************)

LEMMA LeastNatural ==
  ASSUME NEW S \in SUBSET Nat, S # {}
  PROVE  \E m \in S : \A n \in S : m <= n
<1> DEFINE R == OpToRel(<, Nat)
<1>1. IsWellFoundedOn(R, Nat)
  BY NatLessThanWellFounded
<1>2. \A m, n \in Nat : m < n => <<m, n>> \in R
  BY DEF OpToRel
<1> HIDE DEF R
<1>3. PICK m \in S : \A n \in S : ~(<<n, m>> \in R)
  BY <1>1, WFMin
<1>4. \A n \in S : m \in Nat /\ n \in Nat /\ ~(n < m)
  <2> SUFFICES ASSUME NEW n \in S PROVE m \in Nat /\ n \in Nat /\ ~(n < m)
    OBVIOUS
  <2>1. m \in Nat /\ n \in Nat
    OBVIOUS
  <2>2. ~(<<n, m>> \in R)
    BY <1>3
  <2>3. n < m => <<n, m>> \in R
    BY <1>2, <2>1
  <2>. QED BY <2>1, <2>2, <2>3
<1>. QED BY <1>4

LEMMA GreatestNatural ==
  ASSUME NEW S \in SUBSET Nat, S # {}, NEW b \in Nat, \A n \in S : n <= b
  PROVE  \E m \in S : \A n \in S : n <= m
<1> DEFINE D == {b - n : n \in S}
<1>1. D \in SUBSET Nat /\ D # {}
  <2>1. \A n \in S : b - n \in Nat
    OBVIOUS
  <2>. QED BY <2>1
<1>2. PICK d \in D : \A e \in D : d <= e
  BY <1>1, LeastNatural
<1>3. PICK m \in S : d = b - m
  BY <1>2
<1>4. \A n \in S : n <= m
  <2> SUFFICES ASSUME NEW n \in S PROVE n <= m
    OBVIOUS
  <2>1. d <= b - n
    BY <1>2
  <2>2. n \in Nat /\ m \in Nat
    OBVIOUS
  <2>. QED BY <1>3, <2>1, <2>2
<1>. QED BY <1>4

LEMMA LeastFound ==
  ASSUME NEW S \in SUBSET Nat, S # {}
  PROVE  Min(S) \in S /\ \A n \in S : Min(S) <= n
BY LeastNatural DEF Min

LEMMA GreatestFound ==
  ASSUME NEW S \in SUBSET Nat, S # {}, NEW b \in Nat, \A n \in S : n <= b
  PROVE  Max(S) \in S /\ \A n \in S : n <= Max(S)
<1>1. \E m \in S : \A n \in S : m >= n
  BY GreatestNatural
<1>. QED BY <1>1 DEF Max

LEMMA GreaterOfTwo ==
  ASSUME NEW a \in Int, NEW b \in Int
  PROVE  Max({a, b}) = IF a >= b THEN a ELSE b
<1>1. PICK m \in {a, b} : \A y \in {a, b} : m >= y
  OBVIOUS
<1>2. Max({a, b}) \in {a, b} /\ \A y \in {a, b} : Max({a, b}) >= y
  BY <1>1 DEF Max
<1>. QED BY <1>2
-----------------------------------------------------------------------------
(***************************************************************************)
(* The file.                                                               *)
(***************************************************************************)

LEMMA RecordFacts ==
  ASSUME BisectTypeOK
  PROVE  /\ FileStart \in Nat /\ EndPos \in Nat
         /\ \A r \in Recs :
              /\ r \in Record
              /\ r.at \in Nat /\ r.size \in Nat /\ r.size >= 2
              /\ After(r) \in Nat /\ r.at < After(r)
              /\ After(r) <= r.at + r.size /\ r.at + r.size <= After(r) + 1
<1>1. \A r \in Recs : r \in Record
  BY DEF BisectTypeOK, Recs, Range
<1>2. \A r \in Record : r.at \in Nat /\ r.size \in Nat /\ r.size >= 2
  BY DEF Record
<1>3. recs # <<>> => Last(recs) \in Record
  BY DEF BisectTypeOK, Last
<1>4. FileStart \in Nat
  BY DEF FileStart
<1>5. EndPos \in Nat
  <2>1. CASE recs = <<>>
    BY <1>4, <2>1 DEF EndPos
  <2>2. CASE recs # <<>>
    BY <1>2, <1>3, <2>2 DEF EndPos
  <2>. QED BY <2>1, <2>2
<1>6. \A r \in Record : /\ After(r) \in Nat /\ r.at < After(r)
                        /\ After(r) <= r.at + r.size /\ r.at + r.size <= After(r) + 1
  BY <1>2 DEF After
<1>. QED BY <1>1, <1>2, <1>4, <1>5, <1>6

\* A record that is written becomes the last.
LEMMA WriteAppends ==
  ASSUME BisectTypeOK, Write
  PROVE  \E r \in Record :
           /\ r.at = EndPos /\ r.size >= 2
           /\ InOrder(r.class, EndPos)
           /\ recs' = Append(recs, r) /\ recs' \in Seq(Record)
           /\ Recs' = Recs \cup {r}
           /\ EndPos' = EndPos + r.size
           /\ FileStart' = FileStart
<1>1. PICK class \in Keyed \cup {"keyless"}, size \in Sizes :
        /\ InOrder(class, EndPos)
        /\ recs' = Append(recs, [at |-> EndPos, size |-> size, class |-> class])
  BY DEF Write
<1> DEFINE r == [at |-> EndPos, size |-> size, class |-> class]
<1>2. size \in Nat /\ size >= 2
  BY BisectAssumption
<1>3. r \in Record /\ r.at = EndPos /\ r.size = size /\ r.class = class
  BY <1>2, RecordFacts DEF Record
<1> HIDE DEF r
<1>4. recs' = Append(recs, r)
  BY <1>1 DEF r
<1>5. recs \in Seq(Record)
  BY DEF BisectTypeOK
<1>6. /\ recs' \in Seq(Record) /\ Len(recs') = Len(recs) + 1 /\ Len(recs) \in Nat
      /\ DOMAIN recs = 1..Len(recs) /\ DOMAIN recs' = 1..Len(recs')
      /\ recs'[Len(recs) + 1] = r
      /\ \A i \in 1..Len(recs) : recs'[i] = recs[i]
  BY <1>3, <1>4, <1>5
<1>7. Recs' = Recs \cup {r}
  BY <1>6 DEF Recs, Range
<1>8. EndPos' = EndPos + size
  <2>1. recs' # <<>> /\ Last(recs') = r
    BY <1>6 DEF Last
  <2>. QED BY <1>3, <2>1 DEF EndPos
<1>9. FileStart' = FileStart
  BY DEF FileStart, Write, fileVars
<1>. QED BY <1>1, <1>2, <1>3, <1>4, <1>6, <1>7, <1>8, <1>9

LEMMA WriteKeepsFile ==
  ASSUME BisectTypeOK, FileInv, Write
  PROVE  FileInv'
<1>1. PICK r \in Record :
           /\ r.at = EndPos /\ r.size >= 2
           /\ InOrder(r.class, EndPos)
           /\ recs' = Append(recs, r) /\ recs' \in Seq(Record)
           /\ Recs' = Recs \cup {r}
           /\ EndPos' = EndPos + r.size
           /\ FileStart' = FileStart
  BY WriteAppends
<1>2. r.size \in Nat /\ EndPos \in Nat /\ FileStart \in Nat
      /\ \A q \in Recs : q.at \in Nat /\ q.size \in Nat /\ q.size >= 2
  BY RecordFacts DEF Record
<1>3. FileStart <= EndPos
  BY <1>2 DEF FileInv, Laid
<1>4. Laid'
  <2>1. /\ \A q \in Recs : FileStart <= q.at /\ q.at + q.size <= EndPos
        /\ \A p, q \in Recs : p.at < q.at => p.at + p.size <= q.at
        /\ \A p, q \in Recs : p.at = q.at => p = q
        /\ \A p \in Recs : p.at > FileStart => \E q \in Recs : q.at + q.size = p.at
        /\ EndPos # FileStart => \E q \in Recs : q.at + q.size = EndPos
    BY DEF FileInv, Laid
  <2>2. \A q \in Recs' : FileStart' <= q.at /\ q.at + q.size <= EndPos'
    BY <1>1, <1>2, <1>3, <2>1
  <2>3. \A p, q \in Recs' : p.at < q.at => p.at + p.size <= q.at
    BY <1>1, <1>2, <1>3, <2>1
  <2>4. \A p, q \in Recs' : p.at = q.at => p = q
    BY <1>1, <1>2, <1>3, <2>1
  <2>5. \A p \in Recs' : p.at > FileStart' => \E q \in Recs' : q.at + q.size = p.at
    BY <1>1, <1>2, <1>3, <2>1
  <2>6. EndPos' # FileStart' => \E q \in Recs' : q.at + q.size = EndPos'
    BY <1>1, <1>2, <1>3
  <2>. QED BY <2>2, <2>3, <2>4, <2>5, <2>6 DEF Laid
<1>5. Rough'
  <2> SUFFICES ASSUME NEW a \in KeyedRecs', NEW b \in KeyedRecs',
                      Rank[a.class] > Rank[b.class]
               PROVE  b.at - a.at <= Disorder
    BY DEF Rough
  <2>1. CASE a \in Recs /\ b \in Recs
    BY <2>1 DEF FileInv, Rough, KeyedRecs
  <2>2. CASE a = r
    <3>1. CASE b = r
      BY <2>2, <3>1 DEF KeyedRecs, Rank, Keyed
    <3>2. CASE b \in Recs
      <4>1. b.at <= r.at
        BY <1>1, <1>2, <3>2 DEF FileInv, Laid
      <4>2. Disorder \in Nat
        BY BisectAssumption
      <4>. QED BY <1>1, <1>2, <2>2, <3>2, <4>1, <4>2
    <3>. QED BY <1>1, <3>1, <3>2 DEF KeyedRecs
  <2>3. CASE a \in Recs /\ b = r
    <3>1. PICK i \in DOMAIN recs : a = recs[i]
      BY <2>3 DEF Recs, Range
    <3>2. a.class \in Keyed /\ b.class \in Keyed
      BY DEF KeyedRecs
    <3>. QED BY <1>1, <2>3, <3>1, <3>2 DEF InOrder
  <2>. QED BY <1>1, <2>1, <2>2, <2>3 DEF KeyedRecs
<1>. QED BY <1>4, <1>5 DEF FileInv
-----------------------------------------------------------------------------
(***************************************************************************)
(* Landings.                                                               *)
(***************************************************************************)

\* In a text file a record that begins behind p begins behind a newline that
\* is not before p.
LEMMA NewlineBefore ==
  ASSUME BisectTypeOK, FileInv, NEW p \in Nat, kind # "au",
         NEW r \in Recs, r.at > p
  PROVE  \E q \in Recs : q.at + q.size - 1 >= p /\ After(q) <= r.at /\ q.at < r.at
<1>1. FileStart = 0
  BY DEF FileStart
<1>2. PICK q \in Recs : q.at + q.size = r.at
  BY <1>1, RecordFacts DEF FileInv, Laid
<1>. QED BY <1>2, RecordFacts

LEMMA LandingsExist ==
  ASSUME BisectTypeOK, FileInv, NEW p \in Nat
  PROVE  /\ Landings(p) \subseteq Nat
         /\ (\E r \in Recs : r.at >= p + 2) => Landings(p) # {}
<1>1. CASE kind = "au"
  <2>1. Landings(p) = {r.at : r \in {q \in Recs : q.at >= p + 2}}
    BY <1>1 DEF Landings, AuStarts, Recs
  <2>. QED BY <2>1, RecordFacts
<1>2. CASE kind # "au" /\ p = 0
  BY <1>2 DEF Landings, TextStarts
<1>3. CASE kind # "au" /\ p # 0
  <2>1. Landings(p) = {After(r) : r \in {q \in Recs : q.at + q.size - 1 >= p}}
    BY <1>3 DEF Landings, TextStarts, Recs
  <2>2. ASSUME NEW r \in Recs, r.at >= p + 2 PROVE Landings(p) # {}
    <3>1. r.at > p
      BY <2>2, RecordFacts
    <3>. QED BY <1>3, <2>1, <3>1, NewlineBefore
  <2>. QED BY <2>1, <2>2, RecordFacts
<1>. QED BY <1>1, <1>2, <1>3

\* What lies on either side of where a search for a record lands.
LEMMA LandingFacts ==
  ASSUME BisectTypeOK, FileInv, NEW p \in Nat, p > 0,
         NEW s \in Landings(p), \A l \in Landings(p) : s <= l
  PROVE  /\ s \in Nat /\ p <= s /\ FileStart < s /\ IsLanding(s)
         /\ \A r \in Recs : r.at < s => r.at <= p + 1
         /\ \A r \in Recs : r.at >= p + 2 => s <= r.at
         /\ \A e \in Nat : IsLanding(e) /\ e >= p + 2 => s <= e
<1>1. CASE kind = "au"
  <2>1. Landings(p) = {r.at : r \in {q \in Recs : q.at >= p + 2}}
    BY <1>1 DEF Landings, AuStarts, Recs
  <2>2. \A r \in Recs : r.at >= p + 2 => s <= r.at
    BY <2>1
  <2>3. PICK q \in Recs : q.at >= p + 2 /\ s = q.at
    BY <2>1
  <2>4. s \in Nat /\ p <= s /\ FileStart < s
    BY <1>1, <2>3, RecordFacts DEF FileStart
  <2>5. IsLanding(s)
    BY <1>1, <2>3 DEF IsLanding
  <2>6. \A r \in Recs : r.at < s => r.at <= p + 1
    BY <2>2, <2>4, RecordFacts
  <2>7. \A e \in Nat : IsLanding(e) /\ e >= p + 2 => s <= e
    BY <1>1, <2>2 DEF IsLanding
  <2>. QED BY <2>2, <2>4, <2>5, <2>6, <2>7
<1>2. CASE kind # "au"
  <2>1. Landings(p) = {After(r) : r \in {q \in Recs : q.at + q.size - 1 >= p}}
    BY <1>2 DEF Landings, TextStarts, Recs
  <2>2. PICK q \in Recs : q.at + q.size - 1 >= p /\ s = After(q)
    BY <2>1
  <2>3. s \in Nat /\ p <= s /\ FileStart < s
    BY <1>2, <2>2, RecordFacts DEF FileStart, After
  <2>4. IsLanding(s)
    BY <1>2, <2>2 DEF IsLanding
  <2>5. ASSUME NEW r \in Recs, r.at > p PROVE s <= r.at
    <3>1. PICK b \in Recs : b.at + b.size - 1 >= p /\ After(b) <= r.at
      BY <1>2, <2>5, NewlineBefore
    <3>2. s <= After(b)
      BY <2>1, <3>1
    <3>. QED BY <2>3, <3>1, <3>2, RecordFacts
  <2>6. \A r \in Recs : r.at < s => r.at <= p + 1
    BY <2>3, <2>5, RecordFacts
  <2>7. \A r \in Recs : r.at >= p + 2 => s <= r.at
    BY <2>5, RecordFacts
  <2>8. ASSUME NEW e \in Nat, IsLanding(e), e >= p + 2 PROVE s <= e
    <3>1. PICK r \in Recs : e = After(r)
      BY <1>2, <2>8 DEF IsLanding
    <3>2. r.at + r.size - 1 >= p
      BY <2>8, <3>1, RecordFacts
    <3>. QED BY <2>1, <3>1, <3>2
  <2>. QED BY <2>3, <2>4, <2>6, <2>7, <2>8
<1>. QED BY <1>1, <1>2
-----------------------------------------------------------------------------
(***************************************************************************)
(* Files that can be bisected.                                             *)
(***************************************************************************)

\* The last record that has the key is near the end, and the next one is never
\* far away.
LEMMA KeyNear ==
  ASSUME BisectTypeOK, FileInv, Bisectable
  PROVE  /\ \E m \in KeyedRecs : EndPos - m.at < SCAN_THRESHOLD \div 2
         /\ \A a \in {FileStart} \cup {r.at : r \in KeyedRecs} :
              (\E c \in KeyedRecs : c.at > a) =>
                \E b \in KeyedRecs : a < b.at /\ b.at <= a + KeyGap
<1> DEFINE K == {r.at : r \in KeyedRecs}
<1>1. KeyedAt = K
  BY DEF KeyedAt, KeyedRecs, Recs
<1>2. K \subseteq Nat /\ EndPos \in Nat /\ FileStart \in Nat /\ KeyGap \in Nat
  BY RecordFacts, BisectAssumption DEF KeyedRecs
<1>3. FileStart <= EndPos /\ \A a \in K : a <= EndPos
  BY <1>2, RecordFacts DEF FileInv, Laid, KeyedRecs
<1>4. K # {} /\ EndPos - Max(K) < SCAN_THRESHOLD \div 2
  BY <1>1 DEF Bisectable
<1>5. \A a \in K \cup {FileStart} :
        a = Max(K \cup {FileStart}) \/ \E b \in K : a < b /\ b - a <= KeyGap
  BY <1>1 DEF Bisectable
<1>6. Max(K) \in K
  BY <1>2, <1>3, <1>4, GreatestFound
<1>7. \A a \in K \cup {FileStart} : a <= Max(K \cup {FileStart})
  BY <1>2, <1>3, GreatestFound
<1>8. ASSUME NEW a \in {FileStart} \cup K, NEW c \in KeyedRecs, c.at > a
      PROVE  \E b \in KeyedRecs : a < b.at /\ b.at <= a + KeyGap
  <2>1. c.at \in K
    OBVIOUS
  <2>2. a \in Nat /\ c.at \in Nat /\ c.at <= Max(K \cup {FileStart})
    BY <1>2, <1>7, <2>1
  <2>3. a # Max(K \cup {FileStart})
    BY <1>8, <2>2
  <2>4. PICK b \in K : a < b /\ b - a <= KeyGap
    BY <1>5, <2>3
  <2>5. b \in Nat /\ b <= a + KeyGap
    BY <1>2, <2>2, <2>4
  <2>. QED BY <2>4, <2>5
<1>. QED BY <1>4, <1>6, <1>8

\* The first record with the key behind a place is not far behind another, or
\* the start of the file, in front of that place.
LEMMA KeyBefore ==
  ASSUME BisectTypeOK, FileInv, Bisectable,
         NEW s \in Nat, FileStart < s, NEW c, FirstFrom(c, s)
  PROVE  \E a \in {FileStart} \cup {r.at : r \in KeyedRecs} :
           a < s /\ c.at <= a + KeyGap
<1> DEFINE All == {FileStart} \cup {r.at : r \in KeyedRecs}
<1> DEFINE S == {a \in All : a < s}
<1>1. All \subseteq Nat /\ KeyGap \in Nat
  BY RecordFacts, BisectAssumption DEF KeyedRecs
<1>2. c \in KeyedRecs /\ c.at \in Nat /\ s <= c.at /\ NoneBetween(s, c.at)
  BY RecordFacts DEF FirstFrom, KeyedRecs
<1>3. \E m \in S : \A n \in S : n <= m
  <2>1. S \in SUBSET Nat
    BY <1>1
  <2>2. FileStart \in S
    OBVIOUS
  <2>3. \A n \in S : n <= s
    <3>1. SUFFICES ASSUME NEW n \in S PROVE n <= s
      OBVIOUS
    <3>2. n \in Nat /\ n < s
      BY <2>1
    <3>. QED BY <3>2
  <2>. QED BY <2>1, <2>2, <2>3, GreatestNatural
<1>4. PICK a \in S : \A n \in S : n <= a
  BY <1>3
<1>5. a \in All /\ a \in Nat /\ a < s /\ c.at > a
  BY <1>1, <1>2
<1>6. PICK b \in KeyedRecs : a < b.at /\ b.at <= a + KeyGap
  BY <1>2, <1>5, KeyNear
<1>7. b.at \in All /\ b.at \in Nat
  BY <1>1
<1>8. b.at >= s
  BY <1>4, <1>5, <1>6, <1>7
<1>9. b.at >= c.at
  BY <1>2, <1>6, <1>7, <1>8 DEF NoneBetween
<1>10. a < s /\ c.at <= a + KeyGap
  BY <1>1, <1>2, <1>5, <1>6, <1>7, <1>9
<1>. QED BY <1>5, <1>10
-----------------------------------------------------------------------------
(***************************************************************************)
(* The records wanted.                                                     *)
(***************************************************************************)

LEMMA Amounts ==
  /\ SCAN_THRESHOLD \in Nat /\ PREFIX_AMOUNT \in Nat /\ Overrun \in Nat
  /\ Disorder \in Nat /\ KeyGap \in Nat /\ SCAN_THRESHOLD > 0
  /\ Disorder + 2 <= PREFIX_AMOUNT /\ Disorder + KeyGap <= Overrun
  /\ Disorder + 2 * (KeyGap + 1) <= SCAN_THRESHOLD + Overrun
  /\ SUFFIX_AMOUNT = SCAN_THRESHOLD + PREFIX_AMOUNT + Overrun
BY BisectAssumption, RoughnessAssumption DEF SUFFIX_AMOUNT

LEMMA WantedFacts ==
  ASSUME BisectTypeOK, FileInv, NEW f \in WantedRecs
  PROVE  /\ f \in KeyedRecs /\ NotLess(f) /\ f.at \in Nat
         /\ FileStart <= f.at /\ f.at < EndPos
         /\ \A c \in KeyedRecs :
              /\ c.at \in Nat
              /\ c.class = "less" \/ NotLess(c)
              /\ c.class = "less" => c.at <= f.at + Disorder
              /\ NotLess(c) => c \in WantedRecs \/ f.at <= c.at + Disorder
<1>1. f \in KeyedRecs /\ NotLess(f)
  BY DEF WantedRecs, KeyedRecs, BisectTypeOK, Keyed, Rank, NotLess
<1>2. f.at \in Nat /\ FileStart <= f.at /\ f.at < EndPos
  BY <1>1, RecordFacts DEF KeyedRecs, FileInv, Laid
<1>3. ASSUME NEW c \in KeyedRecs
      PROVE  /\ c.at \in Nat
             /\ c.class = "less" \/ NotLess(c)
             /\ c.class = "less" => c.at <= f.at + Disorder
             /\ NotLess(c) => c \in WantedRecs \/ f.at <= c.at + Disorder
  <2>1. c.at \in Nat /\ c \in Recs
    BY RecordFacts DEF KeyedRecs
  <2>2. c.class = "less" \/ NotLess(c)
    BY DEF KeyedRecs, Keyed, Rank, NotLess
  <2>3. CASE c.class = "less"
    <3>1. Rank[f.class] > Rank[c.class]
      BY <1>1, <2>3 DEF NotLess, Rank
    <3>2. c.at - f.at <= Disorder
      BY <1>1, <3>1 DEF FileInv, Rough
    <3>. QED BY <1>2, <2>1, <2>3, <3>2, Amounts DEF NotLess
  <2>4. CASE NotLess(c) /\ c \notin WantedRecs
    <3>1. c.class = "greater" /\ f.class = "match"
      BY <2>1, <2>4 DEF NotLess, WantedRecs, BisectTypeOK
    <3>2. Rank[c.class] > Rank[f.class]
      BY <3>1 DEF Rank
    <3>3. f.at - c.at <= Disorder
      BY <1>1, <3>2 DEF FileInv, Rough
    <3>4. f.at <= c.at + Disorder
      BY <1>2, <2>1, <3>3, Amounts
    <3>. QED BY <2>1, <2>2, <3>1, <3>4
  <2>5. CASE NotLess(c) /\ c \in WantedRecs
    BY <2>1, <2>5 DEF NotLess
  <2>. QED BY <2>2, <2>3, <2>4, <2>5
<1>. QED BY <1>1, <1>2, <1>3

\* The first record wanted is neither in front of what a scan of the range
\* reads nor behind it.
LEMMA InReach ==
  ASSUME BisectTypeOK, FileInv, RangeInv,
         NEW f \in WantedRecs, \A r \in WantedRecs : f.at <= r.at
  PROVE  /\ ScanFrom \in Nat
         /\ ScanFrom = 0 \/ ScanFrom + 2 <= f.at
         /\ start <= ScanFrom + PREFIX_AMOUNT
         /\ f.at <= end + Overrun \/ f.at <= start + SCAN_THRESHOLD + Overrun
<1>1. start \in Nat /\ end \in Nat /\ EndPos \in Nat /\ f.at \in Nat /\ f.at < EndPos
  BY RecordFacts, WantedFacts DEF BisectTypeOK
<1>2. ScanFrom \in Nat /\ start <= ScanFrom + PREFIX_AMOUNT
  BY <1>1, Amounts DEF ScanFrom
<1>3. ScanFrom = 0 \/ ScanFrom + 2 <= f.at
  <2>1. CASE start = 0
    BY <2>1, Amounts DEF ScanFrom
  <2>2. CASE \E c \in KeyedRecs : c.class = "less" /\ start <= c.at
    <3>1. PICK c \in KeyedRecs : c.class = "less" /\ start <= c.at
      BY <2>2
    <3>2. c.at \in Nat /\ c.at <= f.at + Disorder
      BY <3>1, WantedFacts
    <3>. QED BY <1>1, <3>1, <3>2, Amounts DEF ScanFrom
  <2>. QED BY <2>1, <2>2 DEF RangeInv
<1>4. ASSUME NEW c \in KeyedRecs, NotLess(c)
      PROVE  c.at \in Nat /\ f.at <= c.at + Disorder
  <2>1. c.at \in Nat /\ (c \in WantedRecs \/ f.at <= c.at + Disorder)
    BY <1>4, WantedFacts
  <2>. QED BY <1>1, <2>1, Amounts
<1>5. f.at <= end + Overrun \/ f.at <= start + SCAN_THRESHOLD + Overrun
  <2>1. CASE end = EndPos
    BY <1>1, <2>1, Amounts
  <2>2. CASE \E c \in KeyedRecs : NotLess(c) /\ c.at <= end + KeyGap
    <3>1. PICK c \in KeyedRecs : NotLess(c) /\ c.at <= end + KeyGap
      BY <2>2
    <3>. QED BY <1>1, <1>4, <3>1, Amounts
  <2>3. CASE \E c \in KeyedRecs : NotLess(c) /\ c.at <= start + 2 * (KeyGap + 1)
    <3>1. PICK c \in KeyedRecs : NotLess(c) /\ c.at <= start + 2 * (KeyGap + 1)
      BY <2>3
    <3>. QED BY <1>1, <1>4, <3>1, Amounts
  <2>. QED BY <2>1, <2>2, <2>3 DEF RangeInv
<1>. QED BY <1>2, <1>3, <1>5
\* The next record wanted is never far behind one that is.
LEMMA NextWanted ==
  ASSUME BisectTypeOK, FileInv, Bisectable,
         NEW c \in WantedRecs, NEW w \in WantedRecs, c.at < w.at
  PROVE  \E r \in WantedRecs : c.at < r.at /\ r.at <= c.at + 2 * Disorder + KeyGap
<1> DEFINE S == {a \in {r.at : r \in KeyedRecs} : a <= c.at + Disorder}
<1>1. /\ c \in KeyedRecs /\ c.at \in Nat /\ w \in KeyedRecs /\ w.at \in Nat
      /\ Disorder \in Nat /\ KeyGap \in Nat
  BY WantedFacts, Amounts
<1>2. \A r \in KeyedRecs : r.at \in Nat
  BY WantedFacts
<1>3. CASE w.at <= c.at + Disorder
  BY <1>1, <1>3
<1>4. CASE w.at > c.at + Disorder
  <2>1. \E m \in S : \A n \in S : n <= m
    <3>1. S \in SUBSET Nat
      BY <1>2
    <3>2. c.at \in S
      BY <1>1
    <3>3. c.at + Disorder \in Nat /\ \A n \in S : n <= c.at + Disorder
      BY <1>1
    <3>. QED BY <3>1, <3>2, <3>3, GreatestNatural
  <2>2. PICK a \in S : \A n \in S : n <= a
    BY <2>1
  <2>3. /\ a \in {r.at : r \in KeyedRecs} /\ a \in Nat /\ a <= c.at + Disorder
        /\ c.at <= a /\ w.at > a
    BY <1>1, <1>2, <1>4, <2>2
  <2>4. PICK b \in KeyedRecs : a < b.at /\ b.at <= a + KeyGap
    BY <1>1, <2>3, KeyNear
  <2>5. b.at \in Nat /\ b.at > c.at + Disorder
    <3>1. b.at \in Nat
      BY <1>2
    <3>2. b.at <= c.at + Disorder => b.at \in S
      OBVIOUS
    <3>. QED BY <1>1, <2>2, <2>3, <2>4, <3>1, <3>2
  <2>6. NotLess(b)
    BY <1>1, <2>5, WantedFacts
  <2>7. b \in WantedRecs \/ w.at <= b.at + Disorder
    BY <2>6, WantedFacts
  <2>8. b.at <= c.at + Disorder + KeyGap
    BY <1>1, <2>3, <2>4, <2>5
  <2>9. CASE b \in WantedRecs
    BY <1>1, <2>5, <2>8, <2>9
  <2>10. CASE w.at <= b.at + Disorder
    BY <1>1, <2>5, <2>8, <2>10
  <2>. QED BY <2>7, <2>9, <2>10
<1>. QED BY <1>1, <1>3, <1>4

\* What parseValue reads next.
LEMMA CandidateFacts ==
  ASSUME BisectTypeOK, FileInv, Rest # {}
  PROVE  /\ Candidate \in Recs /\ Candidate.at \in Nat /\ pos <= Candidate.at
         /\ \A r \in Recs : r.at >= pos => Candidate.at <= r.at
         /\ After(Candidate) \in Nat /\ Candidate.at < After(Candidate)
         /\ \A r \in Recs : r.at > Candidate.at => r.at >= After(Candidate)
<1>1. Rest = {r \in Recs : r.at >= pos}
  BY DEF Rest, Recs
<1> DEFINE S == {r.at : r \in Rest}
<1>2. S \in SUBSET Nat /\ S # {}
  BY <1>1, RecordFacts
<1>3. PICK m \in S : \A n \in S : m <= n
  BY <1>2, LeastNatural
<1>4. \E r \in Rest : \A q \in Rest : r.at <= q.at
  BY <1>3
<1>5. Candidate \in Rest /\ \A q \in Rest : Candidate.at <= q.at
  BY <1>4 DEF Candidate
<1>6. Candidate \in Recs /\ Candidate.at \in Nat /\ pos <= Candidate.at
  BY <1>1, <1>5, RecordFacts DEF BisectTypeOK
<1>7. /\ After(Candidate) \in Nat /\ Candidate.at < After(Candidate)
      /\ After(Candidate) <= Candidate.at + Candidate.size
      /\ Candidate.size \in Nat
  BY <1>6, RecordFacts
<1>8. ASSUME NEW r \in Recs, r.at > Candidate.at PROVE r.at >= After(Candidate)
  <2>1. r.at \in Nat
    BY RecordFacts
  <2>2. Candidate.at + Candidate.size <= r.at
    BY <1>6, <1>8, <2>1 DEF FileInv, Laid
  <2>. QED BY <1>6, <1>7, <2>1, <2>2
<1>. QED BY <1>1, <1>5, <1>6, <1>7, <1>8

\* Where a range that is to be probed has its middle: records that have the key
\* follow it.
LEMMA MiddleFacts ==
  ASSUME BisectTypeOK, FileInv, Bisectable, RangeInv, end - start > SCAN_THRESHOLD
  PROVE  /\ Middle \in Nat /\ Middle > 0 /\ start < Middle /\ Middle + 2 <= end
         /\ 2 * (Middle - start) <= end - start
         /\ \E m \in KeyedRecs : Middle + 2 <= m.at
<1>1. PICK m \in KeyedRecs : EndPos - m.at < SCAN_THRESHOLD \div 2
  BY KeyNear
<1>2. m.at \in Nat /\ EndPos \in Nat /\ m.at + 2 <= EndPos
  BY RecordFacts DEF KeyedRecs, FileInv, Laid
<1>3. start \in Nat /\ end \in Nat /\ end <= EndPos
  BY DEF BisectTypeOK, RangeInv
<1>4. SCAN_THRESHOLD \in Nat
  BY Amounts
<1>5. SCAN_THRESHOLD >= 6 /\ EndPos - m.at < SCAN_THRESHOLD \div 2
  BY <1>1, <1>2, <1>4
<1> DEFINE h == (end - start) \div 2
<1>6. h \in Nat /\ 2 * h <= end - start /\ end - start <= 2 * h + 1
  BY <1>3, <1>4
<1>7. Middle = start + h
  BY DEF Middle
<1>8. 2 * (SCAN_THRESHOLD \div 2) <= SCAN_THRESHOLD /\ SCAN_THRESHOLD \div 2 \in Nat
  BY <1>4
<1> HIDE DEF h
<1>9. Middle \in Nat /\ Middle > 0 /\ start < Middle /\ Middle + 2 <= end
         /\ 2 * (Middle - start) <= end - start
  BY <1>3, <1>4, <1>5, <1>6, <1>7
<1>10. Middle + 2 <= m.at
  BY <1>2, <1>3, <1>4, <1>5, <1>6, <1>7, <1>8
<1>. QED BY <1>9, <1>10
-----------------------------------------------------------------------------
(***************************************************************************)
(* Steps.                                                                  *)
(***************************************************************************)

\* A search leaves the file and what is asked of it alone.
LEMMA FileKept ==
  ASSUME kind' = kind, recs' = recs, wanted' = wanted, FileInv
  PROVE  /\ FileInv' /\ Recs' = Recs /\ KeyedRecs' = KeyedRecs
         /\ WantedRecs' = WantedRecs /\ WantedAt' = WantedAt
         /\ EndPos' = EndPos /\ AsGiven' = AsGiven /\ Bisectable' = Bisectable
         /\ \A p, q : NoneBetween(p, q)' = NoneBetween(p, q)
         /\ \A p : Landings(p)' = Landings(p)
         /\ \A p : IsLanding(p)' = IsLanding(p)
         /\ \A c, p : FirstFrom(c, p)' = FirstFrom(c, p)
<1>1. Recs' = Recs /\ FileStart' = FileStart /\ EndPos' = EndPos
  BY DEF Recs, FileStart, EndPos
<1>2. KeyedRecs' = KeyedRecs /\ WantedRecs' = WantedRecs /\ WantedAt' = WantedAt
  BY <1>1 DEF KeyedRecs, WantedRecs, WantedAt
<1>3. FileInv'
  BY <1>1, <1>2 DEF FileInv, Laid, Rough
<1>4. KeyedAt' = KeyedAt /\ AsGiven' = AsGiven
  BY DEF KeyedAt, AsGiven
<1>5. Bisectable' = Bisectable
  BY <1>1, <1>4 DEF Bisectable
<1>6. \A r : After(r)' = After(r)
  BY DEF After
<1>7. \A p : Landings(p)' = Landings(p)
  BY DEF Landings, AuStarts, TextStarts, After
<1>8. \A p : IsLanding(p)' = IsLanding(p)
  BY <1>1 DEF IsLanding, After
<1>9. \A p, q : NoneBetween(p, q)' = NoneBetween(p, q)
  BY <1>2 DEF NoneBetween
<1>10. \A c, p : FirstFrom(c, p)' = FirstFrom(c, p)
  BY <1>2 DEF FirstFrom, NoneBetween
<1>. QED BY <1>1, <1>2, <1>3, <1>4, <1>5, <1>7, <1>8, <1>9, <1>10

\* The range depends on its ends alone.
LEMMA RangeKept ==
  ASSUME kind' = kind, recs' = recs, wanted' = wanted, FileInv, RangeInv,
         start' = start, end' = end
  PROVE  RangeInv'
BY FileKept DEF RangeInv, NotLess

LEMMA WriteKeepsInv == ASSUME BisectInv, Write PROVE BisectInv'
<1>1. BisectTypeOK'
  <2>1. recs' \in Seq(Record)
    BY WriteAppends DEF BisectInv
  <2>. QED BY <2>1 DEF BisectInv, BisectTypeOK, Write, patternVars, rangeVars, scanVars
<1>2. FileInv'
  BY WriteKeepsFile DEF BisectInv
<1>3. SearchInv'
  BY DEF BisectInv, Write, SearchInv, scanVars
<1>. QED BY <1>1, <1>2, <1>3 DEF BisectInv

LEMMA OpenKeepsInv == ASSUME BisectInv, Open PROVE BisectInv'
<1>1. /\ kind' = kind /\ recs' = recs /\ wanted' = wanted
      /\ matchOrGreater' /\ matchOrGreater' = TRUE
      /\ start' = 0 /\ end' = EndPos /\ loc = "outside" /\ loc' = "bisect"
      /\ printed' = printed
  BY DEF Open, fileVars, scanVars
<1>2. BisectTypeOK'
  BY <1>1, RecordFacts
  DEF BisectInv, BisectTypeOK, Open, fileVars, patternVars, rangeVars, scanVars
<1>3. FileInv'
  BY <1>1, FileKept DEF BisectInv
<1>4. ASSUME Bisectable PROVE RangeInv'
  <2>1. PICK m \in KeyedRecs : EndPos - m.at < SCAN_THRESHOLD \div 2
    BY <1>4, KeyNear DEF BisectInv
  <2>2. 0 < EndPos /\ EndPos \in Nat
    BY RecordFacts DEF BisectInv, FileInv, Laid, KeyedRecs
  <2>3. EndPos' = EndPos
    BY <1>1, FileKept DEF BisectInv
  <2>. QED BY <1>1, <2>2, <2>3 DEF RangeInv
<1>5. SearchInv'
  <2>1. Bisectable' = Bisectable
    BY <1>1, FileKept DEF BisectInv
  <2>. QED BY <1>1, <1>4, <2>1 DEF BisectInv, SearchInv
<1>. QED BY <1>2, <1>3, <1>5 DEF BisectInv

LEMMA FailureKeepsInv ==
  ASSUME BisectInv, OpenPipe \/ SyncThrows
  PROVE  BisectInv'
<1>1. /\ UNCHANGED <<fileVars, patternVars, rangeVars, pos, scanVars>>
      /\ loc' = "failed"
  BY DEF OpenPipe, SyncThrows
<1>2. BisectTypeOK'
  BY <1>1 DEF BisectInv, BisectTypeOK, fileVars, patternVars, rangeVars, scanVars
<1>3. FileInv'
  BY <1>1, FileKept DEF BisectInv, fileVars
<1>4. SearchInv'
  BY <1>1 DEF SearchInv
<1>. QED BY <1>2, <1>3, <1>4 DEF BisectInv

LEMMA NextFileKeepsInv == ASSUME BisectInv, NextFile PROVE BisectInv'
<1>1. /\ kind' \in Kinds /\ recs' = <<>> /\ wanted' = wanted /\ loc' = "outside"
      /\ printed' = <<>>
  BY DEF NextFile, NewFile
<1>2. BisectTypeOK'
  <2>1. <<>> \in Seq(Record) /\ <<>> \in Seq(Nat)
    OBVIOUS
  <2>2. /\ origMatchOrGreater' = FALSE /\ matchOrGreater' = matchOrGreater
        /\ start' = 0 /\ end' = 0 /\ startOfScan' = 0 /\ pos' = 0
        /\ suffixStartPos' = 0 /\ printed' = <<>>
    BY DEF NextFile
  <2>. QED BY <1>1, <2>1, <2>2 DEF BisectInv, BisectTypeOK
<1>3. Recs' = {}
  BY <1>1 DEF Recs, Range
<1>4. FileInv'
  BY <1>1, <1>3 DEF FileInv, Laid, Rough, KeyedRecs, EndPos
<1>5. SearchInv'
  BY <1>1 DEF SearchInv
<1>. QED BY <1>2, <1>4, <1>5 DEF BisectInv

LEMMA ProbeKeepsInv == ASSUME BisectInv, Probe PROVE BisectInv'
<1>1. /\ kind' = kind /\ recs' = recs /\ wanted' = wanted
      /\ UNCHANGED <<patternVars, start, end, scanVars>>
      /\ loc = "bisect" /\ loc' = "probe" /\ end - start > SCAN_THRESHOLD
      /\ Landings(Middle) # {}
      /\ pos' = Min(Landings(Middle)) /\ startOfScan' = pos'
  BY DEF Probe, fileVars
<1>2. Middle \in Nat /\ Middle' = Middle
  BY <1>1, Amounts DEF Middle, BisectInv, BisectTypeOK
<1>3. /\ pos' \in Nat /\ pos' \in Landings(Middle)
      /\ \A p \in Landings(Middle) : pos' <= p
  BY <1>1, <1>2, LandingsExist, LeastFound DEF BisectInv
<1>4. BisectTypeOK'
  BY <1>1, <1>3 DEF BisectInv, BisectTypeOK, patternVars, scanVars
<1>5. FileInv'
  BY <1>1, FileKept DEF BisectInv
<1>6. SearchInv'
  <2>1. Bisectable' = Bisectable
    BY <1>1, FileKept DEF BisectInv
  <2>2. matchOrGreater' /\ printed' = <<>>
    BY <1>1 DEF BisectInv, SearchInv, patternVars, scanVars
  <2>3. ASSUME Bisectable PROVE RangeInv' /\ ProbeInv'
    <3>1. RangeInv'
      BY <1>1, <2>3, RangeKept DEF BisectInv, SearchInv
    <3>2. Landings(Middle)' = Landings(Middle)
      BY <1>1, <1>2 DEF Landings, AuStarts, TextStarts, After
    <3>3. NoneBetween(startOfScan, pos)'
      <4>1. \A r \in KeyedRecs : r.at \in Nat
        BY RecordFacts DEF BisectInv, KeyedRecs
      <4>2. KeyedRecs' = KeyedRecs
        BY <1>1, FileKept DEF BisectInv
      <4>. QED BY <1>1, <1>3, <4>1, <4>2 DEF NoneBetween
    <3>4. startOfScan' <= pos'
      BY <1>1, <1>3
    <3>5. startOfScan' \in Landings(Middle) /\ \A p \in Landings(Middle) : startOfScan' <= p
      BY <1>1, <1>3
    <3>. QED BY <1>1, <3>1, <3>2, <3>3, <3>4, <3>5 DEF ProbeInv
  <2>. QED BY <1>1, <2>1, <2>2, <2>3 DEF SearchInv
<1>. QED BY <1>4, <1>5, <1>6 DEF BisectInv

\* The record a probe reads, when it lacks the key, is passed over.
LEMMA KeylessPassed ==
  ASSUME BisectTypeOK, FileInv, ProbeInv, Rest # {}, Candidate \notin KeyedRecs
  PROVE  NoneBetween(startOfScan, After(Candidate))
<1>1. /\ Candidate \in Recs /\ Candidate.at \in Nat /\ pos <= Candidate.at
      /\ \A r \in Recs : r.at >= pos => Candidate.at <= r.at
      /\ After(Candidate) \in Nat /\ Candidate.at < After(Candidate)
      /\ \A r \in Recs : r.at > Candidate.at => r.at >= After(Candidate)
  BY CandidateFacts
<1> SUFFICES ASSUME NEW r \in KeyedRecs, startOfScan <= r.at, r.at < After(Candidate)
             PROVE  FALSE
  BY DEF NoneBetween
<1>2. r \in Recs /\ r.at \in Nat /\ pos \in Nat
  BY RecordFacts DEF KeyedRecs, BisectTypeOK
<1>3. r.at >= pos
  BY <1>2 DEF ProbeInv, NoneBetween
<1>4. r.at = Candidate.at
  BY <1>1, <1>2, <1>3
<1>5. r = Candidate
  BY <1>1, <1>2, <1>4 DEF FileInv, Laid
<1>. QED BY <1>5

\* One that has the key is the first behind the landing that has.
LEMMA KeyedFirst ==
  ASSUME BisectTypeOK, FileInv, ProbeInv, Rest # {}, Candidate \in KeyedRecs
  PROVE  FirstFrom(Candidate, startOfScan)
<1>1. /\ Candidate \in Recs /\ Candidate.at \in Nat /\ pos <= Candidate.at
      /\ \A r \in Recs : r.at >= pos => Candidate.at <= r.at
  BY CandidateFacts
<1>2. startOfScan \in Nat /\ pos \in Nat /\ startOfScan <= pos
  BY DEF BisectTypeOK, ProbeInv
<1>3. ASSUME NEW r \in KeyedRecs, startOfScan <= r.at, r.at < Candidate.at
      PROVE  FALSE
  <2>1. r \in Recs /\ r.at \in Nat
    BY RecordFacts DEF KeyedRecs
  <2>2. r.at >= pos
    BY <1>2, <1>3, <2>1 DEF ProbeInv, NoneBetween
  <2>. QED BY <1>1, <1>3, <2>1, <2>2
<1>. QED BY <1>1, <1>2, <1>3 DEF FirstFrom, NoneBetween

\* A record that is less moves the lower end up to the landing, which is not
\* behind the upper end.
LEMMA LowerEndMoves ==
  ASSUME BisectTypeOK, FileInv, Bisectable, RangeInv, ProbeInv,
         NEW c, FirstFrom(c, startOfScan), c.class = "less"
  PROVE  startOfScan < end
<1>1. /\ Middle \in Nat /\ Middle > 0 /\ start < Middle /\ Middle + 2 <= end
  BY MiddleFacts DEF ProbeInv
<1>2. /\ startOfScan \in Nat
      /\ \A e \in Nat : IsLanding(e) /\ e >= Middle + 2 => startOfScan <= e
  BY <1>1, LandingFacts DEF ProbeInv
<1>3. /\ c \in KeyedRecs /\ startOfScan <= c.at /\ NoneBetween(startOfScan, c.at)
      /\ c.at \in Nat /\ c.at < EndPos /\ EndPos \in Nat
  BY RecordFacts DEF FirstFrom, KeyedRecs, FileInv, Laid
<1>4. end \in Nat /\ start \in Nat /\ end - start > SCAN_THRESHOLD /\ SCAN_THRESHOLD \in Nat
      /\ SCAN_THRESHOLD > 0
  BY Amounts DEF BisectTypeOK, ProbeInv
<1>5. CASE end = EndPos
  BY <1>2, <1>3, <1>5
<1>6. CASE IsLanding(end) /\ \E b \in KeyedRecs : FirstFrom(b, end) /\ NotLess(b)
  <2>1. PICK b \in KeyedRecs : FirstFrom(b, end) /\ NotLess(b)
    BY <1>6
  <2>2. startOfScan <= end
    BY <1>1, <1>2, <1>4, <1>6
  <2>3. ASSUME startOfScan = end PROVE FALSE
    <3>1. b \in Recs /\ c \in Recs /\ b.at \in Nat /\ end <= b.at
      BY <2>1, RecordFacts, <1>3 DEF KeyedRecs, FirstFrom
    <3>2. ~(c.at < b.at) /\ ~(b.at < c.at)
      BY <1>3, <2>1, <2>3, <3>1 DEF FirstFrom, NoneBetween
    <3>3. b = c
      BY <1>3, <3>1, <3>2 DEF FileInv, Laid
    <3>. QED BY <2>1, <3>3 DEF NotLess
  <2>. QED BY <1>2, <1>4, <2>2, <2>3
<1>7. CASE end = start + 1
  BY <1>4, <1>7
<1>. QED BY <1>5, <1>6, <1>7 DEF RangeInv

\* A landing behind the range, at a record that is not less: what is wanted is
\* not far behind the lower end.
LEMMA UpperEndReached ==
  ASSUME BisectTypeOK, FileInv, Bisectable, RangeInv, ProbeInv,
         NEW c, FirstFrom(c, startOfScan)
  PROVE  /\ c.at <= startOfScan + KeyGap
         /\ startOfScan >= end => c.at <= start + 2 * (KeyGap + 1)
         /\ start < startOfScan /\ IsLanding(startOfScan)
<1>1. /\ Middle \in Nat /\ Middle > 0 /\ start < Middle /\ Middle + 2 <= end
      /\ 2 * (Middle - start) <= end - start
  BY MiddleFacts DEF ProbeInv
<1>2. /\ startOfScan \in Nat /\ FileStart < startOfScan /\ Middle <= startOfScan
      /\ IsLanding(startOfScan)
      /\ \A r \in Recs : r.at < startOfScan => r.at <= Middle + 1
  BY <1>1, LandingFacts DEF ProbeInv
<1>3. c.at \in Nat /\ startOfScan <= c.at /\ KeyGap \in Nat
      /\ start \in Nat /\ end \in Nat /\ FileStart \in Nat
  BY RecordFacts, Amounts DEF FirstFrom, KeyedRecs, BisectTypeOK
<1>4. PICK a \in {FileStart} \cup {r.at : r \in KeyedRecs} :
        a < startOfScan /\ c.at <= a + KeyGap
  BY <1>2, KeyBefore
<1>5. a \in Nat
  BY <1>3, RecordFacts DEF KeyedRecs
<1>6. a <= Middle + 1
  <2>1. CASE a = FileStart
    BY <1>1, <2>1 DEF FileStart
  <2>2. CASE a \in {r.at : r \in KeyedRecs}
    BY <1>2, <1>4, <2>2 DEF KeyedRecs
  <2>. QED BY <2>1, <2>2
<1>7. startOfScan >= end => c.at <= start + 2 * (KeyGap + 1)
  BY <1>1, <1>2, <1>3, <1>4, <1>5, <1>6
<1>8. c.at <= startOfScan + KeyGap
  BY <1>2, <1>3, <1>4, <1>5
<1>. QED BY <1>1, <1>2, <1>3, <1>7, <1>8

LEMMA ProbeRecordKeepsInv == ASSUME BisectInv, ProbeRecord PROVE BisectInv'
<1>1. /\ kind' = kind /\ recs' = recs /\ wanted' = wanted
      /\ UNCHANGED <<patternVars, startOfScan, scanVars>>
      /\ loc = "probe" /\ Rest # {} /\ pos' = After(Candidate)
      /\ end' = IF Matched(Candidate) THEN Upper ELSE end
      /\ start' = IF Attempted(Candidate) /\ ~Matched(Candidate)
                  THEN startOfScan ELSE start
      /\ loc' = IF Attempted(Candidate) THEN "bisect" ELSE "probe"
  BY DEF ProbeRecord, fileVars
<1>2. BisectTypeOK /\ FileInv /\ matchOrGreater /\ printed = <<>>
  BY <1>1 DEF BisectInv, SearchInv
<1>3. /\ Candidate \in Recs /\ pos <= Candidate.at /\ Candidate.at \in Nat
      /\ After(Candidate) \in Nat /\ Candidate.at < After(Candidate)
  BY <1>1, <1>2, CandidateFacts
<1>4. /\ Matched(Candidate) <=> NotLess(Candidate)
      /\ Attempted(Candidate) <=> Candidate \in KeyedRecs
      /\ NotLess(Candidate) => Candidate \in KeyedRecs
      /\ Candidate \in KeyedRecs => Candidate.class = "less" \/ NotLess(Candidate)
  BY <1>2, <1>3 DEF Matched, Attempted, NotLess, KeyedRecs, Keyed, Rank
<1>5. Upper \in Nat /\ start' \in Nat /\ end' \in Nat
  BY <1>1, <1>2 DEF Upper, BisectTypeOK
<1>6. BisectTypeOK'
  BY <1>1, <1>2, <1>3, <1>5 DEF BisectTypeOK, patternVars, scanVars
<1>7. FileInv' /\ Bisectable' = Bisectable /\ EndPos' = EndPos
      /\ KeyedRecs' = KeyedRecs
  BY <1>1, <1>2, FileKept
<1>8. matchOrGreater' /\ printed' = <<>>
  BY <1>1, <1>2 DEF patternVars, scanVars
<1>9. ASSUME Bisectable
      PROVE  RangeInv' /\ (loc' = "probe" => ProbeInv')
  <2>1. RangeInv /\ ProbeInv
    BY <1>1, <1>9 DEF BisectInv, SearchInv
  <2>2. CASE Candidate \notin KeyedRecs
    <3>1. start' = start /\ end' = end /\ loc' = "probe"
      BY <1>1, <1>4, <2>2
    <3>2. RangeInv'
      BY <1>1, <1>2, <2>1, <3>1, RangeKept
    <3>3. Middle' = Middle /\ startOfScan' = startOfScan
      BY <1>1, <3>1 DEF Middle
    <3>4. Landings(Middle)' = Landings(Middle)
      BY <1>1, <3>3 DEF Landings, AuStarts, TextStarts, After
    <3>5. NoneBetween(startOfScan, pos)'
      BY <1>1, <1>2, <1>7, <2>1, <2>2, <3>3, KeylessPassed DEF NoneBetween
    <3>6. startOfScan' <= pos'
      BY <1>1, <1>2, <1>3, <2>1, <3>3 DEF BisectTypeOK, ProbeInv
    <3>. QED BY <2>1, <3>1, <3>2, <3>3, <3>4, <3>5, <3>6 DEF ProbeInv
  <2>3. CASE Candidate \in KeyedRecs
    <3>0. loc' = "bisect"
      BY <1>1, <1>4, <2>3
    <3> SUFFICES RangeInv'
      BY <3>0
    <3>c. PICK c \in KeyedRecs : c = Candidate
      BY <2>3
    <3>1. FirstFrom(c, startOfScan)
      BY <1>1, <1>2, <2>1, <2>3, <3>c, KeyedFirst
    <3>2. /\ \A p : IsLanding(p)' = IsLanding(p)
          /\ \A r, p : FirstFrom(r, p)' = FirstFrom(r, p)
      BY <1>1, <1>2, FileKept
    <3>3. startOfScan <= c.at
      BY <3>1 DEF FirstFrom
    <3>4. start \in Nat /\ end \in Nat /\ startOfScan \in Nat /\ EndPos \in Nat
      BY <1>2, RecordFacts DEF BisectTypeOK
    <3>5. CASE ~NotLess(c)
      <4>1. c.class = "less" /\ start' = startOfScan /\ end' = end
        BY <1>1, <1>4, <2>3, <3>5, <3>c
      <4>2. startOfScan < end
        BY <1>2, <1>9, <2>1, <3>1, <4>1, LowerEndMoves
      <4>3. end # start + 1
        BY <2>1, <3>4, Amounts DEF ProbeInv
      <4>4. /\ start' < end' /\ end' <= EndPos'
            /\ \E b \in KeyedRecs' : b.class = "less" /\ start' <= b.at
        BY <1>7, <2>1, <2>3, <3>3, <4>1, <4>2 DEF RangeInv
      <4>. QED BY <1>7, <2>1, <3>1, <3>2, <4>1, <4>3, <4>4 DEF RangeInv, NotLess
    <3>6. CASE NotLess(c)
      <4>1. /\ start' = start
            /\ end' = IF startOfScan < end THEN startOfScan ELSE start + 1
        BY <1>1, <1>4, <3>6, <3>c DEF Upper
      <4>2. /\ c.at <= startOfScan + KeyGap
            /\ startOfScan >= end => c.at <= start + 2 * (KeyGap + 1)
            /\ start < startOfScan /\ IsLanding(startOfScan)
        BY <1>2, <1>9, <2>1, <3>1, UpperEndReached
      <4>3. start' < end' /\ end' <= EndPos'
        BY <1>7, <2>1, <3>4, <4>1, <4>2 DEF RangeInv
      <4>4. c \in KeyedRecs
        OBVIOUS
      <4>5. start' = 0 \/ \E b \in KeyedRecs' : b.class = "less" /\ start' <= b.at
        BY <1>7, <2>1, <4>1 DEF RangeInv
      <4>6. CASE startOfScan < end
        <5>1. end' = startOfScan
          BY <4>1, <4>6
        <5>2. IsLanding(end') /\ FirstFrom(c, end') /\ NotLess(c) /\ c.at <= end' + KeyGap
          BY <3>1, <3>6, <4>2, <5>1
        <5>3. /\ IsLanding(end)'
              /\ \E b \in KeyedRecs' :
                   FirstFrom(b, end)' /\ NotLess(b) /\ b.at <= end' + KeyGap
          <6>1. IsLanding(end)' = IsLanding(end')
            BY <1>1, <1>7 DEF IsLanding, Recs, After
          <6>2. FirstFrom(c, end)' = FirstFrom(c, end')
            BY <1>7 DEF FirstFrom, NoneBetween
          <6>. QED BY <1>7, <4>4, <5>2, <6>1, <6>2
        <5>. QED BY <4>3, <4>5, <5>3 DEF RangeInv, NotLess
      <4>7. CASE startOfScan >= end
        <5>1. end' = start' + 1
          BY <3>4, <4>1, <4>7
        <5>2. \E b \in KeyedRecs' : NotLess(b) /\ b.at <= start' + 2 * (KeyGap + 1)
          BY <1>7, <3>6, <4>1, <4>2, <4>4, <4>7
        <5>. QED BY <4>3, <4>5, <5>1, <5>2 DEF RangeInv, NotLess
      <4>. QED BY <3>4, <4>6, <4>7
    <3>. QED BY <3>5, <3>6
  <2>. QED BY <2>2, <2>3
<1>10. SearchInv'
  BY <1>1, <1>7, <1>8, <1>9 DEF SearchInv
<1>. QED BY <1>6, <1>7, <1>10 DEF BisectInv

\* Neither a range without records nor one without the key behind its middle
\* occurs in a file that can be bisected.
LEMMA DeadEndKeepsInv ==
  ASSUME BisectInv, ProbeEnds \/ RangeEmpty
  PROVE  BisectInv'
<1>1. /\ UNCHANGED <<fileVars, patternVars, rangeVars, pos, scanVars>>
      /\ loc' = "returned" /\ kind' = kind /\ recs' = recs /\ wanted' = wanted
  BY DEF ProbeEnds, RangeEmpty, fileVars
<1>2. BisectTypeOK'
  BY <1>1 DEF BisectInv, BisectTypeOK, fileVars, patternVars, rangeVars, scanVars
<1>3. FileInv' /\ Bisectable' = Bisectable
  BY <1>1, FileKept DEF BisectInv
<1>4. ~Bisectable
  <2> SUFFICES ASSUME Bisectable PROVE FALSE
    OBVIOUS
  <2>1. CASE ProbeEnds
    <3>1. RangeInv /\ ProbeInv /\ Rest = {}
      BY <2>1 DEF ProbeEnds, BisectInv, SearchInv
    <3>2. PICK m \in KeyedRecs : Middle + 2 <= m.at
      BY <3>1, MiddleFacts DEF BisectInv, ProbeInv
    <3>3. Middle \in Nat /\ Middle > 0
      BY <3>1, MiddleFacts DEF BisectInv, ProbeInv
    <3>4. m \in Recs /\ m.at \in Nat /\ pos \in Nat
      BY RecordFacts DEF BisectInv, KeyedRecs, BisectTypeOK
    <3>5. startOfScan <= m.at
      BY <3>1, <3>2, <3>3, <3>4, LandingFacts DEF BisectInv, ProbeInv
    <3>6. m.at >= pos
      BY <3>1, <3>4, <3>5 DEF ProbeInv, NoneBetween
    <3>. QED BY <3>1, <3>4, <3>6 DEF Rest, Recs
  <2>2. CASE RangeEmpty
    BY <2>2 DEF RangeEmpty, BisectInv, SearchInv, RangeInv, BisectTypeOK
  <2>. QED BY <2>1, <2>2
<1>5. SearchInv'
  BY <1>1, <1>3, <1>4 DEF SearchInv
<1>. QED BY <1>2, <1>3, <1>5 DEF BisectInv

\* A scan begins in front of the first record wanted, and near enough to it.
LEMMA ScanBegins ==
  ASSUME BisectTypeOK, FileInv, RangeInv, end - start <= SCAN_THRESHOLD,
         NEW f \in WantedRecs, \A r \in WantedRecs : f.at <= r.at,
         NEW s \in Landings(ScanFrom), \A l \in Landings(ScanFrom) : s <= l
  PROVE  s <= f.at /\ f.at - s <= SUFFIX_AMOUNT
<1>1. /\ ScanFrom \in Nat
      /\ ScanFrom = 0 \/ ScanFrom + 2 <= f.at
      /\ start <= ScanFrom + PREFIX_AMOUNT
      /\ f.at <= end + Overrun \/ f.at <= start + SCAN_THRESHOLD + Overrun
  BY InReach
<1>2. /\ f \in Recs /\ f.at \in Nat /\ FileStart <= f.at
      /\ start \in Nat /\ end \in Nat
  BY WantedFacts DEF WantedRecs, BisectTypeOK
<1>3. s \in Nat /\ ScanFrom <= s /\ s <= f.at
  <2>1. CASE ScanFrom = 0 /\ kind = "au"
    <3>1. Landings(0) = {r.at : r \in {q \in Recs : q.at >= 0 + 2}}
      BY <2>1 DEF Landings, AuStarts, Recs
    <3>2. f.at >= 2
      BY <1>2, <2>1 DEF FileStart
    <3>. QED BY <1>2, <2>1, <3>1, <3>2, LandingsExist
  <2>2. CASE ScanFrom = 0 /\ kind # "au"
    <3>1. Landings(0) = {0}
      BY <2>2 DEF Landings, TextStarts
    <3>. QED BY <1>2, <2>2, <3>1
  <2>3. CASE ScanFrom > 0
    BY <1>1, <1>2, <2>3, LandingFacts
  <2>. QED BY <1>1, <2>1, <2>2, <2>3
<1>4. f.at <= start + SCAN_THRESHOLD + Overrun
  BY <1>1, <1>2, Amounts
<1>5. f.at <= ScanFrom + SUFFIX_AMOUNT
  BY <1>1, <1>2, <1>4, Amounts
<1>6. SUFFIX_AMOUNT \in Nat
  BY Amounts
<1>. QED BY <1>1, <1>2, <1>3, <1>5, <1>6

LEMMA StartScanKeepsInv == ASSUME BisectInv, StartScan PROVE BisectInv'
<1>1. /\ kind' = kind /\ recs' = recs /\ wanted' = wanted
      /\ UNCHANGED <<origMatchOrGreater, rangeVars, printed>>
      /\ loc = "bisect" /\ loc' = "scan" /\ end - start <= SCAN_THRESHOLD
      /\ Landings(ScanFrom) # {}
      /\ pos' = Min(Landings(ScanFrom)) /\ suffixStartPos' = pos'
      /\ matchOrGreater' = origMatchOrGreater
  BY DEF StartScan, fileVars
<1>2. BisectTypeOK /\ FileInv /\ ScanFrom \in Nat
  BY Amounts DEF ScanFrom, BisectInv, BisectTypeOK
<1>3. /\ pos' \in Nat /\ pos' \in Landings(ScanFrom)
      /\ \A p \in Landings(ScanFrom) : pos' <= p
  BY <1>1, <1>2, LandingsExist, LeastFound
<1>4. BisectTypeOK'
  BY <1>1, <1>2, <1>3 DEF BisectTypeOK, rangeVars
<1>5. /\ FileInv' /\ Bisectable' = Bisectable
      /\ WantedRecs' = WantedRecs
  BY <1>1, <1>2, FileKept
<1>6. ASSUME Bisectable PROVE ScanInv'
  <2>1. RangeInv
    BY <1>1, <1>6 DEF BisectInv, SearchInv
  <2>2. ASSUME WantedRecs # {}
        PROVE  \E f \in WantedRecs :
                 /\ \A r \in WantedRecs : f.at <= r.at
                 /\ pos' <= f.at /\ f.at - pos' <= SUFFIX_AMOUNT
    <3> DEFINE S == {r.at : r \in WantedRecs}
    <3>1. S \in SUBSET Nat /\ S # {}
      BY <1>2, <2>2, WantedFacts
    <3>2. PICK f \in WantedRecs : \A r \in WantedRecs : f.at <= r.at
      <4>1. PICK m \in S : \A n \in S : m <= n
        BY <3>1, LeastNatural
      <4>. QED BY <4>1
    <3>3. pos' <= f.at /\ f.at - pos' <= SUFFIX_AMOUNT
      BY <1>1, <1>2, <1>3, <2>1, <3>2, ScanBegins
    <3>. QED BY <3>2, <3>3
  <2>3. \A r \in WantedRecs : r.at \in Nat /\ pos' <= r.at
    <3> SUFFICES ASSUME NEW r \in WantedRecs PROVE r.at \in Nat /\ pos' <= r.at
      OBVIOUS
    <3>1. r.at \in Nat
      BY <1>2, WantedFacts
    <3>2. PICK f \in WantedRecs : f.at <= r.at /\ pos' <= f.at
      BY <2>2
    <3>3. f.at \in Nat
      BY <1>2, WantedFacts
    <3>. QED BY <1>3, <3>1, <3>2, <3>3
  <2>4. printed' = <<>>
    BY <1>1 DEF BisectInv, SearchInv
  <2>. QED BY <1>1, <1>3, <1>5, <2>2, <2>3, <2>4 DEF ScanInv, Range
<1>7. SearchInv'
  BY <1>1, <1>5, <1>6 DEF SearchInv
<1>. QED BY <1>4, <1>5, <1>7 DEF BisectInv

\* What a scan passes over: the candidate, and nothing else that is wanted.
LEMMA PassedOver ==
  ASSUME BisectTypeOK, FileInv, Rest # {}
  PROVE  \A w \in WantedRecs :
           /\ w.at \in Nat
           /\ w.at < pos \/ w = Candidate \/ w.at >= After(Candidate)
<1> SUFFICES ASSUME NEW w \in WantedRecs, ~(w.at < pos), w # Candidate
             PROVE  w.at \in Nat /\ w.at >= After(Candidate)
  BY WantedFacts
<1>1. w \in Recs /\ w.at \in Nat /\ pos \in Nat
  BY WantedFacts DEF WantedRecs, BisectTypeOK
<1>2. /\ Candidate \in Recs /\ Candidate.at \in Nat /\ Candidate.at <= w.at
      /\ \A r \in Recs : r.at > Candidate.at => r.at >= After(Candidate)
  BY <1>1, CandidateFacts
<1>3. w.at # Candidate.at
  BY <1>1, <1>2 DEF FileInv, Laid
<1>. QED BY <1>1, <1>2, <1>3

LEMMA ScanRecordKeepsInv == ASSUME BisectInv, ScanRecord PROVE BisectInv'
<1>1. /\ kind' = kind /\ recs' = recs /\ wanted' = wanted /\ loc' = loc
      /\ UNCHANGED <<patternVars, rangeVars>>
      /\ loc = "scan" /\ Rest # {} /\ pos' = After(Candidate)
      /\ \/ /\ Matched(Candidate)
            /\ printed' = Append(printed, Candidate.at) /\ suffixStartPos' = pos'
         \/ ~Matched(Candidate) /\ UNCHANGED <<printed, suffixStartPos>>
  BY DEF ScanRecord, SuffixStart, fileVars, scanVars
<1>2. BisectTypeOK /\ FileInv
  BY DEF BisectInv
<1>3. /\ Candidate \in Recs /\ pos <= Candidate.at /\ Candidate.at \in Nat
      /\ After(Candidate) \in Nat /\ Candidate.at < After(Candidate)
      /\ \A r \in Recs : r.at > Candidate.at => r.at >= After(Candidate)
  BY <1>1, <1>2, CandidateFacts
<1>4. printed \in Seq(Nat) /\ suffixStartPos \in Nat /\ pos \in Nat
  BY <1>2 DEF BisectTypeOK
<1>5. BisectTypeOK'
  <2>1. Append(printed, Candidate.at) \in Seq(Nat)
    BY <1>3, <1>4
  <2>. QED BY <1>1, <1>2, <1>3, <1>4, <2>1 DEF BisectTypeOK, patternVars, rangeVars
<1>6. /\ FileInv' /\ Bisectable' = Bisectable /\ WantedRecs' = WantedRecs
      /\ AsGiven' = AsGiven
  BY <1>1, <1>2, FileKept
<1>7. \A w \in WantedRecs :
        /\ w.at \in Nat
        /\ w.at < pos \/ w = Candidate \/ w.at >= After(Candidate)
  BY <1>1, <1>2, PassedOver
<1>8. ASSUME Bisectable, origMatchOrGreater = AsGiven PROVE ScanInv'
  <2>1. ScanInv /\ matchOrGreater = AsGiven
    BY <1>1, <1>8 DEF BisectInv, SearchInv
  <2>2. Matched(Candidate) <=> Candidate \in WantedRecs
    BY <1>2, <1>3, <2>1 DEF Matched, WantedRecs, AsGiven, BisectTypeOK
  <2>3. suffixStartPos' <= pos'
    BY <1>1, <1>3, <1>4, <2>1 DEF ScanInv
  <2>4. CASE Matched(Candidate)
    <3>1. /\ printed' = Append(printed, Candidate.at) /\ suffixStartPos' = pos'
          /\ Candidate \in WantedRecs
      BY <1>1, <2>2, <2>4
    <3>2. /\ Len(printed') = Len(printed) + 1 /\ Len(printed) \in Nat
          /\ DOMAIN printed = 1..Len(printed) /\ DOMAIN printed' = 1..Len(printed')
          /\ printed'[Len(printed) + 1] = Candidate.at
          /\ \A i \in 1..Len(printed) : printed'[i] = printed[i]
      BY <1>3, <1>4, <3>1
    <3>3. Range(printed') = Range(printed) \cup {Candidate.at}
      BY <3>2 DEF Range
    <3>4. Range(printed') = {r.at : r \in {q \in WantedRecs : q.at < pos'}}
      <4>1. {q \in WantedRecs : q.at < pos'} = {q \in WantedRecs : q.at < pos} \cup {Candidate}
        BY <1>1, <1>3, <1>4, <1>7, <3>1
      <4>2. Range(printed) = {r.at : r \in {q \in WantedRecs : q.at < pos}}
        BY <2>1 DEF ScanInv
      <4>. QED BY <3>3, <4>1, <4>2
    <3>5. \A i \in 1..Len(printed) : printed[i] \in Nat /\ printed[i] < pos
      <4> SUFFICES ASSUME NEW i \in 1..Len(printed)
                   PROVE  printed[i] \in Nat /\ printed[i] < pos
        OBVIOUS
      <4>1. printed[i] \in Range(printed)
        BY <3>2 DEF Range
      <4>2. PICK r \in WantedRecs : r.at < pos /\ printed[i] = r.at
        BY <2>1, <4>1 DEF ScanInv
      <4>. QED BY <1>7, <4>2
    <3>6. \A i, j \in DOMAIN printed' : i < j => printed'[i] < printed'[j]
      <4>1. \A i, j \in 1..Len(printed) : i < j => printed[i] < printed[j]
        BY <2>1, <3>2 DEF ScanInv
      <4>2. \A i \in 1..Len(printed) : printed[i] < Candidate.at
        BY <1>3, <1>4, <3>5
      <4>. QED BY <3>2, <4>1, <4>2
    <3>7. ASSUME NEW w \in WantedRecs, w.at >= pos'
          PROVE  \E r \in WantedRecs : r.at >= pos' /\ r.at - pos' <= SUFFIX_AMOUNT
      <4>1. PICK r \in WantedRecs :
              Candidate.at < r.at /\ r.at <= Candidate.at + 2 * Disorder + KeyGap
        <5>1. Candidate.at < w.at
          BY <1>1, <1>3, <1>7, <3>7
        <5>. QED BY <1>2, <1>8, <3>1, <5>1, NextWanted
      <4>2. r \in Recs /\ r.at \in Nat
        BY <1>7 DEF WantedRecs
      <4>3. r.at >= pos'
        BY <1>1, <1>3, <4>1, <4>2
      <4>4. r.at - pos' <= 2 * Disorder + KeyGap
        BY <1>1, <1>3, <4>1, <4>2, Amounts
      <4>5. 2 * Disorder + KeyGap <= SUFFIX_AMOUNT
        BY Amounts
      <4>6. r.at - pos' <= SUFFIX_AMOUNT
        BY <1>1, <1>3, <4>2, <4>4, <4>5, Amounts
      <4>. QED BY <4>3, <4>6
    <3>. QED BY <1>6, <2>3, <3>1, <3>4, <3>6, <3>7 DEF ScanInv
  <2>5. CASE ~Matched(Candidate)
    <3>1. UNCHANGED <<printed, suffixStartPos>> /\ Candidate \notin WantedRecs
      BY <1>1, <2>2, <2>5
    <3>2. {q \in WantedRecs : q.at < pos'} = {q \in WantedRecs : q.at < pos}
      BY <1>1, <1>3, <1>4, <1>7, <3>1
    <3>3. \A r \in WantedRecs : r.at >= pos' <=> r.at >= pos
      BY <1>1, <1>3, <1>4, <1>7, <3>1
    <3>. QED BY <1>6, <2>1, <2>3, <3>1, <3>2, <3>3 DEF ScanInv
  <2>. QED BY <2>4, <2>5
<1>9. SearchInv'
  BY <1>1, <1>6, <1>8 DEF BisectInv, SearchInv, patternVars
<1>. QED BY <1>5, <1>6, <1>9 DEF BisectInv

LEMMA ScanEndsKeepsInv == ASSUME BisectInv, ScanEnds PROVE BisectInv'
<1>1. /\ kind' = kind /\ recs' = recs /\ wanted' = wanted
      /\ UNCHANGED <<patternVars, rangeVars, pos, scanVars>>
      /\ loc = "scan" /\ loc' = "returned" /\ (Rest = {} \/ Exceeded)
  BY DEF ScanEnds, fileVars
<1>2. BisectTypeOK /\ FileInv
  BY DEF BisectInv
<1>3. BisectTypeOK'
  BY <1>1, <1>2 DEF BisectTypeOK, patternVars, rangeVars, scanVars
<1>4. /\ FileInv' /\ Bisectable' = Bisectable /\ WantedAt' = WantedAt
      /\ AsGiven' = AsGiven
  BY <1>1, <1>2, FileKept
<1>5. ASSUME Bisectable, origMatchOrGreater = AsGiven
      PROVE  PrintedAsWanted /\ matchOrGreater = AsGiven
  <2>1. ScanInv /\ matchOrGreater = AsGiven
    BY <1>1, <1>5 DEF BisectInv, SearchInv
  <2>2. ASSUME NEW w \in WantedRecs, ~(w.at < pos) PROVE FALSE
    <3>1. w \in Recs /\ w.at \in Nat /\ pos \in Nat /\ suffixStartPos \in Nat
      BY <1>2, WantedFacts DEF WantedRecs, BisectTypeOK
    <3>2. w \in Rest
      BY <2>2, <3>1 DEF Rest, Recs
    <3>3. PICK r \in WantedRecs : r.at >= pos /\ r.at - suffixStartPos <= SUFFIX_AMOUNT
      BY <2>1, <2>2, <3>1 DEF ScanInv
    <3>4. r.at \in Nat /\ SUFFIX_AMOUNT \in Nat
      BY <1>2, WantedFacts, Amounts
    <3>5. ~Exceeded
      BY <3>1, <3>3, <3>4 DEF Exceeded
    <3>. QED BY <1>1, <3>2, <3>5
  <2>3. {q \in WantedRecs : q.at < pos} = WantedRecs
    BY <2>2
  <2>4. WantedAt = {r.at : r \in WantedRecs}
    BY DEF WantedAt, WantedRecs, Recs
  <2>. QED BY <2>1, <2>3, <2>4 DEF ScanInv, PrintedAsWanted
<1>6. SearchInv'
  <2>1. PrintedAsWanted' = PrintedAsWanted
    BY <1>1, <1>4 DEF PrintedAsWanted, scanVars
  <2>. QED BY <1>1, <1>4, <1>5, <2>1 DEF SearchInv, patternVars
<1>. QED BY <1>3, <1>4, <1>6 DEF BisectInv

LEMMA BisectInitInv == BisectInit => BisectInv
<1> SUFFICES ASSUME BisectInit PROVE BisectInv
  OBVIOUS
<1>1. recs = <<>> /\ Recs = {} /\ printed = <<>> /\ loc = "outside"
  BY DEF BisectInit, Recs, Range
<1>2. BisectTypeOK
  <2>1. <<>> \in Seq(Record) /\ <<>> \in Seq(Nat)
    OBVIOUS
  <2>2. matchOrGreater \in BOOLEAN
    <3>1. matchOrGreater = ("greater" \in wanted)
      BY DEF BisectInit
    <3>2. ("greater" \in wanted) \in BOOLEAN
      OBVIOUS
    <3>. QED BY <3>1, <3>2
  <2>. QED BY <2>1, <2>2 DEF BisectInit, BisectTypeOK
<1>3. FileInv
  BY <1>1 DEF FileInv, Laid, Rough, KeyedRecs, EndPos
<1>. QED BY <1>1, <1>2, <1>3 DEF BisectInv, SearchInv

LEMMA BisectNextInv == BisectInv /\ [BisectNext]_bisectVars => BisectInv'
<1> SUFFICES ASSUME BisectInv, [BisectNext]_bisectVars PROVE BisectInv'
  OBVIOUS
<1>1. CASE UNCHANGED bisectVars
  <2>1. /\ kind' = kind /\ recs' = recs /\ wanted' = wanted /\ loc' = loc
        /\ UNCHANGED <<patternVars, rangeVars, pos, scanVars>>
    BY <1>1 DEF bisectVars, fileVars
  <2>2. BisectTypeOK'
    BY <2>1 DEF BisectInv, BisectTypeOK, patternVars, rangeVars, scanVars
  <2>3. /\ FileInv' /\ Recs' = Recs /\ KeyedRecs' = KeyedRecs
        /\ WantedRecs' = WantedRecs /\ WantedAt' = WantedAt
        /\ AsGiven' = AsGiven /\ Bisectable' = Bisectable
    BY <2>1, FileKept DEF BisectInv
  <2>4. RangeInv => RangeInv'
    BY <2>1, RangeKept DEF BisectInv, rangeVars
  <2>5. ProbeInv => ProbeInv'
    <3>1. Landings(Middle)' = Landings(Middle)
      BY <2>1 DEF Landings, AuStarts, TextStarts, After, Middle, rangeVars
    <3>2. NoneBetween(startOfScan, pos)' = NoneBetween(startOfScan, pos)
      BY <2>1, <2>3 DEF NoneBetween, rangeVars
    <3>. QED BY <2>1, <3>1, <3>2 DEF ProbeInv, rangeVars
  <2>6. ScanInv => ScanInv'
    BY <2>1, <2>3 DEF ScanInv, scanVars
  <2>7. PrintedAsWanted' = PrintedAsWanted
    BY <2>1, <2>3 DEF PrintedAsWanted, scanVars
  <2>8. SearchInv'
    BY <2>1, <2>3, <2>4, <2>5, <2>6, <2>7
    DEF BisectInv, SearchInv, patternVars, scanVars
  <2>. QED BY <2>2, <2>3, <2>8 DEF BisectInv
<1>2. CASE BisectNext
  BY <1>2, WriteKeepsInv, OpenKeepsInv, FailureKeepsInv, NextFileKeepsInv,
     ProbeKeepsInv, ProbeRecordKeepsInv, DeadEndKeepsInv, StartScanKeepsInv,
     ScanRecordKeepsInv, ScanEndsKeepsInv
  DEF BisectNext, Search
<1>. QED BY <1>1, <1>2

\* In every file the specification admits, through every step of the bisection
\* and the scan behind it, the ends of the range keep what was found of them.
THEOREM BisectInvariant == BisectSpec => []BisectInv
BY BisectInitInv, BisectNextInv, PTL DEF BisectSpec

\* Whatever the sizes of the records and however the bisection falls among them,
\* the first record wanted stays within what a scan of the range reads.
THEOREM FirstStaysInReach == BisectSpec => []FirstInReach
<1>1. ASSUME BisectInv PROVE FirstInReach
  <2> SUFFICES ASSUME loc = "bisect", Bisectable, WantedAt # {}
               PROVE  /\ ScanFrom <= Min(WantedAt)
                      /\ Min(WantedAt) <= Max({end, start + SCAN_THRESHOLD}) + Overrun
    BY DEF FirstInReach
  <2>1. BisectTypeOK /\ FileInv /\ RangeInv
    BY <1>1 DEF BisectInv, SearchInv
  <2>2. WantedAt = {r.at : r \in WantedRecs}
    BY DEF WantedAt, WantedRecs, Recs
  <2>3. WantedAt \in SUBSET Nat
    BY <2>1, <2>2, WantedFacts
  <2>4. Min(WantedAt) \in WantedAt /\ \A a \in WantedAt : Min(WantedAt) <= a
    BY <2>3, LeastFound
  <2>5. PICK f \in WantedRecs : f.at = Min(WantedAt) /\ \A r \in WantedRecs : f.at <= r.at
    BY <2>2, <2>4
  <2>6. /\ ScanFrom \in Nat
        /\ ScanFrom = 0 \/ ScanFrom + 2 <= f.at
        /\ f.at <= end + Overrun \/ f.at <= start + SCAN_THRESHOLD + Overrun
    BY <2>1, <2>5, InReach
  <2>7. f.at \in Nat /\ start \in Nat /\ end \in Nat
    BY <2>1, WantedFacts DEF BisectTypeOK
  <2>8. Max({end, start + SCAN_THRESHOLD}) =
          IF end >= start + SCAN_THRESHOLD THEN end ELSE start + SCAN_THRESHOLD
    BY <2>7, Amounts, GreaterOfTwo
  <2>. QED BY <2>5, <2>6, <2>7, <2>8, Amounts
<1>. QED BY <1>1, BisectInvariant, PTL

\* In a file that is ordered roughly enough -o prints every record wanted, once
\* and in order, and resets the pattern.
THEOREM BisectionPrintsMatches == BisectSpec => []PrintsMatches
<1>1. BisectInv => PrintsMatches
  BY DEF BisectInv, SearchInv, PrintsMatches
<1>. QED BY <1>1, BisectInvariant, PTL
=============================================================================
