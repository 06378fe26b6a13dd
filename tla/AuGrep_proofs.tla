--------------------------- MODULE AuGrep_proofs ---------------------------
(***************************************************************************)
(* The context loop of grep, whatever the options, the file and the number *)
(* of dictionaries kept: it counts and prints what it should, goes back    *)
(* only to what is pinned, and fails only when a context reaches back over *)
(* more dictionaries than are kept.                                        *)
(***************************************************************************)
EXTENDS AuGrep, AuLog_proofs, FiniteSetTheorems

GrepTypeOK ==
  /\ opt \in Options
  /\ loc \in {"outside", "dating", "top", "parse", "print", "done", "failed"}
  /\ scanned \in Nat /\ posBuffer \in Seq(Nat) /\ pin \in Int
  /\ force \in Nat /\ total \in Nat /\ inRegion \in BOOLEAN /\ due \in Nat
  /\ pos \in Nat /\ pos <= Len(file)
  /\ delivered \in Seq(Value)
  /\ broken \in BOOLEAN /\ (broken => loc = "failed")

\* What is written besides what LogInv says.
Classed ==
  \A m \in DOMAIN sent : sent[m].value # <<>> /\ sent[m].value[1] \in Classes
Owed ==
  \A i \in DOMAIN file :
    file[i].kind = "A" /\ i < Len(file) => file[i + 1].kind = "V"

-----------------------------------------------------------------------------
(***************************************************************************)
(* Counting and printing.  n is how many values the loop has dealt with.   *)
(***************************************************************************)
\* n of the values s lie before place p.
Passed(s, p, n) ==
  n \in 0..Len(s) /\ \A m \in DOMAIN s : m <= n <=> s[m].sor < p * RecSize

AllHits == {k \in DOMAIN sent : ClassOf(k) = "hit"}
UpTo(S, n) == {k \in S : k <= n}

Counts(n) ==
  /\ total = Cardinality(UpTo(Hits, n))
  /\ total < opt.matches => Cardinality(UpTo(AllHits, n)) = total
  /\ total >= opt.matches => Cardinality(UpTo(AllHits, n)) >= opt.matches
  /\ inRegion <=> n \in Followed

Marked == IF opt.follow THEN Followed ELSE Hits

Reaches(i, k) == i <= k + opt.before /\ k <= i + opt.after

\* What the marked records up to the n-th have printed.
Printed(n) == {k \in 1..n : \E i \in Marked : i <= n /\ Reaches(i, k)}

\* The context that the marked records up to the n-th leave for later.
Forces(n) ==
  \A m \in Nat : m > n =>
    ((\E i \in Marked : i <= n /\ m <= i + opt.after) <=> m <= n + force)

\* ds are the values in S, in order.
Nth(S, k, n) == Cardinality({j \in S : j < k}) = n - 1
Lists(ds, S) ==
  /\ Len(ds) = Cardinality(S)
  /\ \A n \in DOMAIN ds : \E k \in S : Nth(S, k, n) /\ ds[n] = sent[k].value

\* posBuffer holds the places before the last values of the first c, none of
\* which has been printed; if there is room for more, all before are printed.
Buffers(n, c) ==
  /\ Len(posBuffer) <= opt.before + 1
  /\ \A i \in DOMAIN posBuffer :
       /\ Passed(sent, posBuffer[i], c - Len(posBuffer) + i - 1)
       /\ posBuffer[i] <= pos
  /\ \A k \in Printed(n) : k <= c - Len(posBuffer)
  /\ Len(posBuffer) <= opt.before =>
       c - Len(posBuffer) = 0 \/ c - Len(posBuffer) \in Printed(n)

AtTop(n) ==
  ~opt.count =>
    /\ due = 0 /\ Forces(n) /\ Lists(delivered, Printed(n))
    /\ Buffers(n, n)
    /\ force > 0 => posBuffer = <<>>

AtParse(n) ==
  ~opt.count =>
    /\ due = 0 /\ Forces(n) /\ Lists(delivered, Printed(n))
    /\ Buffers(n, n + 1) /\ posBuffer # <<>> /\ pin = posBuffer[1]
    /\ force > 0 => Len(posBuffer) = 1

\* m values lie before pos, the last due of n are to be printed.
AtPrint(m, n) ==
  /\ ~opt.count
  /\ due > 0 /\ n = m + due /\ due <= opt.before + 1
  /\ Forces(n) /\ Lists(delivered, UpTo(Printed(n), m))
  /\ \A k \in (m + 1)..n : k \in Printed(n)
  /\ posBuffer = <<>>

\* Before the loop.
Fresh ==
  /\ delivered = <<>> /\ posBuffer = <<>>
  /\ force = 0 /\ total = 0 /\ inRegion = FALSE /\ due = 0

AsWanted ==
  \A n \in DOMAIN delivered : \E k \in Wanted :
    Nth(Wanted, k, n) /\ delivered[n] = sent[k].value

Looping ==
  /\ loc \in {"outside", "dating"} => Fresh
  /\ loc = "outside" => pos = 0 /\ dicts = <<>>
  /\ loc = "dating" => pin = 0
  /\ loc = "top" => \E n \in Nat : Passed(sent, pos, n) /\ Counts(n) /\ AtTop(n)
  /\ loc = "parse" =>
       \E n \in Nat : Passed(sent, pos, n) /\ Counts(n) /\ AtParse(n)
  /\ loc = "print" =>
       \E m, n \in Nat : /\ Passed(sent, pos, m) /\ n \in DOMAIN sent
                         /\ Counts(n) /\ AtPrint(m, n)
  /\ loc = "done" =>
       /\ Counts(Len(sent))
       /\ ~opt.count => Lists(delivered, Printed(Len(sent)))
  /\ loc = "failed" => ContextReadable /\ (~opt.count => AsWanted)
  /\ opt.count => force = 0

-----------------------------------------------------------------------------
(***************************************************************************)
(* The cache.  The C records are numbered; the cache holds a run of        *)
(* consecutive ones, or the rest of an older such run and a newer one that *)
(* was begun in front of it.                                               *)
(***************************************************************************)
CRecs == {c \in DOMAIN file : file[c].kind = "C"}
Clears(p) == Cardinality({c \in CRecs : c <= p})
Numbered(x, i) == \E c \in CRecs : file[c].sor = x /\ Clears(c) = i

Runs(a, s, b) ==
  /\ Len(dicts) <= MaxDicts /\ s \in 0..Len(dicts)
  /\ \A k \in 1..s : Numbered(dicts[k].startPos, a + k)
  /\ \A k \in (s + 1)..Len(dicts) : Numbered(dicts[k].startPos, b + k - s)
  /\ s = 0 => Len(dicts) = MaxDicts \/ b = 0
  /\ s > 0 => Len(dicts) = MaxDicts /\ s < MaxDicts /\ a > b + Len(dicts) - s

\* i C records lie before pos; the cache holds l dictionaries, of which the
\* newer run ends with the e-th.
Forward(s, b, l, i) ==
  LET e == b + l - s
  IN \/ i = 0 /\ s = 0
     \/ b = 0 /\ i \in 1..e
     \/ s = 0 /\ i = e

\* f C records lie before the record that is printed last.
Backward(a, s, b, l, i, f) ==
  LET e == b + l - s
  IN /\ i <= f
     /\ \/ b = 0 /\ f \in 1..e
        \/ s = 0 /\ e = f
        \/ l = MaxDicts /\ i = e /\ (s > 0 => a + s = f)

Caching ==
  /\ loc \in {"outside", "dating", "top", "parse"} =>
       \E a, s, b \in Nat :
         Runs(a, s, b) /\ Forward(s, b, Len(dicts), Clears(pos))
  /\ loc = "dating" => 
       \E b \in Nat : Runs(0, 0, b) /\ Clears(pos) = b + Len(dicts)
  /\ loc = "print" =>
       \A q \in DOMAIN file, m \in DOMAIN sent :
         Passed(sent, pos, m - due) /\ sent[m].sor = file[q].sor =>
           \E a, s, b \in Nat :
             /\ Runs(a, s, b)
             /\ Backward(a, s, b, Len(dicts), Clears(pos), Clears(q))

\* A cached dictionary lacks nothing that was read.
Covering ==
  \A k \in DOMAIN dicts : \A c \in CRecs, t \in DictRecs :
    /\ file[c].sor = dicts[k].startPos
    /\ c <= t /\ t <= pos /\ NoClear(file, c, t)
    => Includes(dicts[k], file[t].sor)

GrepInv ==
  /\ GrepTypeOK /\ LogInv /\ CacheOK /\ Classed /\ Owed
  /\ Looping /\ Caching /\ Covering

-----------------------------------------------------------------------------
(***************************************************************************)
(* Values and places.                                                      *)
(***************************************************************************)
LEMMA PassedUnique ==
  ASSUME LogInv, NEW p, NEW m, NEW n, Passed(sent, p, m), Passed(sent, p, n)
  PROVE  m = n
<1>1. /\ m \in 0..Len(sent) /\ n \in 0..Len(sent) /\ Len(sent) \in Nat
      /\ DOMAIN sent = 1..Len(sent)
      /\ \A k \in DOMAIN sent : k <= m <=> k <= n
  BY FileFacts DEF Passed
<1>2. m < n => n \in DOMAIN sent /\ n <= n /\ ~(n <= m)
  BY <1>1
<1>3. n < m => m \in DOMAIN sent /\ m <= m /\ ~(m <= n)
  BY <1>1
<1>. QED BY <1>1, <1>2, <1>3

LEMMA PassedBounds ==
  ASSUME LogInv
  PROVE  /\ Passed(sent, 0, 0) /\ Passed(sent, Len(file), Len(sent))
         /\ \A p, n : Passed(sent, p, n) => n \in Nat /\ n <= Len(sent)
<1>1. DOMAIN sent = 1..Len(sent) /\ Len(sent) \in Nat /\ Len(file) \in Nat
  BY FileFacts
<1>2. ASSUME NEW m \in DOMAIN sent
      PROVE  /\ ~(m <= 0) /\ ~(sent[m].sor < 0 * RecSize)
             /\ m <= Len(sent) /\ sent[m].sor < Len(file) * RecSize
  <2>1. PICK i \in 1..Len(file) : sent[m].sor = (i - 1) * RecSize
    BY SentFacts
  <2>. QED BY <1>1, <2>1 DEF RecSize
<1>. QED BY <1>1, <1>2 DEF Passed

LEMMA PassedNext ==
  ASSUME LogInv, NEW p \in Nat, p < Len(file), NEW n, Passed(sent, p, n)
  PROVE  /\ file[p + 1].kind # "V" => Passed(sent, p + 1, n)
         /\ file[p + 1].kind = "V" =>
              /\ n + 1 \in DOMAIN sent /\ sent[n + 1].sor = file[p + 1].sor
              /\ Passed(sent, p + 1, n + 1)
<1>1. /\ n \in Nat /\ n <= Len(sent) /\ Len(sent) \in Nat
      /\ DOMAIN sent = 1..Len(sent)
      /\ \A m \in DOMAIN sent : m <= n <=> sent[m].sor < p * RecSize
  BY FileFacts DEF Passed
<1>2. PICK r \in DOMAIN file : r = p + 1
  <2>1. Len(file) \in Nat /\ DOMAIN file = 1..Len(file)
    BY FileFacts
  <2>. QED BY <2>1
<1>3. file[r].sor = p * RecSize
  <2>1. file[r].sor = (r - 1) * RecSize
    BY FileFacts
  <2>2. r - 1 = p
    BY <1>2
  <2>. QED BY <2>1, <2>2
<1>4. ASSUME NEW m \in DOMAIN sent
      PROVE  /\ m \in Nat
             /\ sent[m].sor < (p + 1) * RecSize
                  <=> sent[m].sor < p * RecSize \/ sent[m].sor = p * RecSize
             /\ sent[m].sor = p * RecSize => file[r].kind = "V"
  <2>1. PICK i \in 1..Len(file) :
          file[i].kind = "V" /\ sent[m].sor = file[i].sor
          /\ sent[m].sor = (i - 1) * RecSize
    BY SentFacts
  <2>2. i \in DOMAIN file /\ i \in Nat /\ m \in Nat
    BY <1>1, <2>1, FileFacts
  <2>3. sent[m].sor < (p + 1) * RecSize
           <=> sent[m].sor < p * RecSize \/ sent[m].sor = p * RecSize
    BY <2>1, <2>2 DEF RecSize
  <2>4. sent[m].sor = p * RecSize => i = r
    BY <1>3, <2>1, <2>2, OneStart
  <2>. QED BY <2>1, <2>2, <2>3, <2>4
<1>5. CASE file[r].kind # "V"
  <2>1. Passed(sent, p + 1, n)
    BY <1>1, <1>4, <1>5 DEF Passed
  <2>. QED BY <1>2, <1>5, <2>1
<1>6. CASE file[r].kind = "V"
  <2>1. PICK m \in DOMAIN sent : sent[m].sor = p * RecSize
    BY <1>3, <1>6, SentFacts
  <2>2. ~(m <= n)
    <3>1. ~(p * RecSize < p * RecSize)
      BY DEF RecSize
    <3>2. m <= n <=> sent[m].sor < p * RecSize
      BY <1>1
    <3>. QED BY <2>1, <3>1, <3>2
  <2>3. m \in 1..Len(sent) /\ n + 1 \in DOMAIN sent /\ n \in Nat
    BY <1>1, <2>1, <2>2
  <2>4. m = n + 1
    <3>1. ~(sent[n + 1].sor < p * RecSize)
      BY <1>1, <2>3
    <3>2. n + 1 < m <=> sent[n + 1].sor < sent[m].sor
      BY <2>1, <2>3, SentFacts
    <3>3. ~(n + 1 < m)
      BY <2>1, <3>1, <3>2
    <3>. QED BY <2>2, <2>3, <3>3
  <2>5. ASSUME NEW k \in DOMAIN sent
        PROVE  k <= n + 1 <=> sent[k].sor < (p + 1) * RecSize
    <3>1. k \in Nat /\ (k = n + 1 \/ sent[k].sor # p * RecSize)
      <4>1. sent[k].sor = sent[m].sor => k = m
        <5>1. /\ m < k <=> sent[m].sor < sent[k].sor
              /\ k < m <=> sent[k].sor < sent[m].sor
          BY <2>1, SentFacts
        <5>2. k \in Nat /\ m \in Nat /\ sent[k].sor \in Nat /\ sent[m].sor \in Nat
          BY <2>1, FileFacts
        <5>. QED BY <5>1, <5>2
      <4>. QED BY <1>4, <2>1, <2>4, <4>1
    <3>2. k <= n <=> sent[k].sor < p * RecSize
      BY <1>1
    <3>3. k = n + 1 => sent[k].sor = p * RecSize
      BY <2>1, <2>4
    <3>. QED BY <1>1, <1>4, <3>1, <3>2, <3>3
  <2>6. Passed(sent, p + 1, n + 1)
    BY <1>1, <2>3, <2>5 DEF Passed
  <2>7. sent[n + 1].sor = file[p + 1].sor
    BY <1>2, <1>3, <2>1, <2>4
  <2>. QED BY <1>2, <1>6, <2>3, <2>6, <2>7
<1>. QED BY <1>5, <1>6

\* A value that has not been passed lies behind the place.
LEMMA PassedLess ==
  ASSUME LogInv, NEW p \in Nat, NEW n, Passed(sent, p, n),
         NEW k \in DOMAIN sent, n < k,
         NEW q \in DOMAIN file, sent[k].sor = file[q].sor
  PROVE  p < q
<1>1. ~(k <= n)
  BY FileFacts DEF Passed
<1>2. ~(sent[k].sor < p * RecSize)
  BY <1>1 DEF Passed
<1>3. sent[k].sor = (q - 1) * RecSize /\ q \in Nat
  BY FileFacts
<1>. QED BY <1>2, <1>3 DEF RecSize

\* The record a value was sent as.
LEMMA SentAt ==
  ASSUME LogInv, NEW k \in DOMAIN sent
  PROVE  \E q \in DOMAIN file : file[q].kind = "V" /\ sent[k].sor = file[q].sor
BY SentFacts, FileFacts

-----------------------------------------------------------------------------
(***************************************************************************)
(* What is counted.                                                        *)
(***************************************************************************)
LEMMA UpToNext ==
  ASSUME NEW S \in SUBSET Nat, NEW n \in Nat
  PROVE  /\ IsFiniteSet(UpTo(S, n)) /\ Cardinality(UpTo(S, n)) \in Nat
         /\ n + 1 \notin S => UpTo(S, n + 1) = UpTo(S, n)
         /\ n + 1 \in S =>
              /\ UpTo(S, n + 1) = UpTo(S, n) \cup {n + 1}
              /\ Cardinality(UpTo(S, n + 1)) = Cardinality(UpTo(S, n)) + 1
<1>1. UpTo(S, n) \subseteq 0..n
  <2>1. ASSUME NEW k \in UpTo(S, n)
        PROVE  k \in 0..n
    <3>1. k \in Nat /\ k <= n
      BY DEF UpTo
    <3>. QED BY <3>1
  <2>. QED BY <2>1
<1>2. IsFiniteSet(UpTo(S, n))
  <2>1. 0 \in Int /\ n \in Int
    OBVIOUS
  <2>2. IsFiniteSet(0..n)
    BY <2>1, FS_Interval
  <2>. QED BY <1>1, <2>2, FS_Subset
<1>3. Cardinality(UpTo(S, n)) \in Nat
  BY <1>2, FS_CardinalityType
<1>4. \A k \in Nat : k <= n + 1 <=> k <= n \/ k = n + 1
  OBVIOUS
<1>5. n + 1 \notin S => UpTo(S, n + 1) = UpTo(S, n)
  BY <1>4 DEF UpTo
<1>6. n + 1 \in S => UpTo(S, n + 1) = UpTo(S, n) \cup {n + 1}
  BY <1>4 DEF UpTo
<1>7. n + 1 \notin UpTo(S, n)
  BY DEF UpTo
<1>8. Cardinality(UpTo(S, n) \cup {n + 1}) = Cardinality(UpTo(S, n)) + 1
  BY <1>2, <1>7, FS_AddElement
<1>. QED BY <1>2, <1>3, <1>5, <1>6, <1>8

\* The records to be found depend on the file and the options alone.
LEMMA WantedKept ==
  ASSUME UNCHANGED <<sent, opt>>
  PROVE  /\ AllHits' = AllHits /\ Hits' = Hits /\ Followed' = Followed
         /\ Marked' = Marked /\ Wanted' = Wanted
         /\ \A n : Printed(n)' = Printed(n)
         /\ \A ds, S : Lists(ds, S)' <=> Lists(ds, S)
<1>1. AllHits' = AllHits /\ Hits' = Hits
  BY DEF AllHits, Hits, ClassOf
<1>2. Followed' = Followed
  BY <1>1 DEF Followed, ClassOf
<1>3. Marked' = Marked
  BY <1>1, <1>2 DEF Marked
<1>4. Wanted' = Wanted
  BY <1>1, <1>2 DEF Wanted
<1>5. \A n : Printed(n)' = Printed(n)
  BY <1>3 DEF Printed, Reaches
<1>6. \A ds, S : Lists(ds, S)' <=> Lists(ds, S)
  BY DEF Lists, Nth
<1>. QED BY <1>1, <1>2, <1>3, <1>4, <1>5, <1>6

LEMMA SetFacts ==
  ASSUME LogInv
  PROVE  /\ DOMAIN sent \subseteq Nat /\ AllHits \subseteq DOMAIN sent
         /\ Hits \subseteq AllHits /\ Followed \subseteq DOMAIN sent
         /\ Marked \subseteq DOMAIN sent /\ Wanted \subseteq DOMAIN sent
         /\ \A k \in AllHits :
              k \in Hits <=> Cardinality({j \in AllHits : j < k}) < opt.matches
BY FileFacts DEF AllHits, Hits, Followed, Marked, Wanted

\* One more value is a record that counts, or continues a region, or neither.
LEMMA NextCounted ==
  ASSUME LogInv, NEW n \in Nat, n + 1 \in DOMAIN sent, Counts(n),
         total \in Nat, opt.matches \in Nat
  PROVE  /\ n + 1 \in Hits <=> ClassOf(n + 1) = "hit" /\ total < opt.matches
         /\ n + 1 \in Followed <=>
              n + 1 \in Hits \/ (inRegion /\ ClassOf(n + 1) = "neither")
<1>1. {j \in AllHits : j < n + 1} = UpTo(AllHits, n)
  BY SetFacts DEF UpTo
<1>2. n + 1 \in AllHits <=> ClassOf(n + 1) = "hit"
  BY DEF AllHits
<1>3. n + 1 \in Hits <=>
        n + 1 \in AllHits /\ Cardinality(UpTo(AllHits, n)) < opt.matches
  BY <1>1, SetFacts
<1>4. Cardinality(UpTo(AllHits, n)) \in Nat
  BY UpToNext, SetFacts
<1>5. n + 1 \in Hits <=> ClassOf(n + 1) = "hit" /\ total < opt.matches
  BY <1>2, <1>3, <1>4 DEF Counts
<1>6. ASSUME n + 1 \in Followed, n + 1 \notin Hits
      PROVE  inRegion /\ ClassOf(n + 1) = "neither"
  <2>1. PICK h \in Hits :
          h <= n + 1 /\ \A j \in (h + 1)..(n + 1) : ClassOf(j) = "neither"
    BY <1>6 DEF Followed
  <2>2. h \in Nat /\ h <= n /\ h \in DOMAIN sent
    BY <1>6, <2>1, SetFacts
  <2>3. n + 1 \in (h + 1)..(n + 1) /\ \A j \in (h + 1)..n : j \in (h + 1)..(n + 1)
    BY <2>2
  <2>4. n \in DOMAIN sent
    BY <2>2, FileFacts
  <2>5. n \in Followed
    BY <2>1, <2>2, <2>3, <2>4 DEF Followed
  <2>. QED BY <2>1, <2>3, <2>5 DEF Counts
<1>7. n + 1 \in Hits => n + 1 \in Followed
  <2>1. \A j \in (n + 1 + 1)..(n + 1) : FALSE
    OBVIOUS
  <2>2. n + 1 <= n + 1
    OBVIOUS
  <2>. QED BY <2>1, <2>2 DEF Followed
<1>8. ASSUME n \in Followed, ClassOf(n + 1) = "neither"
      PROVE  n + 1 \in Followed
  <2>1. PICK h \in Hits : h <= n /\ \A j \in (h + 1)..n : ClassOf(j) = "neither"
    BY <1>8 DEF Followed
  <2>2. h \in Nat
    BY SetFacts
  <2>3. \A j \in (h + 1)..(n + 1) : j \in (h + 1)..n \/ j = n + 1
    BY <2>2
  <2>4. h <= n + 1 /\ \A j \in (h + 1)..(n + 1) : ClassOf(j) = "neither"
    BY <1>8, <2>1, <2>2, <2>3
  <2>. QED BY <2>4 DEF Followed
<1>9. inRegion => n \in Followed
  BY DEF Counts
<1>. QED BY <1>5, <1>6, <1>7, <1>8, <1>9

LEMMA CountsNext ==
  ASSUME LogInv, NEW n \in Nat, n + 1 \in DOMAIN sent, Counts(n),
         total \in Nat, opt.matches \in Nat, UNCHANGED <<sent, opt>>,
         total' = IF ClassOf(n + 1) = "hit" /\ total < opt.matches
                  THEN total + 1 ELSE total,
         inRegion' <=> n + 1 \in Followed
  PROVE  Counts(n + 1)'
<1>1. PICK m \in Nat : m = n + 1
  OBVIOUS
<1>2. /\ AllHits' = AllHits /\ Hits' = Hits /\ Followed' = Followed
      /\ opt' = opt
  BY WantedKept
<1>3. /\ total = Cardinality(UpTo(Hits, n))
      /\ total < opt.matches => Cardinality(UpTo(AllHits, n)) = total
      /\ total >= opt.matches => Cardinality(UpTo(AllHits, n)) >= opt.matches
  BY DEF Counts
<1>4. /\ m \in Hits <=> ClassOf(m) = "hit" /\ total < opt.matches
      /\ m \in AllHits <=> ClassOf(m) = "hit"
  BY <1>1, NextCounted DEF AllHits
<1>5. Hits \in SUBSET Nat /\ AllHits \in SUBSET Nat
  BY SetFacts
<1>6. /\ Cardinality(UpTo(Hits, m)) =
           Cardinality(UpTo(Hits, n)) + (IF m \in Hits THEN 1 ELSE 0)
      /\ Cardinality(UpTo(AllHits, m)) =
           Cardinality(UpTo(AllHits, n)) + (IF m \in AllHits THEN 1 ELSE 0)
      /\ Cardinality(UpTo(AllHits, n)) \in Nat
  <2>1. ASSUME NEW S \in SUBSET Nat
        PROVE  /\ Cardinality(UpTo(S, m)) =
                    Cardinality(UpTo(S, n)) + (IF m \in S THEN 1 ELSE 0)
               /\ Cardinality(UpTo(S, n)) \in Nat
    <3>1. /\ Cardinality(UpTo(S, n)) \in Nat
          /\ m \notin S => UpTo(S, m) = UpTo(S, n)
          /\ m \in S => Cardinality(UpTo(S, m)) = Cardinality(UpTo(S, n)) + 1
      BY <1>1, UpToNext
    <3>. QED BY <3>1
  <2>. QED BY <1>5, <2>1
<1>7. total' = Cardinality(UpTo(Hits, m))
  BY <1>1, <1>3, <1>4, <1>6
<1>8. /\ total' < opt.matches => Cardinality(UpTo(AllHits, m)) = total'
      /\ total' >= opt.matches => Cardinality(UpTo(AllHits, m)) >= opt.matches
  <2>1. CASE ClassOf(m) = "hit" /\ total < opt.matches
    BY <1>1, <1>3, <1>4, <1>6, <2>1
  <2>2. CASE ~(ClassOf(m) = "hit" /\ total < opt.matches)
    BY <1>1, <1>3, <1>4, <1>6, <2>2
  <2>. QED BY <2>1, <2>2
<1>9. Counts(m)'
  BY <1>1, <1>2, <1>7, <1>8 DEF Counts, UpTo
<1>. QED BY <1>1, <1>9

\* At the end what was counted is what there is.
LEMMA CountsEnd ==
  ASSUME LogInv, Counts(Len(sent))
  PROVE  total = Cardinality(Hits)
<1>1. UpTo(Hits, Len(sent)) = Hits
  BY SetFacts, FileFacts DEF UpTo
<1>. QED BY <1>1 DEF Counts

-----------------------------------------------------------------------------
(***************************************************************************)
(* What is printed.                                                        *)
(***************************************************************************)
LEMMA OptFacts ==
  ASSUME opt \in Options
  PROVE  /\ opt.before \in Nat /\ opt.after \in Nat /\ opt.matches \in Nat
         /\ opt.follow \in BOOLEAN /\ opt.count \in BOOLEAN
         /\ opt.dated \in BOOLEAN
BY GrepAssumption

LEMMA WantedFacts ==
  Wanted = {k \in DOMAIN sent : \E i \in Marked : Reaches(i, k)}
<1>1. CASE opt.follow
  BY <1>1 DEF Wanted, Marked, Reaches
<1>2. CASE ~opt.follow
  BY <1>2 DEF Wanted, Marked, Reaches
<1>. QED BY <1>1, <1>2

\* What has been printed is wanted, and nothing wanted before it is left out.
LEMMA PrintedWanted ==
  ASSUME LogInv, opt \in Options, NEW n \in Nat, n <= Len(sent)
  PROVE  /\ Printed(n) \subseteq Wanted /\ Printed(n) \subseteq 1..n
         /\ \A k \in Printed(n), j \in Wanted : j < k => j \in Printed(n)
<1>1. /\ DOMAIN sent = 1..Len(sent) /\ Len(sent) \in Nat
      /\ Marked \subseteq DOMAIN sent
  BY FileFacts, SetFacts
<1>2. opt.before \in Nat /\ opt.after \in Nat
  BY OptFacts
<1>3. Printed(n) \subseteq 1..n
  BY DEF Printed
<1>4. Printed(n) \subseteq Wanted
  <2>1. \A k \in 1..n : k \in DOMAIN sent
    BY <1>1
  <2>. QED BY <2>1, WantedFacts DEF Printed
<1>5. ASSUME NEW k \in Printed(n), NEW j \in Wanted, j < k
      PROVE  j \in Printed(n)
  <2>1. k \in Nat /\ k <= n /\ j \in Nat /\ j >= 1 /\ j \in 1..n
    BY <1>1, <1>3, <1>5, SetFacts
  <2>2. PICK i \in Marked : i <= n /\ i <= k + opt.before /\ k <= i + opt.after
    BY DEF Printed, Reaches
  <2>3. PICK h \in Marked : h <= j + opt.before /\ j <= h + opt.after
    BY WantedFacts DEF Reaches
  <2>4. i \in Nat /\ h \in Nat
    BY <1>1
  <2>5. CASE h <= n
    BY <2>1, <2>3, <2>5 DEF Printed, Reaches
  <2>6. CASE h > n
    <3>1. opt.before \in Nat /\ opt.after \in Nat /\ n \in Nat
      BY <1>2
    <3>2. i <= h
      BY <2>2, <2>4, <2>6, <3>1
    <3>3. i <= j + opt.before
      BY <2>1, <2>3, <2>4, <3>1, <3>2
    <3>4. j <= i + opt.after
      BY <1>5, <2>1, <2>2, <2>4, <3>1
    <3>. QED BY <2>1, <2>2, <3>3, <3>4 DEF Printed, Reaches
  <2>. QED BY <2>4, <2>5, <2>6
<1>. QED BY <1>3, <1>4, <1>5

LEMMA PrintedAll ==
  ASSUME LogInv
  PROVE  Printed(Len(sent)) = Wanted
<1>1. /\ DOMAIN sent = 1..Len(sent) /\ Len(sent) \in Nat
      /\ \A i \in Marked : i <= Len(sent)
  BY FileFacts, SetFacts
<1>. QED BY <1>1, WantedFacts DEF Printed

\* A record that is marked is printed, with the context before it.
LEMMA PrintedMarked ==
  ASSUME LogInv, opt \in Options, NEW n \in Nat, n + 1 \in Marked
  PROVE  /\ \A k \in Printed(n + 1) :
              k \in Printed(n) \/ n + 1 <= k + opt.before
         /\ \A k \in 1..(n + 1) :
              n + 1 <= k + opt.before => k \in Printed(n + 1)
         /\ Printed(n) \subseteq Printed(n + 1)
         /\ \A m \in Nat : m > n + 1 =>
              ((\E i \in Marked : i <= n + 1 /\ m <= i + opt.after)
                 <=> m <= n + 1 + opt.after)
<1>1. opt.before \in Nat /\ opt.after \in Nat /\ \A i \in Marked : i \in Nat
  BY OptFacts, SetFacts
<1>2. \A k \in 1..(n + 1) : k \in 1..n \/ k = n + 1
  OBVIOUS
<1>3. \A i \in Nat : i <= n + 1 <=> i <= n \/ i = n + 1
  OBVIOUS
<1>4. ASSUME NEW k \in Printed(n + 1)
      PROVE  k \in Printed(n) \/ n + 1 <= k + opt.before
  <2>1. PICK i \in Marked : i <= n + 1 /\ Reaches(i, k)
    BY DEF Printed
  <2>2. k \in 1..(n + 1) /\ k \in Nat
    BY DEF Printed
  <2>3. CASE i = n + 1
    BY <2>1, <2>3 DEF Reaches
  <2>4. CASE k = n + 1
    BY <1>1, <2>4
  <2>5. CASE i <= n /\ k \in 1..n
    BY <2>1, <2>5 DEF Printed
  <2>. QED BY <1>1, <1>2, <1>3, <2>1, <2>2, <2>3, <2>4, <2>5
<1>5. ASSUME NEW k \in 1..(n + 1), n + 1 <= k + opt.before
      PROVE  k \in Printed(n + 1)
  <2>1. k <= n + 1 + opt.after /\ n + 1 <= n + 1
    BY <1>1
  <2>. QED BY <1>5, <2>1 DEF Printed, Reaches
<1>6. Printed(n) \subseteq Printed(n + 1)
  BY <1>1, <1>3 DEF Printed
<1>7. ASSUME NEW m \in Nat, m > n + 1
      PROVE  (\E i \in Marked : i <= n + 1 /\ m <= i + opt.after)
               <=> m <= n + 1 + opt.after
  BY <1>1
<1>. QED BY <1>4, <1>5, <1>6, <1>7

\* Another one is if it is in the context after one before it.
LEMMA PrintedUnmarked ==
  ASSUME LogInv, opt \in Options, NEW n \in Nat, n + 1 \notin Marked,
         force \in Nat, Forces(n)
  PROVE  /\ force > 0 => Printed(n + 1) = Printed(n) \cup {n + 1}
         /\ force = 0 => Printed(n + 1) = Printed(n)
         /\ \A m \in Nat : m > n + 1 =>
              ((\E i \in Marked : i <= n + 1 /\ m <= i + opt.after)
                 <=> m <= n + force)
<1>1. opt.before \in Nat /\ opt.after \in Nat /\ \A i \in Marked : i \in Nat
  BY OptFacts, SetFacts
<1>2. \A k \in 1..(n + 1) : k \in 1..n \/ k = n + 1
  OBVIOUS
<1>3. \A i \in Marked : i <= n + 1 <=> i <= n
  BY <1>1
<1>4. (\E i \in Marked : i <= n /\ n + 1 <= i + opt.after) <=> force > 0
  <2>1. n + 1 \in Nat /\ n + 1 > n
    OBVIOUS
  <2>2. (\E i \in Marked : i <= n /\ n + 1 <= i + opt.after) <=> n + 1 <= n + force
    BY <2>1 DEF Forces
  <2>. QED BY <2>2
<1>5. n + 1 \in Printed(n + 1) <=> force > 0
  <2>1. \A i \in Marked : i <= n => i <= n + 1 + opt.before
    BY <1>1
  <2>2. n + 1 \in 1..(n + 1)
    OBVIOUS
  <2>. QED BY <1>3, <1>4, <2>1, <2>2 DEF Printed, Reaches
<1>6. \A k \in 1..n : k \in Printed(n + 1) <=> k \in Printed(n)
  <2>1. \A k \in 1..n : k \in 1..(n + 1)
    OBVIOUS
  <2>. QED BY <1>3, <2>1 DEF Printed
<1>7. Printed(n) \subseteq 1..n /\ Printed(n + 1) \subseteq 1..(n + 1)
  BY DEF Printed
<1>8. ASSUME NEW m \in Nat, m > n + 1
      PROVE  (\E i \in Marked : i <= n + 1 /\ m <= i + opt.after)
               <=> m <= n + force
  <2>1. m > n
    BY <1>8
  <2>. QED BY <1>3, <2>1 DEF Forces
<1>. QED BY <1>2, <1>5, <1>6, <1>7, <1>8

-----------------------------------------------------------------------------
(***************************************************************************)
(* What has been delivered, and what posBuffer holds.                      *)
(***************************************************************************)
LEMMA ListsEmpty == Lists(<<>>, {})
BY FS_EmptySet DEF Lists

LEMMA ListsNext ==
  ASSUME NEW ds \in Seq(Value), NEW S \in SUBSET Nat, IsFiniteSet(S), Lists(ds, S),
         NEW k \in Nat, \A j \in S : j < k, NEW v \in Value, v = sent[k].value
  PROVE  Lists(Append(ds, v), S \cup {k})
<1> DEFINE T == S \cup {k}
           es == Append(ds, v)
<1>1. /\ Len(es) = Len(ds) + 1 /\ DOMAIN es = 1..(Len(ds) + 1)
      /\ DOMAIN ds = 1..Len(ds) /\ Len(ds) \in Nat
      /\ es[Len(ds) + 1] = v /\ \A n \in 1..Len(ds) : es[n] = ds[n]
  OBVIOUS
<1>2. Cardinality(T) = Cardinality(S) + 1
  <2>1. k \notin S
    BY DEF Lists
  <2>. QED BY <2>1, FS_AddElement
<1>3. Len(ds) = Cardinality(S)
  BY DEF Lists
<1>4. ASSUME NEW n \in DOMAIN es
      PROVE  \E j \in T : Nth(T, j, n) /\ es[n] = sent[j].value
  <2>1. CASE n \in 1..Len(ds)
    <3>1. PICK j \in S : Nth(S, j, n) /\ ds[n] = sent[j].value
      BY <1>1, <2>1 DEF Lists
    <3>2. {i \in T : i < j} = {i \in S : i < j}
      <4>1. j \in Nat /\ ~(k < j)
        <5>1. j \in Nat /\ j < k
          BY <3>1
        <5>. QED BY <5>1
      <4>. QED BY <4>1
    <3>. QED BY <1>1, <2>1, <3>1, <3>2 DEF Nth
  <2>2. CASE n = Len(ds) + 1
    <3>1. {i \in T : i < k} = S
      <4>1. \A i \in S : i < k /\ i \in T
        OBVIOUS
      <4>2. ~(k < k) /\ \A i \in T : i \in S \/ i = k
        OBVIOUS
      <4>. QED BY <4>1, <4>2
    <3>2. n - 1 = Len(ds)
      BY <1>1, <2>2
    <3>. QED BY <1>1, <1>3, <2>2, <3>1, <3>2 DEF Nth
  <2>3. n \in 1..Len(ds) \/ n = Len(ds) + 1
    BY <1>1
  <2>. QED BY <2>1, <2>2, <2>3
<1>5. Len(es) = Cardinality(T)
  BY <1>1, <1>2, <1>3
<1>. QED BY <1>4, <1>5 DEF Lists

\* A part of what is wanted that leaves nothing out before its end is what
\* should have been delivered.
LEMMA ListsWanted ==
  ASSUME NEW S, S \subseteq Wanted, Lists(delivered, S),
         \A k \in S, j \in Wanted : j < k => j \in S
  PROVE  AsWanted
<1>1. ASSUME NEW n \in DOMAIN delivered
      PROVE  \E k \in Wanted : Nth(Wanted, k, n) /\ delivered[n] = sent[k].value
  <2>1. PICK k \in S : Nth(S, k, n) /\ delivered[n] = sent[k].value
    BY DEF Lists
  <2>2. {j \in Wanted : j < k} = {j \in S : j < k}
    OBVIOUS
  <2>. QED BY <2>1, <2>2 DEF Nth
<1>. QED BY <1>1 DEF AsWanted

LEMMA PrintedFinite ==
  ASSUME NEW n \in Nat
  PROVE  IsFiniteSet(Printed(n)) /\ Printed(n) \in SUBSET Nat
<1>1. IsFiniteSet(1..n)
  <2>1. 1 \in Int /\ n \in Int
    OBVIOUS
  <2>. QED BY <2>1, FS_Interval
<1>2. Printed(n) \subseteq 1..n
  BY DEF Printed
<1>. QED BY <1>1, <1>2, FS_Subset

\* What is delivered so far is as wanted, between records and while printing.
LEMMA PrintedAsWanted ==
  ASSUME LogInv, opt \in Options, NEW n \in Nat, n <= Len(sent)
  PROVE  /\ Lists(delivered, Printed(n)) => AsWanted
         /\ \A m \in Nat : Lists(delivered, UpTo(Printed(n), m)) => AsWanted
<1>1. /\ Printed(n) \subseteq Wanted /\ Printed(n) \in SUBSET Nat
      /\ \A k \in Printed(n), j \in Wanted : j < k => j \in Printed(n)
  BY PrintedWanted, PrintedFinite
<1>2. Lists(delivered, Printed(n)) => AsWanted
  BY <1>1, ListsWanted
<1>3. ASSUME NEW m \in Nat, Lists(delivered, UpTo(Printed(n), m))
      PROVE  AsWanted
  <2>1. UpTo(Printed(n), m) \subseteq Wanted
    BY <1>1 DEF UpTo
  <2>2. ASSUME NEW k \in UpTo(Printed(n), m), NEW j \in Wanted, j < k
        PROVE  j \in UpTo(Printed(n), m)
    <3>1. k \in Printed(n) /\ k <= m
      BY DEF UpTo
    <3>2. j \in Printed(n)
      BY <1>1, <2>2, <3>1
    <3>3. k \in Nat /\ j \in Nat
      BY <1>1, <3>1, <3>2
    <3>4. j <= m
      BY <2>2, <3>1, <3>3
    <3>. QED BY <3>2, <3>4 DEF UpTo
  <2>. QED BY <1>3, <2>1, <2>2, ListsWanted
<1>. QED BY <1>2, <1>3

\* Before a record that is marked is printed, what posBuffer leaves out has
\* been printed or is not wanted, and what it holds is to be printed.
LEMMA BufferedPrints ==
  ASSUME LogInv, opt \in Options, NEW n \in Nat, n + 1 \in Marked,
         posBuffer \in Seq(Nat), posBuffer # <<>>, Buffers(n, n + 1),
         NEW m, m = n + 1 - Len(posBuffer)
  PROVE  /\ m \in Nat /\ UpTo(Printed(n + 1), m) = Printed(n)
         /\ \A k \in (m + 1)..(n + 1) : k \in Printed(n + 1)
<1>1. /\ Len(posBuffer) \in Nat /\ Len(posBuffer) >= 1 /\ 1 \in DOMAIN posBuffer
      /\ Len(posBuffer) <= opt.before + 1 /\ opt.before \in Nat
  BY OptFacts DEF Buffers
<1>2. /\ \A k \in Printed(n) : k <= m
      /\ Len(posBuffer) <= opt.before => m = 0 \/ m \in Printed(n)
  BY DEF Buffers
<1>3. m \in Nat
  <2>1. Passed(sent, posBuffer[1], m + 1 - 1)
    BY <1>1 DEF Buffers
  <2>2. m + 1 - 1 \in Nat
    BY <2>1, PassedBounds
  <2>. QED BY <1>1, <2>2
<1>4. n + 1 \in DOMAIN sent /\ n + 1 <= Len(sent)
  BY SetFacts, FileFacts
<1>5. ASSUME NEW k \in Printed(n + 1), k <= m
      PROVE  k \in Printed(n)
  <2>1. k \in 1..(n + 1) /\ k \in Nat
    BY DEF Printed
  <2>2. k \in Printed(n) \/ n + 1 <= k + opt.before
    BY PrintedMarked
  <2>3. CASE n + 1 <= k + opt.before
    <3>1. Len(posBuffer) <= opt.before /\ m # 0
      BY <1>1, <1>3, <1>5, <2>1, <2>3
    <3>2. m \in Printed(n)
      BY <1>2, <3>1
    <3>3. k \in Wanted
      BY <1>4, PrintedWanted
    <3>4. k < m => k \in Printed(n)
      <4>1. n <= Len(sent)
        BY <1>4, FileFacts
      <4>. QED BY <3>2, <3>3, <4>1, PrintedWanted
    <3>. QED BY <1>3, <1>5, <2>1, <3>2, <3>4
  <2>. QED BY <2>2, <2>3
<1>6. UpTo(Printed(n + 1), m) = Printed(n)
  BY <1>2, <1>5, PrintedMarked DEF UpTo
<1>7. ASSUME NEW k \in (m + 1)..(n + 1)
      PROVE  k \in Printed(n + 1)
  <2>1. k \in 1..(n + 1) /\ n + 1 <= k + opt.before
    BY <1>1, <1>3
  <2>. QED BY <2>1, PrintedMarked
<1>. QED BY <1>3, <1>6, <1>7

-----------------------------------------------------------------------------
(***************************************************************************)
(* What the loop knows does not change with what it does not look at.      *)
(***************************************************************************)
LEMMA CountsKept ==
  ASSUME UNCHANGED <<sent, opt, total, inRegion>>, NEW n
  PROVE  Counts(n)' <=> Counts(n)
BY WantedKept DEF Counts, UpTo

LEMMA ForcesKept ==
  ASSUME UNCHANGED <<sent, opt, force>>, NEW n
  PROVE  Forces(n)' <=> Forces(n)
BY WantedKept DEF Forces

LEMMA BuffersKept ==
  ASSUME UNCHANGED <<sent, opt, posBuffer>>, posBuffer \in Seq(Nat),
         pos \in Nat, pos' \in Nat, pos <= pos' \/ posBuffer = <<>>,
         NEW n, NEW c, Buffers(n, c)
  PROVE  Buffers(n, c)'
<1>1. \A i \in DOMAIN posBuffer : posBuffer[i] <= pos'
  <2>1. ASSUME NEW i \in DOMAIN posBuffer
        PROVE  posBuffer[i] <= pos'
    <3>1. posBuffer[i] \in Nat /\ posBuffer[i] <= pos
      BY DEF Buffers
    <3>2. pos <= pos'
      OBVIOUS
    <3>. QED BY <3>1, <3>2
  <2>. QED BY <2>1
<1>. QED BY <1>1, WantedKept DEF Buffers

LEMMA ListsKept ==
  ASSUME UNCHANGED <<sent, opt, delivered>>, NEW n, NEW m
  PROVE  /\ Lists(delivered, Printed(n))' <=> Lists(delivered, Printed(n))
         /\ Lists(delivered, UpTo(Printed(n), m))'
              <=> Lists(delivered, UpTo(Printed(n), m))
         /\ AsWanted' <=> AsWanted
<1>1. Printed(n)' = Printed(n) /\ Wanted' = Wanted
  BY WantedKept
<1>2. AsWanted' <=> AsWanted
  BY <1>1 DEF AsWanted, Nth
<1>3. Lists(delivered, Printed(n))' <=> Lists(delivered, Printed(n))
  BY <1>1 DEF Lists, Nth
<1>4. Lists(delivered, UpTo(Printed(n), m))'
        <=> Lists(delivered, UpTo(Printed(n), m))
  BY <1>1 DEF Lists, Nth, UpTo
<1>. QED BY <1>2, <1>3, <1>4

-----------------------------------------------------------------------------
(***************************************************************************)
(* Reading a value.                                                        *)
(***************************************************************************)
LEMMA Seen ==
  ASSUME LogInv, CacheOK, pos \in Nat, pos < Len(file),
         file[pos + 1].kind = "V", NEW n, Passed(sent, pos, n)
  PROVE  /\ n \in Nat /\ n + 1 \in DOMAIN sent /\ n + 1 <= Len(sent)
         /\ sent[n + 1].sor = file[pos + 1].sor
         /\ Passed(sent, pos + 1, n + 1)
         /\ Current => ~Unreadable
         /\ ~Unreadable =>
              /\ Decoded(dicts[Selected], file[pos + 1].content)
                   = sent[n + 1].value
              /\ Class = ClassOf(n + 1)
<1>1. /\ n \in Nat /\ n + 1 \in DOMAIN sent
      /\ sent[n + 1].sor = file[pos + 1].sor
      /\ Passed(sent, pos + 1, n + 1)
  BY PassedNext, PassedBounds
<1>2. n + 1 <= Len(sent)
  BY <1>1, FileFacts
<1>3. PICK r : r = pos + 1
  OBVIOUS
<1>4. r \in DOMAIN file /\ file[r].kind = "V" /\ r \in Nat
  BY <1>3, FileFacts
<1>5. PICK t \in DictRecs :
        /\ Nearest(DictRecs, t, r)
        /\ file[r].sor - file[r].backref = file[t].sor
        /\ known[r] = known[t]
  BY <1>4, BackrefLands
<1>6. PICK i : i = Search(dicts, file[t].sor)
  OBVIOUS
<1>7. Selected = i
  BY <1>3, <1>5, <1>6 DEF Selected
<1>8. Current => i # 0
  <2> SUFFICES ASSUME Current PROVE i # 0
    OBVIOUS
  <2>1. PICK u \in DictRecs :
          Nearest(DictRecs, u, pos + 1) /\ Search(dicts, file[u].sor) # 0
    BY DEF Current
  <2>2. u = t
    BY <1>3, <1>4, <1>5, <2>1, NearestUnique
  <2>. QED BY <1>6, <2>1, <2>2
<1>9. CASE i = 0
  BY <1>1, <1>2, <1>7, <1>8, <1>9 DEF Unreadable
<1>10. CASE i # 0
  <2>1. /\ dicts[i] \in DictRecord
        /\ Includes(dicts[i], file[t].sor)
        /\ TrueDict(DictRecs, file, known, dicts[i])
    BY <1>6, <1>10, FoundCovers
  <2>2. Within(known[r], dicts[i].entries)
    BY <1>5, <2>1, Covers
  <2>3. PICK m \in DOMAIN sent :
          /\ sent[m].sor = file[r].sor
          /\ Encodes(file[r].content, sent[m].value, known[r])
    BY <1>4 DEF LogInv, Sending
  <2>4. file[r].content \in Seq(Tok) /\ sent[m].value \in Value
        /\ known[r] \in Seq(Str)
    BY <1>4, FileFacts DEF LogInv, Shape
  <2>5. /\ Resolvable(dicts[i], file[r].content)
        /\ Decoded(dicts[i], file[r].content) = sent[m].value
    BY <2>1, <2>2, <2>3, <2>4, Decodes
  <2>6. m = n + 1
    <3>1. PICK k \in DOMAIN sent : k = n + 1
      BY <1>1
    <3>2. /\ m \in Nat /\ k \in Nat
          /\ sent[m].sor \in Nat /\ sent[k].sor \in Nat
          /\ sent[m].sor = sent[k].sor
      BY <1>1, <1>3, <2>3, <3>1, FileFacts
    <3>3. /\ m < k <=> sent[m].sor < sent[k].sor
          /\ k < m <=> sent[k].sor < sent[m].sor
      BY SentFacts
    <3>. QED BY <3>1, <3>2, <3>3
  <2>7. ~Unreadable
    BY <1>3, <1>7, <1>10, <2>5 DEF Unreadable
  <2>8. Decoded(dicts[Selected], file[pos + 1].content) = sent[n + 1].value
    BY <1>3, <1>7, <2>5, <2>6
  <2>9. Class = ClassOf(n + 1)
    BY <2>8 DEF Class, ClassOf
  <2>. QED BY <1>1, <1>2, <2>7, <2>8, <2>9
<1>. QED BY <1>9, <1>10

-----------------------------------------------------------------------------
(***************************************************************************)
(* The loop: one lemma for each way through it.                            *)
(***************************************************************************)
LEMMA LoopBegins ==
  ASSUME LogInv, opt \in Options, Fresh
  PROVE  /\ Passed(sent, 0, 0) /\ Counts(0) /\ Forces(0) /\ Buffers(0, 0)
         /\ due = 0 /\ Lists(delivered, Printed(0))
         /\ force = 0
<1>1. UpTo(Hits, 0) = {} /\ UpTo(AllHits, 0) = {} /\ 0 \notin Followed
      /\ \A i \in Marked : ~(i <= 0)
  <2>1. \A k \in DOMAIN sent : ~(k <= 0) /\ k # 0
    BY FileFacts
  <2>. QED BY <2>1, SetFacts DEF UpTo
<1>2. Counts(0)
  <2>1. total = 0 /\ ~inRegion /\ opt.matches \in Nat
    BY OptFacts DEF Fresh
  <2>2. /\ Cardinality(UpTo(Hits, 0)) = 0 /\ Cardinality(UpTo(AllHits, 0)) = 0
    BY <1>1, FS_EmptySet
  <2>3. inRegion <=> 0 \in Followed
    BY <1>1, <2>1
  <2>4. /\ total = Cardinality(UpTo(Hits, 0))
        /\ total < opt.matches => Cardinality(UpTo(AllHits, 0)) = total
        /\ total >= opt.matches => Cardinality(UpTo(AllHits, 0)) >= opt.matches
    BY <2>1, <2>2
  <2>. QED BY <2>3, <2>4 DEF Counts
<1>3. Forces(0)
  <2>1. force = 0
    BY DEF Fresh
  <2>2. \A m \in Nat : m > 0 => ~(m <= 0 + force)
    BY <2>1
  <2>. QED BY <1>1, <2>2 DEF Forces
<1>4. Printed(0) = {}
  BY DEF Printed
<1>5. Lists(delivered, Printed(0))
  BY <1>4, ListsEmpty DEF Fresh
<1>6. Buffers(0, 0)
  <2>1. posBuffer = <<>> /\ DOMAIN posBuffer = {}
    BY DEF Fresh
  <2>2. /\ Len(posBuffer) <= opt.before + 1
        /\ 0 - Len(posBuffer) = 0
    <3>1. Len(posBuffer) = 0
      BY <2>1
    <3>. QED BY <3>1, OptFacts
  <2>3. \A i \in DOMAIN posBuffer :
          /\ Passed(sent, posBuffer[i], 0 - Len(posBuffer) + i - 1)
          /\ posBuffer[i] <= pos
    BY <2>1
  <2>4. \A k \in Printed(0) : k <= 0 - Len(posBuffer)
    BY <1>4
  <2>. QED BY <2>2, <2>3, <2>4 DEF Buffers
<1>. QED BY <1>2, <1>3, <1>5, <1>6, PassedBounds DEF Fresh

\* The candidate joins posBuffer, which drops its oldest place when it is full.
LEMMA BufferedPlaces ==
  ASSUME LogInv, opt \in Options, pos \in Nat, posBuffer \in Seq(Nat),
         NEW n, Passed(sent, pos, n), Buffers(n, n),
         UNCHANGED <<sent, opt, pos>>, posBuffer' = Buffered
  PROVE  /\ Buffers(n, n + 1)' /\ posBuffer' \in Seq(Nat) /\ posBuffer' # <<>>
         /\ PinAt = posBuffer'[1]
         /\ posBuffer = <<>> => Len(posBuffer') = 1
<1>1. /\ Len(posBuffer) \in Nat /\ Len(posBuffer) <= opt.before + 1
      /\ opt.before \in Nat /\ n \in Nat
      /\ DOMAIN posBuffer = 1..Len(posBuffer)
  BY OptFacts, PassedBounds DEF Buffers
<1>2. /\ \A i \in DOMAIN posBuffer :
           /\ Passed(sent, posBuffer[i], n - Len(posBuffer) + i - 1)
           /\ posBuffer[i] <= pos
      /\ \A k \in Printed(n) : k <= n - Len(posBuffer)
      /\ Len(posBuffer) <= opt.before =>
           n - Len(posBuffer) = 0 \/ n - Len(posBuffer) \in Printed(n)
  BY DEF Buffers
<1>3. Printed(n)' = Printed(n) /\ Printed(n) \subseteq Nat
  BY WantedKept, <1>1, PrintedFinite
<1>4. CASE Len(posBuffer) = opt.before + 1
  <2>1. posBuffer # <<>> /\ 1 \in DOMAIN posBuffer
    BY <1>1, <1>4
  <2>2. PICK t : t = Tail(posBuffer)
    OBVIOUS
  <2>3. /\ t \in Seq(Nat) /\ Len(t) = Len(posBuffer) - 1
        /\ \A i \in 1..(Len(posBuffer) - 1) : t[i] = posBuffer[i + 1]
    BY <2>1, <2>2
  <2>4. posBuffer' = Append(t, pos)
    BY <1>4, <2>2 DEF Buffered
  <2>5. /\ posBuffer' \in Seq(Nat) /\ Len(posBuffer') = Len(posBuffer)
        /\ posBuffer' # <<>> /\ DOMAIN posBuffer' = 1..Len(posBuffer)
        /\ posBuffer'[Len(posBuffer)] = pos
        /\ \A i \in 1..(Len(posBuffer) - 1) : posBuffer'[i] = posBuffer[i + 1]
    BY <1>1, <1>4, <2>3, <2>4
  <2>6. ASSUME NEW i \in DOMAIN posBuffer'
        PROVE  /\ Passed(sent, posBuffer'[i], n + 1 - Len(posBuffer) + i - 1)
               /\ posBuffer'[i] <= pos
    <3>1. CASE i = Len(posBuffer)
      <4>1. n + 1 - Len(posBuffer) + i - 1 = n
        BY <1>1, <3>1
      <4>. QED BY <2>5, <3>1, <4>1
    <3>2. CASE i # Len(posBuffer)
      <4>1. PICK l \in Nat : l = Len(posBuffer)
        BY <1>1
      <4>2. i \in 1..l /\ i # l /\ n \in Nat /\ DOMAIN posBuffer = 1..l
        BY <1>1, <2>5, <3>2, <4>1
      <4>3. i \in 1..(l - 1) /\ i + 1 \in DOMAIN posBuffer
        BY <4>2
      <4>4. n + 1 - l + i - 1 = n - l + (i + 1) - 1
        BY <4>2
      <4>5. /\ Passed(sent, posBuffer[i + 1], n - l + (i + 1) - 1)
            /\ posBuffer[i + 1] <= pos
        <5>1. PICK j \in DOMAIN posBuffer : j = i + 1
          BY <4>3
        <5>2. Passed(sent, posBuffer[j], n - Len(posBuffer) + j - 1)
              /\ posBuffer[j] <= pos
          BY <1>2
        <5>. QED BY <4>1, <5>1, <5>2
      <4>6. posBuffer'[i] = posBuffer[i + 1]
        BY <2>5, <4>1, <4>3
      <4>. QED BY <4>1, <4>4, <4>5, <4>6
    <3>. QED BY <3>1, <3>2
  <2>7. \A k \in Printed(n) : k <= n + 1 - Len(posBuffer)
    <3>1. ASSUME NEW k \in Printed(n)
          PROVE  k <= n + 1 - Len(posBuffer)
      <4>1. k \in Nat /\ k <= n - Len(posBuffer)
        BY <1>2, <1>3
      <4>. QED BY <1>1, <4>1
    <3>. QED BY <3>1
  <2>8. ~(Len(posBuffer) <= opt.before)
    BY <1>1, <1>4
  <2>9. Buffers(n, n + 1)'
    <3>1. /\ Len(posBuffer') <= opt.before + 1
          /\ \A i \in DOMAIN posBuffer' :
               /\ Passed(sent, posBuffer'[i], n + 1 - Len(posBuffer') + i - 1)
               /\ posBuffer'[i] <= pos
          /\ \A k \in Printed(n) : k <= n + 1 - Len(posBuffer')
          /\ ~(Len(posBuffer') <= opt.before)
      BY <1>1, <2>5, <2>6, <2>7, <2>8
    <3>2. PICK c : c = n + 1
      OBVIOUS
    <3>6. (Len(posBuffer) <= opt.before + 1)'
      BY <1>1, <1>3, <3>1, <3>2
    <3>7. (\A i \in DOMAIN posBuffer :
             /\ Passed(sent, posBuffer[i], c - Len(posBuffer) + i - 1)
             /\ posBuffer[i] <= pos)'
      BY <1>1, <1>3, <3>1, <3>2
    <3>8. (\A k \in Printed(n) : k <= c - Len(posBuffer))'
      BY <1>1, <1>3, <3>1, <3>2
    <3>9. (Len(posBuffer) <= opt.before =>
            c - Len(posBuffer) = 0 \/ c - Len(posBuffer) \in Printed(n))'
      BY <1>1, <1>3, <3>1, <3>2
    <3>10. Buffers(n, c)'
      BY <3>6, <3>7, <3>8, <3>9 DEF Buffers
    <3>. QED BY <3>2, <3>10
  <2>10. PinAt = posBuffer'[1]
    BY <2>5 DEF PinAt
  <2>. QED BY <2>1, <2>5, <2>9, <2>10
<1>5. CASE Len(posBuffer) # opt.before + 1
  <2>1. posBuffer' = Append(posBuffer, pos)
    BY <1>5 DEF Buffered
  <2>2. /\ posBuffer' \in Seq(Nat) /\ Len(posBuffer') = Len(posBuffer) + 1
        /\ posBuffer' # <<>> /\ DOMAIN posBuffer' = 1..(Len(posBuffer) + 1)
        /\ posBuffer'[Len(posBuffer) + 1] = pos
        /\ \A i \in 1..Len(posBuffer) : posBuffer'[i] = posBuffer[i]
    BY <2>1
  <2>3. n + 1 - (Len(posBuffer) + 1) = n - Len(posBuffer)
    BY <1>1
  <2>4. ASSUME NEW i \in DOMAIN posBuffer'
        PROVE  /\ Passed(sent, posBuffer'[i], n + 1 - (Len(posBuffer) + 1) + i - 1)
               /\ posBuffer'[i] <= pos
    <3>1. CASE i = Len(posBuffer) + 1
      <4>1. n + 1 - (Len(posBuffer) + 1) + i - 1 = n
        BY <1>1, <3>1
      <4>. QED BY <2>2, <3>1, <4>1
    <3>2. CASE i # Len(posBuffer) + 1
      <4>1. i \in 1..Len(posBuffer)
        BY <1>1, <2>2, <3>2
      <4>2. /\ Passed(sent, posBuffer[i], n - Len(posBuffer) + i - 1)
            /\ posBuffer[i] <= pos
        BY <1>1, <1>2, <4>1
      <4>3. n + 1 - (Len(posBuffer) + 1) + i - 1 = n - Len(posBuffer) + i - 1
        BY <2>3
      <4>. QED BY <2>2, <4>1, <4>2, <4>3
    <3>. QED BY <3>1, <3>2
  <2>5. Len(posBuffer) + 1 <= opt.before + 1 /\ Len(posBuffer) <= opt.before
    BY <1>1, <1>5
  <2>6. Buffers(n, n + 1)'
    <3>1. n + 1 - Len(posBuffer') = n - Len(posBuffer)
      BY <2>2, <2>3
    <3>2. /\ Len(posBuffer') <= opt.before + 1
          /\ \A i \in DOMAIN posBuffer' :
               /\ Passed(sent, posBuffer'[i], n + 1 - Len(posBuffer') + i - 1)
               /\ posBuffer'[i] <= pos
      BY <2>2, <2>4, <2>5
    <3>3. /\ \A k \in Printed(n) : k <= n + 1 - Len(posBuffer')
          /\ Len(posBuffer') <= opt.before =>
               n + 1 - Len(posBuffer') = 0 \/ n + 1 - Len(posBuffer') \in Printed(n)
      BY <1>2, <2>5, <3>1
    <3>4. PICK c : c = n + 1
      OBVIOUS
    <3>6. (Len(posBuffer) <= opt.before + 1)'
      BY <1>1, <1>3, <3>2, <3>3, <3>4
    <3>7. (\A i \in DOMAIN posBuffer :
             /\ Passed(sent, posBuffer[i], c - Len(posBuffer) + i - 1)
             /\ posBuffer[i] <= pos)'
      BY <1>1, <1>3, <3>2, <3>3, <3>4
    <3>8. (\A k \in Printed(n) : k <= c - Len(posBuffer))'
      BY <1>1, <1>3, <3>2, <3>3, <3>4
    <3>9. (Len(posBuffer) <= opt.before =>
            c - Len(posBuffer) = 0 \/ c - Len(posBuffer) \in Printed(n))'
      BY <1>1, <1>3, <3>2, <3>3, <3>4
    <3>10. Buffers(n, c)'
      BY <3>6, <3>7, <3>8, <3>9 DEF Buffers
    <3>. QED BY <3>4, <3>10
  <2>7. PinAt = posBuffer'[1]
    BY <2>2 DEF PinAt
  <2>. QED BY <2>2, <2>6, <2>7
<1>6. posBuffer = <<>> => Len(posBuffer) # opt.before + 1
  BY <1>1
<1>. QED BY <1>4, <1>5, <1>6

\* The matching handler decides as the definition of what is wanted does.
LEMMA ParseCounts ==
  ASSUME LogInv, CacheOK, GrepTypeOK, Parse, NEW n, Passed(sent, pos, n), Counts(n)
  PROVE  /\ n \in Nat /\ n + 1 \in DOMAIN sent /\ n + 1 <= Len(sent)
         /\ pos < Len(file) /\ file[pos + 1].kind = "V"
         /\ sent[n + 1].sor = file[pos + 1].sor
         /\ Passed(sent, pos + 1, n + 1)
         /\ MatchedNow <=> n + 1 \in Marked
         /\ Counts(n + 1)'
<1>1. /\ pos \in Nat /\ pos < Len(file) /\ file[pos + 1].kind = "V" /\ ~Unreadable
  BY DEF Parse, Matching, Ready, GrepTypeOK
<1>2. /\ n \in Nat /\ n + 1 \in DOMAIN sent /\ n + 1 <= Len(sent)
      /\ sent[n + 1].sor = file[pos + 1].sor
      /\ Passed(sent, pos + 1, n + 1)
      /\ Class = ClassOf(n + 1)
  BY <1>1, Seen
<1>3. /\ opt.matches \in Nat /\ opt.follow \in BOOLEAN /\ total \in Nat
      /\ inRegion \in BOOLEAN
  BY OptFacts DEF GrepTypeOK
<1>4. /\ n + 1 \in Hits <=> ClassOf(n + 1) = "hit" /\ total < opt.matches
      /\ n + 1 \in Followed <=>
           n + 1 \in Hits \/ (inRegion /\ ClassOf(n + 1) = "neither")
  BY <1>2, <1>3, NextCounted
<1>5. Counted <=> n + 1 \in Hits
  BY <1>2, <1>4 DEF Counted
<1>6. Region <=> n + 1 \in Followed
  BY <1>2, <1>4, <1>5 DEF Region
<1>7. MatchedNow <=> n + 1 \in Marked
  <2>1. CASE opt.follow
    BY <1>5, <1>6, <2>1 DEF MatchedNow, Marked, Region
  <2>2. CASE ~opt.follow
    BY <1>5, <2>2 DEF MatchedNow, Marked
  <2>. QED BY <2>1, <2>2
<1>8. total' = IF ClassOf(n + 1) = "hit" /\ total < opt.matches
               THEN total + 1 ELSE total
  BY <1>2 DEF Parse, Counted
<1>9. inRegion' <=> n + 1 \in Followed
  BY <1>6 DEF Parse
<1>10. UNCHANGED <<sent, opt>>
  BY DEF Parse, fileVars
<1>11. Counts(n + 1)'
  BY <1>2, <1>3, <1>8, <1>9, <1>10, CountsNext
<1>. QED BY <1>1, <1>2, <1>7, <1>11

LEMMA BufferedFirst ==
  ASSUME posBuffer \in Seq(Nat), posBuffer # <<>>, NEW n \in Nat, Buffers(n, n + 1),
         NEW m, m = n + 1 - Len(posBuffer)
  PROVE  /\ Len(posBuffer) \in Nat /\ Len(posBuffer) >= 1 /\ 1 \in DOMAIN posBuffer
         /\ Head(posBuffer) = posBuffer[1] /\ posBuffer[1] \in Nat
         /\ Len(posBuffer) <= opt.before + 1
         /\ posBuffer[1] <= pos /\ Passed(sent, posBuffer[1], m)
<1>1. /\ Len(posBuffer) \in Nat /\ Len(posBuffer) >= 1
      /\ Head(posBuffer) = posBuffer[1]
  OBVIOUS
<1>2. PICK i \in DOMAIN posBuffer : i = 1
  BY <1>1
<1>3. n + 1 - Len(posBuffer) + i - 1 = m
  BY <1>1, <1>2
<1>4. /\ Passed(sent, posBuffer[i], n + 1 - Len(posBuffer) + i - 1)
      /\ posBuffer[i] <= pos
  BY DEF Buffers
<1>5. posBuffer[i] \in Nat
  OBVIOUS
<1>6. Len(posBuffer) <= opt.before + 1
  BY DEF Buffers
<1>. QED BY <1>1, <1>2, <1>3, <1>4, <1>5, <1>6

\* A record that is marked: what posBuffer holds is to be printed.
LEMMA ParseMarked ==
  ASSUME LogInv, CacheOK, GrepTypeOK, Parse, NEW n, Passed(sent, pos, n),
         Counts(n), AtParse(n), MatchedNow, ~opt.count
  PROVE  /\ loc' = "print" /\ pos' \in Nat /\ pos' <= pos /\ pin = pos'
         /\ posBuffer' = <<>> /\ due' \in Nat /\ force' \in Nat
         /\ \E m \in Nat : Passed(sent', pos', m) /\ AtPrint(m, n + 1)'
<1>1. /\ loc' = "print" /\ pos' = Head(posBuffer) /\ due' = Len(posBuffer)
      /\ posBuffer' = <<>> /\ force' = opt.after
      /\ UNCHANGED <<sent, opt, delivered>>
  BY DEF Parse, Unprinted, fileVars
<1>2. /\ n \in Nat /\ n + 1 \in DOMAIN sent /\ n + 1 <= Len(sent)
      /\ n + 1 \in Marked
  BY ParseCounts
<1>3. /\ opt \in Options /\ pos \in Nat /\ posBuffer \in Seq(Nat)
      /\ opt.before \in Nat /\ opt.after \in Nat
  BY OptFacts DEF GrepTypeOK
<1>4. /\ Lists(delivered, Printed(n)) /\ Buffers(n, n + 1)
      /\ posBuffer # <<>> /\ pin = posBuffer[1]
  BY DEF AtParse
<1>5. PICK m : m = n + 1 - Len(posBuffer)
  OBVIOUS
<1>6. /\ m \in Nat /\ UpTo(Printed(n + 1), m) = Printed(n)
      /\ \A k \in (m + 1)..(n + 1) : k \in Printed(n + 1)
  BY <1>2, <1>3, <1>4, <1>5, BufferedPrints
<1>7. /\ Len(posBuffer) \in Nat /\ Len(posBuffer) >= 1 /\ 1 \in DOMAIN posBuffer
      /\ Len(posBuffer) <= opt.before + 1 /\ posBuffer[1] \in Nat
      /\ Head(posBuffer) = posBuffer[1]
  BY <1>2, <1>3, <1>4, <1>5, BufferedFirst
<1>8. posBuffer[1] <= pos /\ Passed(sent, posBuffer[1], m)
  BY <1>2, <1>3, <1>4, <1>5, BufferedFirst
<1>9. PICK c \in Nat : c = n + 1
  BY <1>2
<1>10. Forces(c)'
  <2>1. \A i \in Nat : i > c =>
          ((\E h \in Marked : h <= c /\ i <= h + opt.after)
             <=> i <= c + opt.after)
    BY <1>2, <1>3, <1>9, PrintedMarked
  <2>2. Marked' = Marked
    BY <1>1, WantedKept
  <2>. QED BY <1>1, <2>1, <2>2 DEF Forces
<1>11. Lists(delivered, UpTo(Printed(c), m))'
  <2>1. Lists(delivered, UpTo(Printed(c), m))
    BY <1>4, <1>6, <1>9
  <2>. QED BY <1>1, <2>1, ListsKept
<1>12. (\A k \in (m + 1)..c : k \in Printed(c))'
  <2>1. Printed(c)' = Printed(c)
    BY <1>1, WantedKept
  <2>. QED BY <1>6, <1>9, <2>1
<1>13. /\ due' > 0 /\ c = m + due' /\ due' <= opt'.before + 1
  BY <1>1, <1>2, <1>5, <1>7, <1>9
<1>14. AtPrint(m, c)'
  BY <1>1, <1>10, <1>11, <1>12, <1>13 DEF AtPrint
<1>15. Passed(sent', pos', m)
  BY <1>1, <1>7, <1>8
<1>16. AtPrint(m, n + 1)'
  BY <1>9, <1>14
<1>. QED BY <1>1, <1>3, <1>4, <1>6, <1>7, <1>8, <1>15, <1>16

\* One in the context after a marked one: it alone is to be printed.
LEMMA ParseForced ==
  ASSUME LogInv, CacheOK, GrepTypeOK, Parse, NEW n, Passed(sent, pos, n),
         Counts(n), AtParse(n), ~MatchedNow, force > 0, ~opt.count
  PROVE  /\ loc' = "print" /\ pos' \in Nat /\ pos' <= pos /\ pin = pos'
         /\ posBuffer' = <<>> /\ due' \in Nat /\ force' \in Nat
         /\ \E m \in Nat : Passed(sent', pos', m) /\ AtPrint(m, n + 1)'
<1>1. /\ loc' = "print" /\ pos' = posBuffer[Len(posBuffer)] /\ due' = 1
      /\ posBuffer' = <<>> /\ force' = force - 1
      /\ UNCHANGED <<sent, opt, delivered>>
  BY DEF Parse, Unprinted, fileVars, GrepTypeOK
<1>2. /\ n \in Nat /\ n + 1 \in DOMAIN sent /\ n + 1 <= Len(sent)
      /\ n + 1 \notin Marked
  BY ParseCounts
<1>3. /\ opt \in Options /\ pos \in Nat /\ posBuffer \in Seq(Nat)
      /\ opt.before \in Nat /\ opt.after \in Nat /\ force \in Nat
  BY OptFacts DEF GrepTypeOK
<1>4. /\ Lists(delivered, Printed(n)) /\ Buffers(n, n + 1) /\ Forces(n)
      /\ pin = posBuffer[1] /\ Len(posBuffer) = 1
  BY DEF AtParse
<1>5. posBuffer # <<>> /\ n = n + 1 - Len(posBuffer)
  <2>1. posBuffer # <<>>
    BY DEF AtParse
  <2>. QED BY <1>2, <1>4, <2>1
<1>6. /\ posBuffer[1] \in Nat /\ posBuffer[1] <= pos
      /\ Passed(sent, posBuffer[1], n)
  BY <1>2, <1>3, <1>4, <1>5, BufferedFirst
<1>7. PICK c \in Nat : c = n + 1
  BY <1>2
<1>8. /\ Printed(c) = Printed(n) \cup {c}
      /\ \A i \in Nat : i > c =>
           ((\E h \in Marked : h <= c /\ i <= h + opt.after)
              <=> i <= n + force)
  BY <1>2, <1>3, <1>4, <1>7, PrintedUnmarked
<1>9. Printed(c)' = Printed(c) /\ Marked' = Marked
  BY <1>1, WantedKept
<1>10. Forces(c)'
  <2>1. c + force' = n + force
    BY <1>1, <1>2, <1>3, <1>7
  <2>2. \A i \in Nat : i > c =>
          ((\E h \in Marked : h <= c /\ i <= h + opt.after)
             <=> i <= c + force')
    BY <1>8, <2>1
  <2>. QED BY <1>1, <1>9, <2>2 DEF Forces
<1>11. Lists(delivered, UpTo(Printed(c), n))'
  <2>1. UpTo(Printed(c), n) = Printed(n)
    <3>1. ~(c <= n) /\ \A k \in Printed(n) : k <= n
      BY <1>2, <1>7 DEF Printed
    <3>. QED BY <1>8, <3>1 DEF UpTo
  <2>2. Lists(delivered, UpTo(Printed(c), n))
    BY <1>4, <2>1
  <2>. QED BY <1>1, <2>2, ListsKept
<1>12. (\A k \in (n + 1)..c : k \in Printed(c))'
  <2>1. \A k \in (n + 1)..c : k = c
    BY <1>2, <1>7
  <2>. QED BY <1>8, <1>9, <2>1
<1>13. due' > 0 /\ c = n + due' /\ due' <= opt'.before + 1
  BY <1>1, <1>2, <1>3, <1>7
<1>14. AtPrint(n, c)'
  BY <1>1, <1>10, <1>11, <1>12, <1>13 DEF AtPrint
<1>15. AtPrint(n, n + 1)'
  BY <1>7, <1>14
<1>16. /\ Passed(sent', pos', n) /\ pos' = posBuffer[1] /\ due' \in Nat
       /\ force' \in Nat
  BY <1>1, <1>3, <1>4, <1>6
<1>. QED BY <1>1, <1>2, <1>4, <1>6, <1>15, <1>16

\* One that is not wanted, or only counted.
LEMMA ParsePassed ==
  ASSUME LogInv, CacheOK, GrepTypeOK, Parse, NEW n, Passed(sent, pos, n),
         Counts(n), AtParse(n), opt.count => force = 0,
         IF MatchedNow THEN opt.count ELSE force = 0
  PROVE  /\ loc' = "top" /\ pos' = pos + 1
         /\ UNCHANGED <<pin, due, posBuffer, force>>
         /\ Passed(sent', pos', n + 1) /\ AtTop(n + 1)'
<1>1. MatchedNow \in BOOLEAN /\ opt.count \in BOOLEAN /\ force \in Nat
      /\ opt \in Options /\ pos \in Nat /\ posBuffer \in Seq(Nat)
  BY OptFacts DEF GrepTypeOK, MatchedNow, Counted, Region
<1>2. /\ ~(MatchedNow /\ ~opt.count) /\ ~(~MatchedNow /\ force > 0)
  BY <1>1
<1>3. /\ loc' = "top" /\ pos' = pos + 1
      /\ UNCHANGED <<pin, due, posBuffer, force, sent, opt, delivered>>
  BY <1>2 DEF Parse, Advance, fileVars
<1>4. /\ n \in Nat /\ n + 1 \in DOMAIN sent /\ n + 1 <= Len(sent)
      /\ Passed(sent, pos + 1, n + 1)
      /\ MatchedNow <=> n + 1 \in Marked
  BY ParseCounts
<1>5. PICK c \in Nat : c = n + 1
  BY <1>4
<1>6. ASSUME ~opt.count
      PROVE  /\ (due = 0 /\ Forces(c) /\ Lists(delivered, Printed(c)))'
             /\ Buffers(c, c)' /\ (force > 0 => posBuffer = <<>>)'
  <2>1. n + 1 \notin Marked /\ force = 0
    BY <1>1, <1>4, <1>6
  <2>2. due = 0 /\ Forces(n) /\ Lists(delivered, Printed(n)) /\ Buffers(n, c)
    BY <1>5, <1>6 DEF AtParse
  <2>3. /\ Printed(c) = Printed(n)
        /\ \A i \in Nat : i > c =>
             ((\E h \in Marked : h <= c /\ i <= h + opt.after)
                <=> i <= n + force)
    BY <1>1, <1>4, <1>5, <2>1, <2>2, PrintedUnmarked
  <2>4. Forces(c)
    <3>1. ASSUME NEW i \in Nat, i > c
          PROVE  i <= n + force <=> i <= c + force
      BY <1>4, <1>5, <2>1, <3>1
    <3>. QED BY <2>3, <3>1 DEF Forces
  <2>5. Buffers(c, c)
    BY <2>2, <2>3 DEF Buffers
  <2>6. Buffers(c, c)'
    BY <1>1, <1>3, <2>5, BuffersKept
  <2>7. Forces(c)'
    BY <1>3, <2>4, ForcesKept
  <2>8. Lists(delivered, Printed(c))'
    <3>1. Lists(delivered, Printed(c))
      BY <2>2, <2>3
    <3>. QED BY <1>3, <3>1, ListsKept
  <2>. QED BY <1>3, <2>1, <2>2, <2>6, <2>7, <2>8
<1>7. AtTop(c)'
  BY <1>3, <1>6 DEF AtTop
<1>8. AtTop(n + 1)' /\ Passed(sent', pos', n + 1)
  BY <1>3, <1>4, <1>5, <1>7
<1>. QED BY <1>3, <1>8

LEMMA TopAdmits ==
  ASSUME LogInv, GrepTypeOK, Top, NEW n, Passed(sent, pos, n), AtTop(n)
  PROVE  /\ Passed(sent', pos', n) /\ AtParse(n)' /\ posBuffer' \in Seq(Nat)
         /\ pin' \in Int
<1>1. /\ UNCHANGED <<sent, opt, pos, delivered, due, force>>
      /\ opt.count => UNCHANGED <<posBuffer, pin>>
      /\ ~opt.count => posBuffer' = Buffered /\ pin' = PinAt
  BY DEF Top, fileVars, readerVars
<1>2. opt \in Options /\ pos \in Nat /\ posBuffer \in Seq(Nat) /\ pin \in Int
      /\ n \in Nat /\ force \in Nat
  BY PassedBounds DEF GrepTypeOK
<1>3. CASE opt.count
  BY <1>1, <1>2, <1>3 DEF AtParse
<1>4. CASE ~opt.count
  <2>1. /\ due = 0 /\ Forces(n) /\ Lists(delivered, Printed(n))
        /\ Buffers(n, n) /\ (force > 0 => posBuffer = <<>>)
    BY <1>4 DEF AtTop
  <2>2. /\ Buffers(n, n + 1)' /\ posBuffer' \in Seq(Nat) /\ posBuffer' # <<>>
        /\ PinAt = posBuffer'[1]
        /\ posBuffer = <<>> => Len(posBuffer') = 1
    BY <1>1, <1>2, <1>4, <2>1, BufferedPlaces
  <2>3. Forces(n)' /\ Lists(delivered, Printed(n))'
    BY <1>1, <2>1, ForcesKept, ListsKept
  <2>4. posBuffer'[1] \in Int
    BY <2>2
  <2>. QED BY <1>1, <1>2, <1>4, <2>1, <2>2, <2>3, <2>4 DEF AtParse
<1>. QED BY <1>3, <1>4

LEMMA OutputPrints ==
  ASSUME LogInv, CacheOK, GrepTypeOK, OutputValue,
         NEW m, Passed(sent, pos, m), NEW n \in DOMAIN sent, AtPrint(m, n)
  PROVE  /\ pos' = pos + 1 /\ pos < Len(file) /\ file[pos + 1].kind = "V"
         /\ UNCHANGED <<dicts, broken>>
         /\ m \in Nat /\ m + 1 \in DOMAIN sent
         /\ sent[m + 1].sor = file[pos + 1].sor
         /\ delivered' \in Seq(Value)
         /\ due' = due - 1 /\ Passed(sent', pos', m + 1)
         /\ due = 1 => n = m + 1 /\ AtTop(n)'
         /\ due # 1 => AtPrint(m + 1, n)'
<1>1. /\ pos \in Nat /\ pos < Len(file) /\ file[pos + 1].kind = "V" /\ ~Unreadable
      /\ opt \in Options /\ posBuffer \in Seq(Nat) /\ due \in Nat
      /\ delivered \in Seq(Value)
  BY DEF OutputValue, Matching, Ready, GrepTypeOK
<1>2. /\ m \in Nat /\ m + 1 \in DOMAIN sent
      /\ sent[m + 1].sor = file[pos + 1].sor
      /\ Passed(sent, pos + 1, m + 1)
      /\ Decoded(dicts[Selected], file[pos + 1].content) = sent[m + 1].value
  BY <1>1, Seen
<1>3. /\ delivered' = Append(delivered, sent[m + 1].value)
      /\ pos' = pos + 1 /\ UNCHANGED <<dicts, broken>>
  BY <1>1, <1>2 DEF OutputValue, ReadValue, Advance, Unreadable, Selected
<1>4. /\ due' = due - 1
      /\ UNCHANGED <<sent, opt, posBuffer, force>>
  BY DEF OutputValue, fileVars
<1>5. sent[m + 1].value \in Value
  BY <1>2, FileFacts
<1>6. /\ ~opt.count /\ due > 0 /\ n = m + due /\ due <= opt.before + 1
      /\ Forces(n) /\ Lists(delivered, UpTo(Printed(n), m))
      /\ \A k \in (m + 1)..n : k \in Printed(n)
      /\ posBuffer = <<>>
  BY DEF AtPrint
<1>7. n \in Nat /\ n <= Len(sent) /\ opt.before \in Nat
  BY <1>1, FileFacts, OptFacts
<1>8. PICK c \in Nat : c = m + 1
  BY <1>2
<1>9. c \in Printed(n)
  <2>1. m + 1 \in (m + 1)..n
    BY <1>1, <1>2, <1>6, <1>7
  <2>. QED BY <1>6, <1>8, <2>1
<1>10. UpTo(Printed(n), c) = UpTo(Printed(n), m) \cup {c}
       /\ IsFiniteSet(UpTo(Printed(n), m)) /\ UpTo(Printed(n), m) \in SUBSET Nat
       /\ \A j \in UpTo(Printed(n), m) : j < c
  <2>1. Printed(n) \in SUBSET Nat
    BY <1>7, PrintedFinite
  <2>2. /\ UpTo(Printed(n), m + 1) = UpTo(Printed(n), m) \cup {m + 1}
        /\ IsFiniteSet(UpTo(Printed(n), m))
    BY <1>2, <1>8, <1>9, <2>1, UpToNext
  <2>3. UpTo(Printed(n), m) \in SUBSET Nat
    BY <2>1 DEF UpTo
  <2>4. ASSUME NEW j \in UpTo(Printed(n), m)
        PROVE  j < c
    <3>1. j \in Nat /\ j <= m
      BY <2>3 DEF UpTo
    <3>. QED BY <1>2, <1>8, <3>1
  <2>. QED BY <1>8, <2>2, <2>3, <2>4
<1>11. Lists(delivered', UpTo(Printed(n), c))
  <2>1. Lists(Append(delivered, sent[c].value), UpTo(Printed(n), m) \cup {c})
    BY <1>1, <1>5, <1>6, <1>8, <1>10, ListsNext
  <2>. QED BY <1>3, <1>8, <1>10, <2>1
<1>12. delivered' \in Seq(Value)
  BY <1>1, <1>3, <1>5
<1>13. Printed(n)' = Printed(n) /\ Forces(n)'
  BY <1>4, <1>6, WantedKept, ForcesKept
<1>14. Lists(delivered, UpTo(Printed(n), c))'
  BY <1>4, <1>11, <1>13 DEF Lists, Nth, UpTo
<1>15. ASSUME due = 1
       PROVE  n = m + 1 /\ AtTop(n)'
  <2>1. n = c
    BY <1>6, <1>8, <1>15
  <2>2. UpTo(Printed(n), c) = Printed(n)
    BY <2>1 DEF UpTo, Printed
  <2>3. Lists(delivered, Printed(n))'
    <3>1. Lists(delivered', Printed(n))
      BY <1>11, <2>2
    <3>2. sent' = sent /\ Printed(n)' = Printed(n)
      BY <1>4, <1>13
    <3>. QED BY <3>1, <3>2 DEF Lists, Nth
  <2>4. Buffers(n, n)
    <3>1. Len(posBuffer) = 0 /\ DOMAIN posBuffer = {}
      BY <1>6
    <3>2. n - Len(posBuffer) = n /\ Len(posBuffer) <= opt.before + 1
      BY <1>7, <3>1
    <3>3. \A i \in DOMAIN posBuffer :
            /\ Passed(sent, posBuffer[i], n - Len(posBuffer) + i - 1)
            /\ posBuffer[i] <= pos
      BY <3>1
    <3>4. \A k \in Printed(n) : k <= n
      BY DEF Printed
    <3>. QED BY <1>9, <2>1, <3>2, <3>3, <3>4 DEF Buffers
  <2>5. Buffers(n, n)'
    BY <1>1, <1>3, <1>4, <1>6, <2>4, BuffersKept
  <2>. QED BY <1>4, <1>6, <1>8, <1>13, <1>15, <2>1, <2>3, <2>5 DEF AtTop
<1>16. ASSUME due # 1
       PROVE  AtPrint(m + 1, n)'
  <2>1. due' > 0 /\ n = c + due' /\ due' <= opt.before + 1
    <3>1. due > 0 /\ n = m + due /\ due <= opt.before + 1
      BY <1>6
    <3>2. due \in Nat /\ m \in Nat /\ due' = due - 1
      BY <1>1, <1>2, <1>4
    <3>. QED BY <1>7, <1>8, <1>16, <3>1, <3>2
  <2>2. (\A k \in (c + 1)..n : k \in Printed(n))'
    <3>1. \A k \in (c + 1)..n : k \in (m + 1)..n
      BY <1>2, <1>7, <1>8
    <3>. QED BY <1>6, <1>13, <3>1
  <2>3. AtPrint(c, n)'
    BY <1>4, <1>6, <1>13, <1>14, <2>1, <2>2 DEF AtPrint
  <2>. QED BY <1>8, <2>3
<1>. QED BY <1>1, <1>2, <1>3, <1>4, <1>12, <1>15, <1>16

-----------------------------------------------------------------------------
(***************************************************************************)
(* Every step keeps the count and what is printed.                         *)
(***************************************************************************)
LEMMA ApproachReads ==
  ASSUME LogInv, CacheOK, GrepTypeOK, Approach
  PROVE  /\ pos < Len(file) /\ file[pos + 1].kind # "V"
         /\ UNCHANGED <<fileVars, opt, delivered, scanned, posBuffer, pin, force,
                        total, inRegion, due>>
         /\ CacheOK'
         /\ \/ /\ ~broken' /\ pos' = pos + 1 /\ loc' = loc
            \/ /\ broken' = TRUE /\ UNCHANGED <<dicts, pos>> /\ loc' = "failed"
               /\ file[pos + 1].kind = "A" /\ ~Current
<1>1. /\ pos \in Nat /\ pos <= Len(file) /\ MaxDicts \in Nat \ {0}
      /\ broken \in BOOLEAN
      /\ UNCHANGED <<fileVars, opt, scanned, posBuffer, pin, force, total,
                     inRegion, due>>
      /\ loc' = IF broken' THEN "failed" ELSE loc
      /\ loc \in {"dating", "parse", "print"}
  BY GrepAssumption DEF GrepTypeOK, Approach
<1>2. broken = FALSE
  BY <1>1 DEF GrepTypeOK
<1>3. CASE ReadHeader
  <2>1. /\ pos < Len(file) /\ file[pos + 1].kind = "H" /\ pos' = pos + 1
        /\ UNCHANGED <<dicts, delivered, broken>>
    BY <1>3 DEF ReadHeader, Ready, Advance
  <2>2. CacheOK'
    BY <1>1, <2>1 DEF CacheOK, CacheOf, fileVars, DictRecs
  <2>. QED BY <1>1, <1>2, <2>1, <2>2
<1>4. CASE ReadClear
  <2>1. pos < Len(file) /\ file[pos + 1].kind = "C"
    BY <1>4 DEF ReadClear, Ready
  <2>2. CacheOK' /\ pos' = pos + 1 /\ UNCHANGED <<delivered, broken>>
    BY <1>1, <1>4, ReadClearKeeps DEF Advance
  <2>. QED BY <1>1, <1>2, <2>1, <2>2
<1>5. CASE ReadAdd
  <2>1. pos < Len(file) /\ file[pos + 1].kind = "A"
    BY <1>5 DEF ReadAdd, Ready
  <2>2. /\ CacheOK' /\ UNCHANGED delivered
        /\ Throw \/ (Advance /\ UNCHANGED broken)
        /\ Current => Advance /\ UNCHANGED broken
    BY <1>1, <1>5, ReadAddKeeps
  <2>3. CASE Throw
    <3>1. broken' = TRUE /\ UNCHANGED <<dicts, pos>>
      BY <2>3 DEF Throw
    <3>2. ~Current
      BY <1>2, <2>2, <3>1
    <3>. QED BY <1>1, <2>1, <2>2, <3>1, <3>2
  <2>4. CASE Advance /\ UNCHANGED broken
    <3>1. pos' = pos + 1 /\ ~broken'
      BY <1>2, <2>4 DEF Advance
    <3>. QED BY <1>1, <2>1, <2>2, <3>1
  <2>. QED BY <2>2, <2>3, <2>4
<1>. QED BY <1>3, <1>4, <1>5 DEF Approach

LEMMA LoopingStart ==
  ASSUME LogInv, GrepTypeOK, Looping, Start
  PROVE  Looping'
<1>1. /\ loc = "outside" /\ Fresh /\ pos = 0 /\ opt \in Options
      /\ opt.count => force = 0
  BY DEF Start, Looping, GrepTypeOK
<1>2. UNCHANGED <<fileVars, readerVars, opt, scanned, posBuffer, force, total,
                  inRegion, due>>
  BY DEF Start
<1>3. CASE opt.dated
  <2>1. loc' = "dating" /\ pin' = 0
    BY <1>1, <1>3 DEF Start
  <2>. QED BY <1>1, <1>2, <2>1 DEF Looping, Fresh, readerVars
<1>4. CASE ~opt.dated
  <2>1. loc' = "top"
    BY <1>4 DEF Start
  <2>2. /\ Passed(sent, 0, 0) /\ Counts(0) /\ Forces(0) /\ Buffers(0, 0)
        /\ due = 0 /\ Lists(delivered, Printed(0)) /\ force = 0
    BY <1>1, LoopBegins
  <2>3. Counts(0)'
    BY <1>2, <2>2, CountsKept DEF fileVars
  <2>4. Forces(0)'
    BY <1>2, <2>2, ForcesKept DEF fileVars
  <2>5. Lists(delivered, Printed(0))'
    BY <1>2, <2>2, ListsKept DEF fileVars, readerVars
  <2>6. Buffers(0, 0)'
    <3>1. UNCHANGED <<sent, opt, posBuffer, pos>>
      BY <1>2 DEF fileVars, readerVars
    <3>2. posBuffer \in Seq(Nat) /\ pos \in Nat /\ posBuffer = <<>>
      BY <1>1 DEF GrepTypeOK, Fresh
    <3>. QED BY <2>2, <3>1, <3>2, BuffersKept
  <2>7. AtTop(0)'
    BY <1>2, <2>2, <2>4, <2>5, <2>6 DEF AtTop
  <2>8. Passed(sent', pos', 0)
    BY <1>1, <1>2, <2>2 DEF fileVars, readerVars
  <2>9. (opt.count => force = 0)' /\ 0 \in Nat
    BY <1>1, <1>2
  <2>. QED BY <2>1, <2>3, <2>7, <2>8, <2>9 DEF Looping
<1>. QED BY <1>3, <1>4

LEMMA LoopingDateRecord ==
  ASSUME Looping, DateRecord
  PROVE  Looping'
<1>1. loc = "dating" /\ Fresh /\ pin = 0 /\ (opt.count => force = 0)
  BY DEF Looping, DateRecord
<1>2. UNCHANGED <<fileVars, dicts, delivered, broken, opt, loc, posBuffer, pin,
                  force, total, inRegion, due>>
  BY DEF DateRecord
<1>3. loc' = "dating"
  BY <1>1, <1>2
<1>. QED BY <1>1, <1>2, <1>3 DEF Looping, Fresh

LEMMA LoopingDateScanned ==
  ASSUME LogInv, GrepTypeOK, Looping, DateScanned
  PROVE  Looping'
<1>1. /\ loc = "dating" /\ Fresh /\ pin = 0 /\ opt \in Options
      /\ opt.count => force = 0
  BY DEF DateScanned, Looping, GrepTypeOK
<1>2. /\ UNCHANGED <<fileVars, dicts, delivered, broken, opt, scanned, posBuffer,
                     force, total, inRegion, due>>
      /\ pos' = 0 /\ loc' = "top"
  BY <1>1 DEF DateScanned
<1>3. /\ Passed(sent, 0, 0) /\ Counts(0) /\ Forces(0) /\ Buffers(0, 0)
      /\ due = 0 /\ Lists(delivered, Printed(0)) /\ force = 0
  BY <1>1, LoopBegins
<1>4. Counts(0)'
  BY <1>2, <1>3, CountsKept DEF fileVars
<1>5. Forces(0)'
  BY <1>2, <1>3, ForcesKept DEF fileVars
<1>6. Lists(delivered, Printed(0))'
  BY <1>2, <1>3, ListsKept DEF fileVars
<1>7. Buffers(0, 0)'
  <2>1. UNCHANGED <<sent, opt, posBuffer>>
    BY <1>2 DEF fileVars
  <2>2. posBuffer \in Seq(Nat) /\ pos \in Nat /\ posBuffer = <<>> /\ pos' \in Nat
    BY <1>1, <1>2 DEF GrepTypeOK, Fresh
  <2>. QED BY <1>3, <2>1, <2>2, BuffersKept
<1>8. AtTop(0)'
  BY <1>2, <1>3, <1>5, <1>6, <1>7 DEF AtTop
<1>9. Passed(sent', pos', 0)
  BY <1>2, <1>3 DEF fileVars
<1>10. (opt.count => force = 0)' /\ 0 \in Nat
  BY <1>1, <1>2
<1>. QED BY <1>2, <1>4, <1>8, <1>9, <1>10 DEF Looping

LEMMA LoopingTop ==
  ASSUME LogInv, GrepTypeOK, Looping, Top
  PROVE  Looping' /\ posBuffer' \in Seq(Nat) /\ pin' \in Int
<1>1. PICK n \in Nat : Passed(sent, pos, n) /\ Counts(n) /\ AtTop(n)
  BY DEF Looping, Top
<1>2. /\ Passed(sent', pos', n) /\ AtParse(n)' /\ posBuffer' \in Seq(Nat)
      /\ pin' \in Int
  BY <1>1, TopAdmits
<1>3. loc' = "parse" /\ UNCHANGED <<sent, opt, total, inRegion, force>>
  BY DEF Top, fileVars
<1>4. Counts(n)'
  BY <1>1, <1>3, CountsKept
<1>5. (opt.count => force = 0)'
  BY <1>3 DEF Looping
<1>. QED BY <1>2, <1>3, <1>4, <1>5 DEF Looping

LEMMA LoopingParse ==
  ASSUME LogInv, CacheOK, GrepTypeOK, Looping, Parse
  PROVE  /\ Looping' /\ pos' \in Nat /\ pos' <= Len(file)
         /\ posBuffer' \in Seq(Nat) /\ due' \in Nat /\ force' \in Nat
         /\ pos' < pos => pin = pos' /\ pin # NoPin
         /\ loc' = "top" => pos' = pos + 1
         /\ loc' = "print" \/ loc' = "top"
<1>1. PICK n \in Nat : Passed(sent, pos, n) /\ Counts(n) /\ AtParse(n)
  BY DEF Looping, Parse
<1>2. /\ n + 1 \in DOMAIN sent /\ Counts(n + 1)' /\ pos < Len(file)
  BY <1>1, ParseCounts
<1>3. /\ MatchedNow \in BOOLEAN /\ opt.count \in BOOLEAN /\ force \in Nat
      /\ pos \in Nat /\ Len(file) \in Nat /\ posBuffer \in Seq(Nat)
      /\ due \in Nat /\ opt.after \in Nat
      /\ opt.count => force = 0
  BY OptFacts, FileFacts DEF GrepTypeOK, MatchedNow, Counted, Region, Looping
<1>4. UNCHANGED <<opt, sent>>
  BY DEF Parse, fileVars
<1>5. CASE ~opt.count /\ (MatchedNow \/ force > 0)
  <2>1. /\ loc' = "print" /\ pos' \in Nat /\ pos' <= pos /\ pin = pos'
        /\ posBuffer' = <<>> /\ due' \in Nat /\ force' \in Nat
        /\ \E m \in Nat : Passed(sent', pos', m) /\ AtPrint(m, n + 1)'
    BY <1>1, <1>5, ParseMarked, ParseForced
  <2>2. PICK c \in DOMAIN sent : c = n + 1
    BY <1>2
  <2>3. c \in Nat /\ c \in DOMAIN sent' /\ Counts(c)'
    BY <1>1, <1>2, <1>4, <2>2
  <2>4. \E m \in Nat : Passed(sent', pos', m) /\ AtPrint(m, c)'
    BY <2>1, <2>2
  <2>5. (\E m, k \in Nat : /\ Passed(sent, pos, m) /\ k \in DOMAIN sent
                           /\ Counts(k) /\ AtPrint(m, k))'
    BY <2>3, <2>4
  <2>6. (opt.count => force = 0)'
    BY <1>4, <1>5
  <2>7. Looping'
    BY <2>1, <2>5, <2>6 DEF Looping
  <2>8. pos' <= Len(file) /\ pin # NoPin
    BY <1>2, <1>3, <2>1 DEF NoPin
  <2>. QED BY <2>1, <2>7, <2>8
<1>6. CASE ~(~opt.count /\ (MatchedNow \/ force > 0))
  <2>1. IF MatchedNow THEN opt.count ELSE force = 0
    BY <1>3, <1>6
  <2>2. /\ loc' = "top" /\ pos' = pos + 1
        /\ UNCHANGED <<pin, due, posBuffer, force>>
        /\ Passed(sent', pos', n + 1) /\ AtTop(n + 1)'
    BY <1>1, <1>3, <2>1, ParsePassed
  <2>3. PICK c \in Nat : c = n + 1
    BY <1>1
  <2>4. Passed(sent', pos', c) /\ Counts(c)' /\ AtTop(c)'
    BY <1>2, <2>2, <2>3
  <2>5. (opt.count => force = 0)'
    BY <1>3, <1>4, <2>2
  <2>6. Looping'
    BY <2>2, <2>4, <2>5 DEF Looping
  <2>7. pos' \in Nat /\ pos' <= Len(file) /\ ~(pos' < pos)
    BY <1>2, <1>3, <2>2
  <2>. QED BY <1>3, <2>2, <2>6, <2>7
<1>. QED BY <1>5, <1>6

LEMMA LoopingOutput ==
  ASSUME LogInv, CacheOK, GrepTypeOK, Looping, OutputValue
  PROVE  /\ Looping' /\ pos' = pos + 1 /\ pos < Len(file)
         /\ UNCHANGED <<dicts, broken>> /\ due' \in Nat /\ delivered' \in Seq(Value)
<1>1. PICK m, n \in Nat :
        /\ Passed(sent, pos, m) /\ n \in DOMAIN sent
        /\ Counts(n) /\ AtPrint(m, n)
  BY DEF Looping, OutputValue
<1>2. /\ pos' = pos + 1 /\ pos < Len(file)
      /\ UNCHANGED <<dicts, broken>> /\ delivered' \in Seq(Value)
      /\ due' = due - 1 /\ Passed(sent', pos', m + 1)
      /\ due = 1 => n = m + 1 /\ AtTop(n)'
      /\ due # 1 => AtPrint(m + 1, n)'
  BY <1>1, OutputPrints
<1>3. /\ UNCHANGED <<sent, opt, total, inRegion, force>>
      /\ loc' = IF due = 1 THEN "top" ELSE "print"
  BY DEF OutputValue, fileVars
<1>4. Counts(n)'
  BY <1>1, <1>3, CountsKept
<1>5. (opt.count => force = 0)'
  BY <1>3 DEF Looping
<1>6. due \in Nat /\ due > 0
  BY <1>1 DEF AtPrint, GrepTypeOK
<1>7. due' \in Nat
  BY <1>2, <1>6
<1>8. CASE due = 1
  <2>1. loc' = "top" /\ Passed(sent', pos', n) /\ AtTop(n)'
    BY <1>2, <1>3, <1>8
  <2>2. Looping'
    BY <1>1, <1>4, <1>5, <2>1 DEF Looping
  <2>. QED BY <1>2, <1>7, <2>2
<1>9. CASE due # 1
  <2>1. loc' = "print"
    BY <1>3, <1>9
  <2>2. PICK c \in Nat : c = m + 1
    BY <1>1
  <2>3. Passed(sent', pos', c) /\ n \in DOMAIN sent' /\ AtPrint(c, n)'
    BY <1>1, <1>2, <1>3, <1>9, <2>2
  <2>4. (\E i, k \in Nat : /\ Passed(sent, pos, i) /\ k \in DOMAIN sent
                           /\ Counts(k) /\ AtPrint(i, k))'
    BY <1>1, <1>4, <2>2, <2>3
  <2>5. Looping'
    BY <1>5, <2>1, <2>4 DEF Looping
  <2>. QED BY <1>2, <1>7, <2>5
<1>. QED BY <1>8, <1>9

LEMMA LoopingFinish ==
  ASSUME LogInv, GrepTypeOK, Looping, Finish
  PROVE  Looping'
<1>1. PICK n \in Nat : /\ Passed(sent, pos, n) /\ Counts(n)
                       /\ ~opt.count => Lists(delivered, Printed(n))
  BY DEF Looping, Finish, AtTop, AtParse
<1>2. n = Len(sent)
  BY <1>1, PassedBounds, PassedUnique DEF Finish, AtEnd
<1>3. /\ loc' = "done"
      /\ UNCHANGED <<sent, opt, total, inRegion, force, delivered>>
  BY DEF Finish, fileVars, readerVars
<1>4. Counts(n)'
  BY <1>1, <1>3, CountsKept
<1>5. (~opt.count => Lists(delivered, Printed(n)))'
  BY <1>1, <1>3, ListsKept
<1>6. (opt.count => force = 0)'
  BY <1>3 DEF Looping
<1>7. Counts(Len(sent))' /\ (~opt.count => Lists(delivered, Printed(Len(sent))))'
  BY <1>2, <1>3, <1>4, <1>5
<1>. QED BY <1>3, <1>6, <1>7 DEF Looping

LEMMA LoopingApproach ==
  ASSUME LogInv, CacheOK, GrepTypeOK, Looping, Approach, ~broken'
  PROVE  Looping'
<1>1. /\ pos < Len(file) /\ file[pos + 1].kind # "V"
      /\ UNCHANGED <<fileVars, opt, delivered, scanned, posBuffer, pin, force,
                     total, inRegion, due>>
      /\ pos' = pos + 1 /\ loc' = loc
  BY ApproachReads
<1>2. /\ pos \in Nat /\ posBuffer \in Seq(Nat) /\ pos' \in Nat /\ pos <= pos'
      /\ sent' = sent
  BY <1>1 DEF GrepTypeOK, fileVars
<1>3. \A n : Passed(sent, pos, n) => Passed(sent', pos', n)
  BY <1>1, <1>2, PassedNext
<1>4. \A n : Counts(n) => Counts(n)'
  BY <1>1, CountsKept DEF fileVars
<1>5. (opt.count => force = 0)'
  BY <1>1 DEF Looping
<1>6. loc \in {"dating", "parse", "print"}
  BY DEF Approach
<1>7. CASE loc = "dating"
  <2>1. Fresh /\ pin = 0
    BY <1>7 DEF Looping
  <2>. QED BY <1>1, <1>5, <1>7, <2>1 DEF Looping, Fresh
<1>8. CASE loc = "parse"
  <2>1. PICK n \in Nat : Passed(sent, pos, n) /\ Counts(n) /\ AtParse(n)
    BY <1>8 DEF Looping
  <2>2. AtParse(n)'
    <3>1. ASSUME ~opt.count
          PROVE  /\ (due = 0 /\ Forces(n) /\ Lists(delivered, Printed(n)))'
                 /\ Buffers(n, n + 1)'
                 /\ (posBuffer # <<>> /\ pin = posBuffer[1])'
                 /\ (force > 0 => Len(posBuffer) = 1)'
      <4>1. /\ due = 0 /\ Forces(n) /\ Lists(delivered, Printed(n))
            /\ Buffers(n, n + 1) /\ posBuffer # <<>> /\ pin = posBuffer[1]
            /\ force > 0 => Len(posBuffer) = 1
        BY <2>1, <3>1 DEF AtParse
      <4>2. PICK c : c = n + 1
        OBVIOUS
      <4>3. Buffers(n, c)'
        BY <1>1, <1>2, <4>1, <4>2, BuffersKept
      <4>4. Forces(n)' /\ Lists(delivered, Printed(n))'
        BY <1>1, <1>2, <4>1, ForcesKept, ListsKept
      <4>. QED BY <1>1, <4>1, <4>2, <4>3, <4>4
    <3>. QED BY <1>1, <3>1 DEF AtParse
  <2>. QED BY <1>1, <1>3, <1>4, <1>5, <1>8, <2>1, <2>2 DEF Looping
<1>9. CASE loc = "print"
  <2>1. PICK m, n \in Nat :
          /\ Passed(sent, pos, m) /\ n \in DOMAIN sent
          /\ Counts(n) /\ AtPrint(m, n)
    BY <1>9 DEF Looping
  <2>2. AtPrint(m, n)'
    <3>1. /\ ~opt.count /\ due > 0 /\ n = m + due /\ due <= opt.before + 1
          /\ Forces(n) /\ Lists(delivered, UpTo(Printed(n), m))
          /\ \A k \in (m + 1)..n : k \in Printed(n)
          /\ posBuffer = <<>>
      BY <2>1 DEF AtPrint
    <3>2. Forces(n)' /\ Lists(delivered, UpTo(Printed(n), m))'
      BY <1>1, <1>2, <3>1, ForcesKept, ListsKept
    <3>3. (\A k \in (m + 1)..n : k \in Printed(n))'
      BY <1>1, <1>2, <3>1, WantedKept
    <3>. QED BY <1>1, <3>1, <3>2, <3>3 DEF AtPrint
  <2>3. (\E i, k \in Nat : /\ Passed(sent, pos, i) /\ k \in DOMAIN sent
                           /\ Counts(k) /\ AtPrint(i, k))'
    BY <1>2, <1>3, <1>4, <2>1, <2>2
  <2>. QED BY <1>1, <1>5, <1>9, <2>3 DEF Looping
<1>. QED BY <1>6, <1>7, <1>8, <1>9

\* A context reaches back over more dictionaries than are kept.
Excused ==
  \E i, j \in DOMAIN sent :
    i < j /\ j <= i + opt.before /\ DictsBetween(i, j) >= MaxDicts

LEMMA AlwaysAsWanted ==
  ASSUME LogInv, GrepTypeOK, Looping, ~opt.count
  PROVE  AsWanted
<1>1. opt \in Options /\ Len(sent) \in Nat /\ DOMAIN sent = 1..Len(sent)
  BY FileFacts DEF GrepTypeOK
<1>2. CASE loc \in {"outside", "dating"}
  <2>1. DOMAIN delivered = {}
    BY <1>2 DEF Looping, Fresh
  <2>. QED BY <2>1 DEF AsWanted
<1>3. CASE loc \in {"top", "parse"}
  <2>1. PICK n \in Nat : Passed(sent, pos, n) /\ Lists(delivered, Printed(n))
    BY <1>3 DEF Looping, AtTop, AtParse
  <2>. QED BY <1>1, <2>1, PassedBounds, PrintedAsWanted
<1>4. CASE loc = "print"
  <2>1. PICK m, n \in Nat :
          n \in DOMAIN sent /\ Lists(delivered, UpTo(Printed(n), m))
    BY <1>4 DEF Looping, AtPrint
  <2>. QED BY <1>1, <2>1, PrintedAsWanted
<1>5. CASE loc = "done"
  BY <1>1, <1>5, PrintedAsWanted DEF Looping
<1>6. CASE loc = "failed"
  BY <1>6 DEF Looping
<1>. QED BY <1>2, <1>3, <1>4, <1>5, <1>6 DEF GrepTypeOK

LEMMA LoopingFailed ==
  ASSUME LogInv, GrepTypeOK, Looping, Excused, loc' = "failed",
         UNCHANGED <<fileVars, opt, delivered, force>>
  PROVE  Looping'
<1>1. sent' = sent /\ file' = file
  BY DEF fileVars
<1>2. ContextReadable'
  <2>1. \A i, j : DictsBetween(i, j)' = DictsBetween(i, j)
    BY <1>1 DEF DictsBetween
  <2>2. PICK i, j \in DOMAIN sent :
          i < j /\ j <= i + opt.before /\ DictsBetween(i, j) >= MaxDicts
    BY DEF Excused
  <2>3. /\ i \in DOMAIN sent' /\ j \in DOMAIN sent'
        /\ i < j /\ j <= i + opt'.before /\ DictsBetween(i, j)' >= MaxDicts
    BY <1>1, <2>1, <2>2
  <2>. QED BY <2>3 DEF ContextReadable
<1>3. (~opt.count => AsWanted)'
  BY <1>1, AlwaysAsWanted, ListsKept
<1>4. (opt.count => force = 0)'
  BY DEF Looping
<1>. QED BY <1>2, <1>3, <1>4 DEF Looping

-----------------------------------------------------------------------------
(***************************************************************************)
(* C records and their numbers.                                            *)
(***************************************************************************)
LEMMA ClearsFacts ==
  ASSUME LogInv
  PROVE  /\ CRecs \subseteq DOMAIN file /\ CRecs \subseteq Nat
         /\ \A p \in Nat : Clears(p) \in Nat /\ Clears(p) = Cardinality(UpTo(CRecs, p))
         /\ \A p \in Nat : IF p + 1 \in CRecs THEN Clears(p + 1) = Clears(p) + 1
                           ELSE Clears(p + 1) = Clears(p)
         /\ Clears(0) = 0
<1>1. CRecs \subseteq DOMAIN file /\ CRecs \in SUBSET Nat
      /\ \A c \in CRecs : c >= 1
  BY FileFacts DEF CRecs
<1>2. ASSUME NEW p \in Nat
      PROVE  /\ Clears(p) \in Nat /\ Clears(p) = Cardinality(UpTo(CRecs, p))
             /\ IF p + 1 \in CRecs THEN Clears(p + 1) = Clears(p) + 1
                ELSE Clears(p + 1) = Clears(p)
  <2>1. \A q : Clears(q) = Cardinality(UpTo(CRecs, q))
    BY DEF Clears, UpTo
  <2>2. /\ Cardinality(UpTo(CRecs, p)) \in Nat
        /\ p + 1 \notin CRecs => UpTo(CRecs, p + 1) = UpTo(CRecs, p)
        /\ p + 1 \in CRecs =>
             Cardinality(UpTo(CRecs, p + 1)) = Cardinality(UpTo(CRecs, p)) + 1
    BY <1>1, UpToNext
  <2>. QED BY <2>1, <2>2
<1>3. Clears(0) = 0
  <2>1. {c \in CRecs : c <= 0} = {}
    <3>1. \A c \in CRecs : ~(c <= 0)
      BY <1>1
    <3>. QED BY <3>1
  <2>. QED BY <2>1, FS_EmptySet DEF Clears
<1>. QED BY <1>1, <1>2, <1>3

\* A later place has no fewer C records before it.
LEMMA ClearsGrow ==
  ASSUME LogInv, NEW p \in Nat, NEW q \in Nat, p <= q
  PROVE  /\ Clears(p) <= Clears(q)
         /\ q \in CRecs /\ p < q => Clears(p) < Clears(q)
<1>1. ASSUME NEW x \in Nat, NEW y \in Nat, x <= y
      PROVE  Clears(x) <= Clears(y)
  <2>1. UpTo(CRecs, x) \subseteq UpTo(CRecs, y)
    <3>1. \A c \in CRecs : c <= x => c <= y
      BY <1>1, ClearsFacts
    <3>. QED BY <3>1 DEF UpTo
  <2>2. IsFiniteSet(UpTo(CRecs, y))
    BY ClearsFacts, UpToNext
  <2>3. Cardinality(UpTo(CRecs, x)) <= Cardinality(UpTo(CRecs, y))
    BY <2>1, <2>2, FS_Subset
  <2>. QED BY <2>3, ClearsFacts
<1>2. Clears(p) <= Clears(q)
  BY <1>1
<1>3. ASSUME q \in CRecs, p < q
      PROVE  Clears(p) < Clears(q)
  <2>1. PICK o \in Nat : o + 1 = q /\ p <= o
    <3>1. q - 1 \in Nat /\ q - 1 + 1 = q /\ p <= q - 1
      BY <1>3
    <3>. QED BY <3>1
  <2>2. Clears(p) <= Clears(o)
    BY <1>1, <2>1
  <2>3. Clears(q) = Clears(o) + 1
    BY <1>3, <2>1, ClearsFacts
  <2>. QED BY <2>2, <2>3, ClearsFacts
<1>. QED BY <1>2, <1>3

\* Behind the C the file begins with there is always one.
LEMMA ClearsSome ==
  ASSUME LogInv, NEW p \in Nat, p >= 2
  PROVE  Clears(p) >= 1
<1>1. 2 \in CRecs
  BY FileFacts DEF CRecs, LogInv, Shape
<1>2. Clears(0) < Clears(2) /\ Clears(2) <= Clears(p)
  BY <1>1, ClearsGrow
<1>. QED BY <1>2, ClearsFacts

\* A C record and its number determine each other.
LEMMA NumberedUnique ==
  ASSUME LogInv, NEW x, NEW i, Numbered(x, i)
  PROVE  /\ i \in Nat /\ i >= 1
         /\ \A j : Numbered(x, j) => j = i
         /\ \A y : Numbered(y, i) => y = x
<1>1. PICK c \in CRecs : file[c].sor = x /\ Clears(c) = i
  BY DEF Numbered
<1>2. c \in Nat /\ c \in DOMAIN file /\ c >= 2
  <2>1. c \in DictRecs
    BY <1>1 DEF CRecs, DictRecs
  <2>. QED BY <2>1, ClearsFacts, DictRecsFacts
<1>3. i \in Nat /\ i >= 1
  BY <1>1, <1>2, ClearsFacts, ClearsSome
<1>4. ASSUME NEW j, Numbered(x, j)
      PROVE  j = i
  <2>1. PICK d \in CRecs : file[d].sor = x /\ Clears(d) = j
    BY <1>4 DEF Numbered
  <2>2. d = c
    BY <1>1, <1>2, <2>1, ClearsFacts, OneStart
  <2>. QED BY <1>1, <2>1, <2>2
<1>5. ASSUME NEW y, Numbered(y, i)
      PROVE  y = x
  <2>1. PICK d \in CRecs : file[d].sor = y /\ Clears(d) = i
    BY <1>5 DEF Numbered
  <2>2. d \in Nat
    BY ClearsFacts
  <2>3. ~(c < d) /\ ~(d < c)
    <3>1. c < d => Clears(c) < Clears(d)
      BY <1>2, <2>1, <2>2, ClearsGrow
    <3>2. d < c => Clears(d) < Clears(c)
      BY <1>1, <1>2, <2>2, ClearsGrow
    <3>3. Clears(c) \in Nat /\ Clears(d) \in Nat
      BY <1>2, <2>2, ClearsFacts
    <3>. QED BY <1>1, <2>1, <3>1, <3>2, <3>3
  <2>4. c = d
    BY <1>2, <2>2, <2>3
  <2>. QED BY <1>1, <2>1, <2>4
<1>. QED BY <1>3, <1>4, <1>5

Cached(i) == \E k \in DOMAIN dicts : Numbered(dicts[k].startPos, i)

\* Which numbers are cached, and that each is only once.
LEMMA RunsFacts ==
  ASSUME LogInv, CacheOK, NEW a \in Nat, NEW s \in Nat, NEW b \in Nat, Runs(a, s, b)
  PROVE  /\ Len(dicts) \in Nat /\ DOMAIN dicts = 1..Len(dicts) /\ s <= Len(dicts)
         /\ \A i \in Nat : Cached(i) <=>
              \/ a < i /\ i <= a + s
              \/ b < i /\ i <= b + Len(dicts) - s
         /\ \A k, l \in DOMAIN dicts :
              dicts[k].startPos = dicts[l].startPos => k = l
<1>1. Len(dicts) \in Nat /\ DOMAIN dicts = 1..Len(dicts) /\ s <= Len(dicts)
  BY DEF Runs, CacheOK, CacheOf
<1>2. ASSUME NEW k \in DOMAIN dicts
      PROVE  /\ k \in Nat /\ k >= 1 /\ k <= Len(dicts)
             /\ k <= s => Numbered(dicts[k].startPos, a + k)
             /\ k > s => Numbered(dicts[k].startPos, b + k - s)
  BY <1>1 DEF Runs
<1>3. s > 0 => a > b + Len(dicts) - s
  BY DEF Runs
<1>4. ASSUME NEW i \in Nat, Cached(i)
      PROVE  \/ a < i /\ i <= a + s
             \/ b < i /\ i <= b + Len(dicts) - s
  <2>1. PICK k \in DOMAIN dicts : Numbered(dicts[k].startPos, i)
    BY <1>4 DEF Cached
  <2>2. CASE k <= s
    <3>1. i = a + k
      BY <1>2, <2>1, <2>2, NumberedUnique
    <3>. QED BY <1>2, <2>2, <3>1
  <2>3. CASE k > s
    <3>1. i = b + k - s
      BY <1>2, <2>1, <2>3, NumberedUnique
    <3>. QED BY <1>1, <1>2, <2>3, <3>1
  <2>. QED BY <1>2, <2>2, <2>3
<1>5. ASSUME NEW i \in Nat, a < i, i <= a + s
      PROVE  Cached(i)
  <2>1. PICK k \in DOMAIN dicts : k = i - a
    BY <1>1, <1>5
  <2>2. k <= s /\ a + k = i
    BY <1>5, <2>1
  <2>. QED BY <1>2, <2>2 DEF Cached
<1>6. ASSUME NEW i \in Nat, b < i, i <= b + Len(dicts) - s
      PROVE  Cached(i)
  <2>1. PICK k \in DOMAIN dicts : k = i - b + s
    BY <1>1, <1>6
  <2>2. k > s /\ b + k - s = i
    BY <1>6, <2>1
  <2>3. Numbered(dicts[k].startPos, b + k - s)
    BY <1>2, <2>2
  <2>. QED BY <2>2, <2>3 DEF Cached
<1>7. ASSUME NEW k \in DOMAIN dicts, NEW l \in DOMAIN dicts,
             dicts[k].startPos = dicts[l].startPos
      PROVE  k = l
  <2>1. PICK m, n : /\ m = IF k <= s THEN a + k ELSE b + k - s
                    /\ n = IF l <= s THEN a + l ELSE b + l - s
    OBVIOUS
  <2>2. Numbered(dicts[k].startPos, m) /\ Numbered(dicts[l].startPos, n)
    BY <1>2, <2>1
  <2>3. m = n
    BY <1>7, <2>2, NumberedUnique
  <2>4. k \in Nat /\ l \in Nat /\ k <= Len(dicts) /\ l <= Len(dicts)
    BY <1>1
  <2>5. CASE k <= s /\ l <= s
    BY <1>1, <2>1, <2>3, <2>4, <2>5
  <2>6. CASE k > s /\ l > s
    BY <1>1, <2>1, <2>3, <2>4, <2>6
  <2>7. CASE k <= s /\ l > s
    BY <1>1, <1>3, <2>1, <2>3, <2>4, <2>7
  <2>8. CASE k > s /\ l <= s
    BY <1>1, <1>3, <2>1, <2>3, <2>4, <2>8
  <2>. QED BY <1>1, <2>4, <2>5, <2>6, <2>7, <2>8
<1>. QED BY <1>1, <1>4, <1>5, <1>6, <1>7

-----------------------------------------------------------------------------
(***************************************************************************)
(* The cache when a dictionary is begun.                                   *)
(***************************************************************************)
LEMMA OpenedIs ==
  ASSUME CacheOK, MaxDicts \in Nat \ {0}, Len(dicts) <= MaxDicts, NEW x \in Nat,
         dicts' = Opened(dicts, x, MaxDicts)
  PROVE  /\ Len(dicts) = MaxDicts =>
              /\ Len(dicts') = MaxDicts /\ dicts'[MaxDicts].startPos = x
              /\ \A k \in 1..(MaxDicts - 1) : dicts'[k] = dicts[k + 1]
         /\ Len(dicts) # MaxDicts =>
              /\ Len(dicts') = Len(dicts) + 1 /\ dicts'[Len(dicts) + 1].startPos = x
              /\ \A k \in 1..Len(dicts) : dicts'[k] = dicts[k]
<1>1. dicts \in Seq(DictRecord) /\ Len(dicts) \in Nat
  BY DEF CacheOK, CacheOf
<1>2. NewDict(x) \in DictRecord /\ NewDict(x).startPos = x
  BY DEF NewDict, DictRecord
<1>3. CASE Len(dicts) = MaxDicts
  <2>1. dicts # <<>>
    BY <1>3
  <2>2. PICK t : t = Tail(dicts)
    OBVIOUS
  <2>3. /\ t \in Seq(DictRecord) /\ Len(t) = MaxDicts - 1
        /\ \A k \in 1..(MaxDicts - 1) : t[k] = dicts[k + 1]
    BY <1>1, <1>3, <2>1, <2>2
  <2>4. dicts' = Append(t, NewDict(x))
    BY <1>3, <2>2 DEF Opened
  <2>5. /\ Len(dicts') = MaxDicts /\ dicts'[MaxDicts] = NewDict(x)
        /\ \A k \in 1..(MaxDicts - 1) : dicts'[k] = t[k]
    BY <1>2, <2>3, <2>4
  <2>. QED BY <1>2, <1>3, <2>3, <2>5
<1>4. CASE Len(dicts) # MaxDicts
  <2>1. dicts' = Append(dicts, NewDict(x))
    BY <1>4 DEF Opened
  <2>2. /\ Len(dicts') = Len(dicts) + 1 /\ dicts'[Len(dicts) + 1] = NewDict(x)
        /\ \A k \in 1..Len(dicts) : dicts'[k] = dicts[k]
    BY <1>1, <1>2, <2>1
  <2>. QED BY <1>2, <1>4, <2>2
<1>. QED BY <1>3, <1>4

\* What a run of the cache says is about the places of its dictionaries only.
LEMMA RunsMake ==
  ASSUME UNCHANGED file, Len(dicts') \in Nat, Len(dicts') <= MaxDicts,
         NEW a, NEW s \in Nat, NEW b, s <= Len(dicts'),
         \A k \in 1..s : Numbered(dicts'[k].startPos, a + k),
         \A k \in (s + 1)..Len(dicts') : Numbered(dicts'[k].startPos, b + k - s),
         s = 0 => Len(dicts') = MaxDicts \/ b = 0,
         s > 0 => /\ Len(dicts') = MaxDicts /\ s < MaxDicts
                  /\ a > b + Len(dicts') - s
  PROVE  Runs(a, s, b)'
<1>1. \A x, i : Numbered(x, i)' <=> Numbered(x, i)
  BY DEF Numbered, CRecs, Clears
<1>2. (\A k \in 1..s : Numbered(dicts[k].startPos, a + k))'
  BY <1>1
<1>3. (\A k \in (s + 1)..Len(dicts) : Numbered(dicts[k].startPos, b + k - s))'
  BY <1>1
<1>4. s \in 0..Len(dicts')
  OBVIOUS
<1>. QED BY <1>2, <1>3, <1>4 DEF Runs

LEMMA RunsKept ==
  ASSUME UNCHANGED file, CacheOK, Len(dicts') = Len(dicts),
         \A k \in DOMAIN dicts : dicts'[k].startPos = dicts[k].startPos,
         NEW a, NEW s, NEW b, Runs(a, s, b)
  PROVE  Runs(a, s, b)'
<1>1. Len(dicts) \in Nat /\ DOMAIN dicts = 1..Len(dicts) /\ s \in Nat
      /\ s <= Len(dicts)
  BY DEF Runs, CacheOK, CacheOf
<1>2. \A k \in 1..s : k \in DOMAIN dicts
  BY <1>1
<1>3. \A k \in (s + 1)..Len(dicts) : k \in DOMAIN dicts
  BY <1>1
<1>4. \A k \in 1..s : Numbered(dicts'[k].startPos, a + k)
  BY <1>2 DEF Runs
<1>5. \A k \in (s + 1)..Len(dicts') : Numbered(dicts'[k].startPos, b + k - s)
  BY <1>3 DEF Runs
<1>6. /\ s = 0 => Len(dicts') = MaxDicts \/ b = 0
      /\ s > 0 => /\ Len(dicts') = MaxDicts /\ s < MaxDicts
                  /\ a > b + Len(dicts') - s
      /\ Len(dicts') <= MaxDicts
  BY DEF Runs
<1>. QED BY <1>1, <1>4, <1>5, <1>6, RunsMake

\* The next dictionary after the newer run is begun.
LEMMA RunsLonger ==
  ASSUME LogInv, CacheOK, MaxDicts \in Nat \ {0}, UNCHANGED file,
         NEW a \in Nat, NEW s \in Nat, NEW b \in Nat, Runs(a, s, b),
         NEW x \in Nat, Numbered(x, b + Len(dicts) - s + 1),
         dicts' = Opened(dicts, x, MaxDicts)
  PROVE  /\ Len(dicts) = MaxDicts /\ s > 0 =>
              s - 1 \in Nat /\ Runs(a + 1, s - 1, b)' /\ Len(dicts') = Len(dicts)
         /\ Len(dicts) = MaxDicts /\ s = 0 =>
              Runs(0, 0, b + 1)' /\ Len(dicts') = Len(dicts)
         /\ Len(dicts) # MaxDicts =>
              s = 0 /\ b = 0 /\ Runs(0, 0, 0)' /\ Len(dicts') = Len(dicts) + 1
<1>1. /\ Len(dicts) \in Nat /\ Len(dicts) <= MaxDicts /\ s <= Len(dicts)
      /\ MaxDicts \in Nat /\ MaxDicts >= 1
      /\ s = 0 => Len(dicts) = MaxDicts \/ b = 0
      /\ s > 0 => Len(dicts) = MaxDicts /\ s < MaxDicts /\ a > b + Len(dicts) - s
  BY DEF Runs, CacheOK, CacheOf
<1>2. /\ \A k \in 1..s : Numbered(dicts[k].startPos, a + k)
      /\ \A k \in (s + 1)..Len(dicts) : Numbered(dicts[k].startPos, b + k - s)
  BY DEF Runs
<1>3. CASE Len(dicts) = MaxDicts
  <2>1. /\ Len(dicts') = MaxDicts /\ dicts'[MaxDicts].startPos = x
        /\ \A k \in 1..(MaxDicts - 1) : dicts'[k] = dicts[k + 1]
    BY <1>1, <1>3, OpenedIs
  <2>2. CASE s > 0
    <3>1. PICK r \in Nat : r = s - 1
      BY <2>2
    <3>2. ASSUME NEW k \in 1..r
          PROVE  Numbered(dicts'[k].startPos, a + 1 + k)
      <4>1. k \in 1..(MaxDicts - 1) /\ k + 1 \in 1..s /\ a + (k + 1) = a + 1 + k
        BY <1>1, <2>2, <3>1
      <4>2. Numbered(dicts[k + 1].startPos, a + (k + 1))
        BY <1>2, <4>1
      <4>. QED BY <2>1, <4>1, <4>2
    <3>3. ASSUME NEW k \in (r + 1)..MaxDicts
          PROVE  Numbered(dicts'[k].startPos, b + k - r)
      <4>1. CASE k = MaxDicts
        <5>1. b + k - r = b + Len(dicts) - s + 1
          BY <1>1, <1>3, <3>1, <4>1
        <5>. QED BY <2>1, <4>1, <5>1
      <4>2. CASE k # MaxDicts
        <5>1. /\ k \in 1..(MaxDicts - 1) /\ k + 1 \in (s + 1)..Len(dicts)
              /\ b + (k + 1) - s = b + k - r
          BY <1>1, <1>3, <2>2, <3>1, <4>2
        <5>2. Numbered(dicts[k + 1].startPos, b + (k + 1) - s)
          BY <1>2, <5>1
        <5>. QED BY <2>1, <5>1, <5>2
      <4>. QED BY <4>1, <4>2
    <3>4. PICK c \in Nat : c = a + 1
      OBVIOUS
    <3>5. Runs(c, r, b)'
      <4>1. /\ r <= Len(dicts') /\ Len(dicts') \in Nat /\ Len(dicts') <= MaxDicts
            /\ r = 0 => Len(dicts') = MaxDicts \/ b = 0
            /\ r > 0 => /\ Len(dicts') = MaxDicts /\ r < MaxDicts
                        /\ c > b + Len(dicts') - r
        BY <1>1, <1>3, <2>1, <2>2, <3>1, <3>4
      <4>. QED BY <2>1, <3>2, <3>3, <3>4, <4>1, RunsMake
    <3>. QED BY <1>3, <2>1, <2>2, <3>1, <3>4, <3>5
  <2>3. CASE s = 0
    <3>1. PICK c \in Nat : c = b + 1
      OBVIOUS
    <3>2. ASSUME NEW k \in 1..MaxDicts
          PROVE  Numbered(dicts'[k].startPos, c + k - 0)
      <4>1. CASE k = MaxDicts
        <5>1. c + k - 0 = b + Len(dicts) - s + 1
          BY <1>1, <1>3, <2>3, <3>1, <4>1
        <5>. QED BY <2>1, <4>1, <5>1
      <4>2. CASE k # MaxDicts
        <5>1. /\ k \in 1..(MaxDicts - 1) /\ k + 1 \in (s + 1)..Len(dicts)
              /\ b + (k + 1) - s = c + k - 0
          BY <1>1, <1>3, <2>3, <3>1, <4>2
        <5>2. Numbered(dicts[k + 1].startPos, b + (k + 1) - s)
          BY <1>2, <5>1
        <5>. QED BY <2>1, <5>1, <5>2
      <4>. QED BY <4>1, <4>2
    <3>3. Runs(0, 0, c)'
      <4>1. /\ 0 <= Len(dicts') /\ Len(dicts') \in Nat /\ Len(dicts') <= MaxDicts
            /\ Len(dicts') = MaxDicts
        BY <1>1, <2>1
      <4>2. \A k \in 1..0 : FALSE
        OBVIOUS
      <4>3. \A k \in (0 + 1)..Len(dicts') : Numbered(dicts'[k].startPos, c + k - 0)
        BY <2>1, <3>2
      <4>. QED BY <4>1, <4>2, <4>3, RunsMake
    <3>. QED BY <1>3, <2>1, <2>3, <3>1, <3>3
  <2>. QED BY <1>3, <2>2, <2>3
<1>4. CASE Len(dicts) # MaxDicts
  <2>1. /\ Len(dicts') = Len(dicts) + 1 /\ dicts'[Len(dicts) + 1].startPos = x
        /\ \A k \in 1..Len(dicts) : dicts'[k] = dicts[k]
    BY <1>1, <1>4, OpenedIs
  <2>2. s = 0 /\ b = 0
    BY <1>1, <1>4
  <2>3. ASSUME NEW k \in 1..(Len(dicts) + 1)
        PROVE  Numbered(dicts'[k].startPos, 0 + k - 0)
    <3>1. CASE k = Len(dicts) + 1
      <4>1. 0 + k - 0 = b + Len(dicts) - s + 1
        BY <1>1, <2>2, <3>1
      <4>. QED BY <2>1, <3>1, <4>1
    <3>2. CASE k # Len(dicts) + 1
      <4>1. k \in 1..Len(dicts) /\ k \in (s + 1)..Len(dicts)
            /\ b + k - s = 0 + k - 0
        BY <1>1, <2>2, <3>2
      <4>. QED BY <1>2, <2>1, <4>1
    <3>. QED BY <3>1, <3>2
  <2>4. Runs(0, 0, 0)'
    <3>1. 0 <= Len(dicts') /\ Len(dicts') \in Nat /\ Len(dicts') <= MaxDicts
      BY <1>1, <1>4, <2>1
    <3>2. \A k \in 1..0 : FALSE
      OBVIOUS
    <3>3. \A k \in (0 + 1)..Len(dicts') : Numbered(dicts'[k].startPos, 0 + k - 0)
      BY <2>1, <2>3
    <3>. QED BY <3>1, <3>2, <3>3, RunsMake
  <2>. QED BY <1>4, <2>1, <2>2, <2>4
<1>. QED BY <1>3, <1>4

\* A dictionary covers the place it begins at.
LEMMA Ordered ==
  ASSUME LogInv, NEW d \in DictRecord, TrueDict(DictRecs, file, known, d)
  PROVE  d.startPos \in Nat /\ d.lastDictPos \in Nat /\ d.startPos <= d.lastDictPos
<1>1. PICK i, j \in DictRecs :
        i <= j /\ file[i].sor = d.startPos /\ file[j].sor = d.lastDictPos
  BY DEF TrueDict
<1>2. i \in DOMAIN file /\ j \in DOMAIN file
  BY DictRecsFacts
<1>3. file[i].sor <= file[j].sor
  BY <1>1, <1>2, OneStart
<1>. QED BY <1>1, <1>3 DEF DictRecord

\* One before the only run is begun: the run is the older one then.
LEMMA RunsBegun ==
  ASSUME LogInv, CacheOK, MaxDicts \in Nat \ {0}, UNCHANGED file,
         NEW a \in Nat, NEW b \in Nat, Runs(a, 0, b), Len(dicts) = MaxDicts,
         NEW i \in Nat, i < b, NEW x \in Nat, Numbered(x, i + 1),
         dicts' = Opened(dicts, x, MaxDicts)
  PROVE  Runs(b + 1, MaxDicts - 1, i)' /\ Len(dicts') = MaxDicts
<1>1. \A k \in (0 + 1)..Len(dicts) : Numbered(dicts[k].startPos, b + k - 0)
  BY DEF Runs
<1>2. /\ Len(dicts') = MaxDicts /\ dicts'[MaxDicts].startPos = x
      /\ \A k \in 1..(MaxDicts - 1) : dicts'[k] = dicts[k + 1]
  BY OpenedIs
<1>3. PICK s \in Nat : s = MaxDicts - 1
  OBVIOUS
<1>4. PICK c \in Nat : c = b + 1
  OBVIOUS
<1>5. ASSUME NEW k \in 1..s
      PROVE  Numbered(dicts'[k].startPos, c + k)
  <2>1. /\ k \in 1..(MaxDicts - 1) /\ k + 1 \in (0 + 1)..Len(dicts)
        /\ b + (k + 1) - 0 = c + k
    BY <1>3, <1>4
  <2>2. Numbered(dicts[k + 1].startPos, b + (k + 1) - 0)
    BY <1>1, <2>1
  <2>. QED BY <1>2, <2>1, <2>2
<1>6. ASSUME NEW k \in (s + 1)..Len(dicts')
      PROVE  Numbered(dicts'[k].startPos, i + k - s)
  <2>1. k = MaxDicts /\ i + k - s = i + 1
    BY <1>2, <1>3
  <2>. QED BY <1>2, <2>1
<1>7. /\ s <= Len(dicts') /\ Len(dicts') \in Nat /\ Len(dicts') <= MaxDicts
      /\ s > 0 => Len(dicts') = MaxDicts /\ s < MaxDicts /\ c > i + Len(dicts') - s
  BY <1>2, <1>3, <1>4
<1>8. Runs(c, s, i)'
  BY <1>2, <1>5, <1>6, <1>7, RunsMake
<1>. QED BY <1>2, <1>3, <1>4, <1>8

\* A C record is taken for the dictionary of its number.
LEMMA ClearReads ==
  ASSUME LogInv, CacheOK, GrepTypeOK, ReadClear
  PROVE  /\ pos < Len(file) /\ pos + 1 \in CRecs
         /\ pos' = pos + 1 /\ UNCHANGED <<delivered, broken>>
         /\ file[pos + 1].sor \in Nat
         /\ Numbered(file[pos + 1].sor, Clears(pos) + 1)
         /\ Clears(pos + 1) = Clears(pos) + 1
         /\ IF Cached(Clears(pos) + 1) THEN dicts' = dicts
            ELSE dicts' = Opened(dicts, file[pos + 1].sor, MaxDicts)
<1>1. pos \in Nat /\ pos < Len(file) /\ file[pos + 1].kind = "C"
  BY DEF ReadClear, Ready, GrepTypeOK
<1>2. PICK c \in DOMAIN file : c = pos + 1
  BY <1>1, FileFacts
<1>3. c \in CRecs /\ file[c].kind = "C" /\ file[c].sor \in Nat /\ c \in DictRecs
  BY <1>1, <1>2, FileFacts DEF CRecs, DictRecs
<1>4. /\ ~ClearMismatch(dicts, file[c].sor)
      /\ AlreadyCleared(dicts, file[c].sor) <=> Search(dicts, file[c].sor) # 0
  BY <1>3, NoMismatch
<1>5. /\ dicts' = IF AlreadyCleared(dicts, file[c].sor) THEN dicts
                  ELSE Opened(dicts, file[c].sor, MaxDicts)
      /\ pos' = pos + 1 /\ UNCHANGED <<delivered, broken>>
  BY <1>2, <1>4 DEF ReadClear, Advance
<1>6. Clears(c) = Clears(pos) + 1 /\ Numbered(file[c].sor, Clears(c))
  BY <1>1, <1>2, <1>3, ClearsFacts DEF Numbered
<1>7. ASSUME Search(dicts, file[c].sor) # 0
      PROVE  Cached(Clears(c))
  <2>1. PICK k \in DOMAIN dicts : k = Search(dicts, file[c].sor)
    BY <1>3, <1>7, FoundCovers
  <2>2. dicts[k].startPos = file[c].sor
    BY <1>4, <1>7, <2>1 DEF AlreadyCleared
  <2>. QED BY <1>6, <2>2 DEF Cached
<1>8. ASSUME Cached(Clears(c))
      PROVE  Search(dicts, file[c].sor) # 0
  <2>1. PICK k \in DOMAIN dicts : Numbered(dicts[k].startPos, Clears(c))
    BY <1>8 DEF Cached
  <2>2. dicts[k].startPos = file[c].sor
    BY <1>6, <2>1, NumberedUnique
  <2>3. /\ dicts \in Seq(DictRecord) /\ dicts[k] \in DictRecord
        /\ TrueDict(DictRecs, file, known, dicts[k])
    BY DEF CacheOK, CacheOf
  <2>4. Includes(dicts[k], file[c].sor)
    BY <2>2, <2>3, Ordered DEF Includes
  <2>5. file[c].sor \in Int
    BY <1>3
  <2>6. \E j \in DOMAIN dicts : Includes(dicts[j], file[c].sor)
    BY <2>4
  <2>. QED BY <2>3, <2>5, <2>6, SearchFinds
<1>9. Cached(Clears(c)) <=> AlreadyCleared(dicts, file[c].sor)
  BY <1>4, <1>7, <1>8
<1>. QED BY <1>1, <1>2, <1>3, <1>5, <1>6, <1>9

-----------------------------------------------------------------------------
(***************************************************************************)
(* Reading on, and going back and reading again.                           *)
(***************************************************************************)
LEMMA RunsSizes ==
  ASSUME CacheOK, GrepTypeOK, NEW a \in Nat, NEW s \in Nat, NEW b \in Nat,
         Runs(a, s, b)
  PROVE  /\ Len(dicts) \in Nat /\ Len(dicts) <= MaxDicts /\ s <= Len(dicts)
         /\ MaxDicts \in Nat /\ MaxDicts >= 1
         /\ s = 0 => Len(dicts) = MaxDicts \/ b = 0
         /\ s > 0 => /\ Len(dicts) = MaxDicts /\ s < MaxDicts
                     /\ a > b + Len(dicts) - s
BY GrepAssumption DEF Runs, CacheOK, CacheOf

LEMMA ForwardClear ==
  ASSUME LogInv, CacheOK, GrepTypeOK, ReadClear, UNCHANGED file,
         NEW a \in Nat, NEW s \in Nat, NEW b \in Nat, Runs(a, s, b),
         Forward(s, b, Len(dicts), Clears(pos))
  PROVE  \E c, t, d \in Nat :
           Runs(c, t, d)' /\ Forward(t, d, Len(dicts'), Clears(pos) + 1)
<1>1. PICK i \in Nat : i = Clears(pos)
  BY ClearsFacts DEF GrepTypeOK
<1>2. /\ Len(dicts) \in Nat /\ Len(dicts) <= MaxDicts /\ s <= Len(dicts)
      /\ MaxDicts \in Nat /\ MaxDicts >= 1
      /\ s = 0 => Len(dicts) = MaxDicts \/ b = 0
      /\ s > 0 => /\ Len(dicts) = MaxDicts /\ s < MaxDicts
                  /\ a > b + Len(dicts) - s
  BY RunsSizes
<1>3. Cached(i + 1) <=> \/ a < i + 1 /\ i + 1 <= a + s
                        \/ b < i + 1 /\ i + 1 <= b + Len(dicts) - s
  BY RunsFacts
<1>4. PICK x \in Nat :
        /\ Numbered(x, i + 1)
        /\ IF Cached(i + 1) THEN dicts' = dicts
           ELSE dicts' = Opened(dicts, x, MaxDicts)
  BY <1>1, ClearReads
<1>5. PICK e \in Nat : e = b + Len(dicts) - s
  BY <1>2
<1>6. \/ i = 0 /\ s = 0
      \/ b = 0 /\ 1 <= i /\ i <= e
      \/ s = 0 /\ i = e
  BY <1>1, <1>5 DEF Forward
<1>7. CASE Cached(i + 1)
  <2>1. b = 0 /\ i + 1 \in 1..e
    BY <1>2, <1>3, <1>5, <1>6, <1>7
  <2>2. dicts' = dicts
    BY <1>4, <1>7
  <2>3. Runs(a, s, b)'
    BY <2>2, RunsKept
  <2>4. Forward(s, b, Len(dicts'), Clears(pos) + 1)
    BY <1>1, <1>5, <2>1, <2>2 DEF Forward
  <2>. QED BY <2>3, <2>4
<1>8. CASE ~Cached(i + 1)
  <2>1. dicts' = Opened(dicts, x, MaxDicts)
    BY <1>4, <1>8
  <2>2. CASE i = e
    <3>1. Numbered(x, b + Len(dicts) - s + 1)
      BY <1>4, <1>5, <2>2
    <3>2. /\ Len(dicts) = MaxDicts /\ s > 0 =>
               s - 1 \in Nat /\ Runs(a + 1, s - 1, b)' /\ Len(dicts') = Len(dicts)
          /\ Len(dicts) = MaxDicts /\ s = 0 =>
               Runs(0, 0, b + 1)' /\ Len(dicts') = Len(dicts)
          /\ Len(dicts) # MaxDicts =>
               s = 0 /\ b = 0 /\ Runs(0, 0, 0)' /\ Len(dicts') = Len(dicts) + 1
      BY <1>2, <2>1, <3>1, RunsLonger
    <3>3. CASE Len(dicts) = MaxDicts /\ s > 0
      <4>1. b = 0
        BY <1>6, <3>3
      <4>2. Forward(s - 1, b, Len(dicts'), i + 1)
        <5>1. i + 1 \in 1..(b + Len(dicts') - (s - 1))
          BY <1>2, <1>5, <2>2, <3>2, <3>3
        <5>. QED BY <4>1, <5>1 DEF Forward
      <4>3. a + 1 \in Nat /\ s - 1 \in Nat /\ b \in Nat /\ Runs(a + 1, s - 1, b)'
        BY <3>2, <3>3
      <4>. QED BY <1>1, <4>2, <4>3
    <3>4. CASE Len(dicts) = MaxDicts /\ s = 0
      <4>1. Forward(0, b + 1, Len(dicts'), i + 1)
        <5>1. i + 1 = b + 1 + Len(dicts') - 0
          BY <1>2, <1>5, <2>2, <3>2, <3>4
        <5>. QED BY <5>1 DEF Forward
      <4>2. 0 \in Nat /\ b + 1 \in Nat /\ Runs(0, 0, b + 1)'
        BY <3>2, <3>4
      <4>. QED BY <1>1, <4>1, <4>2
    <3>5. CASE Len(dicts) # MaxDicts
      <4>1. Forward(0, 0, Len(dicts'), i + 1)
        <5>1. i + 1 = 0 + Len(dicts') - 0
          BY <1>2, <1>5, <2>2, <3>2, <3>5
        <5>. QED BY <5>1 DEF Forward
      <4>2. 0 \in Nat /\ Runs(0, 0, 0)'
        BY <3>2, <3>5
      <4>. QED BY <1>1, <4>1, <4>2
    <3>. QED BY <1>2, <3>3, <3>4, <3>5
  <2>3. CASE i # e
    <3>1. i = 0 /\ s = 0 /\ i < b /\ Len(dicts) = MaxDicts
      BY <1>2, <1>3, <1>5, <1>6, <1>8, <2>3
    <3>2. Runs(b + 1, MaxDicts - 1, i)' /\ Len(dicts') = MaxDicts
      BY <1>2, <1>4, <2>1, <3>1, RunsBegun
    <3>3. Forward(MaxDicts - 1, i, Len(dicts'), i + 1)
      <4>1. i = 0 /\ i + 1 \in 1..(i + Len(dicts') - (MaxDicts - 1))
        BY <1>2, <3>1, <3>2
      <4>. QED BY <4>1 DEF Forward
    <3>4. b + 1 \in Nat /\ MaxDicts - 1 \in Nat
      BY <1>2
    <3>. QED BY <1>1, <3>2, <3>3, <3>4
  <2>. QED BY <2>2, <2>3
<1>. QED BY <1>7, <1>8

LEMMA BackwardClear ==
  ASSUME LogInv, CacheOK, GrepTypeOK, ReadClear, UNCHANGED file,
         NEW a \in Nat, NEW s \in Nat, NEW b \in Nat, Runs(a, s, b),
         NEW f \in Nat, Clears(pos) + 1 <= f,
         Backward(a, s, b, Len(dicts), Clears(pos), f)
  PROVE  \E c, t, d \in Nat :
           /\ Runs(c, t, d)'
           /\ Backward(c, t, d, Len(dicts'), Clears(pos) + 1, f)
<1>1. PICK i \in Nat : i = Clears(pos)
  BY ClearsFacts DEF GrepTypeOK
<1>2. /\ Len(dicts) \in Nat /\ Len(dicts) <= MaxDicts /\ s <= Len(dicts)
      /\ MaxDicts \in Nat /\ MaxDicts >= 1
      /\ s = 0 => Len(dicts) = MaxDicts \/ b = 0
      /\ s > 0 => /\ Len(dicts) = MaxDicts /\ s < MaxDicts
                  /\ a > b + Len(dicts) - s
  BY RunsSizes
<1>3. Cached(i + 1) <=> \/ a < i + 1 /\ i + 1 <= a + s
                        \/ b < i + 1 /\ i + 1 <= b + Len(dicts) - s
  BY RunsFacts
<1>4. PICK x \in Nat :
        /\ Numbered(x, i + 1)
        /\ IF Cached(i + 1) THEN dicts' = dicts
           ELSE dicts' = Opened(dicts, x, MaxDicts)
  BY <1>1, ClearReads
<1>5. PICK e \in Nat : e = b + Len(dicts) - s
  <2>1. Len(dicts) \in Nat /\ s <= Len(dicts)
    BY <1>2
  <2>2. b + Len(dicts) - s \in Nat
    BY <2>1
  <2>. QED BY <2>2
<1>6. /\ i + 1 <= f
      /\ \/ b = 0 /\ 1 <= f /\ f <= e
         \/ s = 0 /\ e = f
         \/ Len(dicts) = MaxDicts /\ i = e /\ (s > 0 => a + s = f)
  BY <1>1, <1>5 DEF Backward
<1>7. CASE Cached(i + 1)
  <2>1. dicts' = dicts
    BY <1>4, <1>7
  <2>2. Runs(a, s, b)'
    BY <2>1, RunsKept
  <2>3. \/ b = 0 /\ f \in 1..e
        \/ s = 0 /\ e = f
    BY <1>2, <1>3, <1>5, <1>6, <1>7
  <2>4. Backward(a, s, b, Len(dicts'), Clears(pos) + 1, f)
    BY <1>1, <1>5, <1>6, <2>1, <2>3 DEF Backward
  <2>. QED BY <2>2, <2>4
<1>8. CASE ~Cached(i + 1)
  <2>1. dicts' = Opened(dicts, x, MaxDicts)
    BY <1>4, <1>8
  <2>2. CASE i = e /\ Len(dicts) = MaxDicts /\ (s > 0 => a + s = f)
    <3>1. Numbered(x, b + Len(dicts) - s + 1)
      BY <1>4, <1>5, <2>2
    <3>2. /\ Len(dicts) = MaxDicts /\ s > 0 =>
               s - 1 \in Nat /\ Runs(a + 1, s - 1, b)' /\ Len(dicts') = Len(dicts)
          /\ Len(dicts) = MaxDicts /\ s = 0 =>
               Runs(0, 0, b + 1)' /\ Len(dicts') = Len(dicts)
      BY <1>2, <2>1, <3>1, RunsLonger
    <3>3. CASE s > 0
      <4>1. Backward(a + 1, s - 1, b, Len(dicts'), i + 1, f)
        <5>1. /\ i + 1 <= f /\ Len(dicts') = MaxDicts
              /\ i + 1 = b + Len(dicts') - (s - 1)
              /\ (a + 1) + (s - 1) = f
          BY <1>2, <1>5, <1>6, <2>2, <3>2, <3>3
        <5>. QED BY <5>1 DEF Backward
      <4>2. a + 1 \in Nat /\ s - 1 \in Nat /\ b \in Nat /\ Runs(a + 1, s - 1, b)'
        BY <2>2, <3>2, <3>3
      <4>. QED BY <1>1, <4>1, <4>2
    <3>4. CASE s = 0
      <4>1. Backward(0, 0, b + 1, Len(dicts'), i + 1, f)
        <5>1. /\ i + 1 <= f /\ Len(dicts') = MaxDicts
              /\ i + 1 = b + 1 + Len(dicts') - 0
          BY <1>2, <1>5, <1>6, <2>2, <3>2, <3>4
        <5>. QED BY <5>1 DEF Backward
      <4>2. 0 \in Nat /\ b + 1 \in Nat /\ Runs(0, 0, b + 1)'
        BY <2>2, <3>2, <3>4
      <4>. QED BY <1>1, <4>1, <4>2
    <3>. QED BY <3>3, <3>4
  <2>3. CASE ~(i = e /\ Len(dicts) = MaxDicts /\ (s > 0 => a + s = f))
    <3>1. s = 0 /\ e = f /\ i < b /\ Len(dicts) = MaxDicts
      BY <1>2, <1>3, <1>5, <1>6, <1>8, <2>3
    <3>2. Runs(b + 1, MaxDicts - 1, i)' /\ Len(dicts') = MaxDicts
      <4>1. /\ Runs(a, 0, b) /\ Numbered(x, i + 1) /\ i < b
            /\ MaxDicts \in Nat \ {0} /\ Len(dicts) = MaxDicts
        BY <1>2, <1>4, <3>1
      <4>. QED BY <2>1, <4>1, RunsBegun
    <3>3. Backward(b + 1, MaxDicts - 1, i, Len(dicts'), i + 1, f)
      <4>1. /\ i + 1 <= f /\ Len(dicts') = MaxDicts
            /\ i + 1 = i + Len(dicts') - (MaxDicts - 1)
            /\ (b + 1) + (MaxDicts - 1) = f
        BY <1>2, <1>5, <1>6, <3>1, <3>2
      <4>. QED BY <4>1 DEF Backward
    <3>4. b + 1 \in Nat /\ MaxDicts - 1 \in Nat
      BY <1>2
    <3>. QED BY <1>1, <3>2, <3>3, <3>4
  <2>. QED BY <2>2, <2>3
<1>. QED BY <1>7, <1>8


-----------------------------------------------------------------------------
(***************************************************************************)
(* What the cached dictionaries cover.                                     *)
(***************************************************************************)
\* What reading an A record does, when it does not fail.
LEMMA AddReads ==
  ASSUME LogInv, CacheOK, GrepTypeOK, ReadAdd, ~broken', UNCHANGED fileVars
  PROVE  /\ pos < Len(file) /\ file[pos + 1].kind = "A" /\ pos + 1 \in DictRecs
         /\ Len(dicts') = Len(dicts) /\ DOMAIN dicts' = DOMAIN dicts
         /\ \A k \in DOMAIN dicts :
              /\ dicts'[k].startPos = dicts[k].startPos
              /\ \A x \in Nat : Includes(dicts[k], x) => Includes(dicts'[k], x)
         /\ \E t \in DictRecs, i \in DOMAIN dicts :
              /\ Nearest(DictRecs, t, pos + 1)
              /\ Includes(dicts[i], file[t].sor)
              /\ Includes(dicts'[i], file[pos + 1].sor)
<1>1. /\ pos \in Nat /\ pos < Len(file) /\ file[pos + 1].kind = "A"
      /\ dicts \in Seq(DictRecord)
  BY DEF ReadAdd, Ready, GrepTypeOK, CacheOK, CacheOf
<1>2. PICK r \in DOMAIN file : r = pos + 1
  BY <1>1, FileFacts
<1>3. r \in DictRecs /\ file[r].sor \in Nat /\ r \in Nat /\ file[r].kind = "A"
  BY <1>1, <1>2, DictRecsFacts, FileFacts
<1>4. PICK t \in DictRecs :
        /\ Nearest(DictRecs, t, r)
        /\ file[r].sor - file[r].backref = file[t].sor
  BY <1>3, BackrefLands
<1>5. PICK i : i = Search(dicts, file[t].sor)
  OBVIOUS
<1>6. IF i = 0 THEN Throw
      ELSE dicts' = IF Includes(dicts[i], file[r].sor) THEN dicts
                    ELSE [dicts EXCEPT ![i] = AddAll(dicts[i], file[r].sor,
                                                     file[r].content)]
  BY <1>2, <1>4, <1>5 DEF ReadAdd
<1>7. i # 0
  BY <1>6 DEF Throw
<1>8. /\ i \in DOMAIN dicts /\ dicts[i] \in DictRecord
      /\ Includes(dicts[i], file[t].sor)
  BY <1>5, <1>7, FoundCovers
<1>9. t \in DOMAIN file /\ t < r /\ file[t].sor < file[r].sor
      /\ file[t].sor \in Nat
  <2>1. t \in DOMAIN file /\ t < r
    BY <1>4, DictRecsFacts DEF Nearest
  <2>. QED BY <1>2, <2>1, OneStart, FileFacts
<1>10. CASE Includes(dicts[i], file[r].sor)
  <2>1. dicts' = dicts
    BY <1>6, <1>7, <1>10
  <2>. QED BY <1>1, <1>2, <1>3, <1>4, <1>8, <1>10, <2>1
<1>11. CASE ~Includes(dicts[i], file[r].sor)
  <2>1. PICK e : e = AddAll(dicts[i], file[r].sor, file[r].content)
    OBVIOUS
  <2>2. dicts' = [dicts EXCEPT ![i] = e]
    BY <1>6, <1>7, <1>11, <2>1
  <2>3. file[r].content # <<>>
    BY <1>2, <1>3 DEF LogInv, Shape
  <2>4. e.startPos = dicts[i].startPos /\ e.lastDictPos = file[r].sor
    BY <1>8, <2>1, <2>3 DEF AddAll, DictRecord
  <2>5. dicts[i].startPos \in Nat /\ dicts[i].lastDictPos \in Nat
    BY <1>8 DEF DictRecord
  <2>6. /\ dicts[i].startPos <= file[r].sor
        /\ dicts[i].lastDictPos < file[r].sor
    BY <1>3, <1>8, <1>9, <1>11, <2>5 DEF Includes
  <2>7. Len(dicts') = Len(dicts) /\ DOMAIN dicts' = DOMAIN dicts
    BY <1>1, <2>2
  <2>8. dicts'[i] = e /\ \A k \in DOMAIN dicts : k # i => dicts'[k] = dicts[k]
    BY <1>1, <1>8, <2>2
  <2>9. ASSUME NEW x \in Nat, Includes(dicts[i], x)
        PROVE  Includes(e, x)
    BY <1>3, <2>4, <2>5, <2>6, <2>9 DEF Includes
  <2>10. Includes(e, file[r].sor)
    BY <1>3, <2>4, <2>6 DEF Includes
  <2>11. ASSUME NEW k \in DOMAIN dicts
         PROVE  /\ dicts'[k].startPos = dicts[k].startPos
                /\ \A x \in Nat : Includes(dicts[k], x) => Includes(dicts'[k], x)
    <3>1. CASE k = i
      BY <2>4, <2>8, <2>9, <3>1
    <3>2. CASE k # i
      <4>1. dicts'[k] = dicts[k]
        BY <2>8, <3>2
      <4>. QED BY <4>1
    <3>. QED BY <3>1, <3>2
  <2>. QED BY <1>1, <1>2, <1>3, <1>4, <1>8, <2>7, <2>8, <2>10, <2>11
<1>. QED BY <1>10, <1>11

\* Wherever records are read, the cache is made of runs.
LEMMA AlwaysRuns ==
  ASSUME LogInv, GrepTypeOK, Looping, Caching, loc \notin {"done", "failed"}
  PROVE  \E a, s, b \in Nat : Runs(a, s, b)
<1>1. CASE loc = "print"
  <2>1. PICK m, n \in Nat : /\ Passed(sent, pos, m) /\ n \in DOMAIN sent
                            /\ AtPrint(m, n)
    BY <1>1 DEF Looping
  <2>2. n - due = m
    BY <2>1 DEF AtPrint, GrepTypeOK
  <2>3. PICK q \in DOMAIN file : sent[n].sor = file[q].sor
    BY <2>1, SentAt
  <2>. QED BY <1>1, <2>1, <2>2, <2>3 DEF Caching
<1>2. CASE loc # "print"
  BY <1>2 DEF Caching, GrepTypeOK
<1>. QED BY <1>1, <1>2

\* A record further on that is not for a dictionary.
LEMMA CoveringPassed ==
  ASSUME LogInv, GrepTypeOK, Covering, UNCHANGED file, UNCHANGED dicts,
         pos' = pos + 1, pos + 1 \notin DictRecs
  PROVE  Covering'
<1>1. ASSUME NEW k \in DOMAIN dicts, NEW c \in CRecs, NEW t \in DictRecs,
             file[c].sor = dicts[k].startPos, c <= t, t <= pos + 1,
             NoClear(file, c, t)
      PROVE  Includes(dicts[k], file[t].sor)
  <2>1. t \in Nat /\ pos \in Nat /\ t # pos + 1
    BY DictRecsFacts DEF GrepTypeOK
  <2>2. t <= pos
    BY <1>1, <2>1
  <2>. QED BY <1>1, <2>2 DEF Covering
<1>. QED BY <1>1 DEF Covering, CRecs, DictRecs

LEMMA CoveringBack ==
  ASSUME LogInv, GrepTypeOK, Covering, UNCHANGED file, UNCHANGED dicts,
         pos' \in Nat, pos' <= pos
  PROVE  Covering'
<1>1. ASSUME NEW t \in DictRecs, t <= pos'
      PROVE  t <= pos
  <2>1. t \in Nat /\ pos \in Nat
    BY DictRecsFacts DEF GrepTypeOK
  <2>. QED BY <1>1, <2>1
<1>. QED BY <1>1 DEF Covering, CRecs, DictRecs

\* Nothing lies between a C record and itself.
LEMMA SameClear ==
  ASSUME LogInv, NEW c \in CRecs, NEW t \in CRecs, c <= t, NoClear(file, c, t)
  PROVE  c = t
<1>1. /\ c \in Nat /\ t \in Nat /\ t \in DOMAIN file /\ file[t].kind = "C"
  BY ClearsFacts DEF CRecs
<1>2. ~(c < t)
  BY <1>1 DEF NoClear
<1>. QED BY <1>1, <1>2

LEMMA CoveringClear ==
  ASSUME LogInv, CacheOK, GrepTypeOK, Covering, ReadClear, UNCHANGED fileVars,
         NEW a \in Nat, NEW s \in Nat, NEW b \in Nat, Runs(a, s, b)
  PROVE  Covering'
<1>1. /\ pos \in Nat /\ pos <= Len(file) /\ MaxDicts \in Nat \ {0}
      /\ file' = file
  BY GrepAssumption DEF GrepTypeOK, fileVars
<1>2. /\ pos + 1 \in CRecs /\ pos' = pos + 1 /\ file[pos + 1].sor \in Nat
      /\ dicts' = dicts \/ dicts' = Opened(dicts, file[pos + 1].sor, MaxDicts)
  BY ClearReads
<1>3. CacheOK'
  BY <1>1, ReadClearKeeps
<1>4. PICK r \in CRecs : r = pos + 1
  BY <1>2
<1>5. r \in DOMAIN file /\ r \in Nat
  BY <1>4, ClearsFacts
<1>6. Len(dicts) <= MaxDicts /\ Len(dicts) \in Nat /\ DOMAIN dicts = 1..Len(dicts)
  BY RunsFacts DEF Runs
<1>7. DOMAIN dicts' = 1..Len(dicts')
  BY <1>3 DEF CacheOK, CacheOf
<1>8. ASSUME NEW k \in DOMAIN dicts'
      PROVE  \/ \E j \in DOMAIN dicts : dicts'[k] = dicts[j]
             \/ dicts'[k].startPos = file[r].sor
  <2>1. CASE dicts' = dicts
    BY <2>1
  <2>2. CASE dicts' = Opened(dicts, file[r].sor, MaxDicts)
    <3>1. /\ Len(dicts) = MaxDicts =>
              /\ Len(dicts') = MaxDicts /\ dicts'[MaxDicts].startPos = file[r].sor
              /\ \A j \in 1..(MaxDicts - 1) : dicts'[j] = dicts[j + 1]
          /\ Len(dicts) # MaxDicts =>
              /\ Len(dicts') = Len(dicts) + 1
              /\ dicts'[Len(dicts) + 1].startPos = file[r].sor
              /\ \A j \in 1..Len(dicts) : dicts'[j] = dicts[j]
      <4>1. file[r].sor \in Nat
        BY <1>2, <1>4
      <4>. QED BY <1>1, <1>6, <2>2, <4>1, OpenedIs
    <3>2. CASE Len(dicts) = MaxDicts
      <4>1. k \in 1..MaxDicts
        BY <1>7, <3>1, <3>2
      <4>2. CASE k = MaxDicts
        BY <3>1, <3>2, <4>2
      <4>3. CASE k # MaxDicts
        <5>1. k \in 1..(MaxDicts - 1) /\ k + 1 \in DOMAIN dicts
          BY <1>1, <1>6, <3>2, <4>1, <4>3
        <5>. QED BY <3>1, <3>2, <5>1
      <4>. QED BY <4>2, <4>3
    <3>3. CASE Len(dicts) # MaxDicts
      <4>1. k \in 1..(Len(dicts) + 1)
        BY <1>7, <3>1, <3>3
      <4>2. CASE k = Len(dicts) + 1
        BY <3>1, <3>3, <4>2
      <4>3. CASE k # Len(dicts) + 1
        <5>1. k \in 1..Len(dicts) /\ k \in DOMAIN dicts
          BY <1>6, <4>1, <4>3
        <5>. QED BY <3>1, <3>3, <5>1
      <4>. QED BY <4>2, <4>3
    <3>. QED BY <3>2, <3>3
  <2>. QED BY <1>2, <1>4, <2>1, <2>2
<1>9. ASSUME NEW k \in DOMAIN dicts', NEW c \in CRecs, NEW t \in DictRecs,
             file[c].sor = dicts'[k].startPos, c <= t, t <= r,
             NoClear(file, c, t)
      PROVE  Includes(dicts'[k], file[t].sor)
  <2>1. t \in Nat /\ c \in Nat /\ c \in DOMAIN file
    BY DictRecsFacts, ClearsFacts
  <2>2. CASE t = r
    <3>1. c = t
      BY <1>9, <2>2, SameClear
    <3>2. /\ dicts'[k] \in DictRecord
          /\ TrueDict(DictRecs, file, known, dicts'[k])
      BY <1>1, <1>3, <1>9 DEF CacheOK, CacheOf, DictRecs, fileVars
    <3>3. /\ dicts'[k].startPos \in Nat /\ dicts'[k].lastDictPos \in Nat
          /\ dicts'[k].startPos <= dicts'[k].lastDictPos
      BY <3>2, Ordered
    <3>. QED BY <1>9, <3>1, <3>3 DEF Includes
  <2>3. CASE t # r
    <3>1. t <= pos /\ c # r
      BY <1>1, <1>4, <1>9, <2>1, <2>3
    <3>2. file[c].sor # file[r].sor
      BY <1>5, <2>1, <3>1, OneStart
    <3>3. PICK j \in DOMAIN dicts : dicts'[k] = dicts[j]
      BY <1>8, <1>9, <3>2
    <3>. QED BY <1>9, <3>1, <3>3 DEF Covering
  <2>. QED BY <2>2, <2>3
<1>10. pos' = r
  BY <1>2, <1>4
<1>. QED BY <1>1, <1>9, <1>10 DEF Covering, CRecs, DictRecs

LEMMA CoveringAdd ==
  ASSUME LogInv, CacheOK, GrepTypeOK, Covering, ReadAdd, ~broken',
         UNCHANGED fileVars, pos' = pos + 1,
         NEW a \in Nat, NEW s \in Nat, NEW b \in Nat, Runs(a, s, b)
  PROVE  Covering'
<1>1. pos \in Nat /\ file' = file
  BY DEF GrepTypeOK, fileVars
<1>2. /\ pos < Len(file) /\ file[pos + 1].kind = "A" /\ pos + 1 \in DictRecs
      /\ DOMAIN dicts' = DOMAIN dicts
      /\ \A k \in DOMAIN dicts :
           /\ dicts'[k].startPos = dicts[k].startPos
           /\ \A x \in Nat : Includes(dicts[k], x) => Includes(dicts'[k], x)
  BY AddReads
<1>3. PICK u \in DictRecs, i \in DOMAIN dicts :
        /\ Nearest(DictRecs, u, pos + 1)
        /\ Includes(dicts[i], file[u].sor)
        /\ Includes(dicts'[i], file[pos + 1].sor)
  BY AddReads
<1>4. PICK r \in DictRecs : r = pos + 1
  BY <1>2
<1>5. r \in DOMAIN file /\ r \in Nat /\ file[r].kind = "A"
  BY <1>2, <1>4, DictRecsFacts
<1>6. PICK l, e \in DictRecs :
        /\ l <= u /\ u <= e
        /\ file[l].kind = "C" /\ file[l].sor = dicts[i].startPos
        /\ NoClear(file, l, e)
  <2>1. dicts[i] \in DictRecord /\ TrueDict(DictRecs, file, known, dicts[i])
    BY <1>3 DEF CacheOK, CacheOf
  <2>. QED BY <1>3, <2>1, Covers
<1>7. /\ l \in Nat /\ l \in DOMAIN file /\ e \in Nat /\ u \in Nat /\ u < r
  BY <1>3, <1>4, <1>6, DictRecsFacts, FileFacts DEF Nearest
<1>8. ASSUME NEW k \in DOMAIN dicts, NEW c \in CRecs, NEW t \in DictRecs,
             file[c].sor = dicts[k].startPos, c <= t, t <= r,
             NoClear(file, c, t)
      PROVE  Includes(dicts'[k], file[t].sor)
  <2>1. /\ t \in Nat /\ c \in Nat /\ c \in DOMAIN file /\ file[c].kind = "C"
        /\ t \in DOMAIN file /\ c \in DictRecs
    BY DictRecsFacts, ClearsFacts DEF CRecs
  <2>2. CASE t = r
    <3>1. c < r
      <4>1. c # r
        BY <1>5, <2>1
      <4>. QED BY <1>5, <1>8, <2>1, <2>2, <4>1
    <3>2. c <= u
      BY <1>3, <1>4, <2>1, <3>1 DEF Nearest
    <3>3. ~(l < c)
      <4>1. c <= e
        BY <1>6, <1>7, <2>1, <3>2
      <4>. QED BY <1>6, <2>1, <4>1 DEF NoClear
    <3>4. ~(c < l)
      <4>1. l <= t
        BY <1>6, <1>7, <2>1, <2>2
      <4>. QED BY <1>6, <1>7, <1>8, <4>1 DEF NoClear
    <3>5. c = l
      BY <1>7, <2>1, <3>3, <3>4
    <3>6. k = i
      BY <1>6, <1>8, <3>5, RunsFacts
    <3>. QED BY <1>3, <1>4, <2>2, <3>6
  <2>3. CASE t # r
    <3>1. t <= pos
      BY <1>1, <1>4, <1>8, <2>1, <2>3
    <3>2. Includes(dicts[k], file[t].sor) /\ file[t].sor \in Nat
      BY <1>8, <2>1, <3>1, FileFacts DEF Covering
    <3>. QED BY <1>2, <3>2
  <2>. QED BY <2>2, <2>3
<1>9. ASSUME NEW k \in DOMAIN dicts', NEW c \in CRecs, NEW t \in DictRecs,
             file[c].sor = dicts'[k].startPos, c <= t, t <= pos',
             NoClear(file, c, t)
      PROVE  Includes(dicts'[k], file[t].sor)
  <2>1. k \in DOMAIN dicts /\ dicts'[k].startPos = dicts[k].startPos /\ t <= r
    BY <1>2, <1>4, <1>9
  <2>. QED BY <1>8, <1>9, <2>1
<1>. QED BY <1>1, <1>9 DEF Covering, CRecs, DictRecs

-----------------------------------------------------------------------------
(***************************************************************************)
(* Every step keeps what the cache holds.                                  *)
(***************************************************************************)
LEMMA RunsEmpty ==
  LogInv /\ dicts = <<>> => Runs(0, 0, 0) /\ Clears(0) = 0 /\ Len(dicts) = 0
<1>1. SUFFICES ASSUME LogInv, dicts = <<>>
               PROVE  Runs(0, 0, 0) /\ Clears(0) = 0 /\ Len(dicts) = 0
  OBVIOUS
<1>2. Len(dicts) = 0 /\ MaxDicts \in Nat
  <2>1. Len(<<>>) = 0
    OBVIOUS
  <2>. QED BY <1>1, <2>1, GrepAssumption
<1>3. \A k : ~(k \in 1..0) /\ ~(k \in (0 + 1)..0)
  OBVIOUS
<1>. QED BY <1>1, <1>2, <1>3, ClearsFacts DEF Runs

LEMMA CachingWrite ==
  ASSUME LogInv', Looping, Write
  PROVE  Caching'
<1>1. /\ loc = "outside" /\ loc' = "outside" /\ dicts' = <<>> /\ pos' = 0
  BY DEF Write, Looping, readerVars, grepVars
<1>2. (LogInv /\ dicts = <<>>)' => (Runs(0, 0, 0) /\ Clears(0) = 0 /\ Len(dicts) = 0)'
  BY RunsEmpty, PTL
<1>. QED BY <1>1, <1>2 DEF Caching, Forward

\* Steps that leave the cache alone.
LEMMA RunsStay ==
  ASSUME LogInv, CacheOK, UNCHANGED <<file, dicts>>
  PROVE  /\ \A a, s, b : Runs(a, s, b) => Runs(a, s, b)'
         /\ \A p : Clears(p)' = Clears(p)
<1>1. \A p : Clears(p)' = Clears(p)
  BY DEF Clears, CRecs
<1>2. ASSUME NEW a, NEW s, NEW b, Runs(a, s, b)
      PROVE  Runs(a, s, b)'
  <2>1. \A k \in DOMAIN dicts : dicts'[k].startPos = dicts[k].startPos
    OBVIOUS
  <2>. QED BY <1>2, <2>1, RunsKept
<1>. QED BY <1>1, <1>2

LEMMA CachingStart ==
  ASSUME LogInv, CacheOK, Looping, Caching, Start
  PROVE  Caching'
<1>1. /\ loc = "outside" /\ loc' \in {"dating", "top"} /\ dicts = <<>> /\ pos = 0
      /\ UNCHANGED <<file, dicts, pos>>
  BY DEF Start, Looping, readerVars, fileVars
<1>2. Runs(0, 0, 0) /\ Clears(0) = 0 /\ Len(dicts) = 0
  BY <1>1, RunsEmpty
<1>3. Runs(0, 0, 0)' /\ Clears(0)' = 0
  BY <1>1, <1>2, RunsStay
<1>4. Len(dicts') = 0 /\ Clears(pos)' = 0
  BY <1>1, <1>2, <1>3
<1>. QED BY <1>1, <1>3, <1>4 DEF Caching, Forward

LEMMA CachingTop ==
  ASSUME LogInv, CacheOK, Caching, Top
  PROVE  Caching'
<1>1. /\ loc = "top" /\ loc' = "parse" /\ UNCHANGED <<file, dicts, pos>>
  BY DEF Top, readerVars, fileVars
<1>2. PICK a, s, b \in Nat :
        Runs(a, s, b) /\ Forward(s, b, Len(dicts), Clears(pos))
  BY <1>1 DEF Caching
<1>3. Runs(a, s, b)' /\ Clears(pos)' = Clears(pos)
  BY <1>1, <1>2, RunsStay
<1>4. Forward(s, b, Len(dicts), Clears(pos))'
  BY <1>1, <1>2, <1>3 DEF Forward
<1>. QED BY <1>1, <1>3, <1>4 DEF Caching

LEMMA CachingDateRecord ==
  ASSUME LogInv, CacheOK, GrepTypeOK, Caching, DateRecord
  PROVE  Caching'
<1>1. /\ loc = "dating" /\ loc' = "dating" /\ UNCHANGED <<file, dicts>>
      /\ pos' = pos + 1 /\ pos \in Nat /\ file[pos + 1].kind = "V"
  BY DEF DateRecord, Advance, fileVars, GrepTypeOK, Matching, Ready
<1>2. pos + 1 \notin CRecs
  BY <1>1 DEF CRecs
<1>3. Clears(pos + 1) = Clears(pos)
  BY <1>1, <1>2, ClearsFacts
<1>4. Clears(pos)' = Clears(pos)
  <2>1. Clears(pos)' = Clears(pos')
    BY <1>1 DEF Clears, CRecs
  <2>. QED BY <1>1, <1>3, <2>1
<1>5. PICK a, s, b \in Nat :
        Runs(a, s, b) /\ Forward(s, b, Len(dicts), Clears(pos))
  BY <1>1 DEF Caching
<1>6. PICK d \in Nat : Runs(0, 0, d) /\ Clears(pos) = d + Len(dicts)
  BY <1>1 DEF Caching
<1>7. Runs(a, s, b)' /\ Runs(0, 0, d)'
  BY <1>1, <1>5, <1>6, RunsStay
<1>8. Forward(s, b, Len(dicts), Clears(pos))'
  BY <1>1, <1>4, <1>5 DEF Forward
<1>9. (Clears(pos) = d + Len(dicts))'
  BY <1>1, <1>4, <1>6
<1>. QED BY <1>1, <1>7, <1>8, <1>9 DEF Caching

LEMMA CachingDateScanned ==
  ASSUME LogInv, CacheOK, Looping, Caching, DateScanned
  PROVE  Caching'
<1>1. /\ loc = "dating" /\ loc' = "top" /\ UNCHANGED <<file, dicts>> /\ pos' = 0
  BY DEF DateScanned, fileVars, Looping
<1>2. PICK b \in Nat : Runs(0, 0, b)
  BY <1>1 DEF Caching
<1>3. Runs(0, 0, b)' /\ Clears(pos)' = 0
  <2>1. Clears(pos)' = Clears(0)
    BY <1>1 DEF Clears, CRecs
  <2>. QED BY <1>1, <1>2, <2>1, RunsStay, ClearsFacts
<1>4. Forward(0, b, Len(dicts), Clears(pos))'
  BY <1>3 DEF Forward
<1>. QED BY <1>1, <1>3, <1>4 DEF Caching

LEMMA CachingEnds ==
  ASSUME loc' \in {"done", "failed"}
  PROVE  Caching'
BY DEF Caching

\* Going through the records before a value.
LEMMA ReadOn ==
  ASSUME LogInv, CacheOK, GrepTypeOK, Approach, ~broken'
  PROVE  /\ \A a, s, b \in Nat :
              Runs(a, s, b) /\ Forward(s, b, Len(dicts), Clears(pos)) =>
                \E c, t, d \in Nat :
                  Runs(c, t, d)' /\ Forward(t, d, Len(dicts'), Clears(pos + 1))
         /\ \A a, s, b, f \in Nat :
              /\ Runs(a, s, b) /\ Clears(pos + 1) <= f
              /\ Backward(a, s, b, Len(dicts), Clears(pos), f)
              => \E c, t, d \in Nat :
                   /\ Runs(c, t, d)'
                   /\ Backward(c, t, d, Len(dicts'), Clears(pos + 1), f)
         /\ \A b \in Nat :
              Runs(0, 0, b) /\ Clears(pos) = b + Len(dicts) =>
                \E d \in Nat : Runs(0, 0, d)' /\ Clears(pos + 1) = d + Len(dicts')
<1>1. /\ pos \in Nat /\ pos < Len(file) /\ UNCHANGED fileVars /\ UNCHANGED file
      /\ MaxDicts \in Nat \ {0}
  BY GrepAssumption, ApproachReads DEF GrepTypeOK, fileVars
<1>2. CASE ReadHeader \/ ReadAdd
  <2>1. /\ file[pos + 1].kind # "C" /\ Len(dicts') = Len(dicts)
        /\ \A k \in DOMAIN dicts : dicts'[k].startPos = dicts[k].startPos
    <3>1. CASE ReadHeader
      BY <3>1 DEF ReadHeader, Ready
    <3>2. CASE ReadAdd
      BY <1>1, <3>2, AddReads
    <3>. QED BY <1>2, <3>1, <3>2
  <2>2. pos + 1 \notin CRecs
    BY <2>1 DEF CRecs
  <2>3. Clears(pos + 1) = Clears(pos)
    BY <1>1, <2>2, ClearsFacts
  <2>4. \A a, s, b : Runs(a, s, b) => Runs(a, s, b)'
    BY <1>1, <2>1, RunsKept
  <2>. QED BY <2>1, <2>3, <2>4
<1>3. CASE ReadClear
  <2>1. PICK x \in Nat :
          /\ Numbered(x, Clears(pos) + 1) /\ Clears(pos + 1) = Clears(pos) + 1
          /\ IF Cached(Clears(pos) + 1) THEN dicts' = dicts
             ELSE dicts' = Opened(dicts, x, MaxDicts)
    BY <1>3, ClearReads
  <2>2. ASSUME NEW a \in Nat, NEW s \in Nat, NEW b \in Nat, Runs(a, s, b),
               Forward(s, b, Len(dicts), Clears(pos))
        PROVE  \E c, t, d \in Nat :
                 Runs(c, t, d)' /\ Forward(t, d, Len(dicts'), Clears(pos + 1))
    BY <1>1, <1>3, <2>1, <2>2, ForwardClear
  <2>3. ASSUME NEW a \in Nat, NEW s \in Nat, NEW b \in Nat, NEW f \in Nat,
               Runs(a, s, b), Clears(pos + 1) <= f,
               Backward(a, s, b, Len(dicts), Clears(pos), f)
        PROVE  \E c, t, d \in Nat :
                 /\ Runs(c, t, d)'
                 /\ Backward(c, t, d, Len(dicts'), Clears(pos + 1), f)
    <3>1. Clears(pos) + 1 <= f
      BY <2>1, <2>3
    <3>2. \E c, t, d \in Nat :
            /\ Runs(c, t, d)'
            /\ Backward(c, t, d, Len(dicts'), Clears(pos) + 1, f)
      BY <1>1, <1>3, <2>3, <3>1, BackwardClear
    <3>. QED BY <2>1, <3>2
  <2>4. ASSUME NEW b \in Nat, Runs(0, 0, b), Clears(pos) = b + Len(dicts)
        PROVE  \E d \in Nat : Runs(0, 0, d)' /\ Clears(pos + 1) = d + Len(dicts')
    <3>1. /\ Len(dicts) \in Nat /\ 0 \in Nat
          /\ \A i \in Nat : Cached(i) <=> \/ 0 < i /\ i <= 0 + 0
                                          \/ b < i /\ i <= b + Len(dicts) - 0
      BY <2>4, RunsFacts
    <3>2. PICK i \in Nat : i = Clears(pos) + 1
      BY <1>1, ClearsFacts
    <3>3. i = b + Len(dicts) - 0 + 1
      BY <2>4, <3>1, <3>2
    <3>4. ~Cached(i)
      <4>1. ~(0 < i /\ i <= 0 + 0) /\ ~(i <= b + Len(dicts) - 0)
        BY <3>1, <3>3
      <4>. QED BY <3>1, <4>1
    <3>5. dicts' = Opened(dicts, x, MaxDicts)
      BY <2>1, <3>2, <3>4
    <3>6. Numbered(x, b + Len(dicts) - 0 + 1)
      BY <2>1, <3>2, <3>3
    <3>7. /\ Len(dicts) = MaxDicts =>
               Runs(0, 0, b + 1)' /\ Len(dicts') = Len(dicts)
          /\ Len(dicts) # MaxDicts =>
               b = 0 /\ Runs(0, 0, 0)' /\ Len(dicts') = Len(dicts) + 1
      BY <1>1, <2>4, <3>1, <3>5, <3>6, RunsLonger
    <3>8. CASE Len(dicts) = MaxDicts
      <4>1. b + 1 \in Nat /\ Clears(pos + 1) = (b + 1) + Len(dicts')
        BY <2>1, <2>4, <3>1, <3>7, <3>8
      <4>. QED BY <3>7, <3>8, <4>1
    <3>9. CASE Len(dicts) # MaxDicts
      <4>1. Clears(pos + 1) = 0 + Len(dicts')
        BY <2>1, <2>4, <3>1, <3>7, <3>9
      <4>. QED BY <3>1, <3>7, <3>9, <4>1
    <3>. QED BY <3>8, <3>9
  <2>. QED BY <2>2, <2>3, <2>4
<1>. QED BY <1>2, <1>3 DEF Approach

LEMMA CachingApproach ==
  ASSUME LogInv, CacheOK, GrepTypeOK, Looping, Caching, Approach, ~broken'
  PROVE  Caching'
<1>1. /\ loc \in {"dating", "parse", "print"} /\ loc' = loc /\ pos' = pos + 1
      /\ UNCHANGED <<file, sent, due>> /\ pos < Len(file) /\ pos \in Nat
      /\ file[pos + 1].kind # "V"
  BY ApproachReads DEF Approach, fileVars, GrepTypeOK
<1>2. PICK p \in Nat : p = pos + 1
  BY <1>1
<1>3. Clears(pos)' = Clears(p)
  BY <1>1, <1>2 DEF Clears, CRecs
<1>4. CASE loc \in {"dating", "parse"}
  <2>1. PICK a, s, b \in Nat :
          Runs(a, s, b) /\ Forward(s, b, Len(dicts), Clears(pos))
    BY <1>4 DEF Caching
  <2>2. PICK c, t, d \in Nat :
          Runs(c, t, d)' /\ Forward(t, d, Len(dicts'), Clears(p))
    BY <1>2, <2>1, ReadOn
  <2>3. Forward(t, d, Len(dicts), Clears(pos))'
    BY <1>3, <2>2 DEF Forward
  <2>4. ASSUME loc = "dating"
        PROVE  (\E e \in Nat : Runs(0, 0, e) /\ Clears(pos) = e + Len(dicts))'
    <3>1. PICK e \in Nat : Runs(0, 0, e) /\ Clears(pos) = e + Len(dicts)
      BY <2>4 DEF Caching
    <3>2. PICK g \in Nat : Runs(0, 0, g)' /\ Clears(p) = g + Len(dicts')
      BY <1>2, <3>1, ReadOn
    <3>3. (Clears(pos) = g + Len(dicts))'
      BY <1>3, <3>2
    <3>. QED BY <3>2, <3>3
  <2>. QED BY <1>1, <1>4, <2>2, <2>3, <2>4 DEF Caching
<1>5. CASE loc = "print"
  <2>1. PICK m, n \in Nat : /\ Passed(sent, pos, m) /\ n \in DOMAIN sent
                            /\ AtPrint(m, n)
    BY <1>5 DEF Looping
  <2>2. due \in Nat /\ due > 0
    BY <2>1 DEF AtPrint, GrepTypeOK
  <2>3. Passed(sent, p, m)
    BY <1>1, <1>2, <2>1, PassedNext
  <2>4. ASSUME NEW q \in DOMAIN file, NEW k \in DOMAIN sent,
               Passed(sent, p, k - due), sent[k].sor = file[q].sor
        PROVE  (\E a, s, b \in Nat :
                  /\ Runs(a, s, b)
                  /\ Backward(a, s, b, Len(dicts), Clears(pos), Clears(q)))'
    <3>1. k - due = m
      BY <2>3, <2>4, PassedUnique
    <3>2. k \in Nat /\ k - due < k /\ q \in Nat
      BY <2>2, FileFacts
    <3>3. p < q
      BY <2>4, <3>2, PassedLess
    <3>4. Clears(p) <= Clears(q) /\ Clears(q) \in Nat
      BY <3>2, <3>3, ClearsGrow, ClearsFacts
    <3>5. PICK a, s, b \in Nat :
            /\ Runs(a, s, b)
            /\ Backward(a, s, b, Len(dicts), Clears(pos), Clears(q))
      BY <1>5, <2>1, <2>4, <3>1 DEF Caching
    <3>6. PICK c, t, d \in Nat :
            /\ Runs(c, t, d)'
            /\ Backward(c, t, d, Len(dicts'), Clears(p), Clears(q))
      BY <1>2, <3>4, <3>5, ReadOn
    <3>7. Clears(q)' = Clears(q)
      BY <1>1 DEF Clears, CRecs
    <3>8. Backward(c, t, d, Len(dicts), Clears(pos), Clears(q))'
      BY <1>3, <3>6, <3>7 DEF Backward
    <3>. QED BY <3>6, <3>8
  <2>5. ASSUME NEW q \in DOMAIN file', NEW k \in DOMAIN sent',
               Passed(sent', pos', k - due'), sent'[k].sor = file'[q].sor
        PROVE  (\E a, s, b \in Nat :
                  /\ Runs(a, s, b)
                  /\ Backward(a, s, b, Len(dicts), Clears(pos), Clears(q)))'
    <3>1. /\ q \in DOMAIN file /\ k \in DOMAIN sent /\ Passed(sent, p, k - due)
          /\ sent[k].sor = file[q].sor
      BY <1>1, <1>2, <2>5
    <3>. QED BY <2>4, <3>1
  <2>. QED BY <1>1, <1>5, <2>5 DEF Caching
<1>. QED BY <1>1, <1>4, <1>5

\* What has to be read again is behind the newest dictionary, or in it.
LEMMA ForwardBack ==
  ASSUME NEW a \in Nat, NEW s \in Nat, NEW b \in Nat, NEW l \in Nat,
         NEW f \in Nat, NEW i \in Nat, f >= 1, i <= f, Forward(s, b, l, f)
  PROVE  Backward(a, s, b, l, i, f)
BY DEF Forward, Backward

LEMMA BackForward ==
  ASSUME NEW a \in Nat, NEW s \in Nat, NEW b \in Nat, NEW l \in Nat,
         NEW f \in Nat, f >= 1, s <= l, s > 0 => a > b + l - s,
         Backward(a, s, b, l, f, f)
  PROVE  Forward(s, b, l, f)
<1>1. PICK e \in Int : e = b + l - s
  OBVIOUS
<1>2. \/ b = 0 /\ f \in 1..e
      \/ s = 0 /\ e = f
      \/ f = e /\ (s > 0 => a + s = f)
  BY <1>1 DEF Backward
<1>3. s > 0 => a > e
  BY <1>1
<1>4. \/ b = 0 /\ f \in 1..e
      \/ s = 0 /\ f = e
  BY <1>2, <1>3
<1>. QED BY <1>1, <1>4 DEF Forward

LEMMA CachingOutput ==
  ASSUME LogInv, CacheOK, GrepTypeOK, Looping, Caching, OutputValue
  PROVE  Caching'
<1>1. PICK m, n \in Nat :
        /\ Passed(sent, pos, m) /\ n \in DOMAIN sent /\ AtPrint(m, n)
  BY DEF Looping, OutputValue
<1>2. /\ pos' = pos + 1 /\ pos < Len(file) /\ file[pos + 1].kind = "V"
      /\ UNCHANGED dicts /\ sent[m + 1].sor = file[pos + 1].sor
      /\ due' = due - 1
  BY <1>1, OutputPrints
<1>3. /\ loc = "print" /\ loc' = (IF due = 1 THEN "top" ELSE "print")
      /\ UNCHANGED <<file, sent>>
  BY DEF OutputValue, fileVars
<1>4. due \in Nat /\ due > 0 /\ n = m + due /\ pos \in Nat
  BY <1>1 DEF AtPrint, GrepTypeOK
<1>5. PICK p \in DOMAIN file : p = pos + 1
  BY <1>2, <1>4, FileFacts
<1>6. p \in Nat /\ p \notin CRecs
  BY <1>2, <1>4, <1>5 DEF CRecs
<1>7. Clears(p) = Clears(pos) /\ Clears(p) \in Nat /\ Clears(pos)' = Clears(p)
  <2>1. Clears(pos)' = Clears(p)
    BY <1>2, <1>3, <1>5 DEF Clears, CRecs
  <2>. QED BY <1>4, <1>5, <1>6, <2>1, ClearsFacts
<1>8. CASE due = 1
  <2>1. n - due = m /\ sent[n].sor = file[p].sor
    BY <1>2, <1>4, <1>5, <1>8
  <2>2. PICK a, s, b \in Nat :
          /\ Runs(a, s, b)
          /\ Backward(a, s, b, Len(dicts), Clears(pos), Clears(p))
    BY <1>1, <1>3, <2>1 DEF Caching
  <2>3. Clears(p) >= 1
    <3>1. p >= 2
      <4>1. p # 1
        BY <1>2, <1>5 DEF LogInv, Shape
      <4>. QED BY <1>4, <1>5, <4>1
    <3>. QED BY <1>6, <3>1, ClearsSome
  <2>4. /\ Len(dicts) \in Nat /\ s <= Len(dicts)
        /\ s > 0 => a > b + Len(dicts) - s
    BY <2>2, RunsSizes
  <2>5. Backward(a, s, b, Len(dicts), Clears(p), Clears(p))
    BY <1>7, <2>2
  <2>6. Forward(s, b, Len(dicts), Clears(p))
    BY <1>7, <2>3, <2>4, <2>5, BackForward
  <2>7. Runs(a, s, b)'
    BY <1>2, <1>3, <2>2, RunsStay
  <2>8. Forward(s, b, Len(dicts), Clears(pos))'
    BY <1>2, <1>7, <2>6 DEF Forward
  <2>. QED BY <1>3, <1>8, <2>7, <2>8 DEF Caching
<1>9. CASE due # 1
  <2>1. ASSUME NEW q \in DOMAIN file, NEW k \in DOMAIN sent,
               Passed(sent, p, k - due'), sent[k].sor = file[q].sor
        PROVE  (\E a, s, b \in Nat :
                  /\ Runs(a, s, b)
                  /\ Backward(a, s, b, Len(dicts), Clears(pos), Clears(q)))'
    <3>1. Passed(sent, p, m + 1)
      BY <1>1, <1>2, <1>4, <1>5, PassedNext
    <3>2. k - due' = m + 1
      BY <2>1, <3>1, PassedUnique
    <3>3. k \in Nat
      BY FileFacts
    <3>4. k - due = m
      BY <1>1, <1>2, <1>4, <3>2, <3>3
    <3>5. PICK a, s, b \in Nat :
            /\ Runs(a, s, b)
            /\ Backward(a, s, b, Len(dicts), Clears(pos), Clears(q))
      BY <1>1, <1>3, <2>1, <3>4 DEF Caching
    <3>6. Runs(a, s, b)' /\ Clears(q)' = Clears(q)
      BY <1>2, <1>3, <3>5, RunsStay
    <3>7. Backward(a, s, b, Len(dicts), Clears(pos), Clears(q))'
      BY <1>2, <1>7, <3>5, <3>6 DEF Backward
    <3>. QED BY <3>6, <3>7
  <2>2. ASSUME NEW q \in DOMAIN file', NEW k \in DOMAIN sent',
               Passed(sent', pos', k - due'), sent'[k].sor = file'[q].sor
        PROVE  (\E a, s, b \in Nat :
                  /\ Runs(a, s, b)
                  /\ Backward(a, s, b, Len(dicts), Clears(pos), Clears(q)))'
    <3>1. /\ q \in DOMAIN file /\ k \in DOMAIN sent /\ Passed(sent, p, k - due')
          /\ sent[k].sor = file[q].sor
      BY <1>2, <1>3, <1>5, <2>2
    <3>. QED BY <2>1, <3>1
  <2>. QED BY <1>3, <1>9, <2>2 DEF Caching
<1>. QED BY <1>8, <1>9

LEMMA CachingParse ==
  ASSUME LogInv, CacheOK, GrepTypeOK, Looping, Caching, Parse
  PROVE  Caching'
<1>1. /\ loc = "parse" /\ UNCHANGED <<file, sent, dicts>>
      /\ pos \in Nat /\ pos < Len(file) /\ file[pos + 1].kind = "V"
  BY DEF Parse, fileVars, Matching, Ready, GrepTypeOK
<1>2. PICK n \in Nat : Passed(sent, pos, n) /\ Counts(n) /\ AtParse(n)
  BY <1>1 DEF Looping
<1>3. PICK p \in DOMAIN file : p = pos + 1
  BY <1>1, FileFacts
<1>4. p \in Nat /\ p \notin CRecs /\ sent[n + 1].sor = file[p].sor
  BY <1>1, <1>2, <1>3, PassedNext DEF CRecs
<1>5. Clears(p) = Clears(pos) /\ Clears(p) \in Nat
  BY <1>1, <1>3, <1>4, ClearsFacts
<1>6. Clears(pos)' = Clears(pos')
  BY <1>1 DEF Clears, CRecs
<1>7. PICK a, s, b \in Nat :
        Runs(a, s, b) /\ Forward(s, b, Len(dicts), Clears(pos))
  BY <1>1 DEF Caching
<1>8. Runs(a, s, b)' /\ Len(dicts) \in Nat
  BY <1>1, <1>7, RunsStay, RunsSizes
<1>9. CASE loc' = "top"
  <2>1. Clears(pos)' = Clears(pos)
    <3>1. pos' = p
      BY <1>3, <1>9, LoopingParse
    <3>. QED BY <1>5, <1>6, <3>1
  <2>2. Forward(s, b, Len(dicts), Clears(pos))'
    BY <1>1, <1>7, <2>1 DEF Forward
  <2>. QED BY <1>8, <1>9, <2>2 DEF Caching
<1>10. CASE loc' = "print"
  <2>1. (MatchedNow /\ ~opt.count) \/ (~MatchedNow /\ force > 0)
    BY <1>10 DEF Parse
  <2>2. ~opt.count
    <3>1. (opt.count => force = 0) /\ force \in Nat
      BY DEF Looping, GrepTypeOK
    <3>2. ~(0 > 0)
      OBVIOUS
    <3>. QED BY <2>1, <3>1, <3>2
  <2>3. /\ pos' \in Nat /\ pos' <= pos
        /\ \E m \in Nat : Passed(sent', pos', m) /\ AtPrint(m, n + 1)'
    BY <1>2, <2>1, <2>2, ParseMarked, ParseForced
  <2>4. PICK m \in Nat : Passed(sent, pos', m) /\ n + 1 = m + due' /\ due' \in Nat
    <3>1. due' \in Nat
      BY LoopingParse
    <3>2. PICK m \in Nat : Passed(sent', pos', m) /\ AtPrint(m, n + 1)'
      BY <2>3
    <3>3. n + 1 = m + due'
      BY <3>2 DEF AtPrint
    <3>. QED BY <1>1, <3>1, <3>2, <3>3
  <2>5. Clears(p) >= 1
    <3>1. p >= 2
      <4>1. p # 1
        BY <1>1, <1>3 DEF LogInv, Shape
      <4>. QED BY <1>1, <1>3, <4>1
    <3>. QED BY <1>4, <3>1, ClearsSome
  <2>6. Clears(pos') <= Clears(p) /\ Clears(pos') \in Nat
    BY <1>1, <1>5, <2>3, ClearsGrow, ClearsFacts
  <2>7. Forward(s, b, Len(dicts), Clears(p))
    BY <1>5, <1>7
  <2>8. Backward(a, s, b, Len(dicts), Clears(pos'), Clears(p))
    BY <1>5, <1>8, <2>5, <2>6, <2>7, ForwardBack
  <2>9. ASSUME NEW q \in DOMAIN file, NEW k \in DOMAIN sent,
               Passed(sent, pos', k - due'), sent[k].sor = file[q].sor
        PROVE  Backward(a, s, b, Len(dicts), Clears(pos), Clears(q))'
    <3>1. k - due' = m
      BY <2>4, <2>9, PassedUnique
    <3>2. k \in Nat
      BY FileFacts
    <3>3. k = n + 1
      <4>1. PICK d \in Nat : d = due'
        BY <2>4
      <4>2. n + 1 = m + d /\ k - d = m
        BY <2>4, <3>1, <4>1
      <4>3. k \in Nat /\ n \in Nat /\ m \in Nat
        BY <1>2, <2>4, <3>2
      <4>. QED BY <4>2, <4>3
    <3>4. q = p
      <4>1. file[q].sor = file[p].sor
        BY <1>4, <2>9, <3>3
      <4>. QED BY <4>1, OneStart
    <3>5. Clears(q)' = Clears(p)
      BY <1>1, <3>4, RunsStay
    <3>. QED BY <1>1, <1>6, <2>8, <3>5 DEF Backward
  <2>10. ASSUME NEW q \in DOMAIN file', NEW k \in DOMAIN sent',
                Passed(sent', pos', k - due'), sent'[k].sor = file'[q].sor
         PROVE  (\E c, t, d \in Nat :
                   /\ Runs(c, t, d)
                   /\ Backward(c, t, d, Len(dicts), Clears(pos), Clears(q)))'
    <3>1. /\ q \in DOMAIN file /\ k \in DOMAIN sent /\ Passed(sent, pos', k - due')
          /\ sent[k].sor = file[q].sor
      BY <1>1, <2>10
    <3>2. Backward(a, s, b, Len(dicts), Clears(pos), Clears(q))'
      BY <2>9, <3>1
    <3>. QED BY <1>8, <3>2
  <2>. QED BY <1>10, <2>10 DEF Caching
<1>. QED BY <1>9, <1>10, LoopingParse

-----------------------------------------------------------------------------
(***************************************************************************)
(* When reading fails.                                                     *)
(***************************************************************************)
\* The dictionary in force is missing from the cache.
LEMMA NotCached ==
  ASSUME LogInv, CacheOK, GrepTypeOK, Covering, pos < Len(file),
         file[pos + 1].kind \in {"A", "V"}, ~Current
  PROVE  Clears(pos) \in Nat /\ Clears(pos) >= 1 /\ ~Cached(Clears(pos))
<1>1. pos \in Nat
  BY DEF GrepTypeOK
<1>2. PICK r \in DOMAIN file : r = pos + 1
  BY <1>1, FileFacts
<1>3. r \in Nat /\ file[r].kind \in {"A", "V"}
  BY <1>1, <1>2
<1>4. pos >= 2
  <2>1. r # 1 /\ r # 2
    BY <1>3 DEF LogInv, Shape
  <2>. QED BY <1>1, <1>2, <2>1
<1>5. PICK t \in DictRecs :
        /\ Nearest(DictRecs, t, r) /\ NoClear(file, t, r)
        /\ file[r].sor - file[r].backref = file[t].sor
  BY <1>3, BackrefLands
<1>6. PICK c \in CRecs : c <= pos /\ \A d \in CRecs : d <= pos => d <= c
  <2>1. PICK S : S = {d \in CRecs : d <= pos}
    OBVIOUS
  <2>2. S \in SUBSET Nat /\ \A d \in S : d <= pos
    BY <2>1, ClearsFacts
  <2>3. S # {}
    <3>1. 2 \in CRecs
      BY FileFacts DEF CRecs, LogInv, Shape
    <3>. QED BY <1>4, <2>1, <3>1
  <2>4. \E c \in S : \A d \in S : d <= c
    BY <1>1, <2>2, <2>3, GreatestNatural
  <2>. QED BY <2>1, <2>4
<1>7. /\ c \in Nat /\ c \in DOMAIN file /\ c \in DictRecs
      /\ file[c].sor \in Nat
  BY ClearsFacts, DictRecsFacts, FileFacts DEF CRecs
<1>8. t \in Nat /\ t < r /\ c <= t /\ t <= pos
  <2>1. t \in Nat /\ t < r
    BY <1>5, DictRecsFacts DEF Nearest
  <2>2. c < r
    BY <1>1, <1>2, <1>6, <1>7
  <2>3. c <= t
    BY <1>5, <1>7, <2>2 DEF Nearest
  <2>. QED BY <1>1, <1>2, <2>1, <2>3
<1>9. NoClear(file, c, t)
  <2>1. ASSUME NEW d \in DOMAIN file, c < d, d <= t, file[d].kind = "C"
        PROVE  FALSE
    <3>1. d \in CRecs /\ d \in Nat
      BY <2>1, FileFacts DEF CRecs
    <3>2. d <= c
      BY <1>1, <1>6, <1>8, <2>1, <3>1
    <3>. QED BY <1>7, <2>1, <3>1, <3>2
  <2>. QED BY <2>1 DEF NoClear
<1>10. Clears(c) = Clears(pos)
  <2>1. \A d \in CRecs : d <= c <=> d <= pos
    <3>1. ASSUME NEW d \in CRecs
          PROVE  d <= c <=> d <= pos
      <4>1. d \in Nat
        BY ClearsFacts
      <4>. QED BY <1>1, <1>6, <1>7, <4>1
    <3>. QED BY <3>1
  <2>2. {d \in CRecs : d <= c} = {d \in CRecs : d <= pos}
    BY <2>1
  <2>. QED BY <2>2 DEF Clears
<1>11. ASSUME Cached(Clears(pos))
       PROVE  FALSE
  <2>1. PICK k \in DOMAIN dicts : Numbered(dicts[k].startPos, Clears(c))
    BY <1>10, <1>11 DEF Cached
  <2>2. Numbered(file[c].sor, Clears(c))
    BY DEF Numbered
  <2>3. dicts[k].startPos = file[c].sor
    BY <2>1, <2>2, NumberedUnique
  <2>4. Includes(dicts[k], file[t].sor)
    BY <1>8, <1>9, <2>3 DEF Covering
  <2>5. dicts \in Seq(DictRecord) /\ file[t].sor \in Int
    BY <1>5, DictRecsFacts, FileFacts DEF CacheOK, CacheOf
  <2>6. Search(dicts, file[t].sor) # 0
    BY <2>4, <2>5, SearchFinds
  <2>. QED BY <1>2, <1>5, <2>6 DEF Current
<1>. QED BY <1>1, <1>4, <1>11, ClearsFacts, ClearsSome

\* It is not missing when nothing is read again.
LEMMA ForwardCached ==
  ASSUME LogInv, CacheOK, GrepTypeOK,
         NEW a \in Nat, NEW s \in Nat, NEW b \in Nat, Runs(a, s, b),
         NEW i \in Nat, i >= 1, Forward(s, b, Len(dicts), i)
  PROVE  Cached(i)
<1>1. /\ Len(dicts) \in Nat /\ MaxDicts \in Nat /\ MaxDicts >= 1 /\ s <= Len(dicts)
      /\ s = 0 => Len(dicts) = MaxDicts \/ b = 0
  BY RunsSizes
<1>2. Cached(i) <=> \/ a < i /\ i <= a + s
                    \/ b < i /\ i <= b + Len(dicts) - s
  BY RunsFacts
<1>3. \/ b = 0 /\ i \in 1..(b + Len(dicts) - s)
      \/ s = 0 /\ i = b + Len(dicts) - s
  BY DEF Forward
<1>4. b < i /\ i <= b + Len(dicts) - s
  BY <1>1, <1>3
<1>. QED BY <1>2, <1>4

\* And otherwise when it is more than MaxDicts back.
LEMMA BackwardCached ==
  ASSUME LogInv, CacheOK, GrepTypeOK,
         NEW a \in Nat, NEW s \in Nat, NEW b \in Nat, Runs(a, s, b),
         NEW i \in Nat, i >= 1, NEW f \in Nat,
         Backward(a, s, b, Len(dicts), i, f), ~Cached(i)
  PROVE  i + MaxDicts <= f /\ MaxDicts \in Nat /\ MaxDicts >= 1
<1>1. /\ Len(dicts) \in Nat /\ MaxDicts \in Nat /\ MaxDicts >= 1 /\ s <= Len(dicts)
      /\ s = 0 => Len(dicts) = MaxDicts \/ b = 0
      /\ s > 0 => s < MaxDicts
  BY RunsSizes
<1>2. Cached(i) <=> \/ a < i /\ i <= a + s
                    \/ b < i /\ i <= b + Len(dicts) - s
  BY RunsFacts
<1>3. ~(b < i /\ i <= b + Len(dicts) - s)
  BY <1>2
<1>4. PICK e \in Int : e = b + Len(dicts) - s
  BY <1>1
<1>5. /\ i <= f
      /\ \/ b = 0 /\ f \in 1..e
         \/ s = 0 /\ e = f
         \/ Len(dicts) = MaxDicts /\ i = e
  BY <1>4 DEF Backward
<1>. QED BY <1>1, <1>3, <1>4, <1>5

\* The C records between two values.
LEMMA BetweenCounts ==
  ASSUME LogInv, NEW i \in DOMAIN sent, NEW j \in DOMAIN sent,
         NEW r \in DOMAIN file, NEW q \in DOMAIN file, r <= q,
         sent[i].sor = file[r].sor, sent[j].sor = file[q].sor, file[q].kind = "V"
  PROVE  DictsBetween(i, j) \in Nat /\ Clears(q) <= Clears(r) + DictsBetween(i, j)
<1>1. PICK B : B = {c \in CRecs : file[r].sor < file[c].sor
                                  /\ file[c].sor < file[q].sor}
  OBVIOUS
<1>2. DictsBetween(i, j) = Cardinality(B)
  <2>1. B = {c \in DOMAIN file :
               file[c].kind = "C" /\ sent[i].sor < file[c].sor
                                  /\ file[c].sor < sent[j].sor}
    BY <1>1 DEF CRecs
  <2>. QED BY <2>1 DEF DictsBetween
<1>3. r \in Nat /\ q \in Nat /\ CRecs \in SUBSET Nat /\ q \notin CRecs
  BY FileFacts, ClearsFacts DEF CRecs
<1>4. /\ IsFiniteSet(UpTo(CRecs, r)) /\ Cardinality(UpTo(CRecs, r)) \in Nat
      /\ IsFiniteSet(UpTo(CRecs, q)) /\ Cardinality(UpTo(CRecs, q)) \in Nat
  BY <1>3, UpToNext
<1>5. ASSUME NEW c \in CRecs
      PROVE  /\ c \in B <=> r < c /\ c < q
             /\ c \in Nat /\ c # q
  <2>1. c \in DOMAIN file /\ c \in Nat /\ c # q
    BY <1>3, ClearsFacts
  <2>2. /\ file[r].sor < file[c].sor <=> r < c
        /\ file[c].sor < file[q].sor <=> c < q
    BY <2>1, OneStart
  <2>. QED BY <1>1, <2>1, <2>2
<1>6. B \in SUBSET UpTo(CRecs, q)
  <2>1. ASSUME NEW c \in B
        PROVE  c \in CRecs /\ c <= q
    <3>1. c \in CRecs
      BY <1>1
    <3>2. c \in Nat /\ c < q
      BY <1>5, <3>1
    <3>. QED BY <1>3, <3>1, <3>2
  <2>. QED BY <2>1 DEF UpTo
<1>7. IsFiniteSet(B) /\ Cardinality(B) \in Nat
  BY <1>4, <1>6, FS_Subset, FS_CardinalityType
<1>8. UpTo(CRecs, q) \in SUBSET (UpTo(CRecs, r) \cup B)
  <2>1. ASSUME NEW c \in UpTo(CRecs, q)
        PROVE  c \in UpTo(CRecs, r) \cup B
    <3>1. c \in CRecs /\ c <= q
      BY <2>1 DEF UpTo
    <3>2. c \in Nat /\ c # q /\ (c \in B <=> r < c /\ c < q)
      BY <1>5, <3>1
    <3>3. c <= r \/ c \in B
      BY <1>3, <3>1, <3>2
    <3>. QED BY <3>1, <3>3 DEF UpTo
  <2>. QED BY <2>1
<1>9. PICK U : U = UpTo(CRecs, r) \cup B
  OBVIOUS
<1>10. /\ IsFiniteSet(U)
       /\ Cardinality(U) = Cardinality(UpTo(CRecs, r)) + Cardinality(B)
                             - Cardinality(UpTo(CRecs, r) \cap B)
  BY <1>4, <1>7, <1>9, FS_Union
<1>11. Cardinality(UpTo(CRecs, q)) <= Cardinality(U) /\ Cardinality(U) \in Nat
  BY <1>8, <1>9, <1>10, FS_Subset, FS_CardinalityType
<1>12. Cardinality(UpTo(CRecs, r) \cap B) \in Nat
  <2>1. UpTo(CRecs, r) \cap B \in SUBSET B
    OBVIOUS
  <2>. QED BY <1>7, <2>1, FS_Subset, FS_CardinalityType
<1>13. /\ Clears(q) = Cardinality(UpTo(CRecs, q))
       /\ Clears(r) = Cardinality(UpTo(CRecs, r))
  BY <1>3, ClearsFacts
<1>. QED BY <1>2, <1>4, <1>7, <1>10, <1>11, <1>12, <1>13

\* The next value, if there is an A record or none before it.
LEMMA NextValue ==
  ASSUME LogInv, Owed, pos \in Nat, pos < Len(file),
         file[pos + 1].kind \in {"A", "V"},
         NEW m, Passed(sent, pos, m), NEW n \in DOMAIN sent, m < n
  PROVE  /\ m + 1 \in DOMAIN sent
         /\ \E r \in DOMAIN file :
              sent[m + 1].sor = file[r].sor /\ Clears(r) = Clears(pos)
<1>1. PICK p \in DOMAIN file : p = pos + 1
  BY FileFacts
<1>2. p \in Nat /\ p \notin CRecs /\ Clears(p) = Clears(pos) /\ DOMAIN file = 1..Len(file)
      /\ Len(file) \in Nat
  <2>1. p \notin CRecs
    BY <1>1 DEF CRecs
  <2>. QED BY <1>1, <2>1, ClearsFacts, FileFacts
<1>3. CASE file[p].kind = "V"
  BY <1>1, <1>2, <1>3, PassedNext
<1>4. CASE file[p].kind = "A"
  <2>1. Passed(sent, p, m)
    <3>1. file[pos + 1].kind # "V"
      BY <1>1, <1>4
    <3>. QED BY <1>1, <3>1, PassedNext
  <2>2. PICK q \in DOMAIN file : sent[n].sor = file[q].sor
    BY SentAt
  <2>3. p < q
    BY <1>2, <2>1, <2>2, PassedLess
  <2>4. p < Len(file)
    BY <1>2, <2>2, <2>3
  <2>5. PICK r \in DOMAIN file : r = p + 1
    BY <1>2, <2>4
  <2>6. file[r].kind = "V" /\ r \notin CRecs
    BY <1>1, <1>4, <2>4, <2>5 DEF Owed, CRecs
  <2>7. m + 1 \in DOMAIN sent /\ sent[m + 1].sor = file[r].sor
    <3>1. file[p + 1].kind = "V"
      BY <2>5, <2>6
    <3>. QED BY <1>2, <2>1, <2>4, <2>5, <3>1, PassedNext
  <2>8. Clears(r) = Clears(p)
    BY <1>2, <2>5, <2>6, ClearsFacts
  <2>. QED BY <1>2, <2>7, <2>8
<1>. QED BY <1>1, <1>3, <1>4

\* The exception comes only where a context reaches too far back.
LEMMA FailsExcused ==
  ASSUME LogInv, CacheOK, GrepTypeOK, Owed, Looping, Caching, Covering,
         loc \in {"dating", "parse", "print"}, pos < Len(file),
         file[pos + 1].kind \in {"A", "V"}, ~Current
  PROVE  Excused
<1>1. PICK i \in Nat : i = Clears(pos) /\ i >= 1 /\ ~Cached(i)
  BY NotCached
<1>2. loc = "print"
  <2>1. SUFFICES ASSUME loc \in {"dating", "parse"} PROVE FALSE
    OBVIOUS
  <2>2. PICK a, s, b \in Nat : Runs(a, s, b) /\ Forward(s, b, Len(dicts), i)
    BY <1>1, <2>1 DEF Caching
  <2>. QED BY <1>1, <2>2, ForwardCached
<1>3. PICK m, n \in Nat : /\ Passed(sent, pos, m) /\ n \in DOMAIN sent
                          /\ AtPrint(m, n)
  BY <1>2 DEF Looping
<1>4. /\ due \in Nat /\ due > 0 /\ n = m + due /\ due <= opt.before + 1
      /\ pos \in Nat /\ opt.before \in Nat
  BY <1>3, OptFacts DEF AtPrint, GrepTypeOK
<1>5. n - due = m /\ m < n
  BY <1>3, <1>4
<1>6. PICK q \in DOMAIN file : file[q].kind = "V" /\ sent[n].sor = file[q].sor
  BY <1>3, SentAt
<1>7. PICK a, s, b \in Nat :
        Runs(a, s, b) /\ Backward(a, s, b, Len(dicts), i, Clears(q))
  BY <1>1, <1>2, <1>3, <1>5, <1>6 DEF Caching
<1>8. Clears(q) \in Nat /\ q \in Nat
  BY FileFacts, ClearsFacts
<1>9. i + MaxDicts <= Clears(q) /\ MaxDicts \in Nat /\ MaxDicts >= 1
  BY <1>1, <1>7, <1>8, BackwardCached
<1>10. m + 1 \in DOMAIN sent
       /\ \E r \in DOMAIN file :
            sent[m + 1].sor = file[r].sor /\ Clears(r) = Clears(pos)
  BY <1>3, <1>4, <1>5, NextValue
<1>11. PICK k \in DOMAIN sent : k = m + 1
  BY <1>10
<1>12. PICK r \in DOMAIN file : sent[k].sor = file[r].sor /\ Clears(r) = i
  BY <1>1, <1>10, <1>11
<1>13. k < n
  <2>1. k # n
    <3>1. SUFFICES ASSUME k = n PROVE FALSE
      OBVIOUS
    <3>2. r = q
      <4>1. file[r].sor = file[q].sor
        BY <1>6, <1>12, <3>1
      <4>. QED BY <4>1, OneStart
    <3>. QED BY <1>1, <1>9, <1>12, <3>2
  <2>. QED BY <1>3, <1>5, <1>11, <2>1
<1>14. n <= k + opt.before
  BY <1>3, <1>4, <1>11
<1>15. r <= q
  <2>1. file[r].sor < file[q].sor
    BY <1>3, <1>6, <1>12, <1>13, SentFacts
  <2>2. r < q /\ r \in Nat
    BY <2>1, OneStart, FileFacts
  <2>. QED BY <1>8, <2>2
<1>16. DictsBetween(k, n) \in Nat /\ Clears(q) <= Clears(r) + DictsBetween(k, n)
  BY <1>3, <1>6, <1>12, <1>15, BetweenCounts
<1>17. DictsBetween(k, n) >= MaxDicts
  BY <1>1, <1>8, <1>9, <1>12, <1>16
<1>. QED BY <1>3, <1>13, <1>14, <1>17 DEF Excused

-----------------------------------------------------------------------------
(***************************************************************************)
(* Writing, and steps that change nothing.                                 *)
(***************************************************************************)
LEMMA LoopingStay ==
  ASSUME LogInv, GrepTypeOK, Looping, UNCHANGED allVars
  PROVE  Looping'
<1>1. /\ UNCHANGED <<file, sent, dicts, pos, delivered>>
      /\ UNCHANGED <<opt, loc, posBuffer, pin, force, total, inRegion, due>>
      /\ posBuffer \in Seq(Nat) /\ pos \in Nat /\ pos' \in Nat /\ pos <= pos'
  BY DEF allVars, fileVars, readerVars, grepVars, GrepTypeOK
<1>2. \A n : Counts(n) => Counts(n)'
  BY <1>1, CountsKept
<1>3. ASSUME NEW n, AtTop(n)
      PROVE  AtTop(n)'
  BY <1>1, <1>3, ForcesKept, BuffersKept, ListsKept DEF AtTop
<1>4. ASSUME NEW n, AtParse(n)
      PROVE  AtParse(n)'
  BY <1>1, <1>4, ForcesKept, BuffersKept, ListsKept DEF AtParse
<1>5. ASSUME NEW m, NEW n, AtPrint(m, n)
      PROVE  AtPrint(m, n)'
  <2>1. Forces(n)' /\ Lists(delivered, UpTo(Printed(n), m))'
    BY <1>1, <1>5, ForcesKept, ListsKept DEF AtPrint
  <2>2. (\A k \in (m + 1)..n : k \in Printed(n))'
    BY <1>1, <1>5, WantedKept DEF AtPrint
  <2>. QED BY <1>1, <1>5, <2>1, <2>2 DEF AtPrint
<1>6. loc \in {"outside", "dating"} => Fresh'
  BY <1>1 DEF Looping, Fresh
<1>7. ASSUME loc = "done"
      PROVE  /\ Counts(Len(sent))'
             /\ (~opt.count => Lists(delivered, Printed(Len(sent))))'
  <2>1. Counts(Len(sent)) /\ (~opt.count => Lists(delivered, Printed(Len(sent))))
    BY <1>7 DEF Looping
  <2>2. PICK n : n = Len(sent)
    OBVIOUS
  <2>3. Counts(n)' /\ (~opt.count => Lists(delivered, Printed(n)))'
    BY <1>1, <1>2, <2>1, <2>2, ListsKept
  <2>. QED BY <1>1, <2>2, <2>3
<1>8. ASSUME loc = "failed"
      PROVE  ContextReadable' /\ (~opt.count => AsWanted)'
  <2>1. ContextReadable /\ (~opt.count => AsWanted)
    BY <1>8 DEF Looping
  <2>2. ContextReadable'
    <3>1. \A i, j : DictsBetween(i, j)' = DictsBetween(i, j)
      BY <1>1 DEF DictsBetween
    <3>. QED BY <1>1, <2>1, <3>1 DEF ContextReadable
  <2>3. (~opt.count => AsWanted)'
    BY <1>1, <2>1, ListsKept
  <2>. QED BY <2>2, <2>3
<1>9. ASSUME loc = "top"
      PROVE  (\E n \in Nat : Passed(sent, pos, n) /\ Counts(n) /\ AtTop(n))'
  <2>1. PICK n \in Nat : Passed(sent, pos, n) /\ Counts(n) /\ AtTop(n)
    BY <1>9 DEF Looping
  <2>. QED BY <1>1, <1>2, <1>3, <2>1
<1>10. ASSUME loc = "parse"
       PROVE  (\E n \in Nat : Passed(sent, pos, n) /\ Counts(n) /\ AtParse(n))'
  <2>1. PICK n \in Nat : Passed(sent, pos, n) /\ Counts(n) /\ AtParse(n)
    BY <1>10 DEF Looping
  <2>. QED BY <1>1, <1>2, <1>4, <2>1
<1>11. ASSUME loc = "print"
       PROVE  (\E m, n \in Nat : /\ Passed(sent, pos, m) /\ n \in DOMAIN sent
                                 /\ Counts(n) /\ AtPrint(m, n))'
  <2>1. PICK m, n \in Nat : /\ Passed(sent, pos, m) /\ n \in DOMAIN sent
                            /\ Counts(n) /\ AtPrint(m, n)
    BY <1>11 DEF Looping
  <2>. QED BY <1>1, <1>2, <1>5, <2>1
<1>12. /\ loc' = "outside" => pos' = 0 /\ dicts' = <<>>
       /\ loc' = "dating" => pin' = 0
       /\ opt'.count => force' = 0
  BY <1>1 DEF Looping
<1>. QED BY <1>1, <1>6, <1>7, <1>8, <1>9, <1>10, <1>11, <1>12 DEF Looping

LEMMA CachingStay ==
  ASSUME LogInv, CacheOK, Caching, UNCHANGED allVars
  PROVE  Caching'
<1>1. UNCHANGED <<file, sent, dicts, pos, loc, due>>
  BY DEF allVars, fileVars, readerVars, grepVars
<1>2. /\ \A a, s, b : Runs(a, s, b) => Runs(a, s, b)'
      /\ \A p : Clears(p)' = Clears(p)
  BY <1>1, RunsStay
<1>3. Clears(pos)' = Clears(pos)
  BY <1>1 DEF Clears, CRecs
<1>4. ASSUME loc \in {"outside", "dating", "top", "parse"}
      PROVE  (\E a, s, b \in Nat :
                Runs(a, s, b) /\ Forward(s, b, Len(dicts), Clears(pos)))'
  <2>1. PICK a, s, b \in Nat :
          Runs(a, s, b) /\ Forward(s, b, Len(dicts), Clears(pos))
    BY <1>4 DEF Caching
  <2>2. Forward(s, b, Len(dicts), Clears(pos))'
    BY <1>1, <1>3, <2>1 DEF Forward
  <2>. QED BY <1>2, <2>1, <2>2
<1>5. ASSUME loc = "dating"
      PROVE  (\E b \in Nat : Runs(0, 0, b) /\ Clears(pos) = b + Len(dicts))'
  <2>1. PICK b \in Nat : Runs(0, 0, b) /\ Clears(pos) = b + Len(dicts)
    BY <1>5 DEF Caching
  <2>. QED BY <1>1, <1>2, <1>3, <2>1
<1>6. ASSUME loc = "print", NEW q \in DOMAIN file', NEW m \in DOMAIN sent',
             Passed(sent', pos', m - due'), sent'[m].sor = file'[q].sor
      PROVE  (\E a, s, b \in Nat :
                /\ Runs(a, s, b)
                /\ Backward(a, s, b, Len(dicts), Clears(pos), Clears(q)))'
  <2>1. /\ q \in DOMAIN file /\ m \in DOMAIN sent
        /\ Passed(sent, pos, m - due) /\ sent[m].sor = file[q].sor
    BY <1>1, <1>6
  <2>2. PICK a, s, b \in Nat :
          /\ Runs(a, s, b)
          /\ Backward(a, s, b, Len(dicts), Clears(pos), Clears(q))
    BY <1>6, <2>1 DEF Caching
  <2>3. Clears(q)' = Clears(q)
    BY <1>2
  <2>4. Backward(a, s, b, Len(dicts), Clears(pos), Clears(q))'
    BY <1>1, <1>3, <2>2, <2>3 DEF Backward
  <2>. QED BY <1>2, <2>2, <2>4
<1>. QED BY <1>1, <1>4, <1>5, <1>6 DEF Caching

LEMMA StutterKeeps == GrepInv /\ UNCHANGED allVars => GrepInv'
<1>1. SUFFICES ASSUME GrepInv, UNCHANGED allVars PROVE GrepInv'
  OBVIOUS
<1>2. /\ LogInv /\ CacheOK /\ GrepTypeOK /\ Classed /\ Owed
      /\ Looping /\ Caching /\ Covering
  BY <1>1 DEF GrepInv
<1>3. UNCHANGED <<file, known, sent, dicts, pos, delivered, broken>>
      /\ UNCHANGED fileVars
  BY <1>1 DEF allVars, fileVars, readerVars
<1>4. GrepTypeOK'
  BY <1>1, <1>2, <1>3 DEF GrepTypeOK, allVars, grepVars
<1>5. LogInv'
  BY <1>2, <1>3, LogKept
<1>6. CacheOK'
  BY <1>2, <1>3 DEF CacheOK, CacheOf, DictRecs
<1>7. Classed' /\ Owed'
  BY <1>2, <1>3 DEF Classed, Owed
<1>8. Covering'
  <2>1. pos' \in Nat /\ pos' <= pos
    BY <1>2, <1>3 DEF GrepTypeOK
  <2>. QED BY <1>2, <1>3, <2>1, CoveringBack
<1>9. Looping' /\ Caching'
  BY <1>1, <1>2, LoopingStay, CachingStay
<1>. QED BY <1>4, <1>5, <1>6, <1>7, <1>8, <1>9 DEF GrepInv

\* What is written, before the search begins.
LEMMA WriteShape ==
  ASSUME LogInv, Classed, Owed, Write
  PROVE  LogInv' /\ Classed' /\ Owed' /\ Len(file) <= Len(file')
<1>1. /\ WriteClear \/ WriteAdd \/ (\E class \in Distinct : WriteValue(<<class>>))
      /\ UNCHANGED opt
  BY DEF Write, grepVars
<1>2. \A class \in Distinct : class \in Classes /\ <<class>> \in Seq(Literal)
  <2>1. ASSUME NEW class \in Distinct
        PROVE  class \in Classes /\ <<class>> \in Seq(Literal)
    <3>1. class \in Classes
      BY DEF Distinct
    <3>2. class \in Literal
      BY <3>1 DEF Classes, Literal
    <3>. QED BY <3>1, <3>2
  <2>. QED BY <2>1
<1>3. PICK r, k : /\ Written(r, k) /\ LogInv' /\ r.kind \in {"C", "A", "V"}
                  /\ r.kind # "V" => ~ValueOwed
  <2>1. CASE WriteClear
    BY <2>1, WriteClearKeeps DEF WriteClear
  <2>2. CASE WriteAdd
    BY <2>2, WriteAddKeeps DEF WriteAdd
  <2>3. CASE \E class \in Distinct : WriteValue(<<class>>)
    BY <1>2, <2>3, WriteValueKeeps
  <2>. QED BY <1>1, <2>1, <2>2, <2>3
<1>4. /\ Len(file) \in Nat /\ Len(file) >= 2 /\ DOMAIN file = 1..Len(file)
      /\ Len(file') = Len(file) + 1
      /\ DOMAIN file' = 1..(Len(file) + 1)
      /\ file'[Len(file) + 1] = r
      /\ \A i \in DOMAIN file : file'[i] = file[i]
  BY <1>3, FileFacts, WrittenFacts
<1>5. Owed'
  <2>1. ASSUME NEW i \in DOMAIN file', file'[i].kind = "A", i < Len(file')
        PROVE  file'[i + 1].kind = "V"
    <3>1. i \in DOMAIN file /\ file[i].kind = "A" /\ i \in Nat
      BY <1>4, <2>1
    <3>2. CASE i = Len(file)
      <4>1. ValueOwed
        BY <3>1, <3>2 DEF ValueOwed
      <4>. QED BY <1>3, <1>4, <3>2, <4>1
    <3>3. CASE i # Len(file)
      <4>1. i < Len(file) /\ i + 1 \in DOMAIN file
        BY <1>4, <3>1, <3>3
      <4>. QED BY <1>4, <3>1, <4>1 DEF Owed
    <3>. QED BY <3>2, <3>3
  <2>. QED BY <2>1 DEF Owed
<1>6. Classed'
  <2>1. CASE UNCHANGED sent
    BY <2>1 DEF Classed
  <2>2. CASE \E class \in Distinct : WriteValue(<<class>>)
    <3>1. PICK class \in Distinct : WriteValue(<<class>>)
      BY <2>2
    <3>2. PICK v : v = <<class>> \o Strings
      OBVIOUS
    <3>3. Strings \in Seq(Str)
      BY LastDictFacts
    <3>4. v # <<>> /\ v[1] = class
      BY <3>2, <3>3
    <3>5. PICK e : e = [sor |-> Len(file) * RecSize, value |-> v]
      OBVIOUS
    <3>6. sent' = Append(sent, e) /\ e.value = v
      BY <3>1, <3>2, <3>5 DEF WriteValue
    <3>7. sent \in Seq(Sent) /\ Len(sent) \in Nat /\ DOMAIN sent = 1..Len(sent)
      BY FileFacts DEF LogInv, LogTypeOK
    <3>8. /\ DOMAIN sent' = 1..(Len(sent) + 1)
          /\ sent'[Len(sent) + 1] = e
          /\ \A m \in DOMAIN sent : sent'[m] = sent[m]
      BY <3>6, <3>7
    <3>9. ASSUME NEW m \in DOMAIN sent'
          PROVE  sent'[m].value # <<>> /\ sent'[m].value[1] \in Classes
      <4>1. CASE m = Len(sent) + 1
        BY <1>2, <3>4, <3>6, <3>8, <4>1
      <4>2. CASE m # Len(sent) + 1
        <5>1. m \in DOMAIN sent
          BY <3>7, <3>8, <4>2
        <5>. QED BY <3>8, <5>1 DEF Classed
      <4>. QED BY <4>1, <4>2
    <3>. QED BY <3>9 DEF Classed
  <2>. QED BY <1>1, <2>1, <2>2 DEF WriteClear, WriteAdd
<1>. QED BY <1>3, <1>4, <1>5, <1>6

LEMMA WriteKeeps == GrepInv /\ Write => GrepInv'
<1>1. SUFFICES ASSUME GrepInv, Write PROVE GrepInv'
  OBVIOUS
<1>2. /\ LogInv /\ CacheOK /\ GrepTypeOK /\ Classed /\ Owed
      /\ Looping /\ Caching /\ Covering
  BY <1>1 DEF GrepInv
<1>3. LogInv' /\ Classed' /\ Owed' /\ Len(file) <= Len(file')
  BY <1>1, <1>2, WriteShape
<1>4. /\ loc = "outside" /\ UNCHANGED <<dicts, pos, delivered, broken>>
      /\ UNCHANGED <<opt, loc, scanned, posBuffer, pin, force, total, inRegion,
                     due>>
  BY <1>1 DEF Write, readerVars, grepVars
<1>5. Fresh /\ pos = 0 /\ dicts = <<>> /\ (opt.count => force = 0)
  BY <1>2, <1>4 DEF Looping
<1>6. GrepTypeOK'
  <2>1. Len(file') \in Nat
    BY <1>3 DEF LogInv, LogTypeOK
  <2>2. pos' <= Len(file')
    BY <1>4, <1>5, <2>1
  <2>. QED BY <1>2, <1>4, <2>2 DEF GrepTypeOK
<1>7. CacheOK' /\ Covering'
  <2>1. dicts' = <<>> /\ DOMAIN dicts' = {}
    BY <1>4, <1>5
  <2>. QED BY <2>1 DEF CacheOK, CacheOf, Covering
<1>8. Looping'
  BY <1>4, <1>5 DEF Looping, Fresh
<1>9. Caching'
  BY <1>1, <1>2, <1>3, CachingWrite
<1>. QED BY <1>3, <1>6, <1>7, <1>8, <1>9 DEF GrepInv

-----------------------------------------------------------------------------
(***************************************************************************)
(* The steps of the search.                                                *)
(***************************************************************************)
\* What a step that leaves the file alone keeps without further ado.
LEMMA FileStays ==
  ASSUME LogInv, Classed, Owed, UNCHANGED fileVars
  PROVE  /\ LogInv' /\ Classed' /\ Owed'
         /\ UNCHANGED dicts /\ CacheOK => CacheOK'
<1>1. file' = file /\ known' = known /\ sent' = sent
  BY DEF fileVars
<1>2. Classed' /\ Owed'
  BY <1>1 DEF Classed, Owed
<1>3. UNCHANGED dicts /\ CacheOK => CacheOK'
  BY <1>1 DEF CacheOK, CacheOf, DictRecs
<1>. QED BY <1>2, <1>3, LogKept

\* A step that reads nothing.
LEMMA UnreadKeeps ==
  ASSUME GrepInv, UNCHANGED <<fileVars, dicts>>, GrepTypeOK', Looping', Caching',
         pos' <= pos \/ (pos' = pos + 1 /\ pos + 1 \notin DictRecs)
  PROVE  GrepInv'
<1>1. /\ LogInv /\ CacheOK /\ GrepTypeOK /\ Classed /\ Owed /\ Covering
  BY DEF GrepInv
<1>2. LogInv' /\ Classed' /\ Owed' /\ CacheOK'
  BY <1>1, FileStays
<1>3. Covering'
  <2>1. UNCHANGED file /\ UNCHANGED dicts /\ pos' \in Nat
    BY DEF fileVars, GrepTypeOK
  <2>. QED BY <1>1, <2>1, CoveringBack, CoveringPassed
<1>. QED BY <1>2, <1>3 DEF GrepInv

LEMMA StartKeeps == GrepInv /\ Start => GrepInv'
<1>1. SUFFICES ASSUME GrepInv, Start PROVE GrepInv'
  OBVIOUS
<1>2. /\ LogInv /\ CacheOK /\ GrepTypeOK /\ Looping /\ Caching
  BY <1>1 DEF GrepInv
<1>3. /\ UNCHANGED <<fileVars, readerVars, opt, scanned, posBuffer, force, total,
                     inRegion, due>>
      /\ \/ loc' = "dating" /\ pin' = pos
         \/ loc' = "top" /\ pin' = pin
      /\ UNCHANGED <<file, dicts, pos, delivered, broken>> /\ loc = "outside"
  BY <1>1 DEF Start, fileVars, readerVars
<1>4. GrepTypeOK'
  <2>1. pin' \in Int /\ pos' <= pos /\ broken' = FALSE
    BY <1>2, <1>3 DEF GrepTypeOK
  <2>. QED BY <1>2, <1>3, <2>1 DEF GrepTypeOK
<1>5. Looping' /\ Caching' /\ pos' <= pos
  BY <1>1, <1>2, <1>3, LoopingStart, CachingStart DEF GrepTypeOK
<1>. QED BY <1>1, <1>3, <1>4, <1>5, UnreadKeeps

LEMMA TopKeeps == GrepInv /\ Top => GrepInv'
<1>1. SUFFICES ASSUME GrepInv, Top PROVE GrepInv'
  OBVIOUS
<1>2. /\ LogInv /\ CacheOK /\ GrepTypeOK /\ Looping /\ Caching
  BY <1>1 DEF GrepInv
<1>3. /\ UNCHANGED <<fileVars, readerVars, opt, scanned, force, total, inRegion,
                     due>>
      /\ loc = "top" /\ loc' = "parse"
      /\ UNCHANGED <<file, dicts, pos, delivered, broken>>
  BY <1>1 DEF Top, fileVars, readerVars
<1>4. Looping' /\ posBuffer' \in Seq(Nat) /\ pin' \in Int /\ Caching'
  BY <1>1, <1>2, LoopingTop, CachingTop
<1>5. GrepTypeOK' /\ pos' <= pos
  <2>1. broken' = FALSE /\ pos' <= pos
    BY <1>2, <1>3 DEF GrepTypeOK
  <2>. QED BY <1>2, <1>3, <1>4, <2>1 DEF GrepTypeOK
<1>. QED BY <1>1, <1>3, <1>4, <1>5, UnreadKeeps

LEMMA FinishKeeps == GrepInv /\ Finish => GrepInv'
<1>1. SUFFICES ASSUME GrepInv, Finish PROVE GrepInv'
  OBVIOUS
<1>2. /\ LogInv /\ CacheOK /\ GrepTypeOK /\ Looping /\ Caching
  BY <1>1 DEF GrepInv
<1>3. /\ UNCHANGED <<fileVars, readerVars, opt, scanned, posBuffer, pin, force,
                     total, inRegion, due>>
      /\ loc \in {"top", "parse"} /\ loc' = "done"
      /\ UNCHANGED <<file, dicts, pos, delivered, broken>>
  BY <1>1 DEF Finish, fileVars, readerVars
<1>4. Looping' /\ Caching'
  BY <1>1, <1>2, <1>3, LoopingFinish, CachingEnds
<1>5. GrepTypeOK' /\ pos' <= pos
  <2>1. broken' = FALSE /\ pos' <= pos
    BY <1>2, <1>3 DEF GrepTypeOK
  <2>. QED BY <1>2, <1>3, <2>1 DEF GrepTypeOK
<1>. QED BY <1>1, <1>3, <1>4, <1>5, UnreadKeeps

LEMMA DateRecordKeeps == GrepInv /\ DateRecord => GrepInv'
<1>1. SUFFICES ASSUME GrepInv, DateRecord PROVE GrepInv'
  OBVIOUS
<1>2. /\ LogInv /\ CacheOK /\ GrepTypeOK /\ Looping /\ Caching
  BY <1>1 DEF GrepInv
<1>3. /\ UNCHANGED <<fileVars, dicts, delivered, broken, opt, loc, posBuffer, pin,
                     force, total, inRegion, due>>
      /\ loc = "dating" /\ pos' = pos + 1 /\ pos < Len(file)
      /\ file[pos + 1].kind = "V" /\ UNCHANGED file
      /\ scanned' = IF Class = "hit" THEN ScanRecords ELSE scanned + 1
  BY <1>1 DEF DateRecord, Matching, Ready, Advance, fileVars
<1>4. Looping' /\ Caching'
  BY <1>1, <1>2, LoopingDateRecord, CachingDateRecord
<1>5. GrepTypeOK'
  <2>1. scanned' \in Nat
    <3>1. scanned \in Nat /\ ScanRecords \in Nat
      BY <1>2, GrepAssumption DEF GrepTypeOK
    <3>. QED BY <1>3, <3>1
  <2>2. pos' \in Nat /\ pos' <= Len(file') /\ broken' = FALSE
    <3>1. Len(file) \in Nat /\ pos \in Nat /\ broken = FALSE
      BY <1>2, <1>3, FileFacts DEF GrepTypeOK
    <3>. QED BY <1>3, <3>1
  <2>. QED BY <1>2, <1>3, <2>1, <2>2 DEF GrepTypeOK
<1>6. pos + 1 \notin DictRecs
  BY <1>3 DEF DictRecs
<1>. QED BY <1>1, <1>3, <1>4, <1>5, <1>6, UnreadKeeps

LEMMA DateScannedKeeps == GrepInv /\ DateScanned => GrepInv'
<1>1. SUFFICES ASSUME GrepInv, DateScanned PROVE GrepInv'
  OBVIOUS
<1>2. /\ LogInv /\ CacheOK /\ GrepTypeOK /\ Looping /\ Caching
  BY <1>1 DEF GrepInv
<1>3. /\ UNCHANGED <<fileVars, dicts, delivered, broken, opt, scanned, posBuffer,
                     force, total, inRegion, due>>
      /\ loc = "dating" /\ pos' = 0 /\ pin' = NoPin /\ loc' = "top"
      /\ UNCHANGED file
  BY <1>1, <1>2 DEF DateScanned, Looping, fileVars
<1>4. Looping' /\ Caching'
  BY <1>1, <1>2, LoopingDateScanned, CachingDateScanned
<1>5. GrepTypeOK' /\ pos' <= pos
  <2>1. pin' \in Int
    BY <1>3 DEF NoPin
  <2>2. pos' \in Nat /\ pos' <= Len(file') /\ broken' = FALSE /\ pos' <= pos
    <3>1. Len(file) \in Nat /\ pos \in Nat /\ broken = FALSE
      BY <1>2, <1>3, FileFacts DEF GrepTypeOK
    <3>. QED BY <1>3, <3>1
  <2>. QED BY <1>2, <1>3, <2>1, <2>2 DEF GrepTypeOK
<1>. QED BY <1>1, <1>3, <1>4, <1>5, UnreadKeeps

LEMMA ParseKeeps == GrepInv /\ Parse => GrepInv'
<1>1. SUFFICES ASSUME GrepInv, Parse PROVE GrepInv'
  OBVIOUS
<1>2. /\ LogInv /\ CacheOK /\ GrepTypeOK /\ Looping /\ Caching
  BY <1>1 DEF GrepInv
<1>3. /\ UNCHANGED <<fileVars, dicts, delivered, broken, opt, scanned>>
      /\ loc = "parse" /\ UNCHANGED file /\ file[pos + 1].kind = "V"
      /\ inRegion' = Region /\ total' = IF Counted THEN total + 1 ELSE total
      /\ pin' = NoPin \/ pin' = pin
  BY <1>1 DEF Parse, Matching, Ready, fileVars
<1>4. /\ Looping' /\ pos' \in Nat /\ pos' <= Len(file)
      /\ posBuffer' \in Seq(Nat) /\ due' \in Nat /\ force' \in Nat
      /\ loc' = "top" => pos' = pos + 1
      /\ loc' = "print" \/ loc' = "top"
      /\ Caching'
  BY <1>1, <1>2, LoopingParse, CachingParse
<1>5. GrepTypeOK'
  <2>1. pin' \in Int
    BY <1>2, <1>3 DEF NoPin, GrepTypeOK
  <2>2. total' \in Nat
    BY <1>2, <1>3 DEF GrepTypeOK
  <2>3. inRegion' \in BOOLEAN
    BY <1>3 DEF Region, Counted
  <2>4. broken' = FALSE
    BY <1>2, <1>3 DEF GrepTypeOK
  <2>. QED BY <1>2, <1>3, <1>4, <2>1, <2>2, <2>3, <2>4 DEF GrepTypeOK
<1>6. pos' <= pos \/ (pos' = pos + 1 /\ pos + 1 \notin DictRecs)
  <2>1. pos + 1 \notin DictRecs
    BY <1>3 DEF DictRecs
  <2>2. pos' = Head(posBuffer) \/ pos' = posBuffer[Len(posBuffer)] \/ pos' = pos + 1
    BY <1>1 DEF Parse, Advance
  <2>3. loc' = "print" => pos' <= pos
    <3>1. PICK n \in Nat : Passed(sent, pos, n) /\ Counts(n) /\ AtParse(n)
      BY <1>2, <1>3 DEF Looping
    <3>2. ASSUME loc' = "print"
          PROVE  ~opt.count /\ (MatchedNow \/ (~MatchedNow /\ force > 0))
      <4>1. (MatchedNow /\ ~opt.count) \/ (~MatchedNow /\ force > 0)
        BY <1>1, <3>2 DEF Parse
      <4>2. (opt.count => force = 0) /\ force \in Nat
        BY <1>2 DEF Looping, GrepTypeOK
      <4>3. ~(0 > 0)
        OBVIOUS
      <4>. QED BY <4>1, <4>2, <4>3
    <3>. QED BY <1>1, <1>2, <3>1, <3>2, ParseMarked, ParseForced
  <2>. QED BY <1>4, <2>1, <2>3
<1>. QED BY <1>1, <1>3, <1>4, <1>5, <1>6, UnreadKeeps

LEMMA OutputValueKeeps == GrepInv /\ OutputValue => GrepInv'
<1>1. SUFFICES ASSUME GrepInv, OutputValue PROVE GrepInv'
  OBVIOUS
<1>2. /\ LogInv /\ CacheOK /\ GrepTypeOK /\ Looping /\ Caching
  BY <1>1 DEF GrepInv
<1>3. /\ UNCHANGED <<fileVars, opt, scanned, posBuffer, pin, force, total, inRegion>>
      /\ loc = "print" /\ loc' \in {"top", "print"}
      /\ UNCHANGED file /\ file[pos + 1].kind = "V"
  BY <1>1 DEF OutputValue, Matching, Ready, fileVars
<1>4. /\ Looping' /\ pos' = pos + 1 /\ pos < Len(file)
      /\ UNCHANGED <<dicts, broken>> /\ due' \in Nat /\ delivered' \in Seq(Value)
      /\ Caching'
  BY <1>1, <1>2, LoopingOutput, CachingOutput
<1>5. GrepTypeOK'
  <2>1. pos' \in Nat /\ pos' <= Len(file') /\ broken' = FALSE
    <3>1. Len(file) \in Nat /\ pos \in Nat /\ broken = FALSE
      BY <1>2, <1>3, FileFacts DEF GrepTypeOK
    <3>. QED BY <1>3, <1>4, <3>1
  <2>. QED BY <1>2, <1>3, <1>4, <2>1 DEF GrepTypeOK
<1>6. pos + 1 \notin DictRecs
  BY <1>3 DEF DictRecs
<1>. QED BY <1>1, <1>3, <1>4, <1>5, <1>6, UnreadKeeps

\* Some number of values lies before any place.
LEMMA PassedSome ==
  ASSUME LogInv, NEW p \in Nat
  PROVE  \E n : Passed(sent, p, n)
<1>1. DOMAIN sent = 1..Len(sent) /\ Len(sent) \in Nat
  BY FileFacts
<1>2. PICK S : S = {k \in DOMAIN sent : sent[k].sor < p * RecSize}
  OBVIOUS
<1>3. CASE S = {}
  <2>1. \A m \in DOMAIN sent : ~(m <= 0) /\ ~(sent[m].sor < p * RecSize)
    BY <1>1, <1>2, <1>3
  <2>2. Passed(sent, p, 0)
    BY <1>1, <2>1 DEF Passed
  <2>. QED BY <2>2
<1>4. CASE S # {}
  <2>1. S \in SUBSET Nat /\ \A k \in S : k <= Len(sent)
    BY <1>1, <1>2
  <2>2. PICK n \in S : \A k \in S : k <= n
    BY <1>1, <1>4, <2>1, GreatestNatural
  <2>3. n \in DOMAIN sent /\ n \in 0..Len(sent) /\ sent[n].sor < p * RecSize
    BY <1>1, <1>2, <2>2
  <2>4. ASSUME NEW m \in DOMAIN sent
        PROVE  m <= n <=> sent[m].sor < p * RecSize
    <3>1. /\ m \in Nat /\ n \in Nat /\ p * RecSize \in Nat
          /\ sent[m].sor \in Nat /\ sent[n].sor \in Nat
      BY <1>1, <2>3, FileFacts DEF RecSize
    <3>2. m < n <=> sent[m].sor < sent[n].sor
      BY <2>3, SentFacts
    <3>3. sent[m].sor < p * RecSize => m <= n
      BY <1>2, <2>2
    <3>4. m < n => sent[m].sor < p * RecSize
      BY <2>3, <3>1, <3>2
    <3>. QED BY <2>3, <3>1, <3>3, <3>4
  <2>. QED BY <2>3, <2>4 DEF Passed
<1>. QED BY <1>3, <1>4

LEMMA ApproachKeeps == GrepInv /\ Approach => GrepInv'
<1>1. SUFFICES ASSUME GrepInv, Approach PROVE GrepInv'
  OBVIOUS
<1>2. /\ LogInv /\ CacheOK /\ GrepTypeOK /\ Classed /\ Owed
      /\ Looping /\ Caching /\ Covering
  BY <1>1 DEF GrepInv
<1>3. /\ pos < Len(file) /\ file[pos + 1].kind # "V"
      /\ UNCHANGED <<fileVars, opt, delivered, scanned, posBuffer, pin, force,
                     total, inRegion, due>>
      /\ CacheOK'
      /\ \/ /\ ~broken' /\ pos' = pos + 1 /\ loc' = loc
         \/ /\ broken' = TRUE /\ UNCHANGED <<dicts, pos>> /\ loc' = "failed"
            /\ file[pos + 1].kind = "A" /\ ~Current
  BY <1>1, <1>2, ApproachReads
<1>4. UNCHANGED fileVars /\ UNCHANGED file /\ loc \in {"dating", "parse", "print"}
      /\ loc' = IF broken' THEN "failed" ELSE loc
  BY <1>1, <1>3 DEF fileVars, Approach
<1>5. LogInv' /\ Classed' /\ Owed'
  BY <1>2, <1>4, FileStays
<1>6. CASE ~broken' /\ pos' = pos + 1 /\ loc' = loc
  <2>1. Looping' /\ Caching'
    BY <1>1, <1>2, <1>6, LoopingApproach, CachingApproach
  <2>2. Covering'
    <3>1. PICK a, s, b \in Nat : Runs(a, s, b)
      BY <1>2, <1>4, AlwaysRuns
    <3>2. CASE ReadHeader
      <4>1. UNCHANGED dicts /\ pos + 1 \notin DictRecs
        BY <3>2 DEF ReadHeader, Ready, DictRecs
      <4>. QED BY <1>2, <1>4, <1>6, <4>1, CoveringPassed
    <3>3. CASE ReadClear
      BY <1>2, <1>4, <3>1, <3>3, CoveringClear
    <3>4. CASE ReadAdd
      BY <1>2, <1>4, <1>6, <3>1, <3>4, CoveringAdd
    <3>. QED BY <1>1, <3>2, <3>3, <3>4 DEF Approach
  <2>3. GrepTypeOK'
    <3>1. pos' \in Nat /\ pos' <= Len(file')
      <4>1. Len(file) \in Nat /\ pos \in Nat
        BY <1>2, FileFacts DEF GrepTypeOK
      <4>. QED BY <1>3, <1>4, <1>6, <4>1
    <3>2. broken' \in BOOLEAN
      <4>1. CASE ReadHeader \/ ReadClear
        BY <1>2, <4>1 DEF ReadHeader, ReadClear, Throw, GrepTypeOK
      <4>2. CASE ReadAdd
        BY <1>2, <4>2 DEF ReadAdd, Throw, GrepTypeOK
      <4>. QED BY <1>1, <4>1, <4>2 DEF Approach
    <3>. QED BY <1>2, <1>3, <1>6, <3>1, <3>2 DEF GrepTypeOK
  <2>. QED BY <1>3, <1>5, <2>1, <2>2, <2>3 DEF GrepInv
<1>7. CASE /\ broken' = TRUE /\ UNCHANGED <<dicts, pos>> /\ loc' = "failed"
           /\ file[pos + 1].kind = "A" /\ ~Current
  <2>1. Excused
    BY <1>2, <1>3, <1>4, <1>7, FailsExcused
  <2>2. Looping' /\ Caching'
    BY <1>2, <1>3, <1>7, <2>1, LoopingFailed, CachingEnds
  <2>3. pos' \in Nat /\ pos' <= pos
    BY <1>2, <1>7 DEF GrepTypeOK
  <2>4. Covering'
    BY <1>2, <1>4, <1>7, <2>3, CoveringBack
  <2>5. GrepTypeOK'
    BY <1>2, <1>3, <1>4, <1>7 DEF GrepTypeOK
  <2>. QED BY <1>3, <1>5, <2>2, <2>4, <2>5 DEF GrepInv
<1>. QED BY <1>3, <1>6, <1>7

LEMMA FailsKeeps == GrepInv /\ Fails => GrepInv'
<1>1. SUFFICES ASSUME GrepInv, Fails PROVE GrepInv'
  OBVIOUS
<1>2. /\ LogInv /\ CacheOK /\ GrepTypeOK /\ Classed /\ Owed
      /\ Looping /\ Caching /\ Covering
  BY <1>1 DEF GrepInv
<1>3. /\ loc \in {"dating", "parse", "print"} /\ loc' = "failed"
      /\ pos < Len(file) /\ file[pos + 1].kind = "V" /\ Unreadable
      /\ broken' = TRUE /\ UNCHANGED <<dicts, pos, delivered>>
      /\ UNCHANGED <<fileVars, opt, scanned, posBuffer, pin, force, total,
                     inRegion, due>>
      /\ UNCHANGED file
  BY <1>1 DEF Fails, Ready, Throw, fileVars
<1>4. ~Current
  <2>1. PICK n : Passed(sent, pos, n)
    BY <1>2, PassedSome DEF GrepTypeOK
  <2>. QED BY <1>2, <1>3, <2>1, Seen DEF GrepTypeOK
<1>5. LogInv' /\ Classed' /\ Owed' /\ CacheOK'
  BY <1>2, <1>3, FileStays
<1>6. Excused
  BY <1>2, <1>3, <1>4, FailsExcused
<1>7. Looping' /\ Caching'
  BY <1>2, <1>3, <1>6, LoopingFailed, CachingEnds
<1>8. pos' \in Nat /\ pos' <= pos
  BY <1>2, <1>3 DEF GrepTypeOK
<1>9. Covering'
  BY <1>2, <1>3, <1>8, CoveringBack
<1>10. GrepTypeOK'
  BY <1>2, <1>3 DEF GrepTypeOK
<1>. QED BY <1>5, <1>7, <1>9, <1>10 DEF GrepInv

LEMMA InitKeeps == GrepInit => GrepInv
<1>1. SUFFICES ASSUME GrepInit PROVE GrepInv
  OBVIOUS
<1>2. LogInv
  BY <1>1, LogBegins DEF GrepInit
<1>3. /\ sent = <<>> /\ Len(file) = 2
      /\ file[1].kind = "H" /\ file[2].kind = "C"
  <2>1. Len(file) = 2
    BY <1>1 DEF GrepInit, LogInit
  <2>. QED BY <1>1, <1>2, <2>1 DEF GrepInit, LogInit, LogInv, Shape
<1>4. /\ dicts = <<>> /\ pos = 0 /\ delivered = <<>> /\ broken = FALSE
      /\ opt \in Options /\ loc = "outside" /\ scanned = 0 /\ posBuffer = <<>>
      /\ pin = -1 /\ force = 0 /\ total = 0 /\ inRegion = FALSE /\ due = 0
  BY <1>1 DEF GrepInit, ReaderInit, NoPin
<1>5. GrepTypeOK
  <2>1. posBuffer \in Seq(Nat) /\ delivered \in Seq(Value)
    BY <1>4
  <2>2. pin \in Int /\ 0 <= Len(file)
    BY <1>3, <1>4
  <2>. QED BY <1>4, <2>1, <2>2 DEF GrepTypeOK
<1>6. CacheOK /\ Covering
  BY <1>4 DEF CacheOK, CacheOf, Covering
<1>7. Classed
  BY <1>3 DEF Classed
<1>8. Owed
  <2>1. \A i \in DOMAIN file : i = 1 \/ i = 2
    BY <1>2, <1>3, FileFacts
  <2>. QED BY <1>3, <2>1 DEF Owed
<1>9. Looping
  BY <1>4 DEF Looping, Fresh
<1>10. Caching
  <2>1. Runs(0, 0, 0) /\ Clears(0) = 0
    BY <1>2, <1>4, RunsEmpty
  <2>. QED BY <1>4, <2>1 DEF Caching, Forward
<1>. QED BY <1>2, <1>5, <1>6, <1>7, <1>8, <1>9, <1>10 DEF GrepInv

-----------------------------------------------------------------------------
(***************************************************************************)
(* What holds of every search.                                             *)
(***************************************************************************)
\* Wherever the loop is, what it has counted, printed and noted is what the
\* values passed so far call for; the cache is a run of consecutive
\* dictionaries, or the rest of one with a newer one begun in front of it; and
\* a cached dictionary lacks nothing that was read.
THEOREM GrepInvariant == GrepSpec => []GrepInv
<1>1. GrepInv /\ [GrepNext]_allVars => GrepInv'
  <2>1. SUFFICES ASSUME GrepInv, GrepNext \/ UNCHANGED allVars PROVE GrepInv'
    OBVIOUS
  <2>2. CASE Write
    BY <2>1, <2>2, WriteKeeps
  <2>3. CASE Start
    BY <2>1, <2>3, StartKeeps
  <2>4. CASE DateRecord
    BY <2>1, <2>4, DateRecordKeeps
  <2>5. CASE DateScanned
    BY <2>1, <2>5, DateScannedKeeps
  <2>6. CASE Top
    BY <2>1, <2>6, TopKeeps
  <2>7. CASE Approach
    BY <2>1, <2>7, ApproachKeeps
  <2>8. CASE Parse
    BY <2>1, <2>8, ParseKeeps
  <2>9. CASE OutputValue
    BY <2>1, <2>9, OutputValueKeeps
  <2>10. CASE Fails
    BY <2>1, <2>10, FailsKeeps
  <2>11. CASE Finish
    BY <2>1, <2>11, FinishKeeps
  <2>12. CASE UNCHANGED allVars
    BY <2>1, <2>12, StutterKeeps
  <2>. QED BY <2>1, <2>2, <2>3, <2>4, <2>5, <2>6, <2>7, <2>8, <2>9, <2>10,
              <2>11, <2>12
           DEF GrepNext, GrepStep
<1>. QED BY <1>1, InitKeeps, PTL DEF GrepSpec

\* What has been printed at any time is the first of the records wanted, each
\* once, in order and as it was written, and at the end it is all of them:
\* the marked records and their contexts, however they overlap and however
\* many dictionaries begin among them.
THEOREM WantedPrinted == GrepSpec => []PrintsWanted
<1>1. GrepInv => PrintsWanted
  <2>1. SUFFICES ASSUME GrepInv, loc # "outside", ~opt.count
                 PROVE  /\ \A n \in DOMAIN delivered : \E k \in Wanted :
                             /\ Cardinality({j \in Wanted : j < k}) = n - 1
                             /\ delivered[n] = sent[k].value
                        /\ loc = "done" => Len(delivered) = Cardinality(Wanted)
    BY DEF PrintsWanted
  <2>2. LogInv /\ GrepTypeOK /\ Looping
    BY <2>1 DEF GrepInv
  <2>3. AsWanted
    BY <2>1, <2>2, AlwaysAsWanted
  <2>4. ASSUME loc = "done"
        PROVE  Len(delivered) = Cardinality(Wanted)
    <3>1. Lists(delivered, Printed(Len(sent)))
      BY <2>1, <2>2, <2>4 DEF Looping
    <3>2. Printed(Len(sent)) = Wanted
      BY <2>2, PrintedAll DEF GrepTypeOK
    <3>. QED BY <3>1, <3>2 DEF Lists
  <2>. QED BY <2>3, <2>4 DEF AsWanted, Nth
<1>. QED BY <1>1, GrepInvariant, PTL

\* With -c the total at the end is how many records match, or -m if that is
\* less.
THEOREM HitsCounted == GrepSpec => []CountsHits
<1>1. GrepInv => CountsHits
  <2>1. SUFFICES ASSUME GrepInv, loc = "done" PROVE total = Cardinality(Hits)
    BY DEF CountsHits
  <2>2. LogInv /\ Counts(Len(sent))
    BY <2>1 DEF GrepInv, Looping
  <2>. QED BY <2>2, CountsEnd
<1>. QED BY <1>1, GrepInvariant, PTL

\* A search fails only where so many dictionaries begin within one context
\* that the first of them is no longer kept.
THEOREM ContextRead == GrepSpec => []ContextReadable
<1>1. GrepInv => ContextReadable
  BY DEF GrepInv, Looping, ContextReadable
<1>. QED BY <1>1, GrepInvariant, PTL

\* Every place gone back to is the one that is pinned: a pipe serves as well
\* as a file.
THEOREM BackPinned == GrepSpec => RewindsPinned
<1>1. GrepInv /\ [GrepNext]_allVars => [pos' < pos => pin # NoPin /\ pin <= pos']_allVars
  <2>1. SUFFICES ASSUME GrepInv, GrepNext, pos' < pos
                 PROVE  pin # NoPin /\ pin <= pos'
    OBVIOUS
  <2>2. LogInv /\ CacheOK /\ GrepTypeOK /\ Looping /\ pos \in Nat
    BY <2>1 DEF GrepInv, GrepTypeOK
  <2>3. ~(pos < pos) /\ ~(pos + 1 < pos)
    BY <2>2
  <2>4. CASE Write \/ Start \/ Top \/ Finish
    <3>1. pos' = pos
      BY <2>4 DEF Write, Start, Top, Finish, readerVars
    <3>. QED BY <2>1, <2>3, <3>1
  <2>5. CASE DateRecord
    <3>1. pos' = pos + 1
      BY <2>5 DEF DateRecord, Advance
    <3>. QED BY <2>1, <2>3, <3>1
  <2>6. CASE DateScanned
    <3>1. pin = 0 /\ pos' = pin
      BY <2>2, <2>6 DEF DateScanned, Looping
    <3>. QED BY <3>1 DEF NoPin
  <2>7. CASE Approach
    <3>1. pos' = pos + 1 \/ pos' = pos
      BY <2>2, <2>7, ApproachReads
    <3>. QED BY <2>1, <2>3, <3>1
  <2>8. CASE Parse
    <3>1. pin = pos' /\ pin # NoPin /\ pos' \in Nat
      BY <2>1, <2>2, <2>8, LoopingParse
    <3>. QED BY <3>1
  <2>9. CASE OutputValue
    <3>1. pos' = pos + 1
      BY <2>2, <2>9, LoopingOutput
    <3>. QED BY <2>1, <2>3, <3>1
  <2>10. CASE Fails
    <3>1. pos' = pos
      BY <2>10 DEF Fails, Throw
    <3>. QED BY <2>1, <2>3, <3>1
  <2>. QED BY <2>1, <2>4, <2>5, <2>6, <2>7, <2>8, <2>9, <2>10
           DEF GrepNext, GrepStep
<1>. QED BY <1>1, GrepInvariant, PTL DEF GrepSpec, RewindsPinned
=============================================================================
