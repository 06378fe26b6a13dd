---------------------------- MODULE AuLog_proofs ----------------------------
(***************************************************************************)
(* What a log file looks like however it was written, and that a cache of  *)
(* dictionaries read from it stays true: the facts that reading a log from *)
(* anywhere rests on.                                                      *)
(***************************************************************************)
EXTENDS AuLog, SequenceTheorems, WellFoundedInduction, TLAPS

Str == [addedAt : Nat]
\* What a value may hold besides: for grep, what it is to the pattern.
Literal == {"hit", "miss", "neither"}
Tok == [kind : {"ref"}, idx : Nat] \cup [kind : {"literal"}, value : Literal]
Record == [kind : {"H", "C", "A", "V"}, sor : Nat, backref : Int,
           content : Seq(Str) \cup Seq(Tok)]
Value == Seq(Str \cup Literal)
Sent == [sor : Nat, value : Value]
DictRecord == [entries : Seq(Str), startPos : Nat, lastDictPos : Nat]

LogTypeOK ==
  /\ file \in Seq(Record)
  /\ known \in Seq(Seq(Str))
  /\ sent \in Seq(Sent)

Shape ==
  /\ Len(file) >= 2 /\ Len(known) = Len(file)
  /\ file[1].kind = "H" /\ file[2].kind = "C"
  /\ \A i \in DOMAIN file :
       /\ file[i].sor = (i - 1) * RecSize
       /\ file[i].kind = "H" => i = 1
       /\ file[i].kind = "C" => known[i] = <<>>
       /\ file[i].kind = "A" => /\ file[i].content \in Seq(Str)
                                /\ file[i].content # <<>>
       /\ file[i].kind = "V" => file[i].content \in Seq(Tok)

\* The nearest dictionary record before place i.
Nearest(D, t, i) ==
  /\ t \in D /\ t < i
  /\ \A j \in D : j < i => j <= t

\* A backref leads to it, and nothing changes the dictionary from there on.
Linkage ==
  /\ \A i \in DOMAIN file : file[i].kind \in {"A", "V"} =>
       \E t \in DictRecs :
         /\ Nearest(DictRecs, t, i)
         /\ file[i].backref = (i - t) * RecSize
         /\ known[i] = IF file[i].kind = "A" THEN known[t] \o file[i].content
                       ELSE known[t]
  /\ \E t \in DictRecs :
       Nearest(DictRecs, t, Len(file) + 1) /\ known[Len(file)] = known[t]

NoClear(f, i, j) == \A c \in DOMAIN f : i < c /\ c <= j => f[c].kind # "C"

Within(s, t) == Len(s) <= Len(t) /\ \A n \in 1..Len(s) : t[n] = s[n]

Growing ==
  \A i, j \in DOMAIN file : i <= j /\ NoClear(file, i, j) => Within(known[i], known[j])

\* Content stands for a value over a dictionary.
Encodes(content, value, strings) ==
  /\ Len(content) = Len(value)
  /\ \A n \in 1..Len(content) :
       \/ /\ content[n].kind = "ref"
          /\ content[n].idx \in 0..(Len(strings) - 1)
          /\ value[n] = strings[content[n].idx + 1]
       \/ /\ content[n].kind = "literal"
          /\ value[n] = content[n].value

Sending ==
  /\ \A i \in DOMAIN file : file[i].kind = "V" =>
       \E m \in DOMAIN sent :
         /\ sent[m].sor = file[i].sor
         /\ Encodes(file[i].content, sent[m].value, known[i])
  /\ \A m \in DOMAIN sent :
       \E i \in DOMAIN file : file[i].kind = "V" /\ sent[m].sor = file[i].sor
  /\ \A m, n \in DOMAIN sent : m < n => sent[m].sor < sent[n].sor

LogInv == LogTypeOK /\ Shape /\ Linkage /\ Growing /\ Sending

\* Over the dictionary records D of file f, with the dictionaries kn behind its
\* records.
TrueDict(D, f, kn, d) ==
  \E i, j \in D :
    /\ i <= j
    /\ f[i].kind = "C" /\ f[i].sor = d.startPos
    /\ f[j].sor = d.lastDictPos
    /\ NoClear(f, i, j)
    /\ kn[j] = d.entries

CacheOf(ds) ==
  /\ ds \in Seq(DictRecord)
  /\ \A k \in DOMAIN ds : TrueDict(DictRecs, file, known, ds[k])

CacheOK == CacheOf(dicts)

\* The reader has the dictionary in force where it is.
Current ==
  \E t \in DictRecs : Nearest(DictRecs, t, pos + 1) /\ Search(dicts, file[t].sor) # 0

-----------------------------------------------------------------------------
LEMMA LeastNatural ==
  ASSUME NEW S \in SUBSET Nat, S # {}
  PROVE  \E m \in S : \A n \in S : m <= n
<1> DEFINE R == OpToRel(<, Nat)
<1>1. IsWellFoundedOn(R, Nat)
  BY NatLessThanWellFounded
<1>2. \A m, n \in Nat : m < n => <<m, n>> \in R
  BY DEF OpToRel
<1> HIDE DEF R
<1>3. PICK m \in S : \A n \in S : ~(<<n, m>> \in R)
  BY <1>1, WFMin
<1>4. \A n \in S : m \in Nat /\ n \in Nat /\ ~(n < m)
  <2> SUFFICES ASSUME NEW n \in S PROVE m \in Nat /\ n \in Nat /\ ~(n < m)
    OBVIOUS
  <2>1. m \in Nat /\ n \in Nat
    OBVIOUS
  <2>2. ~(<<n, m>> \in R)
    BY <1>3
  <2>3. n < m => <<n, m>> \in R
    BY <1>2, <2>1
  <2>. QED BY <2>1, <2>2, <2>3
<1>. QED BY <1>4

LEMMA GreatestNatural ==
  ASSUME NEW S \in SUBSET Nat, S # {}, NEW b \in Nat, \A n \in S : n <= b
  PROVE  \E m \in S : \A n \in S : n <= m
<1> DEFINE D == {b - n : n \in S}
<1>1. D \in SUBSET Nat /\ D # {}
  <2>1. \A n \in S : b - n \in Nat
    OBVIOUS
  <2>. QED BY <2>1
<1>2. PICK d \in D : \A e \in D : d <= e
  BY <1>1, LeastNatural
<1>3. PICK m \in S : d = b - m
  BY <1>2
<1>4. \A n \in S : n <= m
  <2> SUFFICES ASSUME NEW n \in S PROVE n <= m
    OBVIOUS
  <2>1. d <= b - n
    BY <1>2
  <2>2. n \in Nat /\ m \in Nat
    OBVIOUS
  <2>. QED BY <1>3, <2>1, <2>2
<1>. QED BY <1>4

LEMMA GreatestFound ==
  ASSUME NEW S \in SUBSET Nat, S # {}, NEW b \in Nat, \A n \in S : n <= b
  PROVE  Max(S) \in S /\ \A n \in S : n <= Max(S)
<1>1. \E m \in S : \A n \in S : m >= n
  BY GreatestNatural
<1>. QED BY <1>1 DEF Max

-----------------------------------------------------------------------------
\* search() finds a dictionary that covers the position, if there is one, and
\* the newest if it does.
LEMMA SearchFinds ==
  ASSUME NEW ds \in Seq(DictRecord), NEW p \in Int
  PROVE  /\ Search(ds, p) \in 0..Len(ds)
         /\ Search(ds, p) # 0 => Includes(ds[Search(ds, p)], p)
         /\ (\E k \in DOMAIN ds : Includes(ds[k], p)) => Search(ds, p) # 0
         /\ ds # <<>> /\ Includes(ds[Len(ds)], p) => Search(ds, p) = Len(ds)
<1> DEFINE found == {i \in DOMAIN ds : Includes(ds[i], p)}
<1>1. DOMAIN ds = 1..Len(ds) /\ Len(ds) \in Nat
  OBVIOUS
<1>2. CASE found = {}
  <2>1. Search(ds, p) = 0
    BY <1>2 DEF Search
  <2>2. \A k \in DOMAIN ds : ~Includes(ds[k], p)
    BY <1>2
  <2>3. ds # <<>> => Len(ds) \in DOMAIN ds
    BY <1>1
  <2>. QED BY <1>1, <2>1, <2>2, <2>3
<1>3. CASE found # {}
  <2>1. found \in SUBSET Nat /\ \A n \in found : n <= Len(ds)
    BY <1>1
  <2>2. \E m \in found : \A n \in found : n <= m
    BY <1>1, <1>3, <2>1, GreatestNatural
  <2>3. Search(ds, p) = CHOOSE i \in found : \A j \in found : j <= i
    BY <1>3 DEF Search
  <2>4. Search(ds, p) \in found /\ \A j \in found : j <= Search(ds, p)
    BY <2>2, <2>3
  <2>5. Search(ds, p) \in 1..Len(ds) /\ Includes(ds[Search(ds, p)], p)
    BY <1>1, <2>4
  <2>6. ASSUME ds # <<>>, Includes(ds[Len(ds)], p)
        PROVE  Search(ds, p) = Len(ds)
    <3>1. Len(ds) \in found
      BY <1>1, <2>6
    <3>2. Len(ds) <= Search(ds, p)
      BY <2>4, <3>1
    <3>. QED BY <1>1, <2>5, <3>2
  <2>. QED BY <2>5, <2>6
<1>. QED BY <1>2, <1>3

LEMMA FileFacts ==
  ASSUME LogInv
  PROVE  /\ Len(file) \in Nat /\ Len(file) >= 2
         /\ DOMAIN file = 1..Len(file) /\ DOMAIN known = 1..Len(file)
         /\ DOMAIN sent = 1..Len(sent) /\ Len(sent) \in Nat
         /\ \A i \in DOMAIN file :
              /\ i \in Nat /\ file[i] \in Record /\ known[i] \in Seq(Str)
              /\ file[i].kind \in {"H", "C", "A", "V"}
              /\ file[i].sor = (i - 1) * RecSize /\ file[i].sor \in Nat
              /\ file[i].backref \in Int
         /\ \A m \in DOMAIN sent :
              /\ m \in Nat /\ sent[m] \in Sent
              /\ sent[m].sor \in Nat /\ sent[m].value \in Value
<1>1. /\ Len(file) \in Nat /\ Len(file) >= 2
      /\ DOMAIN file = 1..Len(file) /\ DOMAIN known = 1..Len(file)
      /\ DOMAIN sent = 1..Len(sent) /\ Len(sent) \in Nat
  BY DEF LogInv, LogTypeOK, Shape
<1>2. ASSUME NEW i \in DOMAIN file
      PROVE  /\ i \in Nat /\ file[i] \in Record /\ known[i] \in Seq(Str)
             /\ file[i].sor = (i - 1) * RecSize
  BY <1>1, <1>2 DEF LogInv, LogTypeOK, Shape
<1>3. ASSUME NEW i \in DOMAIN file
      PROVE  /\ file[i].kind \in {"H", "C", "A", "V"}
             /\ file[i].sor \in Nat /\ file[i].backref \in Int
  BY <1>2 DEF Record
<1>4. ASSUME NEW m \in DOMAIN sent
      PROVE  m \in Nat /\ sent[m] \in Sent
  BY <1>1, <1>4 DEF LogInv, LogTypeOK
<1>5. \A m \in DOMAIN sent : sent[m].sor \in Nat /\ sent[m].value \in Value
  BY <1>4 DEF Sent
<1>. QED BY <1>1, <1>2, <1>3, <1>4, <1>5

\* A position is the start of one record at most, and positions are ordered as
\* the records are.
LEMMA OneStart ==
  ASSUME LogInv, NEW i \in DOMAIN file, NEW j \in DOMAIN file
  PROVE  /\ file[i].sor < file[j].sor <=> i < j
         /\ file[i].sor <= file[j].sor <=> i <= j
         /\ file[i].sor = file[j].sor <=> i = j
<1>1. /\ i \in Nat /\ j \in Nat
      /\ file[i].sor = (i - 1) * RecSize /\ file[j].sor = (j - 1) * RecSize
  BY FileFacts
<1>. QED BY <1>1 DEF RecSize

LEMMA DictRecsFacts ==
  ASSUME LogInv
  PROVE  /\ DictRecs \subseteq DOMAIN file /\ DictRecs \subseteq Nat
         /\ \A i \in DictRecs : i >= 2
         /\ \A i \in DOMAIN file : i \in DictRecs <=> file[i].kind \in {"A", "C"}
<1>1. DictRecs \subseteq DOMAIN file /\ DOMAIN file = 1..Len(file)
      /\ Len(file) \in Nat
  BY FileFacts DEF DictRecs
<1>2. file[1].kind = "H"
  BY DEF LogInv, Shape
<1>3. \A i \in DictRecs : i # 1
  BY <1>2 DEF DictRecs
<1>. QED BY <1>1, <1>3 DEF DictRecs

LEMMA NearestUnique ==
  ASSUME LogInv, NEW i \in Nat, NEW s, NEW t, Nearest(DictRecs, s, i), Nearest(DictRecs, t, i)
  PROVE  s = t
<1>1. s \in Nat /\ t \in Nat /\ s <= t /\ t <= s
  BY DictRecsFacts DEF Nearest
<1>. QED BY <1>1

\* Where values are, in the file and among those sent.
LEMMA SentFacts ==
  ASSUME LogInv
  PROVE  /\ \A m \in DOMAIN sent :
              \E i \in 1..Len(file) :
                /\ file[i].kind = "V"
                /\ sent[m].sor = file[i].sor /\ sent[m].sor = (i - 1) * RecSize
         /\ \A i \in DOMAIN file : file[i].kind = "V" =>
              \E m \in DOMAIN sent : sent[m].sor = file[i].sor
         /\ \A m, n \in DOMAIN sent :
              (m < n <=> sent[m].sor < sent[n].sor)
<1>1. ASSUME NEW m \in DOMAIN sent
      PROVE  \E i \in 1..Len(file) :
                /\ file[i].kind = "V"
                /\ sent[m].sor = file[i].sor /\ sent[m].sor = (i - 1) * RecSize
  <2>1. PICK i \in DOMAIN file : file[i].kind = "V" /\ sent[m].sor = file[i].sor
    BY DEF LogInv, Sending
  <2>. QED BY <2>1, FileFacts
<1>2. ASSUME NEW m \in DOMAIN sent, NEW n \in DOMAIN sent
      PROVE  m < n <=> sent[m].sor < sent[n].sor
  <2>1. /\ m < n => sent[m].sor < sent[n].sor
        /\ n < m => sent[n].sor < sent[m].sor
    BY DEF LogInv, Sending
  <2>2. /\ m \in Nat /\ n \in Nat
        /\ sent[m].sor \in Nat /\ sent[n].sor \in Nat
    BY FileFacts
  <2>3. m < n \/ m = n \/ n < m
    BY <2>2
  <2>. QED BY <2>1, <2>2, <2>3
<1>3. \A i \in DOMAIN file : file[i].kind = "V" =>
        \E m \in DOMAIN sent : sent[m].sor = file[i].sor
  BY DEF LogInv, Sending
<1>. QED BY <1>1, <1>2, <1>3

\* The last dictionary record, and what the writer's dictionary holds.
LEMMA LastDictFacts ==
  ASSUME LogInv
  PROVE  /\ Nearest(DictRecs, LastDict, Len(file) + 1)
         /\ LastDict \in 2..Len(file)
         /\ Strings = known[LastDict] /\ Strings \in Seq(Str)
<1>1. PICK t \in DictRecs :
        Nearest(DictRecs, t, Len(file) + 1) /\ known[Len(file)] = known[t]
  BY DEF LogInv, Linkage
<1>2. DictRecs # {} /\ DictRecs \in SUBSET Nat /\ Len(file) \in Nat
      /\ \A n \in DictRecs : n >= 2 /\ n <= Len(file)
  BY <1>1, DictRecsFacts, FileFacts
<1>3. LastDict \in DictRecs /\ \A n \in DictRecs : n <= LastDict
  BY <1>2, GreatestFound DEF LastDict
<1>4. Nearest(DictRecs, LastDict, Len(file) + 1)
  BY <1>2, <1>3 DEF Nearest
<1>5. LastDict = t
  BY <1>1, <1>2, <1>4, NearestUnique
<1>6. Len(file) \in DOMAIN file
  BY FileFacts
<1>7. known[Len(file)] \in Seq(Str)
  BY <1>6, FileFacts
<1>. QED BY <1>1, <1>2, <1>3, <1>4, <1>5, <1>7 DEF Strings

-----------------------------------------------------------------------------
(***************************************************************************)
(* Writing.                                                                *)
(***************************************************************************)
Written(r, k) ==
  /\ file' = Append(file, r) /\ r \in Record
  /\ known' = Append(known, k) /\ k \in Seq(Str)

LEMMA WrittenFacts ==
  ASSUME LogInv, NEW r, NEW k, Written(r, k)
  PROVE  /\ file' \in Seq(Record) /\ known' \in Seq(Seq(Str))
         /\ Len(file') = Len(file) + 1 /\ Len(known') = Len(file) + 1
         /\ DOMAIN file' = 1..(Len(file) + 1)
         /\ \A i \in DOMAIN file : /\ i \in DOMAIN file' /\ i # Len(file) + 1
                                   /\ file'[i] = file[i] /\ known'[i] = known[i]
         /\ \A i \in DOMAIN file' : i \in DOMAIN file \/ i = Len(file) + 1
         /\ file'[Len(file) + 1] = r /\ known'[Len(file) + 1] = k
         /\ Len(file) + 1 \in DOMAIN file'
<1>1. file \in Seq(Record) /\ known \in Seq(Seq(Str)) /\ Len(known) = Len(file)
  BY DEF LogInv, LogTypeOK, Shape
<1>2. /\ file' \in Seq(Record) /\ Len(file') = Len(file) + 1
      /\ DOMAIN file' = 1..(Len(file) + 1) /\ DOMAIN file = 1..Len(file)
      /\ Len(file) \in Nat
      /\ \A i \in 1..Len(file) : file'[i] = file[i]
      /\ file'[Len(file) + 1] = r
  BY <1>1 DEF Written
<1>3. /\ known' \in Seq(Seq(Str)) /\ Len(known') = Len(known) + 1
      /\ \A i \in 1..Len(known) : known'[i] = known[i]
      /\ known'[Len(known) + 1] = k
  BY <1>1 DEF Written
<1>. QED BY <1>1, <1>2, <1>3

LEMMA WrittenDicts ==
  ASSUME LogInv, NEW r, NEW k, Written(r, k)
  PROVE  /\ \A i \in DOMAIN file : i \in DictRecs' <=> i \in DictRecs
         /\ Len(file) + 1 \in DictRecs' <=> r.kind \in {"A", "C"}
         /\ DictRecs \subseteq DictRecs'
         /\ \A i \in DictRecs' : i \in DictRecs \/ i = Len(file) + 1
         /\ \A t : \A i \in Nat : i <= Len(file) + 1 =>
              (Nearest(DictRecs', t, i) <=> Nearest(DictRecs, t, i))
<1>1. /\ \A i \in DOMAIN file : i \in DictRecs' <=> i \in DictRecs
      /\ Len(file) + 1 \in DictRecs' <=> r.kind \in {"A", "C"}
      /\ DictRecs \subseteq DictRecs'
      /\ \A i \in DictRecs' : i \in DictRecs \/ i = Len(file) + 1
  BY WrittenFacts DEF DictRecs
<1>2. ASSUME NEW t, NEW i \in Nat, i <= Len(file) + 1
      PROVE  Nearest(DictRecs', t, i) <=> Nearest(DictRecs, t, i)
  <2>1. \A j \in DictRecs' : j < i <=> (j \in DictRecs /\ j < i)
    BY <1>1, <1>2, DictRecsFacts, FileFacts
  <2>2. (\A j \in DictRecs' : j < i => j <= t)
          <=> (\A j \in DictRecs : j < i => j <= t)
    BY <1>1, <2>1
  <2>3. (t \in DictRecs' /\ t < i) <=> (t \in DictRecs /\ t < i)
    BY <1>1, <2>1
  <2>. QED BY <2>2, <2>3 DEF Nearest
<1>. QED BY <1>1, <1>2

\* Nothing said of a stretch of the file changes as the file grows.
LEMMA WrittenKeeps ==
  ASSUME LogInv, NEW r, NEW k, Written(r, k)
  PROVE  /\ \A i, j \in DOMAIN file : NoClear(file', i, j) <=> NoClear(file, i, j)
         /\ \A d : TrueDict(DictRecs, file, known, d) => TrueDict(DictRecs', file', known', d)
<1>1. ASSUME NEW i \in DOMAIN file, NEW j \in DOMAIN file
      PROVE  NoClear(file', i, j) <=> NoClear(file, i, j)
  <2>0. DOMAIN file' = 1..(Len(file) + 1) /\ DOMAIN file = 1..Len(file)
        /\ Len(file) \in Nat
    BY WrittenFacts, FileFacts
  <2>1. \A c \in DOMAIN file' : c <= j => c \in DOMAIN file
    BY <2>0
  <2>2. \A c \in DOMAIN file : c \in DOMAIN file' /\ file'[c] = file[c]
    BY WrittenFacts
  <2>. QED BY <2>1, <2>2 DEF NoClear
<1>2. ASSUME NEW d, TrueDict(DictRecs, file, known, d)
      PROVE  TrueDict(DictRecs', file', known', d)
  <2>1. PICK i, j \in DictRecs :
          /\ i <= j
          /\ file[i].kind = "C" /\ file[i].sor = d.startPos
          /\ file[j].sor = d.lastDictPos
          /\ NoClear(file, i, j)
          /\ known[j] = d.entries
    BY <1>2 DEF TrueDict
  <2>2. i \in DOMAIN file /\ j \in DOMAIN file
    BY DictRecsFacts
  <2>3. i \in DictRecs' /\ j \in DictRecs'
    BY WrittenDicts
  <2>4. NoClear(file', i, j)
    BY <1>1, <2>1, <2>2
  <2>5. file'[i] = file[i] /\ file'[j] = file[j] /\ known'[j] = known[j]
    BY <2>2, WrittenFacts
  <2>. QED BY <2>1, <2>3, <2>4, <2>5 DEF TrueDict
<1>. QED BY <1>1, <1>2

LEMMA WithinTransitive ==
  ASSUME NEW q \in Seq(Str), NEW s \in Seq(Str), NEW t \in Seq(Str),
         Within(q, s), Within(s, t)
  PROVE  Within(q, t)
BY DEF Within

LEMMA WithinConcat ==
  ASSUME NEW s \in Seq(Str), NEW t \in Seq(Str)
  PROVE  Within(s, s) /\ Within(s, s \o t) /\ s \o t \in Seq(Str)
BY DEF Within

\* What is asked of a new record, beyond its type.
NewShape(r, k) ==
  /\ r.sor = Len(file) * RecSize
  /\ r.kind # "H"
  /\ r.kind = "C" => k = <<>>
  /\ r.kind = "A" => r.content \in Seq(Str) /\ r.content # <<>>
  /\ r.kind = "V" => r.content \in Seq(Tok)
  /\ r.kind \in {"A", "V"} =>
       /\ r.backref = (Len(file) + 1 - LastDict) * RecSize
       /\ k = IF r.kind = "A" THEN Strings \o r.content ELSE Strings

LEMMA ShapeKept ==
  ASSUME LogInv, NEW r, NEW k, Written(r, k), NewShape(r, k)
  PROVE  Shape'
<1>1. Len(file') >= 2 /\ Len(known') = Len(file')
  BY WrittenFacts, FileFacts
<1>2. file'[1].kind = "H" /\ file'[2].kind = "C"
  <2>1. 1 \in DOMAIN file /\ 2 \in DOMAIN file
    BY FileFacts
  <2>2. file'[1] = file[1] /\ file'[2] = file[2]
    BY <2>1, WrittenFacts
  <2>. QED BY <2>2 DEF LogInv, Shape
<1>3. ASSUME NEW i \in DOMAIN file'
      PROVE  /\ file'[i].sor = (i - 1) * RecSize
             /\ file'[i].kind = "H" => i = 1
             /\ file'[i].kind = "C" => known'[i] = <<>>
             /\ file'[i].kind = "A" => /\ file'[i].content \in Seq(Str)
                                       /\ file'[i].content # <<>>
             /\ file'[i].kind = "V" => file'[i].content \in Seq(Tok)
  <2>1. CASE i \in DOMAIN file
    <3>1. file'[i] = file[i] /\ known'[i] = known[i]
      BY <2>1, WrittenFacts
    <3>. QED BY <2>1, <3>1 DEF LogInv, Shape
  <2>2. CASE i = Len(file) + 1
    <3>1. file'[i] = r /\ known'[i] = k /\ i - 1 = Len(file)
      BY <2>2, WrittenFacts, FileFacts
    <3>. QED BY <3>1 DEF NewShape
  <2>. QED BY <2>1, <2>2, WrittenFacts
<1>. QED BY <1>1, <1>2, <1>3 DEF Shape

LEMMA LinkageKept ==
  ASSUME LogInv, NEW r, NEW k, Written(r, k), NewShape(r, k)
  PROVE  Linkage'
<1>1. PICK t \in DictRecs : t = LastDict /\ Nearest(DictRecs, t, Len(file) + 1)
  BY LastDictFacts DEF Nearest
<1>2. Strings = known[t] /\ Strings \in Seq(Str) /\ t \in DOMAIN file
      /\ t \in DictRecs'
  BY <1>1, LastDictFacts, DictRecsFacts, WrittenDicts
<1>3. Len(file) + 1 \in Nat /\ Len(file') = Len(file) + 1
      /\ known'[t] = known[t]
  BY <1>2, FileFacts, WrittenFacts
<1>4. Nearest(DictRecs', t, Len(file) + 1)
  BY <1>1, <1>3, WrittenDicts
<1>5. ASSUME NEW i \in DOMAIN file', file'[i].kind \in {"A", "V"}
      PROVE  \E u \in DictRecs' :
               /\ Nearest(DictRecs', u, i)
               /\ file'[i].backref = (i - u) * RecSize
               /\ known'[i] = IF file'[i].kind = "A"
                              THEN known'[u] \o file'[i].content ELSE known'[u]
  <2>1. CASE i \in DOMAIN file
    <3>1. file'[i] = file[i] /\ known'[i] = known[i] /\ i \in Nat
          /\ i <= Len(file) + 1
      BY <2>1, WrittenFacts, FileFacts
    <3>2. PICK u \in DictRecs :
            /\ Nearest(DictRecs, u, i)
            /\ file[i].backref = (i - u) * RecSize
            /\ known[i] = IF file[i].kind = "A" THEN known[u] \o file[i].content
                          ELSE known[u]
      BY <1>5, <2>1, <3>1 DEF LogInv, Linkage
    <3>3. Nearest(DictRecs', u, i) /\ u \in DictRecs'
      BY <3>1, <3>2, WrittenDicts
    <3>4. known'[u] = known[u]
      BY DictRecsFacts, WrittenFacts
    <3>. QED BY <3>1, <3>2, <3>3, <3>4
  <2>2. CASE i = Len(file) + 1
    <3>1. file'[i] = r /\ known'[i] = k
      BY <2>2, WrittenFacts
    <3>2. r.backref = (i - t) * RecSize
          /\ k = IF r.kind = "A" THEN known[t] \o r.content ELSE known[t]
      <4>1. r.backref = (Len(file) + 1 - LastDict) * RecSize
            /\ k = IF r.kind = "A" THEN Strings \o r.content ELSE Strings
        BY <1>5, <3>1 DEF NewShape
      <4>2. r.backref = (i - t) * RecSize
        <5>1. i = Len(file) + 1 /\ t = LastDict
          BY <1>1, <2>2
        <5>2. i \in Nat /\ t \in Nat
          BY <1>3, <2>2, DictRecsFacts
        <5>. QED BY <4>1, <5>1, <5>2 DEF RecSize
      <4>3. Strings = known[t]
        BY <1>2
      <4>4. CASE r.kind = "A"
        BY <4>1, <4>2, <4>3, <4>4
      <4>5. CASE r.kind # "A"
        BY <4>1, <4>2, <4>3, <4>5
      <4>. QED BY <4>4, <4>5
    <3>3. t \in DictRecs' /\ Nearest(DictRecs', t, i) /\ known'[t] = known[t]
      BY <1>2, <1>3, <1>4, <2>2
    <3>4. /\ t \in DictRecs'
          /\ Nearest(DictRecs', t, i)
          /\ file'[i].backref = (i - t) * RecSize
          /\ known'[i] = IF file'[i].kind = "A"
                         THEN known'[t] \o file'[i].content ELSE known'[t]
      BY <3>1, <3>2, <3>3
    <3>. QED BY Zenon, <3>4
  <2>. QED BY <2>1, <2>2, WrittenFacts
<1>6. \E u \in DictRecs' : Nearest(DictRecs', u, Len(file') + 1)
                          /\ known'[Len(file')] = known'[u]
  <2>1. CASE r.kind \in {"A", "C"}
    <3>1. PICK u \in Nat : u = Len(file) + 1
      BY <1>3
    <3>2. u \in DictRecs'
      BY <2>1, <3>1, WrittenDicts
    <3>3. \A j \in DictRecs' : j <= u
      BY <3>1, WrittenDicts, DictRecsFacts, FileFacts
    <3>4. Len(file') + 1 = u + 1 /\ u < u + 1
      BY <1>3, <3>1
    <3>5. Nearest(DictRecs', u, Len(file') + 1)
      BY <3>2, <3>3, <3>4 DEF Nearest
    <3>. QED BY <1>3, <3>1, <3>2, <3>5
  <2>2. CASE r.kind = "V"
    <3>1. \A j \in DictRecs' : j \in DictRecs
      BY <2>2, WrittenDicts
    <3>2. \A j \in DictRecs' : j <= t
      BY <1>1, <3>1, DictRecsFacts, FileFacts DEF Nearest
    <3>3. t < Len(file') + 1
      BY <1>1, <1>3, DictRecsFacts DEF Nearest
    <3>4. Nearest(DictRecs', t, Len(file') + 1)
      BY <1>2, <3>2, <3>3 DEF Nearest
    <3>5. known'[Len(file')] = known[t]
      BY <1>2, <1>3, <2>2, WrittenFacts DEF NewShape
    <3>. QED BY <1>2, <1>3, <3>4, <3>5
  <2>. QED BY <2>1, <2>2 DEF Written, Record, NewShape
<1>. QED BY <1>5, <1>6 DEF Linkage

LEMMA GrowingKept ==
  ASSUME LogInv, NEW r, NEW k, Written(r, k), NewShape(r, k)
  PROVE  Growing'
<1>1. SUFFICES ASSUME NEW i \in DOMAIN file', NEW j \in DOMAIN file', i <= j,
                      NoClear(file', i, j)
               PROVE  Within(known'[i], known'[j])
  BY DEF Growing
<1>2. /\ DOMAIN file' = 1..(Len(file) + 1) /\ DOMAIN file = 1..Len(file)
      /\ Len(file) \in Nat /\ Len(file) >= 2
  BY WrittenFacts, FileFacts
<1>3. CASE j \in DOMAIN file
  <2>1. i \in DOMAIN file
    BY <1>1, <1>2, <1>3
  <2>2. NoClear(file, i, j)
    BY <1>1, <1>3, <2>1, WrittenKeeps
  <2>3. known'[i] = known[i] /\ known'[j] = known[j]
    BY <1>3, <2>1, WrittenFacts
  <2>. QED BY <1>1, <1>3, <2>1, <2>2, <2>3 DEF LogInv, Growing
<1>4. CASE i = j
  <2>1. known'[j] \in Seq(Str)
    BY WrittenFacts, <1>2
  <2>. QED BY <1>4, <2>1, WithinConcat
<1>5. CASE j = Len(file) + 1 /\ i # j
  <2>1. PICK n \in DOMAIN file : n = Len(file) /\ i <= n /\ i \in DOMAIN file
    BY <1>1, <1>2, <1>5
  <2>2. NoClear(file', i, n)
    BY <1>1, <1>2, <1>5, <2>1 DEF NoClear
  <2>3. NoClear(file, i, n)
    BY <2>1, <2>2, WrittenKeeps
  <2>4. Within(known[i], known[n])
    BY <2>1, <2>3 DEF LogInv, Growing
  <2>5. file'[j] = r /\ known'[j] = k /\ known'[i] = known[i]
    BY <1>5, <2>1, WrittenFacts
  <2>6. r.kind # "C"
    BY <1>1, <1>2, <1>5, <2>1, <2>5 DEF NoClear
  <2>7. r.kind \in {"A", "V"} /\ (r.kind = "A" => r.content \in Seq(Str))
        /\ k = IF r.kind = "A" THEN Strings \o r.content ELSE Strings
    BY <2>6 DEF Written, Record, NewShape
  <2>8. known[n] = Strings /\ Strings \in Seq(Str) /\ known[i] \in Seq(Str)
    BY <2>1, FileFacts DEF Strings
  <2>9. Within(Strings, k) /\ k \in Seq(Str)
    BY <2>7, <2>8, WithinConcat
  <2>. QED BY <2>4, <2>5, <2>8, <2>9, WithinTransitive
<1>. QED BY <1>2, <1>3, <1>4, <1>5

LEMMA SequenceOf ==
  ASSUME NEW S, NEW n \in Nat, NEW f \in [1..n -> S]
  PROVE  f \in Seq(S) /\ Len(f) = n
<1>1. f \in Seq(S)
  BY SeqDef
<1>2. Len(f) \in Nat /\ DOMAIN f = 1..Len(f) /\ DOMAIN f = 1..n
  BY <1>1, LenProperties
<1>3. 1..Len(f) = 1..n
  BY <1>2
<1>4. CASE n = 0
  <2>1. ~(1 \in 1..Len(f))
    BY <1>3, <1>4
  <2>. QED BY <1>1, <1>2, <1>4, <2>1
<1>5. CASE n # 0
  <2>1. n \in 1..Len(f)
    BY <1>3, <1>5
  <2>2. Len(f) \in 1..n
    BY <1>2, <1>3, <2>1
  <2>. QED BY <1>1, <1>2, <2>1, <2>2
<1>. QED BY <1>4, <1>5

LEMMA Encoded ==
  ASSUME NEW lits \in Seq(Literal), NEW s \in Seq(Str),
         NEW content, content = Literals(lits) \o AllRefs(Len(s)),
         NEW value, value = lits \o s
  PROVE  content \in Seq(Tok) /\ value \in Value /\ Encodes(content, value, s)
<1>1. PICK u : u = Literals(lits)
  OBVIOUS
<1>2. PICK v : v = AllRefs(Len(s))
  OBVIOUS
<1>3. /\ u \in Seq(Tok) /\ Len(u) = Len(lits)
      /\ \A n \in 1..Len(lits) : u[n].kind = "literal" /\ u[n].value = lits[n]
  <2>1. u = [i \in 1..Len(lits) |-> [kind |-> "literal", value |-> lits[i]]]
    BY <1>1 DEF Literals
  <2>2. \A i \in 1..Len(lits) : [kind |-> "literal", value |-> lits[i]] \in Tok
    BY DEF Tok
  <2>3. u \in [1..Len(lits) -> Tok] /\ Len(lits) \in Nat
    BY <2>1, <2>2
  <2>4. u \in Seq(Tok) /\ Len(u) = Len(lits)
    BY <2>3, SequenceOf
  <2>. QED BY <2>1, <2>4
<1>4. /\ v \in Seq(Tok) /\ Len(v) = Len(s)
      /\ \A n \in 1..Len(s) : v[n].kind = "ref" /\ v[n].idx = n - 1
  <2>1. v = [i \in 1..Len(s) |-> [kind |-> "ref", idx |-> i - 1]]
    BY <1>2 DEF AllRefs
  <2>2. \A i \in 1..Len(s) : [kind |-> "ref", idx |-> i - 1] \in Tok
    BY DEF Tok
  <2>3. v \in [1..Len(s) -> Tok] /\ Len(s) \in Nat
    BY <2>1, <2>2
  <2>4. v \in Seq(Tok) /\ Len(v) = Len(s)
    BY <2>3, SequenceOf
  <2>. QED BY <2>1, <2>4
<1>5. /\ content = u \o v /\ content \in Seq(Tok)
      /\ Len(content) = Len(lits) + Len(s)
      /\ \A n \in 1..(Len(lits) + Len(s)) :
           content[n] = IF n <= Len(lits) THEN u[n] ELSE v[n - Len(lits)]
  <2>1. content = u \o v
    BY <1>1, <1>2
  <2>2. u \in Seq(Tok) /\ v \in Seq(Tok)
    BY <1>3, <1>4
  <2>3. /\ u \o v \in Seq(Tok) /\ Len(u \o v) = Len(u) + Len(v)
        /\ \A n \in 1..(Len(u) + Len(v)) :
             (u \o v)[n] = IF n <= Len(u) THEN u[n] ELSE v[n - Len(u)]
    BY <2>2, ConcatProperties
  <2>. QED BY <1>3, <1>4, <2>1, <2>3
<1>6. lits \in Value /\ s \in Value
  <2>1. Literal \subseteq Str \cup Literal /\ Str \subseteq Str \cup Literal
    OBVIOUS
  <2>. QED BY <2>1, SeqMonotonic DEF Value
<1>7. /\ value \in Value
      /\ Len(value) = Len(lits) + Len(s)
      /\ \A n \in 1..(Len(lits) + Len(s)) :
           value[n] = IF n <= Len(lits) THEN lits[n] ELSE s[n - Len(lits)]
  BY <1>6, ConcatProperties DEF Value
<1>8. Len(lits) \in Nat /\ Len(s) \in Nat
  OBVIOUS
<1>9. ASSUME NEW n \in 1..Len(content)
      PROVE  \/ /\ content[n].kind = "ref"
                /\ content[n].idx \in 0..(Len(s) - 1)
                /\ value[n] = s[content[n].idx + 1]
             \/ /\ content[n].kind = "literal"
                /\ value[n] = content[n].value
  <2>1. CASE n <= Len(lits)
    BY <1>3, <1>5, <1>7, <1>8, <2>1
  <2>2. CASE n > Len(lits)
    <3>1. PICK m \in 1..Len(s) : n = m + Len(lits) /\ m = n - Len(lits)
      BY <1>5, <1>8, <2>2
    <3>2. content[n] = v[m] /\ value[n] = s[m]
      BY <1>5, <1>7, <1>8, <3>1
    <3>3. v[m].kind = "ref" /\ v[m].idx = m - 1 /\ m - 1 \in 0..(Len(s) - 1)
          /\ (m - 1) + 1 = m
      BY <1>4, <1>8
    <3>. QED BY <3>2, <3>3
  <2>3. n <= Len(lits) \/ n > Len(lits)
    BY <1>5, <1>8
  <2>. QED BY <2>1, <2>2, <2>3
<1>. QED BY <1>5, <1>7, <1>9 DEF Encodes

LEMMA SendingKeptWithout ==
  ASSUME LogInv, NEW r, NEW k, Written(r, k), r.kind # "V", UNCHANGED sent
  PROVE  Sending'
<1>1. ASSUME NEW i \in DOMAIN file', file'[i].kind = "V"
      PROVE  \E m \in DOMAIN sent :
               /\ sent[m].sor = file'[i].sor
               /\ Encodes(file'[i].content, sent[m].value, known'[i])
  <2>1. i \in DOMAIN file /\ file'[i] = file[i] /\ known'[i] = known[i]
    BY <1>1, WrittenFacts
  <2>. QED BY <1>1, <2>1 DEF LogInv, Sending
<1>2. ASSUME NEW m \in DOMAIN sent
      PROVE  \E i \in DOMAIN file' : file'[i].kind = "V" /\ sent[m].sor = file'[i].sor
  <2>1. PICK i \in DOMAIN file : file[i].kind = "V" /\ sent[m].sor = file[i].sor
    BY DEF LogInv, Sending
  <2>. QED BY <2>1, WrittenFacts
<1>3. \A m, n \in DOMAIN sent : m < n => sent[m].sor < sent[n].sor
  BY DEF LogInv, Sending
<1>. QED BY <1>1, <1>2, <1>3 DEF Sending

LEMMA SendingKeptWith ==
  ASSUME LogInv, NEW r, NEW k, Written(r, k), NewShape(r, k), r.kind = "V",
         NEW value \in Value, Encodes(r.content, value, k),
         sent' = Append(sent, [sor |-> r.sor, value |-> value])
  PROVE  Sending' /\ sent' \in Seq(Sent)
<1> DEFINE e == [sor |-> r.sor, value |-> value]
<1>1. r.sor \in Nat
  BY DEF Written, Record
<1>2. e \in Sent /\ e.sor = r.sor /\ e.value = value
  BY <1>1 DEF Sent
<1>3. sent \in Seq(Sent)
  BY DEF LogInv, LogTypeOK
<1>4. sent' = Append(sent, e)
  OBVIOUS
<1> HIDE DEF e
<1>5. /\ sent' \in Seq(Sent) /\ Len(sent) \in Nat
      /\ DOMAIN sent = 1..Len(sent) /\ DOMAIN sent' = 1..(Len(sent) + 1)
      /\ \A m \in 1..Len(sent) : sent'[m] = sent[m]
      /\ sent'[Len(sent) + 1] = e
  BY <1>2, <1>3, <1>4
<1>6. ASSUME NEW i \in DOMAIN file', file'[i].kind = "V"
      PROVE  \E m \in DOMAIN sent' :
               /\ sent'[m].sor = file'[i].sor
               /\ Encodes(file'[i].content, sent'[m].value, known'[i])
  <2>1. CASE i \in DOMAIN file
    <3>1. file'[i] = file[i] /\ known'[i] = known[i]
      BY <2>1, WrittenFacts
    <3>2. PICK m \in DOMAIN sent :
            /\ sent[m].sor = file[i].sor
            /\ Encodes(file[i].content, sent[m].value, known[i])
      BY <1>6, <2>1, <3>1 DEF LogInv, Sending
    <3>3. m \in DOMAIN sent' /\ sent'[m] = sent[m]
      BY <1>5
    <3>. QED BY <3>1, <3>2, <3>3
  <2>2. CASE i = Len(file) + 1
    <3>1. file'[i] = r /\ known'[i] = k
      BY <2>2, WrittenFacts
    <3>2. PICK m \in DOMAIN sent' : m = Len(sent) + 1
      BY <1>5
    <3>3. sent'[m] = e
      BY <1>5, <3>2
    <3>. QED BY <1>2, <3>1, <3>3
  <2>. QED BY <2>1, <2>2, WrittenFacts
<1>7. ASSUME NEW m \in DOMAIN sent'
      PROVE  \E i \in DOMAIN file' : file'[i].kind = "V" /\ sent'[m].sor = file'[i].sor
  <2>1. CASE m \in DOMAIN sent
    <3>1. PICK i \in DOMAIN file : file[i].kind = "V" /\ sent[m].sor = file[i].sor
      BY <2>1 DEF LogInv, Sending
    <3>2. sent'[m] = sent[m]
      BY <1>5, <2>1
    <3>. QED BY <3>1, <3>2, WrittenFacts
  <2>2. CASE m = Len(sent) + 1
    <3>1. sent'[m].sor = r.sor
      BY <1>2, <1>5, <2>2
    <3>. QED BY <3>1, WrittenFacts
  <2>. QED BY <1>5, <2>1, <2>2
<1>8. ASSUME NEW m \in DOMAIN sent', NEW n \in DOMAIN sent', m < n
      PROVE  sent'[m].sor < sent'[n].sor
  <2>1. CASE n \in DOMAIN sent
    <3>1. m \in DOMAIN sent
      BY <1>5, <1>8, <2>1
    <3>2. sent'[m] = sent[m] /\ sent'[n] = sent[n]
      BY <1>5, <2>1, <3>1
    <3>. QED BY <1>8, <2>1, <3>1, <3>2 DEF LogInv, Sending
  <2>2. CASE n = Len(sent) + 1
    <3>1. m \in DOMAIN sent
      BY <1>5, <1>8, <2>2
    <3>2. sent'[m] = sent[m] /\ sent'[n].sor = r.sor
      BY <1>2, <1>5, <2>2, <3>1
    <3>3. PICK i \in DOMAIN file : sent[m].sor = file[i].sor
      BY <3>1 DEF LogInv, Sending
    <3>4. sent[m].sor = (i - 1) * RecSize /\ i \in 1..Len(file) /\ Len(file) \in Nat
      BY <3>3, FileFacts
    <3>5. r.sor = Len(file) * RecSize
      BY DEF NewShape
    <3>. QED BY <3>2, <3>4, <3>5 DEF RecSize
  <2>. QED BY <1>5, <2>1, <2>2
<1>. QED BY <1>5, <1>6, <1>7, <1>8 DEF Sending

LEMMA LogKept ==
  ASSUME LogInv, UNCHANGED fileVars
  PROVE  LogInv' /\ DictRecs' = DictRecs
<1>1. file' = file /\ known' = known /\ sent' = sent
  BY DEF fileVars
<1>2. DictRecs' = DictRecs
  BY <1>1 DEF DictRecs
<1>3. LogTypeOK' /\ Shape'
  BY <1>1 DEF LogInv, LogTypeOK, Shape
<1>4. Linkage'
  BY <1>1, <1>2 DEF LogInv, Linkage
<1>5. Growing' /\ Sending'
  BY <1>1 DEF LogInv, Growing, Sending
<1>. QED BY <1>2, <1>3, <1>4, <1>5 DEF LogInv

-----------------------------------------------------------------------------
\* The file the writer begins has the shape of a log, and each thing it writes
\* keeps it.
LEMMA LogBegins == LogInit => LogInv
<1> SUFFICES ASSUME LogInit PROVE LogInv
  OBVIOUS
<1> DEFINE h == [kind |-> "H", sor |-> 0, backref |-> 0, content |-> <<>>]
           c == [kind |-> "C", sor |-> RecSize, backref |-> 0, content |-> <<>>]
<1>1. h \in Record /\ c \in Record /\ h.kind = "H" /\ c.kind = "C"
      /\ h.sor = 0 /\ c.sor = RecSize
  BY DEF Record, RecSize
<1>2. file = <<h, c>> /\ known = << <<>>, <<>> >> /\ sent = <<>>
  BY DEF LogInit
<1> HIDE DEF h, c
<1>3. LogTypeOK
  BY <1>1, <1>2 DEF LogTypeOK
<1>4. /\ Len(file) = 2 /\ DOMAIN file = {1, 2} /\ Len(known) = 2
      /\ file[1] = h /\ file[2] = c /\ known[1] = <<>> /\ known[2] = <<>>
  BY <1>2
<1>5. Shape
  BY <1>1, <1>4 DEF Shape, RecSize
<1>6. DictRecs = {2}
  BY <1>1, <1>4 DEF DictRecs
<1>7. Linkage
  <2>1. Nearest(DictRecs, 2, 3)
    BY <1>6 DEF Nearest
  <2>. QED BY <1>1, <1>4, <1>6, <2>1 DEF Linkage
<1>8. Growing
  BY <1>4 DEF Growing, Within
<1>9. Sending
  BY <1>1, <1>2, <1>4 DEF Sending
<1>. QED BY <1>3, <1>5, <1>7, <1>8, <1>9 DEF LogInv

LEMMA WriteClearKeeps ==
  ASSUME LogInv, WriteClear
  PROVE  \E r, k : /\ Written(r, k) /\ r.kind = "C" /\ r.sor = Len(file) * RecSize
                   /\ LogInv'
<1>1. PICK r : r = Rec("C", 0, <<>>)
  OBVIOUS
<1>2. PICK k : k = <<>>
  OBVIOUS
<1>3. r \in Record /\ r.kind = "C" /\ r.sor = Len(file) * RecSize
  BY <1>1, FileFacts DEF Rec, Record, RecSize
<1>4. Written(r, k) /\ NewShape(r, k) /\ UNCHANGED sent
  BY <1>1, <1>2, <1>3 DEF WriteClear, Written, NewShape
<1>5. Shape' /\ Linkage' /\ Growing'
  BY <1>4, ShapeKept, LinkageKept, GrowingKept
<1>6. Sending'
  BY <1>3, <1>4, SendingKeptWithout
<1>7. LogTypeOK'
  BY <1>4, WrittenFacts DEF LogInv, LogTypeOK
<1>. QED BY <1>3, <1>4, <1>5, <1>6, <1>7 DEF LogInv

LEMMA WriteAddKeeps ==
  ASSUME LogInv, WriteAdd
  PROVE  \E r, k : /\ Written(r, k) /\ r.kind = "A" /\ r.sor = Len(file) * RecSize
                   /\ LogInv'
<1>1. PICK n \in Str : n = Name(Len(file) * RecSize)
  <2>1. Len(file) * RecSize \in Nat
    BY FileFacts DEF RecSize
  <2>. QED BY <2>1 DEF Name, Str
<1>2. PICK r : r = Rec("A", Backref, <<n>>)
  OBVIOUS
<1>3. PICK k : k = Append(Strings, n)
  OBVIOUS
<1>4. Strings \in Seq(Str) /\ LastDict \in Nat /\ Len(file) \in Nat
  BY LastDictFacts, FileFacts
<1>5. /\ Backref = (Len(file) + 1 - LastDict) * RecSize /\ Backref \in Int
      /\ Len(file) * RecSize \in Nat
  BY <1>4 DEF Backref, RecSize
<1>6. /\ r \in Record /\ r.kind = "A" /\ r.sor = Len(file) * RecSize
      /\ r.backref = Backref /\ r.content = <<n>>
  <2>1. <<n>> \in Seq(Str)
    OBVIOUS
  <2>. QED BY <1>2, <1>5, <2>1 DEF Rec, Record
<1>7. k \in Seq(Str) /\ k = Strings \o <<n>> /\ <<n>> \in Seq(Str) /\ <<n>> # <<>>
  BY <1>3, <1>4
<1>8. file' = Append(file, r) /\ known' = Append(known, k) /\ UNCHANGED sent
  BY <1>1, <1>2, <1>3 DEF WriteAdd
<1>9. Written(r, k) /\ NewShape(r, k)
  BY <1>5, <1>6, <1>7, <1>8 DEF Written, NewShape
<1>10. Shape' /\ Linkage' /\ Growing'
  BY <1>9, ShapeKept, LinkageKept, GrowingKept
<1>11. Sending'
  BY <1>6, <1>8, <1>9, SendingKeptWithout
<1>12. LogTypeOK'
  BY <1>8, <1>9, WrittenFacts DEF LogInv, LogTypeOK
<1>. QED BY <1>6, <1>9, <1>10, <1>11, <1>12 DEF LogInv

LEMMA WriteValueKeeps ==
  ASSUME LogInv, NEW lits \in Seq(Literal), WriteValue(lits)
  PROVE  \E r, k : /\ Written(r, k) /\ r.kind = "V" /\ r.sor = Len(file) * RecSize
                   /\ \E v \in Value :
                        sent' = Append(sent, [sor |-> r.sor, value |-> v])
                   /\ LogInv'
<1>1. Strings \in Seq(Str) /\ LastDict \in Nat /\ Len(file) \in Nat
  BY LastDictFacts, FileFacts
<1>2. PICK content : content = Literals(lits) \o AllRefs(Len(Strings))
  OBVIOUS
<1>3. PICK value : value = lits \o Strings
  OBVIOUS
<1>4. content \in Seq(Tok) /\ value \in Value /\ Encodes(content, value, Strings)
  BY <1>1, <1>2, <1>3, Encoded
<1>5. PICK r : r = Rec("V", Backref, content)
  OBVIOUS
<1>6. Backref = (Len(file) + 1 - LastDict) * RecSize /\ Backref \in Int
  BY <1>1 DEF Backref, RecSize
<1>7. /\ r \in Record /\ r.kind = "V" /\ r.sor = Len(file) * RecSize
      /\ r.backref = Backref /\ r.content = content
  BY <1>1, <1>4, <1>5, <1>6 DEF Rec, Record, RecSize
<1>8. /\ file' = Append(file, r) /\ known' = Append(known, Strings)
      /\ sent' = Append(sent, [sor |-> r.sor, value |-> value])
  BY <1>2, <1>3, <1>5, <1>7 DEF WriteValue
<1>9. Written(r, Strings) /\ NewShape(r, Strings)
  BY <1>1, <1>4, <1>6, <1>7, <1>8 DEF Written, NewShape
<1>10. Shape' /\ Linkage' /\ Growing'
  BY <1>9, ShapeKept, LinkageKept, GrowingKept
<1>11. Sending' /\ sent' \in Seq(Sent)
  BY <1>4, <1>7, <1>8, <1>9, SendingKeptWith
<1>12. LogTypeOK'
  BY <1>9, <1>11, WrittenFacts DEF LogTypeOK
<1>. QED BY <1>4, <1>7, <1>8, <1>9, <1>10, <1>11, <1>12 DEF LogInv

-----------------------------------------------------------------------------
(***************************************************************************)
(* The cache of dictionaries.                                              *)
(***************************************************************************)
\* A backref leads to the nearest dictionary record.
LEMMA BackrefLands ==
  ASSUME LogInv, NEW i \in DOMAIN file, file[i].kind \in {"A", "V"}
  PROVE  \E t \in DictRecs :
           /\ Nearest(DictRecs, t, i) /\ NoClear(file, t, i)
           /\ file[i].sor - file[i].backref = file[t].sor
           /\ known[i] = IF file[i].kind = "A" THEN known[t] \o file[i].content
                         ELSE known[t]
<1>1. PICK t \in DictRecs :
        /\ Nearest(DictRecs, t, i)
        /\ file[i].backref = (i - t) * RecSize
        /\ known[i] = IF file[i].kind = "A" THEN known[t] \o file[i].content
                      ELSE known[t]
  BY DEF LogInv, Linkage
<1>2. t \in DOMAIN file /\ t \in Nat /\ i \in Nat
  BY DictRecsFacts, FileFacts
<1>3. file[i].sor = (i - 1) * RecSize /\ file[t].sor = (t - 1) * RecSize
  BY <1>2, FileFacts
<1>4. file[i].sor - file[i].backref = file[t].sor
  BY <1>1, <1>2, <1>3 DEF RecSize
<1>5. NoClear(file, t, i)
  <2> SUFFICES ASSUME NEW c \in DOMAIN file, t < c, c <= i, file[c].kind = "C"
               PROVE  FALSE
    BY DEF NoClear
  <2>1. c \in DictRecs /\ c \in Nat
    BY DictRecsFacts, FileFacts
  <2>2. c # i
    OBVIOUS
  <2>. QED BY <1>1, <1>2, <2>1, <2>2 DEF Nearest
<1>. QED BY <1>1, <1>4, <1>5

\* A true dictionary that covers a dictionary record holds what the writer's
\* dictionary held behind that record, and perhaps more.
LEMMA Covers ==
  ASSUME LogInv, NEW d \in DictRecord, TrueDict(DictRecs, file, known, d),
         NEW t \in DictRecs, Includes(d, file[t].sor)
  PROVE  \E i, j \in DictRecs :
           /\ i <= t /\ t <= j
           /\ file[i].kind = "C" /\ file[i].sor = d.startPos
           /\ file[j].sor = d.lastDictPos
           /\ NoClear(file, i, j)
           /\ known[j] = d.entries
           /\ Within(known[t], d.entries)
<1>1. PICK i, j \in DictRecs :
        /\ i <= j
        /\ file[i].kind = "C" /\ file[i].sor = d.startPos
        /\ file[j].sor = d.lastDictPos
        /\ NoClear(file, i, j)
        /\ known[j] = d.entries
  BY DEF TrueDict
<1>2. i \in DOMAIN file /\ j \in DOMAIN file /\ t \in DOMAIN file
  BY DictRecsFacts
<1>3. file[i].sor <= file[t].sor /\ file[t].sor <= file[j].sor
  BY <1>1 DEF Includes
<1>4. i <= t /\ t <= j
  BY <1>2, <1>3, OneStart
<1>5. NoClear(file, t, j)
  BY <1>1, <1>2, <1>4, FileFacts DEF NoClear
<1>6. Within(known[t], known[j])
  BY <1>2, <1>4, <1>5 DEF LogInv, Growing
<1>. QED BY <1>1, <1>4, <1>6

\* The same of what search() finds.
LEMMA FoundCovers ==
  ASSUME LogInv, CacheOK, NEW t \in DictRecs, Search(dicts, file[t].sor) # 0
  PROVE  \E k \in DOMAIN dicts :
           /\ k = Search(dicts, file[t].sor)
           /\ dicts[k] \in DictRecord
           /\ Includes(dicts[k], file[t].sor)
           /\ TrueDict(DictRecs, file, known, dicts[k])
<1>1. dicts \in Seq(DictRecord) /\ DOMAIN dicts = 1..Len(dicts)
      /\ Len(dicts) \in Nat
  BY DEF CacheOK, CacheOf
<1>2. file[t].sor \in Int
  BY DictRecsFacts, FileFacts
<1>3. PICK k : k = Search(dicts, file[t].sor)
  OBVIOUS
<1>4. k \in 0..Len(dicts) /\ k # 0 /\ Includes(dicts[k], file[t].sor)
  BY <1>1, <1>2, <1>3, SearchFinds
<1>5. k \in DOMAIN dicts
  BY <1>1, <1>4
<1>6. dicts[k] \in DictRecord /\ TrueDict(DictRecs, file, known, dicts[k])
  BY <1>1, <1>5 DEF CacheOK, CacheOf
<1>. QED BY <1>3, <1>4, <1>5, <1>6

\* clear() never meets a dictionary that merely covers the C.
LEMMA NoMismatch ==
  ASSUME LogInv, CacheOK, NEW c \in DOMAIN file, file[c].kind = "C"
  PROVE  /\ ~ClearMismatch(dicts, file[c].sor)
         /\ AlreadyCleared(dicts, file[c].sor)
              <=> Search(dicts, file[c].sor) # 0
<1>1. c \in DictRecs
  BY DictRecsFacts
<1>2. ASSUME Search(dicts, file[c].sor) # 0
      PROVE  dicts[Search(dicts, file[c].sor)].startPos = file[c].sor
  <2>1. PICK k \in DOMAIN dicts :
          /\ k = Search(dicts, file[c].sor)
          /\ dicts[k] \in DictRecord
          /\ Includes(dicts[k], file[c].sor)
          /\ TrueDict(DictRecs, file, known, dicts[k])
    BY <1>1, <1>2, FoundCovers
  <2>2. PICK i, j \in DictRecs :
          /\ i <= c /\ c <= j
          /\ file[i].sor = dicts[k].startPos
          /\ NoClear(file, i, j)
    BY <1>1, <2>1, Covers
  <2>3. ~(i < c)
    BY <2>2 DEF NoClear
  <2>4. i = c
    BY <1>1, <2>2, <2>3, DictRecsFacts
  <2>. QED BY <2>1, <2>2, <2>4
<1>. QED BY <1>2 DEF ClearMismatch, AlreadyCleared

LEMMA OpenedKeeps ==
  ASSUME LogInv, CacheOK, MaxDicts \in Nat \ {0},
         NEW c \in DOMAIN file, file[c].kind = "C",
         NEW ds, ds = Opened(dicts, file[c].sor, MaxDicts)
  PROVE  /\ CacheOf(ds) /\ ds # <<>>
         /\ Len(ds) \in DOMAIN ds
         /\ ds[Len(ds)] = NewDict(file[c].sor)
         /\ Search(ds, file[c].sor) = Len(ds)
<1> DEFINE old == IF Len(dicts) = MaxDicts THEN Tail(dicts) ELSE dicts
<1>1. c \in DictRecs /\ file[c].sor \in Nat /\ known[c] = <<>> /\ c \in Nat
  BY DictRecsFacts, FileFacts DEF LogInv, Shape
<1>2. PICK new : new = NewDict(file[c].sor)
  OBVIOUS
<1>3. new \in DictRecord /\ new.startPos = file[c].sor
      /\ new.lastDictPos = file[c].sor /\ new.entries = <<>>
  BY <1>1, <1>2 DEF NewDict, DictRecord
<1>4. TrueDict(DictRecs, file, known, new)
  <2>1. NoClear(file, c, c)
    BY <1>1, FileFacts DEF NoClear
  <2>. QED BY <1>1, <1>3, <2>1 DEF TrueDict
<1>5. dicts \in Seq(DictRecord)
      /\ \A k \in DOMAIN dicts : TrueDict(DictRecs, file, known, dicts[k])
  BY DEF CacheOK, CacheOf
<1>6. old \in Seq(DictRecord)
      /\ \A k \in DOMAIN old : TrueDict(DictRecs, file, known, old[k])
  <2>1. CASE Len(dicts) = MaxDicts
    <3>1. dicts # <<>>
      BY <1>5, <2>1
    <3>2. old = Tail(dicts) /\ old \in Seq(DictRecord)
          /\ \A k \in DOMAIN old : k + 1 \in DOMAIN dicts /\ old[k] = dicts[k + 1]
      BY <1>5, <2>1, <3>1
    <3>. QED BY <1>5, <3>2
  <2>2. CASE Len(dicts) # MaxDicts
    BY <1>5, <2>2
  <2>. QED BY <2>1, <2>2
<1>7. ds = Append(old, new)
  BY <1>2 DEF Opened
<1> HIDE DEF old
<1>8. /\ ds \in Seq(DictRecord) /\ Len(ds) = Len(old) + 1 /\ Len(old) \in Nat
      /\ DOMAIN ds = 1..(Len(old) + 1) /\ DOMAIN old = 1..Len(old)
      /\ \A k \in 1..Len(old) : ds[k] = old[k]
      /\ ds[Len(old) + 1] = new
  BY <1>3, <1>6, <1>7
<1>9. ASSUME NEW k \in DOMAIN ds PROVE TrueDict(DictRecs, file, known, ds[k])
  <2>1. CASE k \in 1..Len(old)
    BY <1>6, <1>8, <2>1
  <2>2. CASE k = Len(old) + 1
    BY <1>4, <1>8, <2>2
  <2>. QED BY <1>8, <2>1, <2>2
<1>10. ds # <<>> /\ ds[Len(ds)] = new /\ Len(ds) \in DOMAIN ds
  BY <1>8
<1>11. Includes(ds[Len(ds)], file[c].sor)
  BY <1>1, <1>3, <1>10 DEF Includes
<1>12. Search(ds, file[c].sor) = Len(ds)
  <2>1. PICK p \in Int : p = file[c].sor
    BY <1>1
  <2>2. ds \in Seq(DictRecord) /\ ds # <<>> /\ Includes(ds[Len(ds)], p)
    BY <1>8, <1>10, <1>11, <2>1
  <2>3. Search(ds, p) = Len(ds)
    BY <2>2, SearchFinds
  <2>. QED BY <2>1, <2>3
<1>. QED BY <1>2, <1>8, <1>9, <1>10, <1>12 DEF CacheOf

LEMMA ReplacedKeeps ==
  ASSUME NEW dd, CacheOf(dd), NEW k \in DOMAIN dd, NEW d \in DictRecord,
         TrueDict(DictRecs, file, known, d),
         NEW ds, ds = [dd EXCEPT ![k] = d]
  PROVE  /\ CacheOf(ds) /\ k \in DOMAIN ds /\ ds[k] = d
<1>1. dd \in Seq(DictRecord) /\ \A n \in DOMAIN dd : TrueDict(DictRecs, file, known, dd[n])
  BY DEF CacheOf
<1>2. ds \in Seq(DictRecord) /\ DOMAIN ds = DOMAIN dd
      /\ \A n \in DOMAIN dd : ds[n] = IF n = k THEN d ELSE dd[n]
  BY <1>1
<1>3. ASSUME NEW n \in DOMAIN ds PROVE TrueDict(DictRecs, file, known, ds[n])
  <2>1. CASE n = k
    BY <1>2, <2>1
  <2>2. CASE n # k
    BY <1>1, <1>2, <2>2
  <2>. QED BY <2>1, <2>2
<1>. QED BY <1>2, <1>3 DEF CacheOf

\* A true dictionary stays so when the strings from its last record to a later
\* one are added.
LEMMA AddAllKeeps ==
  ASSUME LogInv, NEW d \in DictRecord, TrueDict(DictRecs, file, known, d),
         NEW l \in DictRecs, NEW t \in DictRecs, l <= t, NoClear(file, l, t),
         d.lastDictPos = file[l].sor,
         NEW strings \in Seq(Str), strings # <<>>,
         known[t] = known[l] \o strings,
         NEW e, e = AddAll(d, file[t].sor, strings)
  PROVE  /\ e \in DictRecord /\ TrueDict(DictRecs, file, known, e)
         /\ Includes(e, file[t].sor)
<1>1. PICK i, j \in DictRecs :
        /\ i <= j
        /\ file[i].kind = "C" /\ file[i].sor = d.startPos
        /\ file[j].sor = d.lastDictPos
        /\ NoClear(file, i, j)
        /\ known[j] = d.entries
  BY DEF TrueDict
<1>2. /\ i \in DOMAIN file /\ j \in DOMAIN file /\ l \in DOMAIN file
      /\ t \in DOMAIN file
      /\ i \in Nat /\ l \in Nat /\ t \in Nat
  BY DictRecsFacts
<1>3. j = l
  BY <1>1, <1>2, OneStart
<1>4. e = [d EXCEPT !.entries = d.entries \o strings, !.lastDictPos = file[t].sor]
  BY DEF AddAll
<1>5. PICK all : all = d.entries \o strings
  OBVIOUS
<1>6. d.entries \in Seq(Str) /\ all \in Seq(Str) /\ file[t].sor \in Nat
      /\ all = known[t]
  <2>1. d.entries \in Seq(Str)
    BY DEF DictRecord
  <2>. QED BY <1>1, <1>2, <1>3, <1>5, <2>1, WithinConcat, FileFacts
<1>7. e \in DictRecord /\ e.entries = all /\ e.lastDictPos = file[t].sor
      /\ e.startPos = d.startPos
  <2>1. e = [d EXCEPT !.entries = all, !.lastDictPos = file[t].sor]
    BY <1>4, <1>5
  <2>. QED BY <1>6, <2>1 DEF DictRecord
<1>8. NoClear(file, i, t)
  <2> SUFFICES ASSUME NEW c \in DOMAIN file, i < c, c <= t
               PROVE  file[c].kind # "C"
    BY DEF NoClear
  <2>1. c \in Nat
    BY FileFacts
  <2>2. c <= l \/ l < c
    BY <1>2, <2>1
  <2>. QED BY <1>1, <1>3, <2>2 DEF NoClear
<1>9. i <= t
  BY <1>1, <1>2, <1>3
<1>10. TrueDict(DictRecs, file, known, e)
  BY <1>1, <1>6, <1>7, <1>8, <1>9 DEF TrueDict
<1>11. file[i].sor <= file[t].sor
  BY <1>2, <1>9, OneStart
<1>12. Includes(e, file[t].sor)
  BY <1>1, <1>6, <1>7, <1>11 DEF Includes
<1>. QED BY <1>7, <1>10, <1>12

-----------------------------------------------------------------------------
(***************************************************************************)
(* Reading.                                                                *)
(***************************************************************************)
\* A value comes out as it was written, from any dictionary that holds at least
\* what the writer's dictionary held.
LEMMA Decodes ==
  ASSUME NEW content \in Seq(Tok), NEW value \in Value, NEW s \in Seq(Str),
         NEW d \in DictRecord, Encodes(content, value, s), Within(s, d.entries)
  PROVE  Resolvable(d, content) /\ Decoded(d, content) = value
<1>1. /\ Len(content) = Len(value) /\ Len(content) \in Nat
      /\ DOMAIN content = 1..Len(content) /\ DOMAIN value = 1..Len(content)
      /\ Len(s) \in Nat /\ Len(d.entries) \in Nat
  BY DEF Encodes, Value, DictRecord
<1>2. ASSUME NEW n \in 1..Len(content)
      PROVE  /\ content[n].kind = "ref" => content[n].idx < Len(d.entries)
             /\ value[n] = IF content[n].kind = "ref"
                           THEN d.entries[content[n].idx + 1]
                           ELSE content[n].value
  <2>1. CASE content[n].kind = "ref"
    <3>1. content[n].idx \in 0..(Len(s) - 1)
          /\ value[n] = s[content[n].idx + 1]
      BY <2>1 DEF Encodes
    <3>2. content[n].idx + 1 \in 1..Len(s)
      BY <1>1, <3>1
    <3>3. d.entries[content[n].idx + 1] = s[content[n].idx + 1]
          /\ Len(s) <= Len(d.entries)
      BY <3>2 DEF Within
    <3>. QED BY <1>1, <2>1, <3>1, <3>3
  <2>2. CASE content[n].kind # "ref"
    BY <2>2 DEF Encodes
  <2>. QED BY <2>1, <2>2
<1>3. Resolvable(d, content)
  BY <1>1, <1>2 DEF Resolvable
<1>4. Decoded(d, content) = [n \in 1..Len(content) |-> value[n]]
  BY <1>1, <1>2 DEF Decoded
<1>5. value = [n \in 1..Len(content) |-> value[n]]
  <2>1. value \in [1..Len(value) -> Str \cup Literal]
    BY LenProperties DEF Value
  <2>. QED BY <1>1, <2>1
<1>. QED BY <1>3, <1>4, <1>5

LEMMA ReadClearKeeps ==
  ASSUME LogInv, CacheOK, MaxDicts \in Nat \ {0}, pos \in Nat, pos <= Len(file),
         ReadClear, UNCHANGED fileVars
  PROVE  /\ CacheOK' /\ Advance /\ UNCHANGED <<delivered, broken>>
         /\ pos + 1 \in DictRecs
         /\ Search(dicts', file[pos + 1].sor) # 0
<1>1. PICK c : c = pos + 1
  OBVIOUS
<1>2. c \in DOMAIN file /\ file[c].kind = "C"
  BY <1>1, FileFacts DEF ReadClear, Ready
<1>3. c \in DictRecs /\ file[c].sor \in Int
  BY <1>2, DictRecsFacts, FileFacts
<1>4. /\ ~ClearMismatch(dicts, file[c].sor)
      /\ AlreadyCleared(dicts, file[c].sor)
           <=> Search(dicts, file[c].sor) # 0
  BY <1>2, NoMismatch
<1>5. /\ Advance /\ UNCHANGED <<delivered, broken>>
      /\ dicts' = IF AlreadyCleared(dicts, file[c].sor) THEN dicts
                  ELSE Opened(dicts, file[c].sor, MaxDicts)
  BY <1>1, <1>4 DEF ReadClear
<1>6. CacheOf(dicts') /\ Search(dicts', file[c].sor) # 0
  <2>1. CASE AlreadyCleared(dicts, file[c].sor)
    BY <1>4, <1>5, <2>1 DEF CacheOK
  <2>2. CASE ~AlreadyCleared(dicts, file[c].sor)
    <3>1. PICK ds : ds = Opened(dicts, file[c].sor, MaxDicts)
      OBVIOUS
    <3>2. CacheOf(ds) /\ Len(ds) \in DOMAIN ds
          /\ Search(ds, file[c].sor) = Len(ds)
      BY <1>2, <3>1, OpenedKeeps
    <3>3. Len(ds) # 0
      BY <3>2 DEF CacheOf
    <3>. QED BY <1>5, <2>2, <3>1, <3>2, <3>3
  <2>. QED BY <2>1, <2>2
<1>7. CacheOK'
  BY <1>6 DEF CacheOK, CacheOf, fileVars, DictRecs
<1>. QED BY <1>1, <1>3, <1>5, <1>6, <1>7

LEMMA ReadAddKeeps ==
  ASSUME LogInv, CacheOK, pos \in Nat, pos <= Len(file),
         ReadAdd, UNCHANGED fileVars
  PROVE  /\ CacheOK' /\ UNCHANGED delivered
         /\ pos + 1 \in DictRecs
         /\ \/ Throw
            \/ /\ Advance /\ UNCHANGED broken
               /\ Search(dicts', file[pos + 1].sor) # 0
         /\ Current => Advance /\ UNCHANGED broken
<1>1. PICK r : r = pos + 1
  OBVIOUS
<1>2. r \in DOMAIN file /\ file[r].kind = "A"
  BY <1>1, FileFacts DEF ReadAdd, Ready
<1>3. r \in DictRecs /\ file[r].sor \in Int /\ r \in Nat
  BY <1>2, DictRecsFacts, FileFacts
<1>4. PICK t \in DictRecs :
        /\ Nearest(DictRecs, t, r) /\ NoClear(file, t, r)
        /\ file[r].sor - file[r].backref = file[t].sor
        /\ known[r] = known[t] \o file[r].content
  BY <1>2, BackrefLands
<1>5. PICK i : i = Search(dicts, file[t].sor)
  OBVIOUS
<1>6. IF i = 0 THEN Throw
      ELSE /\ dicts' = IF Includes(dicts[i], file[r].sor) THEN dicts
                       ELSE [dicts EXCEPT ![i] = AddAll(dicts[i], file[r].sor,
                                                        file[r].content)]
           /\ Advance
           /\ UNCHANGED <<delivered, broken>>
  BY <1>1, <1>4, <1>5 DEF ReadAdd
<1>7. Current => i # 0
  <2> SUFFICES ASSUME Current PROVE i # 0
    OBVIOUS
  <2>1. PICK u \in DictRecs :
          Nearest(DictRecs, u, pos + 1) /\ Search(dicts, file[u].sor) # 0
    BY DEF Current
  <2>2. u = t
    BY <1>1, <1>3, <1>4, <2>1, NearestUnique
  <2>. QED BY <1>5, <2>1, <2>2
<1>8. CASE i = 0
  BY <1>1, <1>3, <1>6, <1>7, <1>8
     DEF Throw, CacheOK, CacheOf, fileVars, DictRecs
<1>9. CASE i # 0
  <2>1. /\ i \in DOMAIN dicts
        /\ dicts[i] \in DictRecord
        /\ Includes(dicts[i], file[t].sor)
        /\ TrueDict(DictRecs, file, known, dicts[i])
    BY <1>5, <1>9, FoundCovers
  <2>2. CacheOf(dicts') /\ Search(dicts', file[r].sor) # 0
    <3>1. CASE Includes(dicts[i], file[r].sor)
      <4>1. dicts' = dicts
        BY <1>6, <1>9, <3>1
      <4>2. Search(dicts, file[r].sor) # 0
        BY <1>3, <2>1, <3>1, SearchFinds DEF CacheOK, CacheOf
      <4>. QED BY <4>1, <4>2 DEF CacheOK
    <3>2. CASE ~Includes(dicts[i], file[r].sor)
      <4>1. PICK e : e = AddAll(dicts[i], file[r].sor, file[r].content)
        OBVIOUS
      <4>2. PICK ds : ds = [dicts EXCEPT ![i] = e]
        OBVIOUS
      <4>3. dicts' = ds
        BY <1>6, <1>9, <3>2, <4>1, <4>2
      <4>4. PICK a, b \in DictRecs :
              /\ a <= t /\ t <= b
              /\ file[a].sor = dicts[i].startPos
              /\ file[b].sor = dicts[i].lastDictPos
        BY <2>1, Covers
      <4>5. b = t
        <5>1. a \in DOMAIN file /\ b \in DOMAIN file /\ t \in DOMAIN file
              /\ b \in Nat /\ t \in Nat /\ a \in Nat
          BY DictRecsFacts, FileFacts
        <5>2. ~(r <= b)
          <6>1. SUFFICES ASSUME r <= b PROVE FALSE
            OBVIOUS
          <6>2. t < r /\ a <= r
            BY <1>3, <1>4, <4>4, <5>1 DEF Nearest
          <6>3. file[a].sor <= file[r].sor /\ file[r].sor <= file[b].sor
            BY <1>2, <5>1, <6>1, <6>2, OneStart
          <6>. QED BY <3>2, <4>4, <6>3 DEF Includes
        <5>3. b <= t
          BY <1>3, <1>4, <5>1, <5>2 DEF Nearest
        <5>. QED BY <4>4, <5>1, <5>3
      <4>6. file[r].content \in Seq(Str) /\ file[r].content # <<>>
        BY <1>2 DEF LogInv, Shape
      <4>7. t <= r
        BY <1>3, <1>4, DictRecsFacts DEF Nearest
      <4>8. e \in DictRecord /\ TrueDict(DictRecs, file, known, e)
            /\ Includes(e, file[r].sor)
        BY <1>3, <1>4, <2>1, <4>1, <4>4, <4>5, <4>6, <4>7, AddAllKeeps
      <4>9. CacheOf(ds) /\ i \in DOMAIN ds /\ ds[i] = e
        BY <2>1, <4>2, <4>8, ReplacedKeeps DEF CacheOK
      <4>10. Search(ds, file[r].sor) # 0
        BY <1>3, <4>8, <4>9, SearchFinds DEF CacheOf
      <4>. QED BY <4>3, <4>9, <4>10
    <3>. QED BY <3>1, <3>2
  <2>3. CacheOK'
    BY <2>2 DEF CacheOK, CacheOf, fileVars, DictRecs
  <2>. QED BY <1>1, <1>3, <1>6, <1>9, <2>2, <2>3
<1>. QED BY <1>8, <1>9

LEMMA ReadValueKeeps ==
  ASSUME LogInv, CacheOK, pos \in Nat, pos <= Len(file),
         ReadValue, UNCHANGED fileVars
  PROVE  /\ UNCHANGED dicts /\ CacheOK'
         /\ pos + 1 \in DOMAIN file /\ file[pos + 1].kind = "V"
         /\ \/ Throw
            \/ /\ Advance /\ UNCHANGED broken
               /\ \E m \in DOMAIN sent :
                    /\ sent[m].sor = file[pos + 1].sor
                    /\ delivered' = Append(delivered, sent[m].value)
         /\ Current => Advance
<1>1. PICK r : r = pos + 1
  OBVIOUS
<1>2. r \in DOMAIN file /\ file[r].kind = "V" /\ r \in Nat
  BY <1>1, FileFacts DEF ReadValue, Ready
<1>3. PICK t \in DictRecs :
        /\ Nearest(DictRecs, t, r)
        /\ file[r].sor - file[r].backref = file[t].sor
        /\ known[r] = known[t]
  BY <1>2, BackrefLands
<1>4. PICK i : i = Search(dicts, file[t].sor)
  OBVIOUS
<1>5. IF i = 0 \/ (i # 0 /\ ~Resolvable(dicts[i], file[r].content))
      THEN Throw
      ELSE /\ delivered' = Append(delivered, Decoded(dicts[i], file[r].content))
           /\ Advance
           /\ UNCHANGED <<dicts, broken>>
  BY <1>1, <1>3, <1>4 DEF ReadValue
<1>6. Current => i # 0
  <2> SUFFICES ASSUME Current PROVE i # 0
    OBVIOUS
  <2>1. PICK u \in DictRecs :
          Nearest(DictRecs, u, pos + 1) /\ Search(dicts, file[u].sor) # 0
    BY DEF Current
  <2>2. u = t
    BY <1>1, <1>2, <1>3, <2>1, NearestUnique
  <2>. QED BY <1>4, <2>1, <2>2
<1>7. UNCHANGED dicts
  BY <1>5 DEF Throw
<1>8. CacheOK'
  BY <1>7 DEF CacheOK, CacheOf, fileVars, DictRecs
<1>9. CASE i = 0
  BY <1>1, <1>2, <1>5, <1>6, <1>7, <1>8, <1>9
<1>10. CASE i # 0
  <2>1. /\ dicts[i] \in DictRecord
        /\ Includes(dicts[i], file[t].sor)
        /\ TrueDict(DictRecs, file, known, dicts[i])
    BY <1>4, <1>10, FoundCovers
  <2>2. Within(known[r], dicts[i].entries)
    BY <1>3, <2>1, Covers
  <2>3. PICK m \in DOMAIN sent :
          /\ sent[m].sor = file[r].sor
          /\ Encodes(file[r].content, sent[m].value, known[r])
    BY <1>2 DEF LogInv, Sending
  <2>4. file[r].content \in Seq(Tok) /\ sent[m].value \in Value
        /\ known[r] \in Seq(Str)
    BY <1>2, FileFacts DEF LogInv, Shape
  <2>5. /\ Resolvable(dicts[i], file[r].content)
        /\ Decoded(dicts[i], file[r].content) = sent[m].value
    BY <2>1, <2>2, <2>3, <2>4, Decodes
  <2>. QED BY <1>1, <1>2, <1>5, <1>7, <1>8, <1>10, <2>3, <2>5
<1>. QED BY <1>9, <1>10

\* The dictionary in force stays the one in force until the next is begun or
\* added to, and is that one then.
LEMMA CurrentKept ==
  ASSUME LogInv, pos \in Nat, pos + 1 \in DOMAIN file, Advance,
         UNCHANGED fileVars,
         \/ /\ pos + 1 \in DictRecs
            /\ Search(dicts', file[pos + 1].sor) # 0
         \/ /\ ~(pos + 1 \in DictRecs)
            /\ Current /\ UNCHANGED dicts
  PROVE  Current'
<1>1. pos' = pos + 1
  BY DEF Advance
<1>2. CASE pos + 1 \in DictRecs /\ Search(dicts', file[pos + 1].sor) # 0
  <2>1. Nearest(DictRecs, pos + 1, pos' + 1)
    BY <1>1, <1>2, DictRecsFacts DEF Nearest
  <2>. QED BY <1>2, <2>1 DEF Current, fileVars, DictRecs
<1>3. CASE ~(pos + 1 \in DictRecs) /\ Current /\ UNCHANGED dicts
  <2>1. PICK t \in DictRecs :
          Nearest(DictRecs, t, pos + 1) /\ Search(dicts, file[t].sor) # 0
    BY <1>3 DEF Current
  <2>2. \A j \in DictRecs : j < pos' + 1 => j < pos + 1
    BY <1>1, <1>3, DictRecsFacts
  <2>3. Nearest(DictRecs, t, pos' + 1)
    BY <1>1, <2>1, <2>2, DictRecsFacts DEF Nearest
  <2>. QED BY <1>3, <2>1, <2>3 DEF Current, fileVars, DictRecs
<1>. QED BY <1>2, <1>3
=============================================================================
