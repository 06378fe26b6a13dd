--------------------------- MODULE AuTail_proofs ---------------------------
(***************************************************************************)
(* Entering a log in the middle finds the first value record behind the    *)
(* place entered, and reads on from there as if from the beginning.        *)
(***************************************************************************)
EXTENDS AuTail, AuLog_proofs, FiniteSetTheorems

TailTypeOK ==
  /\ use \in Uses
  /\ torn \in BOOLEAN
  /\ phase \in {"outside", "scan", "build", "validate", "reading", "done",
                "failed", "lost", "threw"}
  /\ at \in Nat /\ sor \in Nat /\ target \in Int /\ link \in Int
  /\ newEntries \in Seq(Str)
  /\ entered \in Seq(Nat) /\ first \in Nat
  /\ pos \in Nat /\ pos <= Len(file)
  /\ delivered \in Seq(Value)
  /\ broken = FALSE

\* Where a false start may be in a file of n records.
False(n, s) == \E k \in 0..(n - 1) : s = k * RecSize + FalseAt

Falses ==
  \A f \in falses :
    f.sor \in Nat /\ f.backref \in Int /\ False(Len(file), f.sor)

LastEntered == entered[Len(entered)]

NoneSkipped ==
  phase = "scan" =>
    /\ entered # <<>> /\ delivered = <<>>
    /\ at = LastEntered \/ torn \/ at + 2 <= Len(file) * RecSize
    /\ \A m \in DOMAIN sent :
         sent[m].sor - 2 >= LastEntered => sent[m].sor - 2 >= at

\* A value record of file f begins at s, and its backref leads to t.
Real(f, s, t) ==
  \E i \in DOMAIN f :
    f[i].kind = "V" /\ f[i].sor = s /\ f[i].sor - f[i].backref = t

Trying ==
  phase \in {"build", "validate"} =>
    /\ entered # <<>> /\ delivered = <<>>
    /\ Real(file, sor, target) \/ False(Len(file), sor)
    /\ \A m \in DOMAIN sent :
         sent[m].sor - 2 >= LastEntered => sor <= sent[m].sor

Chain ==
  \/ link = target /\ newEntries = <<>>
  \/ /\ newEntries # <<>>
     /\ \E l, t \in DictRecs :
          /\ l <= t /\ NoClear(file, l, t)
          /\ file[l].sor = link /\ file[t].sor = target
          /\ known[t] = known[l] \o newEntries

Building ==
  phase = "build" => Chain /\ Search(dicts, link) = 0

Validating ==
  phase = "validate" /\ Real(file, sor, target) => Search(dicts, target) # 0

Reading ==
  phase \in {"reading", "done", "failed"} =>
    /\ entered # <<>>
    /\ \E i \in DOMAIN file :
         file[i].kind = "V" /\ file[i].sor = sor /\ i <= pos + 1
    /\ \A m \in DOMAIN sent :
         sent[m].sor - 2 >= LastEntered => sor <= sent[m].sor
    /\ Current
    /\ first + Len(delivered) <= Len(sent)
    /\ \A m \in DOMAIN sent :
         m <= first + Len(delivered) <=> sent[m].sor < pos * RecSize
    /\ \A n \in DOMAIN delivered : delivered[n] = sent[first + n].value

TailInv ==
  /\ TailTypeOK /\ LogInv /\ CacheOK /\ Falses
  /\ NoneSkipped /\ Trying /\ Building /\ Validating /\ Reading

-----------------------------------------------------------------------------
LEMMA Bounds ==
  /\ MaxDicts \in Nat \ {0}
  /\ \A u \in Uses : u.follow \in BOOLEAN /\ u.grows \in BOOLEAN
BY TailAssumption

LEMMA InitKeeps == TailInit => TailInv
<1> SUFFICES ASSUME TailInit PROVE TailInv
  OBVIOUS
<1>1. LogInv
  BY LogBegins DEF TailInit
<1>2. Len(file) = 2
  BY DEF TailInit, LogInit
<1>3. TailTypeOK
  <2>1. use \in Uses /\ torn = FALSE /\ phase = "outside" /\ broken = FALSE
    BY DEF TailInit, ReaderInit
  <2>2. /\ at = 0 /\ sor = 0 /\ target = 0 /\ link = 0 /\ newEntries = <<>>
        /\ entered = <<>> /\ first = 0 /\ pos = 0 /\ delivered = <<>>
    BY DEF TailInit, ReaderInit
  <2>3. newEntries \in Seq(Str) /\ entered \in Seq(Nat) /\ delivered \in Seq(Value)
    BY <2>2
  <2>4. /\ at \in Nat /\ sor \in Nat /\ target \in Int /\ link \in Int
        /\ first \in Nat /\ pos \in Nat /\ pos <= Len(file)
    BY <1>2, <2>2
  <2>5. torn \in BOOLEAN /\ phase \in {"outside", "scan", "build", "validate",
                                      "reading", "done", "failed", "lost", "threw"}
    BY <2>1
  <2>. QED BY Zenon, <2>1, <2>3, <2>4, <2>5 DEF TailTypeOK
<1>4. CacheOK
  BY DEF TailInit, ReaderInit, CacheOK, CacheOf
<1>5. Falses /\ NoneSkipped /\ Trying /\ Building /\ Validating /\ Reading
  BY DEF TailInit, Falses, NoneSkipped, Trying, Building, Validating, Reading
<1>. QED BY <1>1, <1>3, <1>4, <1>5 DEF TailInv

\* Once a false start is given up, sync() has passed no value record.
LEMMA GiveUpPasses ==
  ASSUME LogInv, NEW s \in Nat, False(Len(file), s), s = sor', GiveUp,
         NEW e \in Nat,
         \A m \in DOMAIN sent : sent[m].sor - 2 >= e => s <= sent[m].sor
  PROVE  /\ at' \in Nat /\ phase' \in {"scan", "threw"}
         /\ at' + 2 <= Len(file) * RecSize
         /\ \A m \in DOMAIN sent :
              sent[m].sor - 2 >= e => sent[m].sor - 2 >= at'
<1>1. PICK k \in 0..(Len(file) - 1) : s = k * RecSize + FalseAt
  BY DEF False
<1>2. Len(file) \in Nat /\ k \in Nat /\ k <= Len(file) - 1
  BY <1>1, FileFacts
<1>3. at' = s + 1 /\ phase' \in {"scan", "threw"}
  BY DEF GiveUp
<1>4. at' \in Nat /\ at' + 2 <= Len(file) * RecSize
  BY <1>1, <1>2, <1>3 DEF RecSize, FalseAt
<1>5. ASSUME NEW m \in DOMAIN sent, sent[m].sor - 2 >= e
      PROVE  sent[m].sor - 2 >= at'
  <2>1. PICK i \in 1..Len(file) : sent[m].sor = (i - 1) * RecSize
    BY SentFacts
  <2>2. s <= sent[m].sor
    BY <1>5
  <2>. QED BY <1>1, <1>2, <1>3, <2>1, <2>2 DEF RecSize, FalseAt
<1>. QED BY <1>3, <1>4, <1>5

LEMMA RealNotFalse ==
  ASSUME LogInv, NEW s, NEW i \in DOMAIN file, file[i].sor = s
  PROVE  ~False(Len(file), s)
<1> SUFFICES ASSUME False(Len(file), s) PROVE FALSE
  OBVIOUS
<1>1. PICK k \in 0..(Len(file) - 1) : s = k * RecSize + FalseAt
  BY DEF False
<1>2. Len(file) \in Nat /\ k \in Nat /\ i \in Nat /\ s = (i - 1) * RecSize
  BY <1>1, FileFacts
<1>. QED BY <1>1, <1>2 DEF RecSize, FalseAt

-----------------------------------------------------------------------------
(***************************************************************************)
(* sync().                                                                 *)
(***************************************************************************)
LEMMA FileKept ==
  ASSUME TailInv, UNCHANGED logVars
  PROVE  /\ LogInv' /\ Falses' /\ UNCHANGED fileVars /\ DictRecs' = DictRecs
         /\ file' = file /\ known' = known /\ sent' = sent /\ torn' = torn
         /\ use' \in Uses /\ torn' \in BOOLEAN
<1>1. UNCHANGED fileVars /\ falses' = falses /\ use' = use /\ torn' = torn
  BY DEF logVars
<1>2. file' = file /\ known' = known /\ sent' = sent
  BY <1>1 DEF fileVars
<1>3. Falses'
  BY <1>1, <1>2 DEF TailInv, Falses
<1>. QED BY <1>1, <1>2, <1>3, LogKept DEF TailInv, TailTypeOK

LEMMA CacheKept ==
  ASSUME TailInv, UNCHANGED logVars, UNCHANGED dicts
  PROVE  CacheOK'
BY FileKept DEF TailInv, CacheOK, CacheOf

\* What is left to show of a step that does not start the reader.
LEMMA SyncKeeps ==
  ASSUME TailInv, UNCHANGED logVars, UNCHANGED <<entered, first>>,
         UNCHANGED <<pos, delivered, broken>>,
         phase' \in {"scan", "build", "validate", "lost", "threw"},
         at' \in Nat, sor' \in Nat, target' \in Int, link' \in Int,
         newEntries' \in Seq(Str), CacheOK',
         NoneSkipped', Trying', Building', Validating'
  PROVE  TailInv'
<1>1. LogInv' /\ Falses' /\ use' \in Uses /\ torn' \in BOOLEAN
      /\ file' = file
  BY FileKept
<1>2. /\ entered \in Seq(Nat) /\ first \in Nat /\ pos \in Nat
      /\ pos <= Len(file) /\ delivered \in Seq(Value) /\ broken = FALSE
  BY DEF TailInv, TailTypeOK
<1>3. /\ entered' \in Seq(Nat) /\ first' \in Nat /\ pos' \in Nat
      /\ pos' <= Len(file') /\ delivered' \in Seq(Value) /\ broken' = FALSE
  BY <1>1, <1>2
<1>4. phase' \in {"outside", "scan", "build", "validate", "reading", "done",
                  "failed", "lost", "threw"}
  OBVIOUS
<1>5. TailTypeOK'
  BY <1>1, <1>3, <1>4 DEF TailTypeOK
<1>6. Reading'
  BY DEF Reading
<1>. QED BY <1>1, <1>5, <1>6 DEF TailInv

LEMMA EnteredFact ==
  ASSUME TailInv, entered # <<>>
  PROVE  LastEntered \in Nat
BY DEF TailInv, TailTypeOK, LastEntered

\* A false start has been given up.
LEMMA GivenUp ==
  ASSUME TailInv, UNCHANGED logVars, UNCHANGED <<entered, first>>, CacheOK',
         UNCHANGED <<pos, delivered, broken>>, sor' \in Nat, target' \in Int,
         link' \in Int, newEntries' \in Seq(Str), GiveUp,
         entered # <<>>, delivered = <<>>,
         False(Len(file), sor'),
         \A m \in DOMAIN sent :
           sent[m].sor - 2 >= LastEntered => sor' <= sent[m].sor
  PROVE  TailInv'
<1>1. PICK s \in Nat : s = sor'
  OBVIOUS
<1>2. PICK e \in Nat : e = LastEntered
  BY EnteredFact
<1>3. LogInv /\ False(Len(file), s)
      /\ \A m \in DOMAIN sent : sent[m].sor - 2 >= e => s <= sent[m].sor
  BY <1>1, <1>2 DEF TailInv
<1>4. /\ at' \in Nat /\ phase' \in {"scan", "threw"}
      /\ at' + 2 <= Len(file) * RecSize
      /\ \A m \in DOMAIN sent :
           sent[m].sor - 2 >= e => sent[m].sor - 2 >= at'
  BY <1>1, <1>3, GiveUpPasses
<1>5. file' = file /\ sent' = sent /\ LastEntered' = e
  BY <1>2, FileKept DEF LastEntered
<1>6. NoneSkipped'
  BY <1>4, <1>5 DEF NoneSkipped
<1>7. Trying' /\ Building' /\ Validating'
  BY <1>4 DEF Trying, Building, Validating
<1>. QED BY <1>4, <1>6, <1>7, SyncKeeps

LEMMA TryKeeps == TailInv /\ Try => TailInv'
<1> SUFFICES ASSUME TailInv, Try PROVE TailInv'
  OBVIOUS
<1>1. UNCHANGED logVars /\ UNCHANGED <<entered, first>>
      /\ UNCHANGED <<dicts, pos, delivered, broken>>
  BY DEF Try, readerVars
<1>2. PICK v \in Ahead :
        /\ \A w \in Ahead : v.sor <= w.sor
        /\ sor' = v.sor
        /\ target' = v.sor - v.backref
        /\ \/ /\ target' < 0
              /\ GiveUp
              /\ UNCHANGED <<link, newEntries>>
           \/ /\ target' >= 0
              /\ phase' = IF Search(dicts, target') # 0 THEN "validate" ELSE "build"
              /\ link' = target'
              /\ newEntries' = <<>>
              /\ UNCHANGED at
  BY DEF Try
<1>3. phase = "scan" /\ LogInv /\ CacheOK' /\ at \in Nat /\ link \in Int
      /\ newEntries \in Seq(Str)
  BY <1>1, CacheKept DEF Try, TailInv, TailTypeOK
<1>4. /\ entered # <<>> /\ delivered = <<>>
      /\ \A m \in DOMAIN sent :
           sent[m].sor - 2 >= LastEntered => sent[m].sor - 2 >= at
  BY <1>3 DEF TailInv, NoneSkipped
<1>5. /\ v.sor \in Nat /\ v.backref \in Int
      /\ \/ /\ Real(file, v.sor, v.sor - v.backref)
            /\ v.sor - v.backref \in Nat
         \/ False(Len(file), v.sor)
  <2>1. CASE v \in falses
    BY <2>1 DEF TailInv, Falses
  <2>2. CASE v \notin falses
    <3>1. PICK i \in DOMAIN file :
            /\ file[i].kind = "V"
            /\ v = [sor |-> file[i].sor, backref |-> file[i].backref]
      BY <2>2 DEF Ahead, Starts
    <3>2. v.sor = file[i].sor /\ v.backref = file[i].backref
      BY <3>1
    <3>3. PICK t \in DictRecs : file[i].sor - file[i].backref = file[t].sor
      BY <1>3, <3>1, BackrefLands
    <3>4. file[t].sor \in Nat /\ file[i].sor \in Nat /\ file[i].backref \in Int
      BY <1>3, DictRecsFacts, FileFacts
    <3>. QED BY <3>1, <3>2, <3>3, <3>4 DEF Real
  <2>. QED BY <2>1, <2>2
<1>6. \A m \in DOMAIN sent :
        sent[m].sor - 2 >= LastEntered => v.sor <= sent[m].sor
  <2> SUFFICES ASSUME NEW m \in DOMAIN sent, sent[m].sor - 2 >= LastEntered
               PROVE  v.sor <= sent[m].sor
    OBVIOUS
  <2>1. sent[m].sor - 2 >= at
    BY <1>4
  <2>2. PICK i \in DOMAIN file : file[i].kind = "V" /\ sent[m].sor = file[i].sor
    BY <1>3 DEF LogInv, Sending
  <2>3. PICK w : w = [sor |-> file[i].sor, backref |-> file[i].backref]
    OBVIOUS
  <2>4. w \in Starts /\ w.sor = sent[m].sor
    BY <2>2, <2>3 DEF Starts
  <2>5. w \in Ahead
    BY <2>1, <2>4 DEF Ahead
  <2>. QED BY <1>2, <2>4, <2>5
<1>7. CASE target' < 0 /\ GiveUp /\ UNCHANGED <<link, newEntries>>
  <2>1. sor' \in Nat /\ target' \in Int /\ False(Len(file), sor')
    BY <1>2, <1>5, <1>7
  <2>2. link' \in Int /\ newEntries' \in Seq(Str)
    BY <1>3, <1>7
  <2>3. \A m \in DOMAIN sent :
          sent[m].sor - 2 >= LastEntered => sor' <= sent[m].sor
    BY <1>2, <1>6
  <2>. QED BY <1>1, <1>3, <1>4, <1>7, <2>1, <2>2, <2>3, GivenUp
<1>8. CASE /\ target' >= 0
           /\ phase' = IF Search(dicts, target') # 0 THEN "validate" ELSE "build"
           /\ link' = target'
           /\ newEntries' = <<>>
           /\ UNCHANGED at
  <2>1. /\ sor' \in Nat /\ target' \in Int /\ link' \in Int /\ at' \in Nat
        /\ newEntries' \in Seq(Str) /\ phase' \in {"validate", "build"}
    BY <1>2, <1>3, <1>5, <1>8
  <2>2. file' = file /\ sent' = sent /\ LastEntered' = LastEntered /\ dicts' = dicts
    BY <1>1, FileKept DEF LastEntered
  <2>3. Trying'
    BY <1>1, <1>2, <1>4, <1>5, <1>6, <2>2 DEF Trying
  <2>4. Building'
    BY <1>8, <2>2 DEF Building, Chain
  <2>5. Validating'
    BY <1>8, <2>2 DEF Validating
  <2>6. NoneSkipped'
    BY <2>1 DEF NoneSkipped
  <2>. QED BY <1>1, <1>3, <2>1, <2>3, <2>4, <2>5, <2>6, SyncKeeps
<1>. QED BY <1>2, <1>7, <1>8

LEMMA TryTornKeeps == TailInv /\ TryTorn => TailInv'
<1> SUFFICES ASSUME TailInv, TryTorn PROVE TailInv'
  OBVIOUS
<1>1. UNCHANGED logVars /\ UNCHANGED <<entered, first>>
      /\ UNCHANGED <<dicts, pos, delivered, broken>>
      /\ UNCHANGED <<target, link, newEntries>>
  BY DEF TryTorn, readerVars
<1>2. /\ phase = "scan" /\ Ahead = {} /\ torn /\ sor' = FileEnd - 1 /\ GiveUp
      /\ LogInv /\ CacheOK'
  BY <1>1, CacheKept DEF TryTorn, TailInv
<1>3. /\ target' \in Int /\ link' \in Int /\ newEntries' \in Seq(Str)
  BY <1>1 DEF TailInv, TailTypeOK
<1>4. sor' \in Nat
  <2>1. FileEnd = Len(file) * RecSize + 1
    BY <1>2 DEF FileEnd
  <2>. QED BY <1>2, <2>1, FileFacts DEF RecSize
<1>5. at' \in Nat /\ phase' \in {"scan", "threw"}
  BY <1>2, <1>4 DEF GiveUp
<1>6. \A m \in DOMAIN sent : ~(sent[m].sor - 2 >= LastEntered)
  <2> SUFFICES ASSUME NEW m \in DOMAIN sent, sent[m].sor - 2 >= LastEntered
               PROVE  FALSE
    OBVIOUS
  <2>1. sent[m].sor - 2 >= at
    BY <1>2 DEF TailInv, NoneSkipped
  <2>2. PICK i \in DOMAIN file : file[i].kind = "V" /\ sent[m].sor = file[i].sor
    BY <1>2 DEF LogInv, Sending
  <2>3. PICK w : w = [sor |-> file[i].sor, backref |-> file[i].backref]
    OBVIOUS
  <2>4. w \in Starts /\ w.sor = sent[m].sor
    BY <2>2, <2>3 DEF Starts
  <2>5. w \in Ahead
    BY <2>1, <2>4 DEF Ahead
  <2>. QED BY <1>2, <2>5
<1>7. entered # <<>> /\ delivered = <<>>
  BY <1>2 DEF TailInv, NoneSkipped
<1>8. sent' = sent /\ LastEntered' = LastEntered /\ torn' = torn
  BY <1>1, FileKept DEF LastEntered
<1>9. NoneSkipped'
  BY <1>1, <1>2, <1>6, <1>7, <1>8 DEF NoneSkipped
<1>10. Trying' /\ Building' /\ Validating'
  BY <1>5 DEF Trying, Building, Validating
<1>. QED BY <1>1, <1>2, <1>3, <1>4, <1>5, <1>9, <1>10, SyncKeeps

LEMMA NothingFoundKeeps == TailInv /\ NothingFound => TailInv'
<1> SUFFICES ASSUME TailInv, NothingFound PROVE TailInv'
  OBVIOUS
<1>1. UNCHANGED logVars /\ UNCHANGED <<entered, first>>
      /\ UNCHANGED <<dicts, pos, delivered, broken>>
      /\ UNCHANGED <<at, sor, target, link, newEntries>> /\ phase' = "lost"
  BY DEF NothingFound, readerVars
<1>2. /\ at' \in Nat /\ sor' \in Nat /\ target' \in Int /\ link' \in Int
      /\ newEntries' \in Seq(Str)
  BY <1>1 DEF TailInv, TailTypeOK
<1>3. NoneSkipped' /\ Trying' /\ Building' /\ Validating' /\ CacheOK'
  BY <1>1, CacheKept DEF NoneSkipped, Trying, Building, Validating
<1>. QED BY <1>1, <1>2, <1>3, SyncKeeps

-----------------------------------------------------------------------------
(***************************************************************************)
(* DictionaryBuilder::build.                                               *)
(***************************************************************************)
\* Whatever is tried began at a value record behind which there is a dictionary
\* record, or at a false start.
LEMMA RealLands ==
  ASSUME LogInv, Real(file, sor, target)
  PROVE  \E t \in DictRecs : file[t].sor = target
<1>1. PICK i \in DOMAIN file :
        /\ file[i].kind = "V" /\ file[i].sor = sor
        /\ file[i].sor - file[i].backref = target
  BY DEF Real
<1>. QED BY <1>1, BackrefLands

LEMMA StringsAssociative ==
  ASSUME NEW q \in Seq(Str), NEW s \in Seq(Str), NEW t \in Seq(Str)
  PROVE  (q \o s) \o t = q \o (s \o t)
BY ConcatAssociative

\* The strings collected from a C or an A on, the strings of that record
\* included, are what was added between the record it leads to and the target.
LEMMA CollectedFrom ==
  ASSUME LogInv, Chain, newEntries \in Seq(Str),
         NEW i \in DictRecs, file[i].sor = link, file[i].kind = "A",
         NEW strings, strings = file[i].content \o newEntries
  PROVE  \E p, t \in DictRecs :
           /\ Nearest(DictRecs, p, i)
           /\ file[p].sor = link - file[i].backref
           /\ p <= t /\ i <= t /\ NoClear(file, p, t)
           /\ file[t].sor = target
           /\ strings \in Seq(Str) /\ strings # <<>>
           /\ known[t] = known[p] \o strings
<1>1. i \in DOMAIN file
  BY DictRecsFacts
<1>2. PICK p \in DictRecs :
        /\ Nearest(DictRecs, p, i) /\ NoClear(file, p, i)
        /\ file[i].sor - file[i].backref = file[p].sor
        /\ known[i] = known[p] \o file[i].content
  BY <1>1, BackrefLands
<1>3. PICK content : content = file[i].content
  OBVIOUS
<1>4. content \in Seq(Str) /\ content # <<>>
  BY <1>1, <1>3 DEF LogInv, Shape
<1>5. p \in DOMAIN file /\ p \in Nat /\ i \in Nat /\ p < i
      /\ known[p] \in Seq(Str)
  BY <1>2, DictRecsFacts, FileFacts DEF Nearest
<1>6. strings \in Seq(Str) /\ strings # <<>>
  <2>1. Len(strings) = Len(content) + Len(newEntries) /\ strings \in Seq(Str)
    BY <1>3, <1>4
  <2>2. Len(content) # 0 /\ Len(content) \in Nat /\ Len(newEntries) \in Nat
    BY <1>4
  <2>3. Len(strings) # 0
    BY <2>1, <2>2
  <2>. QED BY <2>1, <2>3
<1>7. CASE link = target /\ newEntries = <<>>
  <2>1. strings = content
    BY <1>3, <1>4, <1>7
  <2>2. known[i] = known[p] \o strings
    BY <1>2, <1>3, <2>1
  <2>3. p <= i /\ i <= i /\ file[i].sor = target
    BY <1>5, <1>7
  <2>. QED BY <1>2, <1>6, <2>2, <2>3
<1>8. CASE \E l, t \in DictRecs :
             /\ l <= t /\ NoClear(file, l, t)
             /\ file[l].sor = link /\ file[t].sor = target
             /\ known[t] = known[l] \o newEntries
  <2>1. PICK l, t \in DictRecs :
             /\ l <= t /\ NoClear(file, l, t)
             /\ file[l].sor = link /\ file[t].sor = target
             /\ known[t] = known[l] \o newEntries
    BY <1>8
  <2>2. l \in DOMAIN file /\ t \in DOMAIN file /\ t \in Nat
    BY DictRecsFacts
  <2>3. l = i
    BY <1>1, <2>1, <2>2, OneStart
  <2>4. known[t] = (known[p] \o content) \o newEntries
    BY <1>2, <1>3, <2>1, <2>3
  <2>5. known[t] = known[p] \o strings
    <3>1. PICK q \in Seq(Str) : q = known[p]
      BY <1>5
    <3>2. newEntries \in Seq(Str) /\ content \in Seq(Str)
      BY <1>4
    <3>3. (q \o content) \o newEntries = q \o (content \o newEntries)
      BY <3>2, StringsAssociative
    <3>. QED BY <1>3, <2>4, <3>1, <3>3
  <2>6. NoClear(file, p, t)
    <3> SUFFICES ASSUME NEW c \in DOMAIN file, p < c, c <= t
                 PROVE  file[c].kind # "C"
      BY DEF NoClear
    <3>1. c <= i \/ i < c
      BY <1>5, FileFacts
    <3>. QED BY <1>2, <2>1, <2>3, <3>1 DEF NoClear
  <2>7. p <= t /\ i <= t
    BY <1>5, <2>1, <2>2, <2>3
  <2>. QED BY <1>2, <1>6, <2>1, <2>5, <2>6, <2>7
<1>. QED BY <1>7, <1>8 DEF Chain

\* What both ends of the building leave alone.
LEMMA BuiltKeeps ==
  ASSUME TailInv, phase = "build", UNCHANGED logVars,
         UNCHANGED <<at, sor, target, entered, first>>,
         UNCHANGED <<pos, delivered, broken>>,
         link' \in Int, newEntries' \in Seq(Str), CacheOK',
         \/ phase' = "validate" /\ Search(dicts', target) # 0
         \/ phase' = "build" /\ Chain' /\ Search(dicts', link') = 0
  PROVE  TailInv'
<1>1. /\ at' \in Nat /\ sor' \in Nat /\ target' \in Int
      /\ phase' \in {"validate", "build"} /\ target' = target
  BY DEF TailInv, TailTypeOK
<1>2. file' = file /\ sent' = sent /\ LastEntered' = LastEntered
  BY FileKept DEF LastEntered
<1>3. Trying'
  BY <1>2 DEF Trying, TailInv
<1>4. Building' /\ Validating' /\ NoneSkipped'
  BY <1>1, <1>2 DEF Building, Validating, NoneSkipped
<1>. QED BY <1>1, <1>3, <1>4, SyncKeeps

LEMMA BuildAddKeeps == TailInv /\ BuildAdd => TailInv'
<1> SUFFICES ASSUME TailInv, BuildAdd PROVE TailInv'
  OBVIOUS
<1>1. UNCHANGED logVars /\ UNCHANGED <<target, entered, first>>
      /\ UNCHANGED <<pos, delivered, broken>> /\ phase = "build"
  BY DEF BuildAdd
<1>2. /\ LogInv /\ CacheOK /\ Chain /\ Search(dicts, link) = 0
      /\ newEntries \in Seq(Str) /\ link \in Int /\ dicts \in Seq(DictRecord)
  BY <1>1 DEF TailInv, TailTypeOK, Building, CacheOK, CacheOf
<1>3. PICK i \in Linked :
        LET prev == link - file[i].backref
            strings == Collected(file[i].content)
            d == Search(dicts, prev)
        IN /\ file[i].kind = "A"
           /\ \/ /\ d = 0
                 /\ link' = prev /\ newEntries' = strings
                 /\ UNCHANGED <<phase, at, sor, dicts>>
              \/ /\ d # 0 /\ dicts[d].lastDictPos = prev
                 /\ dicts' = [dicts EXCEPT ![d] = Populated(@, strings)]
                 /\ phase' = "validate"
                 /\ UNCHANGED <<at, sor, link, newEntries>>
              \/ /\ d # 0 /\ dicts[d].lastDictPos # prev
                 /\ UNCHANGED <<sor, link, newEntries, dicts>>
                 /\ GiveUp
  BY DEF BuildAdd
<1>4. PICK prev : prev = link - file[i].backref
  OBVIOUS
<1>5. PICK strings : strings = Collected(file[i].content)
  OBVIOUS
<1>6. PICK d : d = Search(dicts, prev)
  OBVIOUS
<1>7. /\ file[i].kind = "A"
      /\ \/ /\ d = 0
            /\ link' = prev /\ newEntries' = strings
            /\ UNCHANGED <<phase, at, sor, dicts>>
         \/ /\ d # 0 /\ dicts[d].lastDictPos = prev
            /\ dicts' = [dicts EXCEPT ![d] = AddAll(dicts[d], target, strings)]
            /\ phase' = "validate"
            /\ UNCHANGED <<at, sor, link, newEntries>>
         \/ /\ d # 0 /\ dicts[d].lastDictPos # prev
  BY <1>3, <1>4, <1>5, <1>6 DEF Populated
<1>8. /\ i \in DictRecs /\ file[i].sor = link
      /\ strings = file[i].content \o newEntries
  BY <1>5 DEF Linked, Collected
<1>9. PICK p, t \in DictRecs :
        /\ Nearest(DictRecs, p, i)
        /\ file[p].sor = prev
        /\ p <= t /\ i <= t /\ NoClear(file, p, t)
        /\ file[t].sor = target
        /\ strings \in Seq(Str) /\ strings # <<>>
        /\ known[t] = known[p] \o strings
  BY <1>2, <1>4, <1>7, <1>8, CollectedFrom
<1>10. /\ p \in DOMAIN file /\ i \in DOMAIN file /\ t \in DOMAIN file
       /\ p \in Nat /\ i \in Nat /\ p < i
       /\ prev \in Nat /\ target \in Nat /\ link \in Nat
  <2>1. /\ p \in DOMAIN file /\ i \in DOMAIN file /\ t \in DOMAIN file
        /\ p \in Nat /\ i \in Nat
    BY <1>2, <1>8, <1>9, DictRecsFacts
  <2>2. file[p].sor \in Nat /\ file[i].sor \in Nat /\ file[t].sor \in Nat
    BY <1>2, <2>1, FileFacts
  <2>. QED BY <1>8, <1>9, <2>1, <2>2 DEF Nearest
<1>11. CASE /\ d = 0
            /\ link' = prev /\ newEntries' = strings
            /\ UNCHANGED <<phase, at, sor, dicts>>
  <2>1. CacheOK'
    BY <1>1, <1>11, CacheKept
  <2>2. Chain'
    <3>1. DictRecs' = DictRecs /\ file' = file /\ known' = known
          /\ target' = target
      BY <1>1, FileKept
    <3>. QED BY <1>9, <1>11, <3>1 DEF Chain
  <2>3. Search(dicts', link') = 0 /\ phase' = "build"
    BY <1>1, <1>6, <1>11
  <2>4. link' \in Int /\ newEntries' \in Seq(Str)
    BY <1>9, <1>10, <1>11
  <2>. QED BY <1>1, <1>11, <2>1, <2>2, <2>3, <2>4, BuiltKeeps
<1>12. d # 0 => /\ d \in DOMAIN dicts
                /\ dicts[d] \in DictRecord
                /\ Includes(dicts[d], file[p].sor)
                /\ TrueDict(DictRecs, file, known, dicts[d])
  BY <1>2, <1>6, <1>9, FoundCovers
<1>13. CASE d # 0 /\ dicts[d].lastDictPos # prev
  <2>1. PICK a, b \in DictRecs :
          /\ a <= p /\ p <= b
          /\ file[a].sor = dicts[d].startPos
          /\ file[b].sor = dicts[d].lastDictPos
    BY <1>2, <1>12, <1>13, Covers
  <2>2. /\ a \in DOMAIN file /\ b \in DOMAIN file
        /\ a \in Nat /\ b \in Nat
    BY <1>2, DictRecsFacts
  <2>3. i <= b
    <3>1. b # p
      BY <1>9, <1>13, <2>1
    <3>. QED BY <1>9, <1>10, <2>1, <2>2, <3>1 DEF Nearest
  <2>4. file[a].sor <= file[i].sor /\ file[i].sor <= file[b].sor
    <3>1. a <= i
      BY <1>10, <2>1, <2>2
    <3>. QED BY <1>2, <1>10, <2>2, <2>3, <3>1, OneStart
  <2>5. Includes(dicts[d], link)
    BY <1>8, <2>1, <2>4 DEF Includes
  <2>6. Search(dicts, link) # 0
    BY <1>2, <1>12, <1>13, <2>5, SearchFinds
  <2>. QED BY <1>2, <2>6
<1>14. CASE /\ d # 0 /\ dicts[d].lastDictPos = prev
            /\ dicts' = [dicts EXCEPT ![d] = AddAll(dicts[d], target, strings)]
            /\ phase' = "validate"
            /\ UNCHANGED <<at, sor, link, newEntries>>
  <2>1. PICK e : e = AddAll(dicts[d], target, strings)
    OBVIOUS
  <2>2. e \in DictRecord /\ TrueDict(DictRecs, file, known, e)
        /\ Includes(e, target)
    BY <1>2, <1>9, <1>12, <1>14, <2>1, AddAllKeeps
  <2>3. PICK ds : ds = [dicts EXCEPT ![d] = e]
    OBVIOUS
  <2>4. CacheOf(ds) /\ d \in DOMAIN ds /\ ds[d] = e
    BY <1>2, <1>12, <1>14, <2>2, <2>3, ReplacedKeeps DEF CacheOK
  <2>5. Search(ds, target) # 0
    BY <1>10, <2>2, <2>4, SearchFinds DEF CacheOf
  <2>6. dicts' = ds
    BY <1>14, <2>1, <2>3
  <2>7. CacheOK'
    BY <1>1, <2>4, <2>6, FileKept DEF CacheOK, CacheOf
  <2>8. link' \in Int /\ newEntries' \in Seq(Str)
    BY <1>2, <1>14
  <2>. QED BY <1>1, <1>14, <2>5, <2>6, <2>7, <2>8, BuiltKeeps
<1>. QED BY <1>7, <1>11, <1>13, <1>14

LEMMA BuildClearKeeps == TailInv /\ BuildClear => TailInv'
<1> SUFFICES ASSUME TailInv, BuildClear PROVE TailInv'
  OBVIOUS
<1>1. UNCHANGED logVars /\ UNCHANGED <<target, link, newEntries, entered, first>>
      /\ UNCHANGED <<pos, delivered, broken>> /\ phase = "build"
  BY DEF BuildClear
<1>2. /\ LogInv /\ CacheOK /\ Chain /\ Search(dicts, link) = 0
      /\ newEntries \in Seq(Str) /\ link \in Int
  BY <1>1 DEF TailInv, TailTypeOK, Building
<1>3. PICK i \in Linked :
        LET opened == IF AlreadyCleared(dicts, link) THEN dicts
                      ELSE Opened(dicts, link, MaxDicts)
            d == Search(opened, link)
        IN /\ file[i].kind = "C"
           /\ \/ /\ ClearMismatch(dicts, link)
                 /\ UNCHANGED <<sor, dicts>>
                 /\ GiveUp
              \/ /\ ~ClearMismatch(dicts, link)
                 /\ dicts' = [opened EXCEPT ![d] = Populated(@, newEntries)]
                 /\ phase' = "validate"
                 /\ UNCHANGED <<at, sor>>
  BY DEF BuildClear
<1>4. i \in DictRecs /\ i \in DOMAIN file /\ file[i].sor = link
  BY <1>2, DictRecsFacts DEF Linked
<1>5. ~ClearMismatch(dicts, link) /\ ~AlreadyCleared(dicts, link)
  BY <1>2, <1>3, <1>4, NoMismatch
<1>6. PICK opened : opened = Opened(dicts, link, MaxDicts)
  OBVIOUS
<1>7. PICK d : d = Search(opened, link)
  OBVIOUS
<1>8. /\ CacheOf(opened) /\ d = Len(opened) /\ d \in DOMAIN opened
      /\ opened[d] = NewDict(link)
  BY <1>2, <1>3, <1>4, <1>6, <1>7, OpenedKeeps, Bounds
<1>9. /\ dicts' = [opened EXCEPT ![d] = AddAll(opened[d], target, newEntries)]
      /\ phase' = "validate"
      /\ UNCHANGED <<at, sor>>
  BY <1>3, <1>5, <1>6, <1>7, <1>8 DEF Populated
<1>10. PICK e : e = AddAll(opened[d], target, newEntries)
  OBVIOUS
<1>11. /\ opened[d] \in DictRecord
       /\ TrueDict(DictRecs, file, known, opened[d])
       /\ opened[d].startPos = link /\ opened[d].lastDictPos = link
  BY <1>8 DEF CacheOf, NewDict
<1>12. /\ e \in DictRecord /\ TrueDict(DictRecs, file, known, e)
       /\ Includes(e, target) /\ target \in Int
  <2>1. CASE link = target /\ newEntries = <<>>
    <3>1. e = opened[d]
      BY <1>10, <2>1 DEF AddAll
    <3>. QED BY <1>2, <1>11, <2>1, <3>1 DEF Includes
  <2>2. CASE /\ newEntries # <<>>
             /\ \E l, t \in DictRecs :
                  /\ l <= t /\ NoClear(file, l, t)
                  /\ file[l].sor = link /\ file[t].sor = target
                  /\ known[t] = known[l] \o newEntries
    <3>1. PICK l, t \in DictRecs :
                  /\ l <= t /\ NoClear(file, l, t)
                  /\ file[l].sor = link /\ file[t].sor = target
                  /\ known[t] = known[l] \o newEntries
      BY <2>2
    <3>2. opened[d].lastDictPos = file[l].sor
      BY <1>11, <3>1
    <3>3. target \in Int
      BY <1>2, <3>1, DictRecsFacts, FileFacts
    <3>. QED BY <1>2, <1>10, <1>11, <2>2, <3>1, <3>2, <3>3, AddAllKeeps
  <2>. QED BY <1>2, <2>1, <2>2 DEF Chain
<1>13. PICK ds : ds = [opened EXCEPT ![d] = e]
  OBVIOUS
<1>14. CacheOf(ds) /\ d \in DOMAIN ds /\ ds[d] = e
  BY <1>8, <1>12, <1>13, ReplacedKeeps
<1>15. Search(ds, target) # 0
  BY <1>12, <1>14, SearchFinds DEF CacheOf
<1>16. dicts' = ds
  BY <1>9, <1>10, <1>13
<1>17. CacheOK'
  BY <1>1, <1>14, <1>16, FileKept DEF CacheOK, CacheOf
<1>18. link' \in Int /\ newEntries' \in Seq(Str)
  BY <1>1, <1>2
<1>. QED BY <1>1, <1>9, <1>15, <1>16, <1>17, <1>18, BuiltKeeps

LEMMA BuildFailsKeeps == TailInv /\ BuildFails => TailInv'
<1> SUFFICES ASSUME TailInv, BuildFails PROVE TailInv'
  OBVIOUS
<1>1. UNCHANGED logVars /\ UNCHANGED <<sor, target, link, newEntries, entered, first>>
      /\ UNCHANGED <<dicts, pos, delivered, broken>>
      /\ phase = "build" /\ Linked = {} /\ GiveUp
  BY DEF BuildFails, readerVars
<1>2. /\ LogInv /\ Chain /\ newEntries \in Seq(Str) /\ link \in Int
      /\ target \in Int /\ sor \in Nat
      /\ entered # <<>> /\ delivered = <<>>
      /\ Real(file, sor, target) \/ False(Len(file), sor)
      /\ \A m \in DOMAIN sent :
           sent[m].sor - 2 >= LastEntered => sor <= sent[m].sor
  BY <1>1 DEF TailInv, TailTypeOK, Building, Trying
<1>3. ~Real(file, sor, target)
  <2> SUFFICES ASSUME Real(file, sor, target) PROVE FALSE
    OBVIOUS
  <2>1. \A l \in DictRecs : file[l].sor # link
    BY <1>1 DEF Linked
  <2>2. PICK t \in DictRecs : file[t].sor = target
    BY <1>2, RealLands
  <2>. QED BY <1>2, <2>1, <2>2 DEF Chain
<1>4. CacheOK'
  BY <1>1, CacheKept
<1>5. /\ sor' \in Nat /\ target' \in Int /\ link' \in Int
      /\ newEntries' \in Seq(Str)
      /\ False(Len(file), sor')
      /\ \A m \in DOMAIN sent :
           sent[m].sor - 2 >= LastEntered => sor' <= sent[m].sor
  BY <1>1, <1>2, <1>3
<1>. QED BY <1>1, <1>2, <1>4, <1>5, GivenUp

\* How many values come before a value record.
LEMMA ValuesBefore ==
  ASSUME LogInv, NEW m \in DOMAIN sent
  PROVE  Cardinality({k \in DOMAIN sent : sent[k].sor < sent[m].sor}) = m - 1
<1>1. /\ DOMAIN sent = 1..Len(sent) /\ Len(sent) \in Nat /\ m \in 1..Len(sent)
      /\ \A k \in DOMAIN sent : (sent[k].sor < sent[m].sor <=> k < m)
  BY FileFacts, SentFacts
<1>2. {k \in DOMAIN sent : sent[k].sor < sent[m].sor} = 1..(m - 1)
  BY <1>1
<1>3. PICK n \in Int : n = m - 1
  BY <1>1
<1>4. Cardinality(1..n) = IF 1 > n THEN 0 ELSE n - 1 + 1
  <2>1. 1 \in Int /\ n \in Int
    BY <1>3
  <2>. QED BY <2>1, FS_Interval
<1>5. Cardinality(1..n) = n
  BY <1>1, <1>3, <1>4
<1>. QED BY <1>2, <1>3, <1>5

LEMMA ValidateKeeps == TailInv /\ Validate => TailInv'
<1> SUFFICES ASSUME TailInv, Validate PROVE TailInv'
  OBVIOUS
<1>1. UNCHANGED logVars /\ UNCHANGED <<target, link, newEntries, entered>>
      /\ UNCHANGED <<dicts, delivered, broken>> /\ phase = "validate"
  BY DEF Validate
<1>2. PICK d : d = Search(dicts, target)
  OBVIOUS
<1>3. PICK sound : sound = {i \in DOMAIN file :
                              /\ file[i].sor = sor /\ d # 0
                              /\ Resolvable(dicts[d], file[i].content)}
  OBVIOUS
<1>4. \/ /\ sound = {}
         /\ UNCHANGED <<sor, pos, first>>
         /\ GiveUp
      \/ \E i \in sound :
           /\ phase' = "reading"
           /\ Resume(i)
           /\ first' = Cardinality({k \in DOMAIN sent : sent[k].sor < sor})
           /\ UNCHANGED <<at, sor>>
  BY <1>2, <1>3 DEF Validate
<1>5. /\ LogInv /\ CacheOK /\ newEntries \in Seq(Str) /\ link \in Int
      /\ target \in Int /\ sor \in Nat /\ at \in Nat
      /\ entered # <<>> /\ delivered = <<>> /\ entered \in Seq(Nat)
      /\ broken = FALSE
      /\ Real(file, sor, target) \/ False(Len(file), sor)
      /\ Real(file, sor, target) => Search(dicts, target) # 0
      /\ \A m \in DOMAIN sent :
           sent[m].sor - 2 >= LastEntered => sor <= sent[m].sor
  BY <1>1 DEF TailInv, TailTypeOK, Trying, Validating
<1>6. CacheOK'
  BY <1>1, CacheKept
\* The value record that begins at sor, and the dictionary found for it.
<1>7. ASSUME Real(file, sor, target)
      PROVE  \E i \in DOMAIN file, t \in DictRecs :
               /\ file[i].kind = "V" /\ file[i].sor = sor
               /\ Nearest(DictRecs, t, i) /\ file[t].sor = target /\ d # 0
               /\ Resolvable(dicts[d], file[i].content)
  <2>1. PICK i \in DOMAIN file :
          /\ file[i].kind = "V" /\ file[i].sor = sor
          /\ file[i].sor - file[i].backref = target
    BY <1>7 DEF Real
  <2>2. PICK t \in DictRecs :
          /\ Nearest(DictRecs, t, i) /\ file[t].sor = target
          /\ known[i] = known[t]
    BY <1>5, <2>1, BackrefLands
  <2>3. /\ dicts[d] \in DictRecord
        /\ Includes(dicts[d], file[t].sor)
        /\ TrueDict(DictRecs, file, known, dicts[d])
    BY <1>2, <1>5, <1>7, <2>2, FoundCovers
  <2>4. Within(known[i], dicts[d].entries)
    BY <1>5, <2>2, <2>3, Covers
  <2>5. PICK m \in DOMAIN sent :
          /\ sent[m].sor = file[i].sor
          /\ Encodes(file[i].content, sent[m].value, known[i])
    BY <1>5, <2>1 DEF LogInv, Sending
  <2>6. file[i].content \in Seq(Tok) /\ sent[m].value \in Value
        /\ known[i] \in Seq(Str)
    BY <1>5, <2>1, FileFacts DEF LogInv, Shape
  <2>7. Resolvable(dicts[d], file[i].content)
    BY <2>3, <2>4, <2>5, <2>6, Decodes
  <2>. QED BY <1>2, <1>5, <1>7, <2>1, <2>2, <2>7
<1>8. CASE sound = {} /\ UNCHANGED <<sor, pos, first>> /\ GiveUp
  <2>1. ~Real(file, sor, target)
    BY <1>3, <1>7, <1>8
  <2>2. /\ sor' \in Nat /\ target' \in Int /\ link' \in Int
        /\ newEntries' \in Seq(Str)
        /\ False(Len(file), sor')
        /\ \A m \in DOMAIN sent :
             sent[m].sor - 2 >= LastEntered => sor' <= sent[m].sor
    BY <1>1, <1>5, <1>8, <2>1
  <2>. QED BY <1>1, <1>5, <1>6, <1>8, <2>2, GivenUp
<1>9. CASE \E i \in sound :
             /\ phase' = "reading"
             /\ Resume(i)
             /\ first' = Cardinality({k \in DOMAIN sent : sent[k].sor < sor})
             /\ UNCHANGED <<at, sor>>
  <2>1. PICK j \in sound :
             /\ phase' = "reading"
             /\ Resume(j)
             /\ first' = Cardinality({k \in DOMAIN sent : sent[k].sor < sor})
             /\ UNCHANGED <<at, sor>>
    BY <1>9
  <2>2. j \in DOMAIN file /\ file[j].sor = sor
    BY <1>3
  <2>3. Real(file, sor, target)
    BY <1>5, <2>2, RealNotFalse
  <2>4. PICK i \in DOMAIN file, t \in DictRecs :
               /\ file[i].kind = "V" /\ file[i].sor = sor
               /\ Nearest(DictRecs, t, i) /\ file[t].sor = target /\ d # 0
    BY <1>7, <2>3
  <2>5. i = j /\ i \in 1..Len(file) /\ Len(file) \in Nat /\ sor = (i - 1) * RecSize
    BY <1>5, <2>2, <2>4, OneStart, FileFacts
  <2>6. PICK m \in DOMAIN sent : sent[m].sor = sor
    BY <1>5, <2>4, SentFacts
  <2>7. first' = m - 1
    BY <1>5, <2>1, <2>6, ValuesBefore
  <2>8. m \in 1..Len(sent) /\ Len(sent) \in Nat
    BY <1>5, FileFacts
  <2>9. pos' = i - 1 /\ pos' + 1 = i /\ pos' * RecSize = sor
    BY <2>1, <2>5 DEF Resume, RecSize
  <2>10. /\ LogInv' /\ Falses' /\ use' \in Uses /\ torn' \in BOOLEAN
         /\ file' = file /\ sent' = sent /\ DictRecs' = DictRecs
         /\ LastEntered' = LastEntered
    BY <1>1, FileKept DEF LastEntered
  <2>11. /\ at' \in Nat /\ sor' \in Nat /\ target' \in Int /\ link' \in Int
         /\ newEntries' \in Seq(Str) /\ entered' \in Seq(Nat) /\ first' \in Nat
         /\ pos' \in Nat /\ pos' <= Len(file') /\ delivered' \in Seq(Value)
         /\ broken' = FALSE
    <3>1. delivered' = <<>>
      BY <1>1, <1>5
    <3>2. first' \in Nat /\ delivered' \in Seq(Value)
      BY <2>7, <2>8, <3>1
    <3>3. pos' \in Nat /\ pos' <= Len(file')
      BY <2>5, <2>9, <2>10
    <3>4. /\ at' \in Nat /\ sor' \in Nat /\ target' \in Int /\ link' \in Int
          /\ newEntries' \in Seq(Str) /\ entered' \in Seq(Nat) /\ broken' = FALSE
      BY <1>1, <1>5, <2>1
    <3>. QED BY <3>2, <3>3, <3>4
  <2>12. TailTypeOK'
    BY <2>1, <2>10, <2>11 DEF TailTypeOK
  <2>13. Current'
    BY <1>1, <2>4, <2>9, <2>10, <1>2 DEF Current
  <2>14. /\ first' + Len(delivered') <= Len(sent')
         /\ \A n \in DOMAIN sent' :
              n <= first' + Len(delivered') <=> sent'[n].sor < pos' * RecSize
         /\ \A n \in DOMAIN delivered' : delivered'[n] = sent'[first' + n].value
    <3>1. delivered' = <<>> /\ Len(delivered') = 0 /\ DOMAIN delivered' = {}
      BY <1>1, <1>5
    <3>2. \A n \in DOMAIN sent : n \in Nat /\ (n < m <=> sent[n].sor < sent[m].sor)
      BY <1>5, FileFacts, SentFacts
    <3>. QED BY <2>6, <2>7, <2>8, <2>9, <2>10, <3>1, <3>2
  <2>15. \E n \in DOMAIN file' :
           file'[n].kind = "V" /\ file'[n].sor = sor' /\ n <= pos' + 1
    BY <2>1, <2>4, <2>5, <2>9, <2>10
  <2>16. /\ entered' # <<>>
         /\ \A n \in DOMAIN sent' :
              sent'[n].sor - 2 >= LastEntered' => sor' <= sent'[n].sor
    BY <1>1, <1>5, <2>1, <2>10
  <2>17. Reading'
    BY <2>13, <2>14, <2>15, <2>16 DEF Reading
  <2>18. NoneSkipped' /\ Trying' /\ Building' /\ Validating'
    BY <2>1 DEF NoneSkipped, Trying, Building, Validating
  <2>. QED BY <1>6, <2>10, <2>12, <2>17, <2>18 DEF TailInv
<1>. QED BY <1>4, <1>8, <1>9

-----------------------------------------------------------------------------
(***************************************************************************)
(* Reading on.                                                             *)
(***************************************************************************)
\* The reader's share of the invariant, once a step is known to leave it whole.
LEMMA ReadKeeps ==
  ASSUME TailInv, phase = "reading", UNCHANGED logVars, UNCHANGED syncVars,
         CacheOK', Current', pos + 1 \in DOMAIN file, Advance, broken' = FALSE,
         delivered' \in Seq(Value),
         first + Len(delivered') <= Len(sent),
         \A m \in DOMAIN sent :
           m <= first + Len(delivered') <=> sent[m].sor < (pos + 1) * RecSize,
         \A n \in DOMAIN delivered' : delivered'[n] = sent[first + n].value
  PROVE  TailInv'
<1>1. /\ LogInv' /\ Falses' /\ use' \in Uses /\ torn' \in BOOLEAN
      /\ file' = file /\ sent' = sent
  BY FileKept
<1>2. /\ phase' = "reading" /\ at' = at /\ sor' = sor /\ target' = target
      /\ link' = link /\ newEntries' = newEntries /\ entered' = entered
      /\ first' = first /\ LastEntered' = LastEntered
  BY DEF syncVars, LastEntered
<1>3. /\ at \in Nat /\ sor \in Nat /\ target \in Int /\ link \in Int
      /\ newEntries \in Seq(Str) /\ entered \in Seq(Nat) /\ first \in Nat
      /\ pos \in Nat
  BY DEF TailInv, TailTypeOK
<1>4. pos' = pos + 1 /\ pos' \in Nat /\ pos' <= Len(file')
  BY <1>1, <1>3, FileFacts DEF Advance, TailInv
<1>5. TailTypeOK'
  BY <1>1, <1>2, <1>3, <1>4 DEF TailTypeOK
<1>6. /\ entered # <<>>
      /\ \E i \in DOMAIN file :
           file[i].kind = "V" /\ file[i].sor = sor /\ i <= pos + 1
      /\ \A m \in DOMAIN sent :
           sent[m].sor - 2 >= LastEntered => sor <= sent[m].sor
  BY DEF TailInv, Reading
<1>7. PICK i \in DOMAIN file :
        file[i].kind = "V" /\ file[i].sor = sor /\ i <= pos + 1
  BY <1>6
<1>8. i <= pos' + 1
  BY <1>3, <1>4, <1>7, FileFacts DEF TailInv
<1>9. Reading'
  BY <1>1, <1>2, <1>4, <1>6, <1>7, <1>8 DEF Reading
<1>10. NoneSkipped' /\ Trying' /\ Building' /\ Validating'
  BY <1>2 DEF NoneSkipped, Trying, Building, Validating
<1>. QED BY <1>1, <1>5, <1>9, <1>10 DEF TailInv

\* The count of what has been delivered stays right behind a record that is no
\* value.
LEMMA CountKept ==
  ASSUME LogInv, pos \in Nat, pos + 1 \in DOMAIN file,
         file[pos + 1].kind # "V", NEW m \in DOMAIN sent
  PROVE  sent[m].sor < pos * RecSize <=> sent[m].sor < (pos + 1) * RecSize
<1>1. PICK i \in 1..Len(file) :
        file[i].kind = "V" /\ sent[m].sor = (i - 1) * RecSize
  BY SentFacts
<1>2. i # pos + 1 /\ i \in Nat
  BY <1>1, FileFacts
<1>. QED BY <1>1, <1>2 DEF RecSize

LEMMA ReadOnKeeps == TailInv /\ ReadOn => TailInv'
<1> SUFFICES ASSUME TailInv, ReadOn PROVE TailInv'
  OBVIOUS
<1>1. phase = "reading" /\ ReaderNext /\ UNCHANGED logVars /\ UNCHANGED syncVars
  BY DEF ReadOn
<1>2. /\ LogInv /\ CacheOK /\ pos \in Nat /\ pos <= Len(file)
      /\ delivered \in Seq(Value) /\ broken = FALSE /\ first \in Nat
      /\ UNCHANGED fileVars /\ file' = file
  BY <1>1, FileKept DEF TailInv, TailTypeOK
<1>3. /\ Current
      /\ first + Len(delivered) <= Len(sent)
      /\ \A m \in DOMAIN sent :
           m <= first + Len(delivered) <=> sent[m].sor < pos * RecSize
      /\ \A n \in DOMAIN delivered : delivered[n] = sent[first + n].value
  BY <1>1 DEF TailInv, Reading
<1>4. CASE ReadHeader
  <2>1. pos + 1 \in DOMAIN file /\ file[pos + 1].kind = "H"
    BY <1>2, <1>4, FileFacts DEF ReadHeader, Ready
  <2>2. pos + 1 = 1
    BY <1>2, <2>1 DEF LogInv, Shape
  <2>3. PICK i \in DOMAIN file : file[i].kind = "V" /\ i <= pos + 1
    BY <1>1 DEF TailInv, Reading
  <2>4. i = 1
    BY <1>2, <2>2, <2>3, FileFacts
  <2>. QED BY <2>1, <2>2, <2>3, <2>4
<1>5. ASSUME pos + 1 \in DOMAIN file, file[pos + 1].kind # "V",
             Advance, UNCHANGED <<delivered, broken>>, CacheOK', Current'
      PROVE  TailInv'
  <2>1. \A m \in DOMAIN sent :
          m <= first + Len(delivered') <=> sent[m].sor < (pos + 1) * RecSize
    BY <1>2, <1>3, <1>5, CountKept
  <2>2. /\ delivered' \in Seq(Value) /\ broken' = FALSE
        /\ first + Len(delivered') <= Len(sent)
        /\ \A n \in DOMAIN delivered' : delivered'[n] = sent[first + n].value
    BY <1>2, <1>3, <1>5
  <2>. QED BY <1>1, <1>5, <2>1, <2>2, ReadKeeps
<1>6. CASE ReadClear
  <2>1. /\ CacheOK' /\ Advance /\ UNCHANGED <<delivered, broken>>
        /\ pos + 1 \in DictRecs
        /\ Search(dicts', file[pos + 1].sor) # 0
    BY <1>2, <1>6, Bounds, ReadClearKeeps
  <2>2. pos + 1 \in DOMAIN file /\ file[pos + 1].kind # "V"
    BY <1>2, <2>1, DictRecsFacts
  <2>3. Current'
    BY <1>2, <2>1, <2>2, CurrentKept
  <2>. QED BY <1>5, <2>1, <2>2, <2>3
<1>7. CASE ReadAdd
  <2>1. /\ CacheOK' /\ UNCHANGED delivered
        /\ pos + 1 \in DictRecs
        /\ Advance /\ UNCHANGED broken
        /\ Throw \/ Search(dicts', file[pos + 1].sor) # 0
    BY <1>2, <1>3, <1>7, ReadAddKeeps
  <2>2. Search(dicts', file[pos + 1].sor) # 0
    BY <1>2, <2>1 DEF Throw
  <2>3. pos + 1 \in DOMAIN file /\ file[pos + 1].kind # "V"
    BY <1>2, <2>1, DictRecsFacts
  <2>4. Current'
    BY <1>2, <2>1, <2>2, <2>3, CurrentKept
  <2>. QED BY <1>5, <2>1, <2>3, <2>4
<1>8. CASE ReadValue
  <2>1. /\ UNCHANGED dicts /\ CacheOK'
        /\ pos + 1 \in DOMAIN file /\ file[pos + 1].kind = "V"
        /\ Advance
        /\ \/ Throw
           \/ /\ UNCHANGED broken
              /\ \E m \in DOMAIN sent :
                   /\ sent[m].sor = file[pos + 1].sor
                   /\ delivered' = Append(delivered, sent[m].value)
    BY <1>2, <1>3, <1>8, ReadValueKeeps
  <2>2. ~Throw
    BY <1>2, <2>1 DEF Throw, Advance
  <2>3. PICK m \in DOMAIN sent :
          /\ sent[m].sor = file[pos + 1].sor
          /\ delivered' = Append(delivered, sent[m].value)
    BY <2>1, <2>2
  <2>4. pos + 1 \notin DictRecs
    BY <1>2, <2>1, DictRecsFacts
  <2>5. Current'
    BY <1>2, <1>3, <2>1, <2>4, CurrentKept
  <2>6. PICK c \in Nat : c = first + Len(delivered)
    BY <1>2
  <2>7. /\ m \in 1..Len(sent) /\ Len(sent) \in Nat /\ sent[m].sor = pos * RecSize
        /\ DOMAIN sent = 1..Len(sent) /\ sent[m].value \in Value
    <3>1. PICK i \in DOMAIN file : i = pos + 1
      BY <2>1
    <3>2. file[i].sor = pos * RecSize
      <4>1. file[i].sor = (i - 1) * RecSize
        BY <1>2, FileFacts
      <4>2. i - 1 = pos
        BY <1>2, <3>1
      <4>. QED BY <4>1, <4>2
    <3>3. m \in 1..Len(sent) /\ Len(sent) \in Nat /\ DOMAIN sent = 1..Len(sent)
      BY <1>2, FileFacts
    <3>4. sent[m].value \in Value
      BY <1>2, FileFacts
    <3>. QED BY <2>3, <3>1, <3>2, <3>3, <3>4
  <2>8. m = c + 1
    <3>1. ~(m <= c)
      <4>1. ~(pos * RecSize < pos * RecSize)
        BY <1>2 DEF RecSize
      <4>2. m <= c <=> sent[m].sor < pos * RecSize
        BY <1>3, <2>6
      <4>. QED BY <2>7, <4>1, <4>2
    <3>2. c + 1 \in DOMAIN sent /\ ~(c + 1 <= c)
      BY <2>6, <2>7, <3>1
    <3>3. ~(sent[c + 1].sor < pos * RecSize)
      BY <1>3, <2>6, <3>2
    <3>4. ~(c + 1 < m)
      BY <1>2, <2>7, <3>2, <3>3, SentFacts
    <3>. QED BY <2>6, <2>7, <3>1, <3>4
  <2>9. ASSUME NEW n \in DOMAIN sent
        PROVE  n <= c + 1 <=> sent[n].sor < (pos + 1) * RecSize
    <3>1. PICK i \in 1..Len(file) : sent[n].sor = (i - 1) * RecSize
      BY <1>2, SentFacts
    <3>2. n \in Nat /\ i \in Nat /\ (m < n <=> sent[m].sor < sent[n].sor)
      BY <1>2, <3>1, FileFacts, SentFacts
    <3>3. pos < i - 1 <=> pos * RecSize < (i - 1) * RecSize
      BY <1>2, <3>2 DEF RecSize
    <3>4. i - 1 <= pos <=> sent[n].sor < (pos + 1) * RecSize
      BY <1>2, <3>1, <3>2 DEF RecSize
    <3>5. n <= m <=> ~(m < n)
      BY <2>7, <3>2
    <3>6. i - 1 <= pos <=> ~(pos < i - 1)
      BY <1>2, <3>2
    <3>. QED BY <2>7, <2>8, <3>1, <3>2, <3>3, <3>4, <3>5, <3>6
  <2>10. PICK v \in Value : v = sent[m].value
    BY <2>7
  <2>11. /\ delivered' \in Seq(Value) /\ Len(delivered') = Len(delivered) + 1
         /\ DOMAIN delivered' = 1..(Len(delivered) + 1)
         /\ DOMAIN delivered = 1..Len(delivered) /\ Len(delivered) \in Nat
         /\ \A n \in 1..Len(delivered) : delivered'[n] = delivered[n]
         /\ delivered'[Len(delivered) + 1] = v
    BY <1>2, <2>3, <2>10
  <2>12. first + Len(delivered') = c + 1
    BY <1>2, <2>6, <2>11
  <2>13. first + Len(delivered') <= Len(sent)
    BY <2>7, <2>8, <2>12
  <2>14. \A n \in DOMAIN sent :
           n <= first + Len(delivered') <=> sent[n].sor < (pos + 1) * RecSize
    BY <2>9, <2>12
  <2>15. ASSUME NEW n \in DOMAIN delivered'
         PROVE  delivered'[n] = sent[first + n].value
    <3>1. CASE n \in DOMAIN delivered
      BY <1>3, <2>11, <3>1
    <3>2. CASE n = Len(delivered) + 1
      <4>1. first + n = m
        BY <1>2, <2>6, <2>8, <2>11, <3>2
      <4>. QED BY <2>10, <2>11, <3>2, <4>1
    <3>. QED BY <2>11, <3>1, <3>2
  <2>16. broken' = FALSE
    BY <1>2, <2>1, <2>2
  <2>. QED BY <1>1, <2>1, <2>5, <2>11, <2>13, <2>14, <2>15, <2>16, ReadKeeps
<1>. QED BY <1>1, <1>4, <1>6, <1>7, <1>8 DEF ReaderNext

LEMMA FinishKeeps == TailInv /\ Finish => TailInv'
<1> SUFFICES ASSUME TailInv, Finish PROVE TailInv'
  OBVIOUS
<1>1. /\ phase = "reading" /\ phase' \in {"failed", "done"} /\ UNCHANGED logVars
      /\ UNCHANGED <<dicts, pos, delivered, broken>>
      /\ UNCHANGED <<at, sor, target, link, newEntries, entered, first>>
  BY DEF Finish, readerVars
<1>2. /\ LogInv' /\ Falses' /\ use' \in Uses /\ torn' \in BOOLEAN
      /\ file' = file /\ sent' = sent /\ DictRecs' = DictRecs
  BY <1>1, FileKept
<1>3. CacheOK'
  BY <1>1, CacheKept
<1>4. TailTypeOK'
  <2>1. /\ at' \in Nat /\ sor' \in Nat /\ target' \in Int /\ link' \in Int
        /\ newEntries' \in Seq(Str) /\ entered' \in Seq(Nat) /\ first' \in Nat
        /\ pos' \in Nat /\ pos' <= Len(file') /\ delivered' \in Seq(Value)
        /\ broken' = FALSE
    BY <1>1, <1>2 DEF TailInv, TailTypeOK
  <2>. QED BY <1>1, <1>2, <2>1 DEF TailTypeOK
<1>5. Reading'
  BY <1>1, <1>2 DEF TailInv, Reading, Current, LastEntered
<1>6. NoneSkipped' /\ Trying' /\ Building' /\ Validating'
  BY <1>1 DEF NoneSkipped, Trying, Building, Validating
<1>. QED BY <1>2, <1>3, <1>4, <1>5, <1>6 DEF TailInv

LEMMA EnterKeeps == TailInv /\ Enter => TailInv'
<1> SUFFICES ASSUME TailInv, Enter PROVE TailInv'
  OBVIOUS
<1>1. /\ phase' = "scan" /\ UNCHANGED logVars /\ delivered' = <<>>
      /\ UNCHANGED <<sor, target, link, newEntries, first, dicts, pos, broken>>
  BY DEF Enter
<1>2. PICK p \in 0..(FileEnd - 1) : at' = p /\ entered' = Append(entered, p)
  BY DEF Enter
<1>3. /\ LogInv' /\ Falses' /\ use' \in Uses /\ torn' \in BOOLEAN
      /\ file' = file /\ sent' = sent /\ CacheOK'
  BY <1>1, FileKept, CacheKept
<1>4. /\ entered \in Seq(Nat) /\ p \in Nat
  <2>1. FileEnd \in Nat
    <3>1. Len(file) \in Nat
      BY FileFacts DEF TailInv
    <3>2. PICK extra \in {0, 1} : extra = IF torn THEN 1 ELSE 0
      OBVIOUS
    <3>3. FileEnd = Len(file) * RecSize + extra
      BY <3>2 DEF FileEnd
    <3>. QED BY <3>1, <3>3 DEF RecSize
  <2>. QED BY <1>2, <2>1 DEF TailInv, TailTypeOK
<1>5. entered' \in Seq(Nat) /\ entered' # <<>> /\ entered'[Len(entered')] = p
  BY <1>2, <1>4
<1>6. LastEntered' = p
  BY <1>5 DEF LastEntered
<1>7. TailTypeOK'
  <2>1. /\ at' \in Nat /\ sor' \in Nat /\ target' \in Int /\ link' \in Int
        /\ newEntries' \in Seq(Str) /\ first' \in Nat
        /\ pos' \in Nat /\ pos' <= Len(file') /\ delivered' \in Seq(Value)
        /\ broken' = FALSE
    BY <1>1, <1>2, <1>3, <1>4 DEF TailInv, TailTypeOK
  <2>. QED BY <1>1, <1>3, <1>5, <2>1 DEF TailTypeOK
<1>8. NoneSkipped'
  BY <1>1, <1>2, <1>5, <1>6 DEF NoneSkipped
<1>9. Trying' /\ Building' /\ Validating' /\ Reading'
  BY <1>1 DEF Trying, Building, Validating, Reading
<1>. QED BY <1>3, <1>7, <1>8, <1>9 DEF TailInv

-----------------------------------------------------------------------------
(***************************************************************************)
(* The writer.                                                             *)
(***************************************************************************)
\* However a record is written, nothing said of the file so far changes.
LEMMA WriterWrites ==
  ASSUME TailInv, Writer
  PROVE  \E r, k :
           /\ Written(r, k) /\ LogInv' /\ r.sor = Len(file) * RecSize
           /\ \/ r.kind \in {"A", "C"} /\ UNCHANGED sent
              \/ /\ r.kind = "V"
                 /\ \E v \in Value :
                      sent' = Append(sent, [sor |-> r.sor, value |-> v])
<1>1. LogInv
  BY DEF TailInv
<1>2. CASE WriteClear
  BY <1>1, <1>2, WriteClearKeeps DEF WriteClear
<1>3. CASE WriteAdd
  BY <1>1, <1>3, WriteAddKeeps DEF WriteAdd
<1>4. CASE WriteValue(<<>>)
  <2>1. <<>> \in Seq(Literal)
    OBVIOUS
  <2>. QED BY <1>1, <1>4, <2>1, WriteValueKeeps
<1>. QED BY <1>2, <1>3, <1>4 DEF Writer

\* A value written lies behind every value sent before.
LEMMA SentGrows ==
  ASSUME TailInv, NEW r, NEW k, Written(r, k), r.sor = Len(file) * RecSize,
         \/ r.kind \in {"A", "C"} /\ UNCHANGED sent
         \/ /\ r.kind = "V"
            /\ \E v \in Value :
                 sent' = Append(sent, [sor |-> r.sor, value |-> v])
  PROVE  /\ Len(sent) \in Nat /\ Len(sent') \in Nat /\ Len(sent) <= Len(sent')
         /\ \A m \in DOMAIN sent : m \in DOMAIN sent' /\ sent'[m] = sent[m]
         /\ \A m \in DOMAIN sent' :
              \/ m \in DOMAIN sent
              \/ m = Len(sent) + 1 /\ sent'[m].sor = Len(file) * RecSize
<1>1. sent \in Seq(Sent)
  BY DEF TailInv, LogInv, LogTypeOK
<1>2. CASE UNCHANGED sent
  BY <1>1, <1>2
<1>3. CASE \E v \in Value : sent' = Append(sent, [sor |-> r.sor, value |-> v])
  <2>1. PICK v \in Value : sent' = Append(sent, [sor |-> r.sor, value |-> v])
    BY <1>3
  <2>2. PICK e : e = [sor |-> r.sor, value |-> v]
    OBVIOUS
  <2>3. e \in Sent /\ e.sor = Len(file) * RecSize
    <3>1. r.sor \in Nat
      BY DEF Written, Record
    <3>. QED BY <2>2, <3>1 DEF Sent
  <2>4. /\ Len(sent) \in Nat /\ Len(sent') = Len(sent) + 1
        /\ DOMAIN sent = 1..Len(sent) /\ DOMAIN sent' = 1..(Len(sent) + 1)
        /\ \A m \in 1..Len(sent) : sent'[m] = sent[m]
        /\ sent'[Len(sent) + 1] = e
    BY <1>1, <2>1, <2>2, <2>3
  <2>5. \A m \in DOMAIN sent' : m \in DOMAIN sent \/ m = Len(sent) + 1
    BY <2>4
  <2>. QED BY <2>3, <2>4, <2>5
<1>. QED BY <1>2, <1>3

LEMMA WriterKeeps == TailInv /\ Writer => TailInv'
<1> SUFFICES ASSUME TailInv, Writer PROVE TailInv'
  OBVIOUS
<1>1. ~torn /\ UNCHANGED torn /\ UNCHANGED use /\ UNCHANGED syncVars
      /\ UNCHANGED readerVars
  BY DEF Writer
<1>2. PICK r, k :
        /\ Written(r, k) /\ LogInv' /\ r.sor = Len(file) * RecSize
        /\ \/ r.kind \in {"A", "C"} /\ UNCHANGED sent
           \/ /\ r.kind = "V"
              /\ \E v \in Value :
                   sent' = Append(sent, [sor |-> r.sor, value |-> v])
  BY WriterWrites
<1>3. /\ LogInv /\ Len(file) \in Nat /\ Len(file') = Len(file) + 1
      /\ \A i \in DOMAIN file : i \in DOMAIN file' /\ file'[i] = file[i]
                                /\ known'[i] = known[i]
      /\ DOMAIN file = 1..Len(file) /\ DOMAIN file' = 1..(Len(file) + 1)
  BY <1>2, WrittenFacts, FileFacts DEF TailInv
<1>4. /\ Len(sent) \in Nat /\ Len(sent') \in Nat /\ Len(sent) <= Len(sent')
      /\ \A m \in DOMAIN sent : m \in DOMAIN sent' /\ sent'[m] = sent[m]
      /\ \A m \in DOMAIN sent' :
           \/ m \in DOMAIN sent
           \/ m = Len(sent) + 1 /\ sent'[m].sor = Len(file) * RecSize
  BY <1>2, SentGrows
<1>5. /\ phase' = phase /\ at' = at /\ sor' = sor /\ target' = target
      /\ link' = link /\ newEntries' = newEntries /\ entered' = entered
      /\ first' = first /\ dicts' = dicts /\ pos' = pos
      /\ delivered' = delivered /\ broken' = broken
      /\ LastEntered' = LastEntered
  BY <1>1 DEF syncVars, readerVars, LastEntered
<1>6. TailTypeOK'
  <2>1. /\ at' \in Nat /\ sor' \in Nat /\ target' \in Int /\ link' \in Int
        /\ newEntries' \in Seq(Str) /\ entered' \in Seq(Nat) /\ first' \in Nat
        /\ pos' \in Nat /\ pos' <= Len(file') /\ delivered' \in Seq(Value)
        /\ broken' = FALSE
    BY <1>3, <1>5 DEF TailInv, TailTypeOK
  <2>2. use' \in Uses /\ torn' \in BOOLEAN
        /\ phase' \in {"outside", "scan", "build", "validate", "reading",
                       "done", "failed", "lost", "threw"}
    BY <1>1, <1>5 DEF TailInv, TailTypeOK
  <2>. QED BY <2>1, <2>2 DEF TailTypeOK
<1>7. CacheOK'
  <2>1. dicts \in Seq(DictRecord)
        /\ \A n \in DOMAIN dicts : TrueDict(DictRecs, file, known, dicts[n])
    BY DEF TailInv, CacheOK, CacheOf
  <2>2. \A d : TrueDict(DictRecs, file, known, d)
                 => TrueDict(DictRecs', file', known', d)
    BY <1>2, <1>3, WrittenKeeps
  <2>. QED BY <1>5, <2>1, <2>2 DEF CacheOK, CacheOf
<1>8. \A s : False(Len(file), s) => False(Len(file'), s)
  <2>1. 0..(Len(file) - 1) \subseteq 0..(Len(file') - 1)
    BY <1>3
  <2>. QED BY <2>1 DEF False
<1>9. Falses'
  <2>1. ASSUME NEW b \in Nat,
               falses' = falses \cup
                           {[sor |-> Len(file) * RecSize + FalseAt, backref |-> b]}
        PROVE  Falses'
    <3>1. PICK s \in Nat : s = Len(file) * RecSize + FalseAt
      BY <1>3 DEF RecSize, FalseAt
    <3>2. False(Len(file'), s)
      <4>1. Len(file) \in 0..(Len(file') - 1)
        BY <1>3
      <4>. QED BY <3>1, <4>1 DEF False
    <3>3. PICK f : f = [sor |-> s, backref |-> b]
      OBVIOUS
    <3>4. f.sor = s /\ f.backref = b /\ falses' = falses \cup {f}
      BY <2>1, <3>1, <3>3
    <3>. QED BY <1>8, <3>2, <3>4 DEF Falses, TailInv
  <2>2. CASE UNCHANGED falses
    BY <1>8, <2>2 DEF Falses, TailInv
  <2>3. CASE WriteFalse /\ ~UNCHANGED falses
    <3>1. PICK b \in {1} \cup {FalseAt + j * RecSize : j \in 0..(Len(file) + 1)} :
            falses' = falses \cup
                        {[sor |-> Len(file) * RecSize + FalseAt, backref |-> b]}
      BY <2>3 DEF WriteFalse
    <3>2. b \in Nat
      BY <1>3, <3>1 DEF RecSize, FalseAt
    <3>. QED BY <2>1, <3>1, <3>2
  <2>. QED BY <2>2, <2>3 DEF Writer
\* Nothing tried reaches behind the end of the file.
<1>10. \A t : Real(file, sor, t) => Real(file', sor, t)
  BY <1>3 DEF Real
<1>11. Real(file, sor, target) \/ False(Len(file), sor)
         => /\ sor <= Len(file) * RecSize
            /\ ~Real(file, sor, target) => ~Real(file', sor, target)
  <2>1. CASE Real(file, sor, target)
    <3>1. PICK i \in DOMAIN file : file[i].sor = sor
      BY <2>1 DEF Real
    <3>2. sor = (i - 1) * RecSize /\ i \in 1..Len(file)
      BY <1>3, <3>1, FileFacts
    <3>. QED BY <1>3, <2>1, <3>2 DEF RecSize
  <2>2. CASE False(Len(file), sor) /\ ~Real(file, sor, target)
    <3>1. PICK j \in 0..(Len(file) - 1) : sor = j * RecSize + FalseAt
      BY <2>2 DEF False
    <3>2. sor <= Len(file) * RecSize
      BY <1>3, <3>1 DEF RecSize, FalseAt
    <3>3. ASSUME NEW i \in DOMAIN file', file'[i].sor = sor PROVE FALSE
      <4>1. file'[i].sor = (i - 1) * RecSize
        BY <1>2 DEF LogInv, Shape
      <4>2. i \in Nat
        BY <1>3
      <4>. QED BY <1>3, <3>1, <3>3, <4>1, <4>2 DEF RecSize, FalseAt
    <3>. QED BY <3>2, <3>3 DEF Real
  <2>. QED BY <2>1, <2>2
<1>12. NoneSkipped'
  <2> SUFFICES ASSUME phase = "scan" PROVE NoneSkipped'
    BY <1>5 DEF NoneSkipped
  <2>1. /\ entered # <<>> /\ delivered = <<>>
        /\ at = LastEntered \/ at + 2 <= Len(file) * RecSize
        /\ \A m \in DOMAIN sent :
             sent[m].sor - 2 >= LastEntered => sent[m].sor - 2 >= at
    BY <1>1 DEF TailInv, NoneSkipped
  <2>2. at \in Nat /\ LastEntered \in Nat
    BY <2>1, EnteredFact DEF TailInv, TailTypeOK
  <2>3. at = LastEntered \/ at + 2 <= Len(file') * RecSize
    BY <1>3, <2>1, <2>2 DEF RecSize
  <2>4. ASSUME NEW m \in DOMAIN sent', sent'[m].sor - 2 >= LastEntered
        PROVE  sent'[m].sor - 2 >= at
    <3>1. CASE m \in DOMAIN sent
      BY <1>4, <2>1, <2>4, <3>1
    <3>2. CASE sent'[m].sor = Len(file) * RecSize
      BY <1>3, <2>1, <2>2, <2>4, <3>2 DEF RecSize
    <3>. QED BY <1>4, <3>1, <3>2
  <2>. QED BY <1>1, <1>5, <2>1, <2>3, <2>4 DEF NoneSkipped
<1>13. \A m \in DOMAIN sent' :
         \/ m \in DOMAIN sent /\ sent'[m] = sent[m]
         \/ sent'[m].sor = Len(file) * RecSize
  BY <1>4
<1>14. Trying'
  <2> SUFFICES ASSUME phase \in {"build", "validate"} PROVE Trying'
    BY <1>5 DEF Trying
  <2>1. /\ entered # <<>> /\ delivered = <<>>
        /\ Real(file, sor, target) \/ False(Len(file), sor)
        /\ \A m \in DOMAIN sent :
             sent[m].sor - 2 >= LastEntered => sor <= sent[m].sor
    BY DEF TailInv, Trying
  <2>2. \A m \in DOMAIN sent' :
          sent'[m].sor - 2 >= LastEntered => sor <= sent'[m].sor
    BY <1>11, <1>13, <2>1
  <2>3. Real(file', sor, target) \/ False(Len(file'), sor)
    BY <1>8, <1>10, <2>1
  <2>. QED BY <1>5, <2>1, <2>2, <2>3 DEF Trying
<1>15. Building'
  <2> SUFFICES ASSUME phase = "build" PROVE Building'
    BY <1>5 DEF Building
  <2>1. Chain /\ Search(dicts, link) = 0
    BY DEF TailInv, Building
  <2>2. CASE link = target /\ newEntries = <<>>
    BY <1>5, <2>1, <2>2 DEF Building, Chain
  <2>3. CASE /\ newEntries # <<>>
             /\ \E l, t \in DictRecs :
                  /\ l <= t /\ NoClear(file, l, t)
                  /\ file[l].sor = link /\ file[t].sor = target
                  /\ known[t] = known[l] \o newEntries
    <3>1. PICK l, t \in DictRecs :
                  /\ l <= t /\ NoClear(file, l, t)
                  /\ file[l].sor = link /\ file[t].sor = target
                  /\ known[t] = known[l] \o newEntries
      BY <2>3
    <3>2. l \in DOMAIN file /\ t \in DOMAIN file
          /\ l \in DictRecs' /\ t \in DictRecs'
      BY <1>2, <1>3, WrittenDicts, DictRecsFacts
    <3>3. NoClear(file', l, t)
      BY <1>2, <1>3, <3>1, <3>2, WrittenKeeps
    <3>4. file'[l] = file[l] /\ file'[t] = file[t]
          /\ known'[l] = known[l] /\ known'[t] = known[t]
      BY <1>3, <3>2
    <3>5. Chain'
      BY <1>5, <2>3, <3>1, <3>2, <3>3, <3>4 DEF Chain
    <3>. QED BY <1>5, <2>1, <3>5 DEF Building
  <2>. QED BY <2>1, <2>2, <2>3 DEF Chain
<1>16. Validating'
  BY <1>5, <1>11 DEF TailInv, Validating, Trying
<1>17. Reading'
  <2> SUFFICES ASSUME phase \in {"reading", "done", "failed"} PROVE Reading'
    BY <1>5 DEF Reading
  <2>1. PICK c \in Nat : c = first + Len(delivered)
    BY DEF TailInv, TailTypeOK
  <2>2. /\ entered # <<>> /\ Current
        /\ \A m \in DOMAIN sent :
             sent[m].sor - 2 >= LastEntered => sor <= sent[m].sor
        /\ c <= Len(sent)
        /\ \A m \in DOMAIN sent : m <= c <=> sent[m].sor < pos * RecSize
        /\ \A n \in DOMAIN delivered : delivered[n] = sent[first + n].value
    BY <2>1 DEF TailInv, Reading
  <2>3. PICK i \in DOMAIN file :
          file[i].kind = "V" /\ file[i].sor = sor /\ i <= pos + 1
    BY DEF TailInv, Reading
  <2>4. sor <= Len(file) * RecSize
    <3>1. sor = (i - 1) * RecSize
      BY <1>3, <2>3, FileFacts
    <3>. QED BY <1>3, <3>1 DEF RecSize
  <2>5. pos \in Nat /\ pos <= Len(file)
        /\ first \in Nat /\ delivered \in Seq(Value)
    BY DEF TailInv, TailTypeOK
  <2>6. pos * RecSize <= Len(file) * RecSize
    BY <1>3, <2>5 DEF RecSize
  <2>7. \A m \in DOMAIN sent' : m <= c <=> sent'[m].sor < pos * RecSize
    <3> SUFFICES ASSUME NEW m \in DOMAIN sent'
                 PROVE  m <= c <=> sent'[m].sor < pos * RecSize
      OBVIOUS
    <3>1. CASE m \in DOMAIN sent
      BY <1>4, <2>2, <3>1
    <3>2. CASE m = Len(sent) + 1 /\ sent'[m].sor = Len(file) * RecSize
      <4>1. ~(m <= c)
        BY <1>4, <2>1, <2>2, <3>2
      <4>2. ~(Len(file) * RecSize < pos * RecSize)
        BY <1>3, <2>5, <2>6 DEF RecSize
      <4>. QED BY <3>2, <4>1, <4>2
    <3>. QED BY <1>4, <3>1, <3>2
  <2>8. \A n \in DOMAIN delivered : delivered[n] = sent'[first + n].value
    <3> SUFFICES ASSUME NEW n \in DOMAIN delivered
                 PROVE  delivered[n] = sent'[first + n].value
      OBVIOUS
    <3>1. n \in 1..Len(delivered) /\ Len(delivered) \in Nat
      BY <2>5
    <3>2. first + n \in 1..Len(sent)
      BY <1>4, <2>1, <2>2, <2>5, <3>1
    <3>3. first + n \in DOMAIN sent
      BY <1>3, <3>2, FileFacts
    <3>. QED BY <1>4, <2>2, <3>3
  <2>9. Current'
    <3>1. PICK t \in DictRecs :
            Nearest(DictRecs, t, pos + 1) /\ Search(dicts, file[t].sor) # 0
      BY <2>2 DEF Current
    <3>2. t \in DictRecs' /\ file'[t] = file[t]
      BY <1>2, <1>3, <3>1, WrittenDicts, DictRecsFacts
    <3>3. Nearest(DictRecs', t, pos + 1)
      <4>1. pos + 1 \in Nat /\ pos + 1 <= Len(file) + 1
        BY <1>3, <2>5
      <4>. QED BY <1>2, <1>3, <3>1, <4>1, WrittenDicts
    <3>. QED BY <1>5, <3>1, <3>2, <3>3 DEF Current
  <2>10. i \in DOMAIN file' /\ file'[i] = file[i]
    BY <1>3
  <2>11. \A m \in DOMAIN sent' :
           sent'[m].sor - 2 >= LastEntered => sor <= sent'[m].sor
    BY <1>13, <2>2, <2>4
  <2>12. first' + Len(delivered') = c /\ c <= Len(sent')
    BY <1>4, <1>5, <2>1, <2>2
  <2>. QED BY <1>5, <2>2, <2>3, <2>7, <2>8, <2>9, <2>10, <2>11, <2>12 DEF Reading
<1>. QED BY <1>2, <1>6, <1>7, <1>9, <1>12, <1>14, <1>15, <1>16, <1>17 DEF TailInv

-----------------------------------------------------------------------------
(***************************************************************************)
(* The specification keeps the invariant.                                  *)
(***************************************************************************)
LEMMA TearKeeps == TailInv /\ Tear => TailInv'
<1> SUFFICES ASSUME TailInv, Tear PROVE TailInv'
  OBVIOUS
<1>1. /\ torn' = TRUE /\ UNCHANGED fileVars /\ UNCHANGED <<use, falses>>
      /\ UNCHANGED syncVars /\ UNCHANGED readerVars
  BY DEF Tear
<1>2. /\ phase' = phase /\ at' = at /\ sor' = sor /\ target' = target
      /\ link' = link /\ newEntries' = newEntries /\ entered' = entered
      /\ first' = first /\ dicts' = dicts /\ pos' = pos
      /\ delivered' = delivered /\ broken' = broken /\ use' = use
      /\ falses' = falses /\ file' = file /\ sent' = sent /\ known' = known
  BY <1>1 DEF fileVars, syncVars, readerVars
<1>3. LogInv'
  BY <1>1, LogKept DEF TailInv
<1>4. /\ DictRecs' = DictRecs /\ LastEntered' = LastEntered
      /\ Current' = Current /\ Chain' = Chain
  BY <1>2 DEF DictRecs, LastEntered, Current, Chain
<1>5. TailTypeOK'
  BY <1>1, <1>2 DEF TailInv, TailTypeOK
<1>6. CacheOK' /\ Falses'
  BY <1>2, <1>4 DEF TailInv, CacheOK, CacheOf, Falses
<1>7. NoneSkipped'
  BY <1>1, <1>2, <1>4 DEF TailInv, NoneSkipped
<1>8. Trying' /\ Building' /\ Validating' /\ Reading'
  BY <1>2, <1>4 DEF TailInv, Trying, Building, Validating, Reading
<1>. QED BY <1>3, <1>5, <1>6, <1>7, <1>8 DEF TailInv

LEMMA StutterKeeps == TailInv /\ UNCHANGED tailVars => TailInv'
<1> SUFFICES ASSUME TailInv, UNCHANGED tailVars PROVE TailInv'
  OBVIOUS
<1>1. /\ torn' = torn /\ UNCHANGED logVars
      /\ phase' = phase /\ at' = at /\ sor' = sor /\ target' = target
      /\ link' = link /\ newEntries' = newEntries /\ entered' = entered
      /\ first' = first /\ dicts' = dicts /\ pos' = pos
      /\ delivered' = delivered /\ broken' = broken /\ known' = known
  BY DEF tailVars, syncVars, readerVars, logVars, fileVars
<1>2. /\ LogInv' /\ Falses' /\ use' \in Uses
      /\ file' = file /\ sent' = sent /\ DictRecs' = DictRecs
  BY <1>1, FileKept
<1>3. CacheOK'
  BY <1>1, CacheKept
<1>4. LastEntered' = LastEntered /\ Current' = Current /\ Chain' = Chain
  BY <1>1, <1>2 DEF LastEntered, Current, Chain
<1>5. TailTypeOK'
  BY <1>1, <1>2 DEF TailInv, TailTypeOK
<1>6. NoneSkipped' /\ Trying' /\ Building' /\ Validating' /\ Reading'
  BY <1>1, <1>2, <1>4
     DEF TailInv, NoneSkipped, Trying, Building, Validating, Reading
<1>. QED BY <1>2, <1>3, <1>5, <1>6 DEF TailInv

\* The log keeps its shape, the cache stays true, no start is skipped and what
\* is read is what was sent, in every order of the writer's records, sync()'s
\* steps and the reader's.
THEOREM TailInvariant == TailSpec => []TailInv
<1>1. TailInit => TailInv
  BY InitKeeps
<1>2. TailInv /\ [TailNext]_tailVars => TailInv'
  <2> SUFFICES ASSUME TailInv, [TailNext]_tailVars PROVE TailInv'
    OBVIOUS
  <2>1. CASE Writer
    BY <2>1, WriterKeeps
  <2>2. CASE Tear
    BY <2>2, TearKeeps
  <2>3. CASE Enter
    BY <2>3, EnterKeeps
  <2>4. CASE Try \/ TryTorn \/ NothingFound
    BY <2>4, TryKeeps, TryTornKeeps, NothingFoundKeeps
  <2>5. CASE BuildAdd \/ BuildClear \/ BuildFails
    BY <2>5, BuildAddKeeps, BuildClearKeeps, BuildFailsKeeps
  <2>6. CASE Validate
    BY <2>6, ValidateKeeps
  <2>7. CASE ReadOn
    BY <2>7, ReadOnKeeps
  <2>8. CASE Finish
    BY <2>8, FinishKeeps
  <2>9. CASE UNCHANGED tailVars
    BY <2>9, StutterKeeps
  <2>. QED BY <2>1, <2>2, <2>3, <2>4, <2>5, <2>6, <2>7, <2>8, <2>9
           DEF TailNext, Sync
<1>. QED BY <1>1, <1>2, PTL DEF TailSpec

\* A cached dictionary is always the writer's at the positions it covers,
\* however the file was entered and in whichever order dictionaries were built:
\* populate() and DictionaryBuilder's backward walk put strings where the writer
\* had them.
THEOREM CacheStaysTrue == TailSpec => []CacheIsTrue
<1>1. TailInv => CacheIsTrue
  <2> SUFFICES ASSUME TailInv, NEW k \in DOMAIN dicts
               PROVE  \E i, j \in DictRecs :
                        /\ i <= j
                        /\ file[i].kind = "C" /\ file[i].sor = dicts[k].startPos
                        /\ file[j].sor = dicts[k].lastDictPos
                        /\ \A c \in (i + 1)..j : file[c].kind # "C"
                        /\ known[j] = dicts[k].entries
    BY DEF CacheIsTrue
  <2>1. PICK i, j \in DictRecs :
          /\ i <= j
          /\ file[i].kind = "C" /\ file[i].sor = dicts[k].startPos
          /\ file[j].sor = dicts[k].lastDictPos
          /\ NoClear(file, i, j)
          /\ known[j] = dicts[k].entries
    BY DEF TailInv, CacheOK, CacheOf, TrueDict
  <2>2. i \in 1..Len(file) /\ j \in 1..Len(file) /\ DOMAIN file = 1..Len(file)
        /\ Len(file) \in Nat
    BY DictRecsFacts, FileFacts DEF TailInv
  <2>3. ASSUME NEW c \in (i + 1)..j PROVE file[c].kind # "C"
    <3>1. c \in DOMAIN file /\ i < c /\ c <= j
      BY <2>2
    <3>. QED BY <2>1, <3>1 DEF NoClear
  <2>. QED BY <2>1, <2>3
<1>. QED BY <1>1, TailInvariant, PTL

\* Wherever a file is entered, the record sync() settles on is a value record,
\* and no value record begins before it at least two bytes behind the place
\* entered: false starts in strings neither hide one nor pass for one.
THEOREM SyncFindsFirst == TailSpec => []SyncsAtFirst
<1>1. TailInv => SyncsAtFirst
  <2> SUFFICES ASSUME TailInv, NEW i \in DOMAIN file,
                      phase = "reading", file[i].sor = sor
               PROVE  /\ file[i].kind = "V"
                      /\ \A v \in DOMAIN sent :
                           sent[v].sor - 2 >= entered[Len(entered)]
                             => sor <= sent[v].sor
    BY DEF SyncsAtFirst
  <2>1. PICK j \in DOMAIN file : file[j].kind = "V" /\ file[j].sor = sor
    BY DEF TailInv, Reading
  <2>2. i = j
    BY <2>1, OneStart DEF TailInv
  <2>. QED BY <2>1, <2>2 DEF TailInv, Reading, LastEntered
<1>. QED BY <1>1, TailInvariant, PTL

\* From the record sync() has found, every value comes out as it was written,
\* none is left out and reading never breaks, while the file grows and whether
\* it was entered once or several times.
THEOREM TailDeliversWritten == TailSpec => []TailDelivers
<1>1. TailInv => TailDelivers
  BY DEF TailInv, TailTypeOK, Reading, TailDelivers
<1>. QED BY <1>1, TailInvariant, PTL
=============================================================================
