--------------------------- MODULE Zindex_proofs ---------------------------
(***************************************************************************)
(* An index is sound, and reading and seeking with it yields the data, for *)
(* every file, window, chunk and index distance.                           *)
(***************************************************************************)
EXTENDS Zindex, SequenceTheorems, WellFoundedInduction, TLAPS

\* How far inflate has got in the circular window.
Written == WindowSize - availOut

\* The window holds the data last written, from its start up to where inflate
\* has got, and behind that what the round before left there.
Circular ==
  /\ Written <= totalOut
  /\ \A i \in 1..Written : window[i] = totalOut - Written + i - 1
  /\ \A i \in Written + 1..WindowSize :
       totalOut - Written - WindowSize + i - 1 >= 0
         => window[i] = totalOut - Written - WindowSize + i - 1

\* An entry zindexFile writes at the end of a block, and the one at the end.
AccessPoint(entry) ==
  /\ \E b \in 0..Len(Blocks) - 1 : entry.out = OutAt(b) /\ entry.in = InAt(b)
  /\ entry.window \in Seq(Int) /\ Len(entry.window) = WindowSize
  /\ WindowBefore(entry.out, entry.window)
FinalEntry == [out |-> DataSize, in |-> MemberSize, window |-> <<>>]

Entry == [out : Nat, in : Nat, window : Seq(Int)]

\* The entries are in order, the first is that of the start, and each access
\* point is at least one byte behind the one before.
EntriesInv ==
  /\ index \in Seq(Entry)
  /\ \A i \in 1..Len(index) :
       \/ AccessPoint(index[i])
       \/ i = Len(index) /\ i > 1 /\ index[i] = FinalEntry /\ stage # "building"
  /\ \A i, j \in 1..Len(index) :
       i < j /\ AccessPoint(index[j]) => index[i].out < index[j].out
  /\ \A i \in 1..Len(index) : AccessPoint(index[i]) => i - 1 <= index[i].out
  /\ index # <<>> => index[1].out = 0

BuildInv ==
  stage = "building" =>
    /\ block = 0 => totalOut = 0
    /\ block > 0 => index # <<>> /\ OutAt(block - 1) <= totalOut
    /\ totalOut <= OutAt(block)
    /\ initial <=> index = <<>>
    /\ index # <<>> => last = index[Len(index)].out
    /\ last <= totalOut
    /\ Circular

\* Before the index is loaded nothing has been read; a loaded index is whole.
LoadInv ==
  /\ stage \in {"building", "built", "killed", "torn", "refused"} =>
       ~indexed /\ target = NoTarget /\ context = NewContext(0, 0, TRUE)
  /\ stage = "reading" => target = NoTarget
  /\ stage \in {"seeking", "skipping", "failed"} =>
       indexed /\ target \in Positions
  /\ indexed => /\ FileSize = MemberSize
                /\ Len(index) > 1 /\ index[Len(index)] = FinalEntry
  /\ stage = "skipping" => context.pos <= target
  /\ stage = "failed" => target >= DataSize

Contexts == [pos : Nat, cur : Nat, output : Seq(Int), eof : BOOLEAN,
             inflated : Nat, sound : BOOLEAN]

\* A context is consistent: output_ holds the data around pos_, and inflate
\* goes on behind it.
Consistent(c) ==
  /\ c \in Contexts
  /\ c.cur <= Limit(c)
  /\ \A i \in 1..Limit(c) : c.output[i] = c.pos - c.cur + i - 1
  /\ c.inflated = c.pos + Limit(c) - c.cur
  /\ c.inflated <= DataSize
  /\ c.sound
  /\ c.eof => c.inflated = DataSize

ContextInv == Consistent(context) /\ Limit(context) <= OutputSize

ZInv == ZTypeOK /\ EntriesInv /\ BuildInv /\ LoadInv /\ ContextInv

-----------------------------------------------------------------------------
(***************************************************************************)
(* The file.                                                               *)
(***************************************************************************)
LEMMA FileFacts ==
  /\ Len(Blocks) \in Nat /\ Len(Blocks) > 0
  /\ \A b \in 0..Len(Blocks) : OutAt(b) \in Nat /\ InAt(b) \in Nat
  /\ \A b \in 0..Len(Blocks) : OutAt(b) <= DataSize
  /\ DataSize \in Nat /\ MemberSize \in Nat
  /\ OutAt(0) = 0
<1>1. Len(Blocks) \in Nat /\ Len(Blocks) > 0
  BY ZindexAssumption
<1>2. \A b \in 1..Len(Blocks) : Blocks[b].out \in Nat /\ Blocks[b].in \in Nat
  <2> DEFINE Ends == [out : Nat, in : Nat]
  <2>1. Blocks \in Seq(Ends)
    BY ZindexAssumption
  <2> HIDE DEF Ends
  <2>2. \A b \in 1..Len(Blocks) : Blocks[b] \in Ends
    BY <2>1
  <2>. QED BY <2>2 DEF Ends
<1>3. \A b \in 0..Len(Blocks) : OutAt(b) \in Nat /\ InAt(b) \in Nat
  BY <1>1, <1>2, ZindexAssumption DEF OutAt, InAt
<1>4. DataSize \in Nat /\ MemberSize \in Nat
  BY <1>1, <1>3, ZindexAssumption DEF DataSize, MemberSize
<1>5. \A b \in 0..Len(Blocks) : OutAt(b) <= DataSize
  <2> SUFFICES ASSUME NEW b \in 0..Len(Blocks) PROVE OutAt(b) <= DataSize
    OBVIOUS
  <2>1. CASE b = Len(Blocks)
    BY <1>4, <2>1 DEF DataSize
  <2>2. CASE b < Len(Blocks)
    BY <1>1, <2>2, ZindexAssumption DEF DataSize
  <2>. QED BY <1>1, <2>1, <2>2
<1>6. OutAt(0) = 0
  BY DEF OutAt
<1>. QED BY <1>1, <1>3, <1>4, <1>5, <1>6

\* Where the compressed data of a block ends tells which block it is.
LEMMA BlockOfInput ==
  ASSUME NEW a \in 0..Len(Blocks), NEW b \in 0..Len(Blocks), InAt(a) = InAt(b)
  PROVE  a = b
<1>1. a < b \/ b < a \/ a = b
  BY FileFacts
<1>2. InAt(a) \in Nat /\ InAt(b) \in Nat
  BY FileFacts
<1>. QED BY <1>1, <1>2, ZindexAssumption

LEMMA LeastNatural ==
  ASSUME NEW S \in SUBSET Nat, S # {}
  PROVE  \E m \in S : \A n \in S : m <= n
<1> DEFINE R == OpToRel(<, Nat)
<1>1. IsWellFoundedOn(R, Nat)
  BY NatLessThanWellFounded
<1>2. \A m, n \in Nat : m < n => <<m, n>> \in R
  BY DEF OpToRel
<1> HIDE DEF R
<1>3. PICK m \in S : \A n \in S : ~(<<n, m>> \in R)
  BY <1>1, WFMin
<1>4. \A n \in S : m \in Nat /\ n \in Nat /\ ~(n < m)
  <2> SUFFICES ASSUME NEW n \in S PROVE m \in Nat /\ n \in Nat /\ ~(n < m)
    OBVIOUS
  <2>1. m \in Nat /\ n \in Nat
    OBVIOUS
  <2>2. ~(<<n, m>> \in R)
    BY <1>3
  <2>3. n < m => <<n, m>> \in R
    BY <1>2, <2>1
  <2>. QED BY <2>1, <2>2, <2>3
<1>. QED BY <1>4

LEMMA Lesser ==
  ASSUME NEW a \in Int, NEW b \in Int
  PROVE  Min({a, b}) = IF a <= b THEN a ELSE b
<1>1. \A x \in {a, b} : (\A y \in {a, b} : x <= y)
                          => x = IF a <= b THEN a ELSE b
  OBVIOUS
<1>2. \E x \in {a, b} : \A y \in {a, b} : x <= y
  OBVIOUS
<1>. QED BY <1>1, <1>2 DEF Min

-----------------------------------------------------------------------------
(***************************************************************************)
(* Building the index.                                                     *)
(***************************************************************************)

\* What the next bytes do to the window.
LEMMA InflateKeepsCircular ==
  ASSUME ZInv, Inflate PROVE ZTypeOK' /\ BuildInv'
<1> DEFINE start == WindowSize - Room
<1>1. PICK n \in 0..Room :
        /\ totalOut + n <= OutAt(block)
        /\ window' = [i \in 1..WindowSize |->
                        IF start < i /\ i <= start + n
                        THEN totalOut + (i - start) - 1 ELSE window[i]]
        /\ totalOut' = totalOut + n
        /\ availOut' = Room - n
  BY DEF Inflate
<1>2. /\ stage = "building" /\ block > 0
      /\ UNCHANGED <<stage, fileVars, block, last, initial, index, indexed,
                     context, target>>
  BY DEF Inflate
<1>3. /\ WindowSize \in Nat /\ availOut \in 0..WindowSize /\ totalOut \in Nat
      /\ Room \in 0..WindowSize /\ start \in 0..WindowSize
      /\ block \in 0..Len(Blocks) /\ OutAt(block) \in Nat
      /\ OutAt(block) <= DataSize /\ DataSize \in Nat
      /\ WindowSize > 0
      /\ Room = IF availOut = 0 THEN WindowSize ELSE availOut
  BY FileFacts, ZindexAssumption DEF ZInv, ZTypeOK, Room
<1>4. totalOut' \in 0..DataSize /\ totalOut' <= OutAt(block)
      /\ availOut' \in 0..WindowSize /\ totalOut <= totalOut'
  BY <1>1, <1>3
<1>5. window \in [1..WindowSize -> {Garbage} \cup 0..DataSize - 1]
  BY DEF ZInv, ZTypeOK
<1>6. window' \in [1..WindowSize -> {Garbage} \cup 0..DataSize - 1]
  <2>1. \A i \in 1..WindowSize : start < i /\ i <= start + n
          => totalOut + (i - start) - 1 \in 0..DataSize - 1
    BY <1>1, <1>3
  <2>. QED BY <1>1, <1>5, <2>1
<1>7. Circular
  BY <1>2 DEF ZInv, BuildInv
<1>8. /\ Written \in Nat /\ Written = WindowSize - availOut
      /\ Written <= totalOut
      /\ \A i \in 1..Written : window[i] = totalOut - Written + i - 1
      /\ \A i \in Written + 1..WindowSize :
           totalOut - Written - WindowSize + i - 1 >= 0
             => window[i] = totalOut - Written - WindowSize + i - 1
  BY <1>3, <1>7 DEF Circular, Written
<1>9. start = IF availOut = 0 THEN 0 ELSE Written
  BY <1>3, <1>8
<1>10. Written' = start + n
  BY <1>1, <1>3 DEF Written
<1> HIDE DEF start, Written
<1>11. \A i \in 1..WindowSize :
         window'[i] = IF start < i /\ i <= start + n
                      THEN totalOut + (i - start) - 1 ELSE window[i]
  BY <1>1
<1>12. Circular'
  <2>1. Written' <= totalOut'
    BY <1>1, <1>3, <1>8, <1>9, <1>10
  <2>2. ASSUME NEW i \in 1..Written'
        PROVE  window'[i] = totalOut' - Written' + i - 1
    <3>1. i \in 1..WindowSize
      BY <1>1, <1>3, <1>8, <1>9, <1>10
    <3>2. CASE start < i
      BY <1>1, <1>3, <1>10, <1>11, <3>1, <3>2
    <3>3. CASE ~(start < i)
      <4>1. i \in 1..Written /\ start = Written
        BY <1>3, <1>8, <1>9, <3>3
      <4>2. window'[i] = window[i]
        BY <1>11, <3>1, <3>3
      <4>. QED BY <1>1, <1>3, <1>8, <1>10, <4>1, <4>2
    <3>. QED BY <3>2, <3>3
  <2>3. ASSUME NEW i \in Written' + 1..WindowSize,
               totalOut' - Written' - WindowSize + i - 1 >= 0
        PROVE  window'[i] = totalOut' - Written' - WindowSize + i - 1
    <3>1. i \in 1..WindowSize /\ ~(i <= start + n)
      BY <1>1, <1>3, <1>10
    <3>2. window'[i] = window[i]
      BY <1>11, <3>1
    <3>3. totalOut' - Written' = totalOut - start
      BY <1>1, <1>3, <1>10
    <3>4. CASE availOut = 0
      <4>1. i \in 1..Written /\ Written = WindowSize /\ start = 0
        BY <1>3, <1>8, <1>9, <3>1, <3>4
      <4>. QED BY <1>3, <1>8, <3>2, <3>3, <4>1
    <3>5. CASE availOut # 0
      <4>1. start = Written /\ i \in Written + 1..WindowSize
        BY <1>1, <1>3, <1>8, <1>9, <3>1, <3>5
      <4>. QED BY <1>3, <1>8, <2>3, <3>2, <3>3, <4>1
    <3>. QED BY <3>4, <3>5
  <2>. QED BY <2>1, <2>2, <2>3 DEF Circular
<1>13. ZTypeOK'
  BY <1>2, <1>4, <1>6
  DEF ZInv, ZTypeOK, fileVars, OutputSize, BlockSize, Limit
<1>14. last <= totalOut' /\ (block > 0 => OutAt(block - 1) <= totalOut')
  <2>1. block - 1 \in 0..Len(Blocks)
    BY <1>2, <1>3
  <2>2. OutAt(block - 1) \in Nat /\ last \in Nat
    BY SMTT(30), <2>1, FileFacts DEF ZInv, ZTypeOK
  <2>. QED BY SMTT(30), <1>2, <1>3, <1>4, <2>2 DEF ZInv, BuildInv
<1>. QED BY <1>2, <1>4, <1>12, <1>13, <1>14 DEF ZInv, BuildInv

\* The window unrolled is the data before totalOut.
LEMMA WindowMade ==
  ASSUME ZInv, stage = "building"
  PROVE  /\ MakeWindow \in Seq(Int) /\ Len(MakeWindow) = WindowSize
         /\ WindowBefore(totalOut, MakeWindow)
<1> DEFINE old == SubSeq(window, WindowSize - availOut + 1, WindowSize)
           new == SubSeq(window, 1, WindowSize - availOut)
<1>1. /\ WindowSize \in Nat /\ availOut \in 0..WindowSize /\ totalOut \in Nat
      /\ DataSize \in Nat
  BY FileFacts, ZindexAssumption DEF ZInv, ZTypeOK
<1>2. window \in Seq(Int) /\ Len(window) = WindowSize
  <2>1. window \in [1..WindowSize -> Int]
    BY <1>1 DEF ZInv, ZTypeOK, Garbage
  <2>. QED BY <1>1, <2>1
<1>3. /\ Written \in 0..WindowSize /\ Written = WindowSize - availOut
      /\ Written <= totalOut
      /\ \A i \in 1..Written : window[i] = totalOut - Written + i - 1
      /\ \A i \in Written + 1..WindowSize :
           totalOut - Written - WindowSize + i - 1 >= 0
             => window[i] = totalOut - Written - WindowSize + i - 1
  BY <1>1 DEF ZInv, BuildInv, Circular, Written
<1>4. /\ old \in Seq(Int) /\ Len(old) = availOut
      /\ \A i \in 1..availOut : old[i] = window[Written + i]
  BY <1>1, <1>2, <1>3
<1>5. /\ new \in Seq(Int) /\ Len(new) = Written
      /\ \A i \in 1..Written : new[i] = window[i]
  BY <1>1, <1>2, <1>3
<1> HIDE DEF old, new
<1>6. /\ old \o new \in Seq(Int) /\ Len(old \o new) = Len(old) + Len(new)
      /\ \A i \in 1..Len(old) + Len(new) :
           (old \o new)[i] = IF i <= Len(old) THEN old[i] ELSE new[i - Len(old)]
  BY <1>4, <1>5, ConcatProperties
<1>7. Len(old \o new) = WindowSize
  BY <1>1, <1>3, <1>4, <1>5, <1>6
<1>8. ASSUME NEW i \in 1..WindowSize, totalOut - WindowSize + i - 1 >= 0
      PROVE  (old \o new)[i] = totalOut - WindowSize + i - 1
  <2>1. i \in 1..Len(old) + Len(new)
    BY <1>6, <1>7
  <2>2. CASE i <= availOut
    <3>1. (old \o new)[i] = window[Written + i]
      BY <1>1, <1>4, <1>6, <2>1, <2>2
    <3>2. Written + i \in Written + 1..WindowSize
      BY <1>1, <1>3, <2>2
    <3>3. totalOut - Written - WindowSize + (Written + i) - 1
            = totalOut - WindowSize + i - 1
      BY <1>1, <1>3
    <3>. QED BY <1>1, <1>3, <1>8, <3>1, <3>2, <3>3
  <2>3. CASE ~(i <= availOut)
    <3>1. i - availOut \in 1..Written
      BY <1>1, <1>3, <2>3
    <3>2. (old \o new)[i] = window[i - availOut]
      BY <1>1, <1>4, <1>5, <1>6, <2>1, <2>3, <3>1
    <3>. QED BY <1>1, <1>3, <3>1, <3>2
  <2>. QED BY <2>2, <2>3
<1>9. MakeWindow = old \o new
  BY DEF MakeWindow, old, new
<1>. QED BY <1>6, <1>7, <1>8, <1>9 DEF WindowBefore

\* An entry that is appended is behind the others.
LEMMA EndOfBlockKeeps ==
  ASSUME ZInv, EndOfBlock PROVE ZTypeOK' /\ EntriesInv' /\ BuildInv'
<1> DEFINE entry == [out |-> totalOut, in |-> InAt(block), window |-> MakeWindow]
<1>1. /\ stage = "building" /\ block < Len(Blocks) /\ totalOut = OutAt(block)
      /\ block' = block + 1
      /\ UNCHANGED <<stage, extra, recorded, totalOut, window, availOut, indexed,
                     context, target>>
  BY DEF EndOfBlock, fileVars
<1>2. /\ block \in 0..Len(Blocks) /\ totalOut \in 0..DataSize
      /\ last \in 0..DataSize /\ DataSize \in Nat /\ Len(Blocks) \in Nat
      /\ IndexEvery \in Nat
  BY FileFacts, ZindexAssumption DEF ZInv, ZTypeOK
<1>3. block' \in 0..Len(Blocks) /\ block' - 1 = block
  BY <1>1, <1>2
<1>4. totalOut <= OutAt(block') /\ OutAt(block' - 1) <= totalOut
  <2>1. block \in 0..Len(Blocks) /\ block' \in 0..Len(Blocks) /\ block < block'
    BY <1>1, <1>2, <1>3
  <2>2. OutAt(block) <= OutAt(block')
    BY <2>1, ZindexAssumption
  <2>3. OutAt(block' - 1) = OutAt(block)
    BY <1>3
  <2>4. OutAt(block) \in Nat
    BY <1>2, FileFacts
  <2>. QED BY <1>1, <2>2, <2>3, <2>4
<1>5. /\ index \in Seq(Entry) /\ Len(index) \in Nat
      /\ \A i \in 1..Len(index) : AccessPoint(index[i])
      /\ \A i, j \in 1..Len(index) : i < j => index[i].out < index[j].out
      /\ \A i \in 1..Len(index) : i - 1 <= index[i].out
      /\ index # <<>> => index[1].out = 0
    BY <1>1 DEF ZInv, EntriesInv
<1>6. /\ initial <=> index = <<>>
      /\ index # <<>> => last = index[Len(index)].out
      /\ last <= totalOut /\ Circular
      /\ block = 0 => totalOut = 0
      /\ block > 0 => index # <<>>
  BY <1>1 DEF ZInv, BuildInv
<1>7. Circular'
  BY <1>1, <1>6 DEF Circular, Written
<1>8. CASE ~NeedsIndex
  <2>1. UNCHANGED <<index, last, initial>>
    BY <1>8 DEF EndOfBlock
  <2>2. index # <<>>
    BY <1>6, <1>8 DEF NeedsIndex
  <2>3. ZTypeOK'
    BY <1>1, <1>3, <2>1 DEF ZInv, ZTypeOK, OutputSize, BlockSize, Limit
  <2>4. EntriesInv'
    BY <1>1, <2>1 DEF ZInv, EntriesInv
  <2>5. BuildInv'
    BY <1>1, <1>2, <1>3, <1>4, <1>6, <1>7, <2>1, <2>2 DEF BuildInv
  <2>. QED BY <2>3, <2>4, <2>5
<1>9. CASE NeedsIndex
  <2>1. index' = Append(index, entry) /\ last' = totalOut /\ initial' = FALSE
    BY <1>9 DEF EndOfBlock
  <2>2. /\ entry \in Entry /\ entry.out = totalOut /\ entry.in = InAt(block)
        /\ entry.window = MakeWindow
    BY <1>1, <1>2, FileFacts, WindowMade DEF Entry
  <2>3. AccessPoint(entry)
    <3>1. block \in 0..Len(Blocks) - 1
      BY <1>1, <1>2
    <3>. QED BY <1>1, <2>2, <3>1, WindowMade DEF AccessPoint
  <2> HIDE DEF entry
  <2>4. /\ index' \in Seq(Entry) /\ Len(index') = Len(index) + 1
        /\ \A i \in 1..Len(index) : index'[i] = index[i]
        /\ index'[Len(index) + 1] = entry
    BY <1>5, <2>1, <2>2, AppendProperties
  <2>5. \A i \in 1..Len(index) : index[i] \in Entry
    BY <1>5
  <2>6. \A i \in 1..Len(index) : index[i].out \in Nat
    BY <2>5 DEF Entry
  <2>7. \A i \in 1..Len(index) : index[i].out < totalOut /\ i <= totalOut
    <3> SUFFICES ASSUME NEW i \in 1..Len(index)
                 PROVE  index[i].out < totalOut /\ i <= totalOut
      OBVIOUS
    <3>1. index # <<>> /\ Len(index) \in 1..Len(index)
      BY <1>5
    <3>2. totalOut > last + IndexEvery
      BY <1>2, <1>6, <1>9, <3>1 DEF NeedsIndex
    <3>3. last = index[Len(index)].out
      BY <1>6, <3>1
    <3>4. index[i].out <= last
      <4>1. CASE i = Len(index)
        BY <1>2, <3>3, <4>1
      <4>2. CASE i < Len(index)
        BY SMTT(30), <1>2, <1>5, <2>6, <3>1, <3>3, <4>2
      <4>. QED BY <1>5, <4>1, <4>2
    <3>5. Len(index) - 1 <= last
      BY <1>5, <3>1, <3>3
    <3>. QED BY <1>2, <1>5, <2>6, <3>2, <3>4, <3>5
  <2>8. \A i \in 1..Len(index') : AccessPoint(index'[i])
    BY <1>5, <2>3, <2>4
  <2>9. \A i, j \in 1..Len(index') : i < j => index'[i].out < index'[j].out
    <3> SUFFICES ASSUME NEW i \in 1..Len(index'), NEW j \in 1..Len(index'), i < j
                 PROVE  index'[i].out < index'[j].out
      OBVIOUS
    <3>1. i \in 1..Len(index)
      BY <1>5, <2>4
    <3>2. CASE j \in 1..Len(index)
      BY <1>5, <2>4, <3>1, <3>2
    <3>3. CASE j = Len(index) + 1
      BY <2>2, <2>4, <2>7, <3>1, <3>3
    <3>. QED BY <1>5, <2>4, <3>2, <3>3
  <2>10. \A i \in 1..Len(index') : i - 1 <= index'[i].out
    <3> SUFFICES ASSUME NEW i \in 1..Len(index') PROVE i - 1 <= index'[i].out
      OBVIOUS
    <3>1. CASE i \in 1..Len(index)
      BY <1>5, <2>4, <3>1
    <3>2. CASE i = Len(index) + 1
      <4>1. Len(index) <= totalOut
        BY <1>2, <1>5, <2>7
      <4>. QED BY <1>5, <2>2, <2>4, <3>2, <4>1
    <3>. QED BY <1>5, <2>4, <3>1, <3>2
  <2>11. index' # <<>> /\ index'[1].out = 0
    <3>1. Len(index') > 0
      BY <1>5, <2>4
    <3>2. CASE index = <<>>
      <4>1. Len(index) = 0 /\ block = 0
        BY <1>2, <1>6, <3>2
      <4>2. index'[1] = entry
        BY <2>4, <4>1
      <4>. QED BY SMTT(30), <1>6, <2>2, <2>4, <3>1, <4>1, <4>2
    <3>3. CASE index # <<>>
      <4>1. 1 \in 1..Len(index)
        BY <1>5, <3>3
      <4>. QED BY <1>5, <2>4, <3>1, <3>3, <4>1
    <3>. QED BY <3>2, <3>3
  <2>12. EntriesInv'
    BY <1>1, <2>4, <2>8, <2>9, <2>10, <2>11 DEF EntriesInv
  <2>13. index'[Len(index')].out = totalOut
    BY <2>2, <2>4
  <2>14. BuildInv'
    BY <1>1, <1>2, <1>3, <1>4, <1>7, <2>1, <2>11, <2>13 DEF BuildInv
  <2>15. ~indexed
    BY <1>1 DEF ZInv, LoadInv
  <2>16. ZTypeOK'
    BY <1>1, <1>2, <1>3, <2>1, <2>15 DEF ZInv, ZTypeOK, OutputSize, Limit
  <2>. QED BY <2>12, <2>14, <2>16
<1>. QED BY <1>8, <1>9

\* Until the index is loaded there is nothing in output_.
Unread == {"building", "built", "killed", "torn", "refused"}

LEMMA StaysUnread ==
  ASSUME ZInv, stage \in Unread, stage' \in Unread,
         UNCHANGED <<indexed, context, target>>
  PROVE  LoadInv' /\ ContextInv'
<1>1. ~indexed /\ target = NoTarget /\ context = NewContext(0, 0, TRUE)
  BY DEF ZInv, LoadInv, Unread
<1>2. LoadInv'
  BY <1>1 DEF LoadInv, Unread
<1>3. OutputSize' = OutputSize
  BY <1>1 DEF OutputSize
<1>. QED BY <1>2, <1>3 DEF ZInv, ContextInv, Consistent, Limit

LEMMA EndOfStreamKeeps == ASSUME ZInv, EndOfStream PROVE ZInv'
<1>1. /\ stage = "building" /\ block = Len(Blocks) /\ totalOut = DataSize
      /\ index' = Append(index, FinalEntry) /\ stage' = "built"
      /\ UNCHANGED <<fileVars, buildVars, indexed, context, target>>
  BY DEF EndOfStream, FinalEntry
<1>2. /\ index \in Seq(Entry) /\ Len(index) \in Nat
      /\ \A i \in 1..Len(index) : AccessPoint(index[i])
      /\ \A i, j \in 1..Len(index) : i < j => index[i].out < index[j].out
      /\ \A i \in 1..Len(index) : i - 1 <= index[i].out
      /\ index # <<>> => index[1].out = 0
    BY <1>1 DEF ZInv, EntriesInv
<1>3. Len(index) > 0
  BY <1>1, <1>2, FileFacts DEF ZInv, BuildInv
<1>4. FinalEntry \in Entry /\ FinalEntry.window = <<>>
  BY FileFacts DEF FinalEntry, Entry
<1> HIDE DEF FinalEntry
<1>5. /\ index' \in Seq(Entry) /\ Len(index') = Len(index) + 1
      /\ \A i \in 1..Len(index) : index'[i] = index[i]
      /\ index'[Len(index) + 1] = FinalEntry
  BY <1>1, <1>2, <1>4, AppendProperties
<1>6. ~AccessPoint(FinalEntry)
  BY <1>4, ZindexAssumption DEF AccessPoint
<1>7. \A i \in 1..Len(index') : i # Len(index') => i \in 1..Len(index)
  BY <1>2, <1>5
<1>8. \A i \in 1..Len(index') :
        \/ AccessPoint(index'[i])
        \/ i = Len(index') /\ i > 1 /\ index'[i] = FinalEntry
  BY <1>2, <1>3, <1>5, <1>7
<1>9. \A i, j \in 1..Len(index') :
        i < j /\ AccessPoint(index'[j]) => index'[i].out < index'[j].out
  <2> SUFFICES ASSUME NEW i \in 1..Len(index'), NEW j \in 1..Len(index'), i < j,
                      AccessPoint(index'[j])
               PROVE  index'[i].out < index'[j].out
    OBVIOUS
  <2>1. j # Len(index')
    BY <1>5, <1>6
  <2>2. i \in 1..Len(index) /\ j \in 1..Len(index)
    BY <1>2, <1>5, <1>7, <2>1
  <2>. QED BY <1>2, <1>5, <2>2
<1>10. \A i \in 1..Len(index') : AccessPoint(index'[i]) => i - 1 <= index'[i].out
  <2> SUFFICES ASSUME NEW i \in 1..Len(index'), AccessPoint(index'[i])
               PROVE  i - 1 <= index'[i].out
    OBVIOUS
  <2>1. i \in 1..Len(index)
    BY <1>5, <1>6, <1>7
  <2>. QED BY <1>2, <1>5, <2>1
<1>11. index'[1].out = 0
  <2>1. 1 \in 1..Len(index) /\ index # <<>>
    BY <1>2, <1>3
  <2>. QED BY <1>2, <1>5, <2>1
<1>12. EntriesInv'
  <2>1. stage' # "building"
    BY <1>1
  <2>. QED BY <1>5, <1>8, <1>9, <1>10, <1>11, <2>1 DEF EntriesInv, FinalEntry,
           AccessPoint, WindowBefore, MemberSize
<1>13. LoadInv' /\ ContextInv'
  BY <1>1, StaysUnread DEF Unread
<1>14. ~indexed
  BY <1>1 DEF ZInv, LoadInv
<1>15. ZTypeOK'
  BY <1>1, <1>14
  DEF ZInv, ZTypeOK, OutputSize, Limit, fileVars, buildVars, Stages
<1>. QED BY <1>1, <1>12, <1>13, <1>15 DEF ZInv, BuildInv

\* What is left of the entries is in order as well.
LEMMA KilledKeeps == ASSUME ZInv, Killed PROVE ZInv'
<1>1. PICK n \in 0..Len(index) : index' = SubSeq(index, 1, n)
  BY DEF Killed
<1>2. /\ stage \in Unread /\ stage' \in {"killed", "torn"}
      /\ UNCHANGED <<fileVars, buildVars, indexed, context, target>>
  BY DEF Killed, Unread
<1>3. /\ index \in Seq(Entry) /\ Len(index) \in Nat
      /\ \A i \in 1..Len(index) :
           AccessPoint(index[i])
             \/ (i = Len(index) /\ i > 1 /\ index[i] = FinalEntry)
      /\ \A i, j \in 1..Len(index) :
           i < j /\ AccessPoint(index[j]) => index[i].out < index[j].out
      /\ \A i \in 1..Len(index) : AccessPoint(index[i]) => i - 1 <= index[i].out
      /\ index # <<>> => index[1].out = 0
  BY DEF ZInv, EntriesInv
<1>4. /\ index' \in Seq(Entry) /\ Len(index') = n
      /\ \A i \in 1..n : index'[i] = index[i]
  BY <1>1, <1>3
<1>5. /\ n \in Nat /\ n <= Len(index) /\ \A i \in 1..n : i \in 1..Len(index)
  BY <1>1, <1>3
<1>6. \A i \in 1..n : AccessPoint(index'[i])
        \/ (i = n /\ i > 1 /\ index'[i] = FinalEntry)
  BY <1>3, <1>4, <1>5
<1>7. \A i, j \in 1..n :
           i < j /\ AccessPoint(index'[j]) => index'[i].out < index'[j].out
  BY <1>3, <1>4, <1>5
<1>8. \A i \in 1..n : AccessPoint(index'[i]) => i - 1 <= index'[i].out
  BY <1>3, <1>4, <1>5
<1>9. index' # <<>> => index'[1].out = 0
  <2> SUFFICES ASSUME index' # <<>> PROVE index'[1].out = 0
    OBVIOUS
  <2>1. n > 0 /\ index # <<>>
    BY <1>3, <1>4, <1>5
  <2>2. 1 \in 1..n
    BY <1>5, <2>1
  <2>. QED BY <1>3, <1>4, <2>1, <2>2
<1>10. EntriesInv'
  <2>1. stage' # "building"
    BY <1>2
  <2>. QED BY <1>4, <1>6, <1>7, <1>8, <1>9, <2>1
           DEF EntriesInv, FinalEntry, AccessPoint, WindowBefore, MemberSize
<1>11. LoadInv' /\ ContextInv'
  BY <1>2, StaysUnread DEF Unread
<1>12. ~indexed
  BY <1>2 DEF ZInv, LoadInv, Unread
<1>13. ZTypeOK'
  BY <1>2, <1>12
  DEF ZInv, ZTypeOK, OutputSize, Limit, fileVars, buildVars, Stages
<1>. QED BY <1>2, <1>10, <1>11, <1>13 DEF ZInv, BuildInv

LEMMA GrowKeeps == ASSUME ZInv, Grow PROVE ZInv'
<1>1. /\ stage \in Unread /\ stage # "building" /\ extra' = 1
      /\ UNCHANGED <<stage, recorded, buildVars, index, indexed, context, target>>
  BY DEF Grow, Unread
<1>2. LoadInv' /\ ContextInv'
  BY <1>1, StaysUnread
<1>3. EntriesInv'
  BY <1>1 DEF ZInv, EntriesInv
<1>4. ~indexed
  BY <1>1 DEF ZInv, LoadInv, Unread
<1>5. ZTypeOK'
  BY <1>1, <1>4 DEF ZInv, ZTypeOK, OutputSize, Limit, buildVars
<1>. QED BY <1>1, <1>2, <1>3, <1>5 DEF ZInv, BuildInv

\* The steps of zindexFile that stay within it.
LEMMA BuildingKeeps == ASSUME ZInv, Inflate \/ EndOfBlock PROVE ZInv'
<1>1. /\ stage = "building" /\ stage' = "building"
      /\ UNCHANGED <<indexed, context, target>>
  BY DEF Inflate, EndOfBlock
<1>2. LoadInv' /\ ContextInv'
  BY <1>1, StaysUnread DEF Unread
<1>3. CASE Inflate
  <2>1. EntriesInv'
    BY <1>3 DEF Inflate, ZInv, EntriesInv
  <2>. QED BY <1>2, <1>3, <2>1, InflateKeepsCircular DEF ZInv
<1>4. CASE EndOfBlock
  BY <1>2, <1>4, EndOfBlockKeeps DEF ZInv
<1>. QED BY <1>3, <1>4

-----------------------------------------------------------------------------
(***************************************************************************)
(* Loading it.                                                             *)
(***************************************************************************)
LEMMA Quotient ==
  ASSUME NEW a \in Nat, NEW b \in Nat, b > 0
  PROVE  a \div b \in Nat /\ (a \div b = 0 => a < b)
OBVIOUS

\* A whole index has the final entry and, before it, the one of the start; its
\* blocks are so large that what can be read with it fits into output_.
LEMMA WholeIndex ==
  ASSUME ZInv, Len(index) > 1, index[Len(index)] = FinalEntry
  PROVE  /\ BlockSize \in Nat
         /\ BlockSize = 0 => DataSize <= 1
<1>1. /\ index \in Seq(Entry) /\ Len(index) \in Nat
      /\ \A i \in 1..Len(index) :
           AccessPoint(index[i]) \/ (i = Len(index) /\ index[i] = FinalEntry)
      /\ \A i \in 1..Len(index) : AccessPoint(index[i]) => i - 1 <= index[i].out
  BY DEF ZInv, EntriesInv
<1>2. DataSize \in Nat /\ FinalEntry.out = DataSize
  BY FileFacts DEF FinalEntry
<1>3. Len(index) - 1 \in 1..Len(index)
  BY <1>1
<1>4. AccessPoint(index[Len(index) - 1])
  BY <1>1, <1>3
<1>5. index[Len(index) - 1].out <= DataSize
  BY <1>4, FileFacts DEF AccessPoint
<1>6. index[Len(index) - 1].out \in Nat
  BY SMTT(30), <1>4, FileFacts DEF AccessPoint
<1>7. Len(index) - 2 <= DataSize
  BY <1>1, <1>2, <1>3, <1>4, <1>5, <1>6
<1>8. BlockSize = (2 * DataSize) \div Len(index)
  BY <1>2 DEF BlockSize
<1>9. 2 * DataSize \in Nat
  BY <1>2
<1>10. BlockSize \in Nat /\ (BlockSize = 0 => 2 * DataSize < Len(index))
  <2>1. Len(index) > 0
    BY <1>1
  <2>2. \A a, b \in Nat : b > 0 => a \div b \in Nat /\ (a \div b = 0 => a < b)
    BY Quotient
  <2>. QED BY <1>1, <1>8, <1>9, <2>1, <2>2
<1>. QED BY <1>1, <1>2, <1>7, <1>10

LEMMA LoadKeeps == ASSUME ZInv, Load \/ LoadNone PROVE ZInv'
<1>1. /\ stage \in Unread
      /\ UNCHANGED <<extra, recorded, buildVars, index, context, target>>
  BY DEF Load, LoadNone, fileVars, Unread
<1>2. /\ ~indexed /\ target = NoTarget /\ context = NewContext(0, 0, TRUE)
  BY <1>1 DEF ZInv, LoadInv, Unread
<1>3. EntriesInv'
  <2>1. stage' # "building"
    BY DEF Load, LoadNone
  <2>. QED BY <1>1, <2>1 DEF ZInv, EntriesInv
<1>4. CASE stage' = "refused" /\ UNCHANGED indexed
  <2>1. LoadInv' /\ ContextInv'
    BY <1>1, <1>4, StaysUnread DEF Unread
  <2>2. ZTypeOK'
    BY <1>1, <1>2, <1>4 DEF ZInv, ZTypeOK, OutputSize, Limit, buildVars, Stages
  <2>. QED BY <1>3, <1>4, <2>1, <2>2 DEF ZInv, BuildInv
<1>5. CASE stage' = "reading"
  <2>1. Limit(context) = 0
    BY <1>2 DEF NewContext, Limit
  <2>2. OutputSize' \in Nat /\ LoadInv' /\ indexed' \in BOOLEAN
    <3>1. CASE LoadNone
      <4>1. ~indexed'
        BY <1>2, <3>1 DEF LoadNone
      <4>2. OutputSize' \in Nat
        BY <4>1, ZindexAssumption DEF OutputSize
      <4>3. target' = NoTarget
        BY <1>1, <1>2
      <4>4. LoadInv'
        BY <1>5, <4>1, <4>3 DEF LoadInv
      <4>5. indexed' \in BOOLEAN
        BY <3>1 DEF LoadNone, ZInv, ZTypeOK
      <4>. QED BY <4>2, <4>4, <4>5
    <3>2. CASE Load
      <4>1. indexed' = TRUE /\ Complete /\ ~Changed
        BY <1>5, <3>2 DEF Load
      <4>2. index # <<>> /\ index \in Seq(Entry)
        BY <4>1 DEF Complete, ZInv, EntriesInv
      <4>3. Len(index) \in 1..Len(index)
        BY <4>2
      <4>4. ~AccessPoint(index[Len(index)])
        BY <4>1, ZindexAssumption DEF Complete, AccessPoint
      <4>5. Len(index) > 1 /\ index[Len(index)] = FinalEntry
        BY <4>3, <4>4 DEF ZInv, EntriesInv
      <4>6. index[Len(index)].in = MemberSize
        BY <4>5 DEF FinalEntry
      <4>7. FileSize = MemberSize
        BY <4>1, <4>6 DEF Complete, Changed
      <4>8. BlockSize \in Nat
        BY <4>5, WholeIndex
      <4>9. OutputSize' \in Nat
        BY <1>1, <4>1, <4>8 DEF OutputSize, BlockSize
      <4>10. FileSize' = MemberSize
        BY <1>1, <4>7 DEF FileSize
      <4>11. LoadInv'
        BY <1>1, <1>2, <1>5, <4>1, <4>5, <4>10 DEF LoadInv, FinalEntry
      <4>. QED BY <4>1, <4>9, <4>11
    <3>. QED BY <3>1, <3>2
  <2>3. ContextInv'
    BY <1>1, <2>1, <2>2 DEF ZInv, ContextInv, Consistent, Limit
  <2>4. ZTypeOK'
    <3>1. /\ Limit(context)' = 0 /\ context'.cur = 0 /\ stage' \in Stages
          /\ target' = NoTarget
      BY <1>1, <1>2, <1>5, <2>1 DEF Stages, NewContext, Limit
    <3>2. 0 <= OutputSize'
      BY <2>2
    <3> HIDE DEF OutputSize, Limit
    <3>. QED BY <1>1, <2>2, <3>1, <3>2 DEF ZInv, ZTypeOK, buildVars
  <2>. QED BY <1>3, <1>5, <2>2, <2>3, <2>4 DEF ZInv, BuildInv
<1>. QED BY <1>4, <1>5 DEF Load, LoadNone

-----------------------------------------------------------------------------
(***************************************************************************)
(* Reading and seeking.                                                    *)
(***************************************************************************)

\* What a step that only reads has to show.
LEMMA InUse ==
  ASSUME ZInv, stage \notin Unread, stage' \in Stages \ Unread,
         UNCHANGED <<fileVars, buildVars, index, indexed>>,
         Consistent(context'), Limit(context') <= OutputSize,
         target' \in Positions \cup {NoTarget},
         stage' = "reading" => target' = NoTarget,
         stage' # "reading" => indexed /\ target' \in Positions,
         stage' = "skipping" => context'.pos <= target',
         stage' = "failed" => target' >= DataSize
  PROVE  ZInv'
<1>1. EntriesInv'
  <2>1. stage' # "building"
    BY DEF Unread
  <2>. QED BY <2>1 DEF ZInv, EntriesInv
<1>2. OutputSize' = OutputSize /\ FileSize' = FileSize
  BY DEF OutputSize, BlockSize, FileSize, fileVars
<1>3. ContextInv'
  BY <1>2 DEF ContextInv, Consistent, Limit
<1>4. LoadInv'
  <2>1. /\ indexed' = indexed /\ index' = index
        /\ indexed => /\ FileSize = MemberSize
                      /\ Len(index) > 1 /\ index[Len(index)] = FinalEntry
    BY DEF ZInv, LoadInv
  <2>2. stage' \notin {"building", "built", "killed", "torn", "refused"}
    BY DEF Unread
  <2>3. /\ stage' = "reading" => target' = NoTarget
        /\ stage' \in {"seeking", "skipping", "failed"} =>
             indexed' /\ target' \in Positions
        /\ indexed' => /\ FileSize' = MemberSize
                       /\ Len(index') > 1 /\ index'[Len(index')] = FinalEntry
    BY <1>2, <2>1
  <2>. QED BY <2>2, <2>3 DEF LoadInv, FinalEntry, Positions
<1>5. ZTypeOK'
  <2>1. Consistent(context') /\ DataSize \in Nat
    BY FileFacts
  <2>2. /\ context'.pos \in Nat /\ context'.cur \in Nat
        /\ context'.inflated \in Nat /\ context'.inflated <= DataSize
        /\ context'.output \in Seq(Int)
        /\ context'.cur <= Limit(context')
        /\ context'.inflated = context'.pos + Limit(context') - context'.cur
    BY DEF Consistent, Contexts
  <2>3. Limit(context') \in Nat
    BY <2>2 DEF Limit
  <2>4. /\ context'.pos \in Positions /\ context'.inflated \in 0..DataSize
        /\ context'.cur \in 0..Limit(context')
    BY <2>1, <2>2, <2>3 DEF Positions
  <2>5. Limit(context)' = Limit(context')
    BY DEF Limit
  <2> HIDE DEF Limit, OutputSize
  <2>6. Limit(context)' <= OutputSize'
    BY <1>2, <2>5
  <2>. QED BY <2>4, <2>5, <2>6
           DEF ZInv, ZTypeOK, fileVars, buildVars, Positions
<1>6. BuildInv'
  BY DEF BuildInv, Unread
<1>. QED BY <1>1, <1>3, <1>4, <1>5, <1>6 DEF ZInv

\* What is appended to output_, or to an empty one, is what comes next; that
\* nothing comes can only be because the data is at its end.
LEMMA GzreadKeeps ==
  ASSUME NEW c, Consistent(c), c.cur = Limit(c), Limit(c) <= OutputSize,
         OutputSize \in Nat, NEW d \in Gzread(c)
  PROVE  /\ Consistent(d) /\ Limit(d) <= OutputSize /\ d.pos = c.pos
         /\ d.cur = Limit(d) => d.pos = DataSize \/ OutputSize = 0
<1> DEFINE kept == IF c.cur = OutputSize THEN <<>> ELSE c.output
           room == Min({OutputSize - Len(kept), ChunkSize})
           n == Min({room, DataSize - c.inflated})
           more == [i \in 1..n |-> IF c.sound THEN c.inflated + i - 1 ELSE Garbage]
           read == [c EXCEPT !.cur = Len(kept), !.output = Placed(kept, more),
                             !.inflated = @ + n]
<1>1. /\ c \in Contexts /\ c.cur <= Limit(c) /\ c.sound
      /\ \A i \in 1..Limit(c) : c.output[i] = c.pos - c.cur + i - 1
      /\ c.inflated = c.pos + Limit(c) - c.cur
      /\ c.inflated <= DataSize
      /\ c.eof => c.inflated = DataSize
  BY DEF Consistent
<1>2. /\ c.pos \in Nat /\ c.cur \in Nat /\ c.inflated \in Nat
      /\ c.output \in Seq(Int) /\ c.eof \in BOOLEAN /\ c.sound \in BOOLEAN
  BY <1>1 DEF Contexts
<1>3. Limit(c) \in Nat /\ Limit(c) = Len(c.output) /\ c.inflated = c.pos
  BY <1>1, <1>2 DEF Limit
<1>4. DataSize \in Nat /\ ChunkSize \in Nat /\ ChunkSize > 0
  BY FileFacts, ZindexAssumption
<1>5. CASE c.eof
  <2>1. d = c
    BY <1>5 DEF Gzread
  <2>. QED BY <1>1, <1>3, <1>5, <2>1
<1>6. CASE ~c.eof
  <2>1. PICK e \in BOOLEAN :
          /\ d = [read EXCEPT !.eof = e]
          /\ n < room => e
          /\ e => read.inflated = DataSize
    BY <1>6 DEF Gzread
  <2>2. /\ kept \in Seq(Int) /\ Len(kept) \in Nat /\ Len(kept) <= OutputSize
        /\ Len(kept) = OutputSize => OutputSize = 0
        /\ \A i \in 1..Len(kept) : kept[i] = c.pos - Len(kept) + i - 1
    <3>1. CASE c.cur = OutputSize
      <4>1. kept = <<>>
        BY <3>1
      <4>. QED BY <1>2, <4>1
    <3>2. CASE c.cur # OutputSize
      <4>1. kept = c.output
        BY <3>2
      <4>. QED BY <1>1, <1>2, <1>3, <3>2, <4>1
    <3>. QED BY <3>1, <3>2
  <2> HIDE DEF kept
  <2>3. /\ room \in Nat /\ room <= OutputSize - Len(kept)
        /\ room = 0 => OutputSize = 0
    <3>1. OutputSize - Len(kept) \in Int
      BY <2>2
    <3>2. room = IF OutputSize - Len(kept) <= ChunkSize
                 THEN OutputSize - Len(kept) ELSE ChunkSize
      BY <1>4, <3>1, Lesser
    <3> HIDE DEF room
    <3>. QED BY <1>4, <2>2, <3>2
  <2> HIDE DEF room
  <2>4. /\ n \in Nat /\ n <= room /\ n <= DataSize - c.inflated
        /\ n = 0 => room = 0 \/ c.inflated = DataSize
    <3>0. room \in Int /\ DataSize - c.inflated \in Int
      BY <1>2, <1>4, <2>3
    <3>1. n = IF room <= DataSize - c.inflated
              THEN room ELSE DataSize - c.inflated
      BY <3>0, Lesser
    <3> HIDE DEF n
    <3>. QED BY <1>1, <1>2, <1>4, <2>3, <3>1
  <2> HIDE DEF n
  <2>5. more \in Seq(Int) /\ Len(more) = n /\ \A i \in 1..n : more[i] = c.pos + i - 1
    <3>1. more = [i \in 1..n |-> c.pos + i - 1]
      BY <1>1, <1>3
    <3>. QED BY <1>2, <2>4, <3>1
  <2> HIDE DEF more
  <2> DEFINE out == kept \o more
  <2>6. /\ out \in Seq(Int) /\ Len(out) = Len(kept) + n
        /\ \A i \in 1..Len(kept) + n :
             out[i] = IF i <= Len(kept) THEN kept[i] ELSE more[i - Len(kept)]
    BY <2>2, <2>4, <2>5, ConcatProperties
  <2> HIDE DEF out
  <2>7. \A i \in 1..Len(out) : out[i] = c.pos - Len(kept) + i - 1
    <3> SUFFICES ASSUME NEW i \in 1..Len(out)
                 PROVE  out[i] = c.pos - Len(kept) + i - 1
      OBVIOUS
    <3>0. i \in 1..Len(kept) + n
      BY <2>6
    <3>1. CASE i <= Len(kept)
      <4>1. i \in 1..Len(kept)
        BY <2>2, <2>4, <3>0, <3>1
      <4>2. out[i] = kept[i]
        BY <2>6, <3>0, <3>1
      <4>. QED BY <2>2, <4>1, <4>2
    <3>2. CASE ~(i <= Len(kept))
      <4>1. i - Len(kept) \in 1..n
        BY <2>2, <2>4, <3>0, <3>2
      <4>2. out[i] = more[i - Len(kept)]
        BY <2>6, <3>0, <3>2
      <4>3. more[i - Len(kept)] = c.pos + (i - Len(kept)) - 1
        BY <2>5, <4>1
      <4>. QED BY <1>2, <2>2, <2>4, <3>0, <4>2, <4>3
    <3>. QED BY <3>1, <3>2
  <2>8. /\ d \in Contexts /\ d.pos = c.pos /\ d.cur = Len(kept)
        /\ d.output = out /\ d.inflated = c.inflated + n /\ d.eof = e
        /\ d.sound = c.sound
    <3>1. c.inflated + n \in Nat
      BY <1>2, <2>4
    <3>2. d = [c EXCEPT !.cur = Len(kept), !.output = out,
                        !.inflated = c.inflated + n, !.eof = e]
      BY <1>1, <2>1 DEF Contexts, Placed, out
    <3>. QED BY <1>1, <2>2, <2>6, <3>1, <3>2 DEF Contexts
  <2>9. Limit(d) = Len(kept) + n
    BY <2>6, <2>8 DEF Limit
  <2>10. e => d.inflated = DataSize
    BY <1>1, <2>1, <2>8 DEF Contexts
  <2>11. /\ d.cur <= Limit(d) /\ Limit(d) <= OutputSize
         /\ d.inflated = d.pos + Limit(d) - d.cur /\ d.inflated <= DataSize
    BY SMTT(30), <1>2, <1>3, <1>4, <2>2, <2>3, <2>4, <2>8, <2>9
  <2>12. \A i \in 1..Limit(d) : d.output[i] = d.pos - d.cur + i - 1
    BY <2>6, <2>7, <2>8, <2>9
  <2>13. Consistent(d)
    BY <1>1, <2>8, <2>10, <2>11, <2>12 DEF Consistent
  <2>14. d.cur = Limit(d) => d.pos = DataSize \/ OutputSize = 0
    BY <1>2, <1>3, <2>2, <2>3, <2>4, <2>8, <2>9
  <2>. QED BY <2>8, <2>11, <2>13, <2>14
<1>. QED BY <1>2, <1>5, <1>6

LEMMA DoReadKeeps ==
  ASSUME Consistent(context), Limit(context) <= OutputSize, OutputSize \in Nat,
         NEW len \in Nat, NEW c \in DoRead(len)
  PROVE  /\ Consistent(c) /\ Limit(c) <= OutputSize
         /\ context.pos <= c.pos /\ c.pos <= context.pos + len
         /\ c.pos = context.pos /\ len > 0
              => context.pos = DataSize \/ OutputSize = 0
<1> DEFINE filled == IF context.cur = Limit(context) THEN Gzread(context)
                     ELSE {context}
<1>1. PICK d \in filled :
        c = [d EXCEPT !.cur = @ + Min({Limit(d) - d.cur, len}),
                      !.pos = @ + Min({Limit(d) - d.cur, len})]
  BY DEF DoRead
<1>2. /\ Consistent(d) /\ Limit(d) <= OutputSize /\ d.pos = context.pos
      /\ d.cur = Limit(d) => d.pos = DataSize \/ OutputSize = 0
  <2>1. CASE context.cur = Limit(context)
    BY <2>1, GzreadKeeps
  <2>2. CASE context.cur # Limit(context)
    <3>1. d = context
      BY <2>2
    <3>. QED BY <2>2, <3>1
  <2>. QED BY <2>1, <2>2
<1> HIDE DEF filled
<1>3. /\ d \in Contexts /\ d.cur <= Limit(d) /\ d.sound
      /\ \A i \in 1..Limit(d) : d.output[i] = d.pos - d.cur + i - 1
      /\ d.inflated = d.pos + Limit(d) - d.cur
      /\ d.inflated <= DataSize
      /\ d.eof => d.inflated = DataSize
  BY <1>2 DEF Consistent
<1>4. /\ d.pos \in Nat /\ d.cur \in Nat /\ d.inflated \in Nat
      /\ d.output \in Seq(Int)
  BY <1>3 DEF Contexts
<1>5. Limit(d) \in Nat
  BY <1>4 DEF Limit
<1> DEFINE n == Min({Limit(d) - d.cur, len})
<1>6. /\ n \in Nat /\ n <= Limit(d) - d.cur /\ n <= len
      /\ n = 0 /\ len > 0 => d.cur = Limit(d)
  <2>1. n = IF Limit(d) - d.cur <= len THEN Limit(d) - d.cur ELSE len
    BY SMTT(30), <1>4, <1>5, Lesser
  <2> HIDE DEF n
  <2>. QED BY <1>3, <1>4, <1>5, <2>1
<1>7. c = [d EXCEPT !.cur = d.cur + n, !.pos = d.pos + n]
  BY <1>1, <1>3 DEF Contexts
<1> HIDE DEF n
<1>8. /\ c \in Contexts /\ c.pos = d.pos + n /\ c.cur = d.cur + n
      /\ c.output = d.output /\ c.inflated = d.inflated /\ c.eof = d.eof
      /\ c.sound = d.sound
  <2>1. d.cur + n \in Nat /\ d.pos + n \in Nat
    BY <1>4, <1>6
  <2>. QED BY <1>3, <1>7, <2>1 DEF Contexts
<1>9. Limit(c) = Limit(d)
  BY <1>8 DEF Limit
<1>10. Consistent(c)
  <2>1. c.cur <= Limit(c) /\ c.inflated = c.pos + Limit(c) - c.cur
    BY SMTT(30), <1>3, <1>4, <1>5, <1>6, <1>8, <1>9
  <2>2. c.pos - c.cur = d.pos - d.cur
    BY <1>4, <1>6, <1>8
  <2>3. \A i \in 1..Limit(c) : c.output[i] = c.pos - c.cur + i - 1
    BY <1>3, <1>8, <1>9, <2>2
  <2>. QED BY <1>3, <1>8, <2>1, <2>3 DEF Consistent
<1>. QED BY <1>2, <1>4, <1>6, <1>8, <1>9, <1>10

\* How much output_ holds, and that a position is one whatever is read.
LEMMA InUseFacts ==
  ASSUME ZInv, stage \notin Unread
  PROVE  /\ Consistent(context) /\ Limit(context) <= OutputSize
         /\ OutputSize \in Nat /\ context.pos \in Nat /\ context.cur \in Nat
         /\ context.cur <= Limit(context) /\ Limit(context) \in Nat
         /\ DataSize \in Nat
         /\ indexed => (OutputSize = 0 => DataSize <= 1)
<1>1. Consistent(context) /\ Limit(context) <= OutputSize
  BY DEF ZInv, ContextInv
<1>2. /\ context.pos \in Nat /\ context.cur \in Nat
      /\ context.cur <= Limit(context) /\ Limit(context) \in Nat
  BY <1>1 DEF Consistent, Contexts, Limit
<1>3. DataSize \in Nat
  BY FileFacts
<1>4. CASE indexed
  <2>1. Len(index) > 1 /\ index[Len(index)] = FinalEntry
    BY <1>4 DEF ZInv, LoadInv
  <2>2. OutputSize = BlockSize
    BY <1>4 DEF OutputSize
  <2>. QED BY <1>1, <1>2, <1>3, <2>1, <2>2, WholeIndex
<1>5. CASE ~indexed
  <2>1. OutputSize \in Nat
    BY <1>5, ZindexAssumption DEF OutputSize
  <2>. QED BY <1>1, <1>2, <1>3, <1>5, <2>1
<1>. QED BY <1>4, <1>5

LEMMA ReadKeeps == ASSUME ZInv, Read PROVE ZInv'
<1>1. /\ stage = "reading" /\ stage' = "reading" /\ target = NoTarget
      /\ UNCHANGED <<fileVars, buildVars, index, indexed, target>>
  BY DEF Read
<1>2. PICK len \in 1..MaxLen : context' \in DoRead(len)
  BY DEF Read
<1>3. len \in Nat
  BY ZindexAssumption
<1>4. stage \notin Unread /\ stage' \in Stages \ Unread
  BY <1>1 DEF Unread, Stages
<1>5. Consistent(context') /\ Limit(context') <= OutputSize
  BY <1>2, <1>3, <1>4, InUseFacts, DoReadKeeps
<1>. QED BY <1>1, <1>4, <1>5, InUse

LEMMA SeekKeeps == ASSUME ZInv, Seek \/ StartSkipping PROVE ZInv'
<1>1. /\ stage \notin Unread /\ stage' \in {"seeking", "skipping"} /\ indexed
      /\ UNCHANGED <<fileVars, buildVars, index, indexed, context>>
      /\ target' \in Positions
  BY DEF Seek, StartSkipping, Unread, Positions, ZInv, LoadInv
<1>2. stage' \in Stages \ Unread
  BY <1>1 DEF Stages, Unread
<1>3. Consistent(context') /\ Limit(context') <= OutputSize
  BY <1>1, InUseFacts
<1>4. stage' = "skipping" => context'.pos <= target'
  <2> SUFFICES ASSUME stage' = "skipping" PROVE context'.pos <= target'
    OBVIOUS
  <2>1. StartSkipping
    BY DEF Seek
  <2>2. ~(target < context.pos) /\ target' = target /\ context' = context
    BY <2>1 DEF StartSkipping, Jumps
  <2>. QED BY <1>1, <2>2, InUseFacts DEF Positions
<1>. QED BY <1>1, <1>2, <1>3, <1>4, InUse

LEMMA SeekInBufferKeeps == ASSUME ZInv, SeekInBuffer PROVE ZInv'
<1>1. /\ stage = "seeking" /\ stage' = "reading" /\ target' = NoTarget
      /\ context' = [context EXCEPT !.cur = @ + target - context.pos,
                                    !.pos = target]
      /\ UNCHANGED <<fileVars, buildVars, index, indexed>>
      /\ Backward \/ Forward
  BY DEF SeekInBuffer
<1>2. stage \notin Unread /\ stage' \in Stages \ Unread
  BY <1>1 DEF Stages, Unread
<1>3. target \in Nat
  BY <1>1, FileFacts DEF ZInv, LoadInv, Positions
<1>4. /\ Consistent(context) /\ Limit(context) <= OutputSize
      /\ context.pos \in Nat /\ context.cur \in Nat
      /\ context.cur <= Limit(context) /\ Limit(context) \in Nat
  BY <1>2, InUseFacts
<1> DEFINE cur == context.cur + target - context.pos
<1>5. cur \in Nat /\ cur <= Limit(context)
  BY <1>1, <1>3, <1>4 DEF Backward, Forward
<1>6. context' = [context EXCEPT !.cur = cur, !.pos = target]
  BY <1>1, <1>4 DEF Consistent, Contexts
<1>7. cur = context.cur + target - context.pos
  OBVIOUS
<1> HIDE DEF cur
<1>8. /\ context' \in Contexts /\ context'.pos = target /\ context'.cur = cur
      /\ context'.output = context.output /\ context'.eof = context.eof
      /\ context'.inflated = context.inflated /\ context'.sound = context.sound
  BY <1>3, <1>4, <1>5, <1>6 DEF Consistent, Contexts
<1>9. Limit(context') = Limit(context)
  BY <1>8 DEF Limit
<1>10. context'.pos - context'.cur = context.pos - context.cur
  BY <1>3, <1>4, <1>5, <1>7, <1>8
<1>11. /\ context.inflated = context.pos + Limit(context) - context.cur
       /\ \A i \in 1..Limit(context) :
            context.output[i] = context.pos - context.cur + i - 1
  BY <1>4 DEF Consistent
<1>12. context'.inflated = context'.pos + Limit(context') - context'.cur
  BY <1>3, <1>4, <1>5, <1>7, <1>8, <1>9, <1>11
<1>13. \A i \in 1..Limit(context') :
         context'.output[i] = context'.pos - context'.cur + i - 1
  BY <1>8, <1>9, <1>10, <1>11
<1>14. Consistent(context')
  BY <1>4, <1>5, <1>8, <1>9, <1>12, <1>13 DEF Consistent
<1>. QED BY <1>1, <1>2, <1>4, <1>9, <1>14, InUse

\* find is of an entry that is not behind the position; the final one is found
\* only for positions at the end.
LEMMA EntryFound ==
  ASSUME ZInv, indexed, NEW p \in Nat
  PROVE  /\ Find(p) \in 1..Len(index) /\ index[Find(p)].out <= p
         /\ \/ AccessPoint(index[Find(p)])
            \/ index[Find(p)] = FinalEntry /\ p >= DataSize
<1> DEFINE S == {i \in 1..Len(index) : index[i].out <= p}
<1>1. /\ index \in Seq(Entry) /\ Len(index) \in Nat
      /\ \A i \in 1..Len(index) :
           AccessPoint(index[i]) \/ (i = Len(index) /\ index[i] = FinalEntry)
      /\ index # <<>> => index[1].out = 0
      /\ Len(index) > 1
  BY DEF ZInv, EntriesInv, LoadInv
<1>2. 1 \in S
  <2>1. 1 \in 1..Len(index) /\ index # <<>>
    BY <1>1
  <2>. QED BY <1>1, <2>1
<1>3. S \in SUBSET Nat /\ \A i \in S : i <= Len(index)
  BY <1>1
<1>4. \E i \in S : \A j \in S : i >= j
  <2> DEFINE T == {Len(index) - i : i \in S}
  <2>1. T \in SUBSET Nat /\ Len(index) - 1 \in T
    BY <1>1, <1>2, <1>3
  <2>2. PICK t \in T : \A u \in T : t <= u
    BY <2>1, LeastNatural
  <2>3. PICK i \in S : t = Len(index) - i
    BY <2>2
  <2>4. \A j \in S : i >= j
    <3> SUFFICES ASSUME NEW j \in S PROVE i >= j
      OBVIOUS
    <3>1. t <= Len(index) - j
      BY <2>2
    <3>2. i \in Nat /\ j \in Nat
      BY <1>3
    <3>. QED BY <1>1, <2>3, <3>1, <3>2
  <2>. QED BY <2>3, <2>4
<1>5. Find(p) \in S
  BY <1>4 DEF Find, Max
<1>6. index[Find(p)] = FinalEntry => p >= DataSize
  BY <1>5 DEF FinalEntry
<1>. QED BY <1>1, <1>5, <1>6

\* An access point is where a block ends, and nothing before the window is ever
\* referred to from there.
LEMMA JumpKeeps == ASSUME ZInv, Jump PROVE ZInv'
<1> DEFINE entry == index[Find(target)]
           b == CHOOSE b \in 0..Len(Blocks) : InAt(b) = entry.in
<1>1. /\ stage = "seeking"
      /\ UNCHANGED <<fileVars, buildVars, index, indexed, target>>
      /\ IF entry.window = <<>> \/ entry.out > target
         THEN stage' = "failed" /\ UNCHANGED context
         ELSE /\ context' = NewContext(entry.out, OutAt(b),
                                       WindowBefore(OutAt(b), entry.window))
              /\ stage' = "skipping"
  BY DEF Jump
<1>2. indexed /\ target \in Positions /\ target \in Nat
  BY <1>1, FileFacts DEF ZInv, LoadInv, Positions
<1>3. /\ entry.out <= target
      /\ AccessPoint(entry) \/ (entry = FinalEntry /\ target >= DataSize)
  BY <1>2, EntryFound
<1> HIDE DEF entry
<1>4. stage \notin Unread /\ stage' \in {"failed", "skipping"}
  BY <1>1 DEF Unread
<1>5. stage' \in Stages \ Unread
  BY <1>4 DEF Unread, Stages
<1>6. CASE AccessPoint(entry)
  <2>1. PICK a \in 0..Len(Blocks) - 1 : entry.out = OutAt(a) /\ entry.in = InAt(a)
    BY <1>6 DEF AccessPoint
  <2>2. a \in 0..Len(Blocks)
    BY FileFacts
  <2>3. b = a
    BY <2>1, <2>2, BlockOfInput
  <2> HIDE DEF b
  <2>4. entry.window # <<>> /\ WindowBefore(OutAt(a), entry.window)
    BY <1>6, <2>1, ZindexAssumption DEF AccessPoint
  <2>5. OutAt(a) \in Nat /\ OutAt(a) <= DataSize
    BY <2>2, FileFacts
  <2>6. stage' = "skipping"
        /\ context' = NewContext(OutAt(a), OutAt(a),
                                 WindowBefore(OutAt(a), entry.window))
    <3>1. entry.out \in Nat
      BY <2>1, <2>5
    <3>2. ~(entry.window = <<>> \/ entry.out > target)
      BY <1>2, <1>3, <2>4, <3>1
    <3>3. /\ stage' = "skipping"
          /\ context' = NewContext(entry.out, OutAt(b),
                                   WindowBefore(OutAt(b), entry.window))
      BY <1>1, <3>2
    <3>. QED BY <2>1, <2>3, <3>3
  <2>7. WindowBefore(OutAt(a), entry.window) = TRUE
    BY <2>4 DEF WindowBefore
  <2>8. context' = NewContext(OutAt(a), OutAt(a), TRUE)
    BY <2>6, <2>7
  <2>9. Consistent(context') /\ Limit(context') = 0
    BY <2>5, <2>8 DEF NewContext, Consistent, Contexts, Limit
  <2>10. context'.pos <= target'
    BY <1>1, <1>3, <2>1, <2>8 DEF NewContext
  <2>11. Limit(context') <= OutputSize
    BY <1>4, <2>9, InUseFacts
  <2>. QED BY <1>1, <1>2, <1>4, <1>5, <2>6, <2>9, <2>10, <2>11, InUse
<1>7. CASE entry = FinalEntry /\ target >= DataSize
  <2>1. stage' = "failed" /\ context' = context
    BY <1>1, <1>7 DEF FinalEntry
  <2>. QED BY <1>1, <1>2, <1>4, <1>5, <1>7, <2>1, InUse, InUseFacts
<1>. QED BY <1>3, <1>6, <1>7

\* Nothing can be skipped only if the data is at its end.
LEMMA SkipKeeps == ASSUME ZInv, Skip PROVE ZInv'
<1>1. /\ stage = "skipping" /\ UNCHANGED <<fileVars, buildVars, index, indexed>>
  BY DEF Skip
<1>2. stage \notin Unread
  BY <1>1 DEF Unread
<1>3. indexed /\ target \in Positions /\ target \in Nat /\ context.pos <= target
  BY <1>1, FileFacts DEF ZInv, LoadInv, Positions
<1>4. /\ Consistent(context) /\ Limit(context) <= OutputSize
      /\ OutputSize \in Nat /\ context.pos \in Nat /\ DataSize \in Nat
      /\ OutputSize = 0 => DataSize <= 1
  BY <1>2, <1>3, InUseFacts
<1>5. CASE context.pos < target
  <2>1. /\ context' \in DoRead(SkipNow) /\ target' = target
        /\ stage' = IF context'.pos = context.pos THEN "failed" ELSE "skipping"
    BY <1>5 DEF Skip, SkippedNone
  <2>2. SkipNow \in Nat /\ SkipNow > 0 /\ SkipNow <= target - context.pos
    <3>1. WindowSize \in Int /\ target - context.pos \in Int /\ WindowSize > 0
      BY <1>3, <1>4, ZindexAssumption
    <3>2. SkipNow = IF WindowSize <= target - context.pos
                    THEN WindowSize ELSE target - context.pos
      BY <3>1, Lesser DEF SkipNow
    <3> HIDE DEF SkipNow
    <3>. QED BY <1>3, <1>4, <1>5, <3>1, <3>2
  <2>3. /\ Consistent(context') /\ Limit(context') <= OutputSize
        /\ context'.pos <= context.pos + SkipNow
        /\ context'.pos = context.pos => context.pos = DataSize \/ OutputSize = 0
    BY <1>4, <2>1, <2>2, DoReadKeeps
  <2>4. context'.pos \in Nat
    BY <2>3 DEF Consistent, Contexts
  <2>5. context'.pos <= target
    BY <1>3, <1>4, <2>2, <2>3, <2>4
  <2>6. stage' = "failed" => target >= DataSize
    BY <1>3, <1>4, <1>5, <2>1, <2>3
  <2>7. stage' \in Stages \ Unread /\ stage' # "reading"
    BY <2>1 DEF Stages, Unread
  <2>. QED BY <1>1, <1>2, <1>3, <2>1, <2>3, <2>5, <2>6, <2>7, InUse
<1>6. CASE ~(context.pos < target)
  <2>1. stage' = "reading" /\ target' = NoTarget /\ context' = context
    BY <1>6 DEF Skip
  <2>2. stage' \in Stages \ Unread
    BY <2>1 DEF Stages, Unread
  <2>. QED BY <1>1, <1>2, <1>4, <2>1, <2>2, InUse
<1>. QED BY <1>5, <1>6

-----------------------------------------------------------------------------
LEMMA InitInvariant == ZInit => ZInv
<1> SUFFICES ASSUME ZInit PROVE ZInv
  OBVIOUS
<1>1. <<>> \in Seq(Int) /\ <<>> \in Seq(Entry) /\ Len(<<>>) = 0
  OBVIOUS
<1>2. /\ stage = "building" /\ indexed = FALSE /\ target = NoTarget
      /\ context = NewContext(0, 0, TRUE) /\ index = <<>> /\ initial = TRUE
      /\ block = 0 /\ totalOut = 0 /\ last = 0 /\ availOut = WindowSize
      /\ window = [i \in 1..WindowSize |-> Garbage]
      /\ extra \in {0, 1} /\ recorded = MemberSize + extra
  BY DEF ZInit, FileSize
<1>3. WindowSize \in Nat /\ ChunkSize \in Nat /\ DataSize \in Nat
      /\ MemberSize \in Nat /\ OutAt(0) = 0
  BY FileFacts, ZindexAssumption
<1>4. Limit(context) = 0 /\ OutputSize \in Nat
  BY <1>1, <1>2, <1>3 DEF NewContext, Limit, OutputSize
<1>5. Consistent(context)
  BY <1>1, <1>2, <1>3, <1>4 DEF NewContext, Consistent, Contexts
<1>6. ContextInv
  BY <1>4, <1>5 DEF ContextInv
<1>7. LoadInv
  BY <1>2 DEF LoadInv
<1>8. EntriesInv
  BY <1>1, <1>2 DEF EntriesInv
<1>9. Circular
  <2>1. Written = 0
    BY <1>2, <1>3 DEF Written
  <2>2. \A i \in 1..WindowSize : ~(0 - 0 - WindowSize + i - 1 >= 0)
    BY <1>3
  <2>. QED BY <1>2, <2>1, <2>2 DEF Circular
<1>10. BuildInv
  BY <1>2, <1>3, <1>9 DEF BuildInv
<1>11. ZTypeOK
  <2>1. window \in [1..WindowSize -> {Garbage} \cup 0..DataSize - 1]
    BY <1>2
  <2>2. /\ context.pos \in Positions /\ context.inflated \in 0..DataSize
        /\ context.cur = 0
    BY <1>2, <1>3 DEF NewContext, Positions
  <2>3. availOut \in 0..WindowSize
    BY <1>2, <1>3
  <2>4. /\ block \in 0..Len(Blocks) /\ totalOut \in 0..DataSize
        /\ last \in 0..DataSize
    BY <1>2, <1>3, FileFacts
  <2> HIDE DEF Limit, OutputSize
  <2>5. Limit(context) <= OutputSize /\ context.cur \in 0..Limit(context)
    BY <1>4, <2>2
  <2>6. recorded \in {MemberSize, MemberSize + 1}
    BY <1>2, <1>3
  <2>. QED BY <1>2, <2>1, <2>2, <2>3, <2>4, <2>5, <2>6 DEF ZTypeOK, Stages
<1>. QED BY <1>6, <1>7, <1>8, <1>10, <1>11 DEF ZInv

LEMMA StepInvariant == ZInv /\ [ZNext]_zVars => ZInv'
<1> SUFFICES ASSUME ZInv, [ZNext]_zVars PROVE ZInv'
  OBVIOUS
<1>1. CASE UNCHANGED zVars
  BY ZenonT(30), <1>1 DEF zVars, fileVars, buildVars, ZInv, ZTypeOK, EntriesInv, BuildInv,
              LoadInv, ContextInv, Consistent, Circular, Written, Limit,
              OutputSize, BlockSize, FileSize
<1>2. CASE ZNext
  BY <1>2, BuildingKeeps, EndOfStreamKeeps, KilledKeeps, GrowKeeps, LoadKeeps,
     ReadKeeps, SeekKeeps, SeekInBufferKeeps, JumpKeeps, SkipKeeps
  DEF ZNext, SeekStep
<1>. QED BY <1>1, <1>2

\* The inductive invariant holds of every file and every way to read it.
THEOREM ZindexInvariant == ZSpec => []ZInv
BY InitInvariant, StepInvariant, PTL DEF ZSpec

\* Type correctness; in particular cur_ and limit_ never leave output_.
THEOREM ZindexTypeCorrect == ZSpec => []ZTypeOK
BY ZindexInvariant, PTL DEF ZInv

\* However the blocks fall into the circular window when an entry is taken, it
\* holds the data inflate may refer back to from there.
THEOREM AccessPointsAlwaysSound == ZSpec => []AccessPointsSound
<1>1. ASSUME ZInv PROVE AccessPointsSound
  <2> SUFFICES ASSUME NEW i \in 1..Len(index), index[i].window # <<>>
               PROVE  WindowBefore(index[i].out, index[i].window)
    BY DEF AccessPointsSound
  <2>1. AccessPoint(index[i]) \/ index[i] = FinalEntry
    BY <1>1 DEF ZInv, EntriesInv
  <2>2. AccessPoint(index[i])
    BY <2>1 DEF FinalEntry
  <2>. QED BY <2>2 DEF AccessPoint
<1>. QED BY <1>1, ZindexInvariant, PTL

\* An index that is used is whole and that of this file, wherever the builder
\* was killed and whatever happened to the file since.
THEOREM OnlyFittingIndexLoaded == ZSpec => []LoadedIndexFits
<1>1. ASSUME ZInv PROVE LoadedIndexFits
  <2> SUFFICES ASSUME indexed
               PROVE  /\ FileSize = MemberSize
                      /\ index[1].out = 0 /\ index[Len(index)].out = DataSize
                      /\ \A i, j \in 1..Len(index) - 1 :
                           i < j => index[i].out < index[j].out
    BY DEF LoadedIndexFits
  <2>1. /\ FileSize = MemberSize /\ Len(index) > 1
        /\ index[Len(index)] = FinalEntry
    BY <1>1 DEF ZInv, LoadInv
  <2>2. /\ index \in Seq(Entry) /\ Len(index) \in Nat
        /\ \A i \in 1..Len(index) : AccessPoint(index[i]) \/ i = Len(index)
        /\ \A i, j \in 1..Len(index) :
             i < j /\ AccessPoint(index[j]) => index[i].out < index[j].out
        /\ index # <<>> => index[1].out = 0
    BY <1>1 DEF ZInv, EntriesInv
  <2>3. index # <<>>
    BY <2>1, <2>2
  <2>4. \A j \in 1..Len(index) - 1 : j \in 1..Len(index) /\ j # Len(index)
    BY <2>2
  <2>. QED BY <2>1, <2>2, <2>3, <2>4 DEF FinalEntry
<1>. QED BY <1>1, ZindexInvariant, PTL

\* After any sequence of reads, seeks, jumps and skips the bytes at hand are
\* those of the positions they are taken for.
THEOREM ReadsData == ZSpec => []OutputIsData
<1>1. ZInv => OutputIsData
  BY DEF ZInv, ContextInv, Consistent, OutputIsData
<1>. QED BY <1>1, ZindexInvariant, PTL

\* A seek into the data never throws.
THEOREM SeeksFailOnlyAtEnd == ZSpec => []FailsOnlyAtEnd
<1>1. ZInv => FailsOnlyAtEnd
  BY DEF ZInv, LoadInv, FailsOnlyAtEnd
<1>. QED BY <1>1, ZindexInvariant, PTL

\* A seek that returns has arrived.
THEOREM SeeksAlwaysLand == ZSpec => SeeksLand
<1> DEFINE Lands == stage # "reading" /\ stage' = "reading" /\ indexed
                      => context'.pos = target
<1>1. ASSUME ZInv, ZInv', [ZNext]_zVars PROVE [Lands]_zVars
  <2> SUFFICES ASSUME ZNext, stage # "reading", stage' = "reading", indexed
               PROVE  context'.pos = target
    BY <1>1
  <2>1. stage \notin Unread
    BY <1>1 DEF ZInv, LoadInv, Unread
  <2>2. SeekInBuffer \/ Skip
    BY <2>1 DEF ZNext, SeekStep, Unread, Inflate, EndOfBlock, EndOfStream, Killed,
                Grow, Load, LoadNone, Read, Seek, Jump, StartSkipping
  <2>3. Consistent(context) /\ context.pos \in Nat
    BY <1>1, <2>1, InUseFacts
  <2>4. CASE SeekInBuffer
    <3>1. context' = [context EXCEPT !.cur = @ + target - context.pos,
                                     !.pos = target]
      BY <2>4 DEF SeekInBuffer
    <3>2. context \in Contexts
      BY <2>3 DEF Consistent
    <3>. QED BY <3>1, <3>2 DEF Contexts
  <2>5. CASE Skip
    <3>1. /\ stage = "skipping"
          /\ ~(context.pos < target) /\ context' = context
      BY <2>5 DEF Skip
    <3>2. context.pos <= target /\ target \in Nat
      BY <1>1, <3>1, FileFacts DEF ZInv, LoadInv, Positions
    <3>. QED BY <2>3, <3>1, <3>2
  <2>. QED BY <2>2, <2>4, <2>5
<1>. QED BY <1>1, ZindexInvariant, PTL DEF ZSpec, SeeksLand
=============================================================================
