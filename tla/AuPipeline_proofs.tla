-------------------------- MODULE AuPipeline_proofs --------------------------
(***************************************************************************)
(* A reader that follows an encoder's output never stops on an error and   *)
(* delivers exactly the values that were written, in order, as long as the *)
(* encoder's vector is not grown in the middle of a record.                *)
(***************************************************************************)
EXTENDS AuPipeline, AuEncoder_proofs

\* The tokens toks, resolved with the dictionary dict, are the values val.
Means(dict, toks, val) ==
  /\ toks \in Seq(Token) /\ val \in Seq(Value) /\ Len(toks) = Len(val)
  /\ \A k \in 1..Len(toks) :
       IF toks[k].kind = "ref"
       THEN toks[k].idx < Len(dict) /\ dict[toks[k].idx + 1] = val[k]
       ELSE toks[k].value = val[k]

\* What a reader has after a stretch of the log: the dictionary, and how many
\* values it has seen.
Known == [dict : Seq(Str), count : Nat]

\* What one more record makes of it; vals are the values written.
Tells(r, before, after, vals) ==
  \/ /\ r.kind = "C"
     /\ after = [dict |-> <<>>, count |-> before.count]
  \/ /\ r.kind = "A"
     /\ r.content \in Seq(Str) /\ r.content # <<>>
     /\ after = [dict |-> before.dict \o r.content, count |-> before.count]
  \/ /\ r.kind = "V"
     /\ after = [dict |-> before.dict, count |-> before.count + 1]
     /\ Means(after.dict, r.content, vals[after.count])

\* told[i] is what the first i records of the log tell.
Told(log, told, vals) ==
  /\ Len(log) >= 2
  /\ log[1].kind = "H"
  /\ log[2].kind = "C"
  /\ told \in [1..Len(log) -> Known]
  /\ told[1] = [dict |-> <<>>, count |-> 0]
  /\ \A i \in 2..Len(log) : Tells(log[i], told[i - 1], told[i], vals)
  /\ \A i \in 1..Len(log) : told[i].count <= Len(vals)

\* Records behind the header start one after the other.
Ascending(e) ==
  /\ \A i, j \in 2..Len(e.log) : i < j => e.log[i].sor < e.log[j].sor
  /\ \A i \in 2..Len(e.log) : e.log[i].sor < e.end

\* lastDictSize_ is how much of the vector the readers know.
Announced(e, dict, vector) ==
  /\ Len(dict) = e.lastDictSize
  /\ e.lastDictSize <= Len(vector)
  /\ \A k \in 1..e.lastDictSize : dict[k] = vector[k]

\* The log written so far ...
Stage(e, told, vals, vector) ==
  /\ Told(e.log, told, vals)
  /\ Ascending(e)
  /\ Announced(e, told[Len(e.log)].dict, vector)

\* ... and with it the record under construction.
Story(told) ==
  /\ Stage(enc, told, sent, dictInOrder)
  /\ told[Len(enc.log)].count = Len(sent)
  /\ Means(dictInOrder, buf.toks, saying)
  /\ Len(saying) <= MaxTokens

Dict == [entries : Seq(Str), startPos : Nat, lastDictPos : Nat]

\* The newest dictionary of the reader is the one the next record refers to,
\* and no dictionary reaches beyond the last A or C record read.
Current(log, dict) ==
  \E d \in 2..pos :
    /\ IsDict(log[d])
    /\ \A k \in (d + 1)..pos : ~IsDict(log[k])
    /\ dicts[Len(dicts)].entries = dict
    /\ dicts[Len(dicts)].startPos <= log[d].sor
    /\ dicts[Len(dicts)].lastDictPos = log[d].sor
    /\ \A i \in 1..Len(dicts) : dicts[i].lastDictPos <= log[d].sor

\* The reader is somewhere in the log and knows what it has told so far.
Following(log, told) ==
  /\ ~broken
  /\ pos \in Nat
  /\ pos <= flushed /\ flushed <= Len(log)
  /\ dicts \in Seq(Dict)
  /\ pos < 2 => dicts = <<>>
  /\ pos >= 2 => dicts # <<>> /\ Current(log, told[pos].dict)
  /\ delivered \in Seq(Seq(Value))
  /\ Len(delivered) = IF pos = 0 THEN 0 ELSE told[pos].count
  /\ \A k \in 1..Len(delivered) : delivered[k] = sent[k]

PipeInv == \E told : Story(told) /\ Following(enc.log, told)

-----------------------------------------------------------------------------
(***************************************************************************)
(* The log grows record by record.                                         *)
(***************************************************************************)

\* What a longer log tells is told on top of what it told before.
Extends(log, told, log2, told2) ==
  /\ Len(log) <= Len(log2)
  /\ \A i \in 1..Len(log) : log2[i] = log[i] /\ told2[i] = told[i]

LEMMA ExtendsTransitive ==
  ASSUME NEW a \in Seq(Record), NEW b \in Seq(Record), NEW c \in Seq(Record),
         NEW ta, NEW tb, NEW tc,
         Extends(a, ta, b, tb), Extends(b, tb, c, tc)
  PROVE  Extends(a, ta, c, tc)
<1>1. Len(a) \in Nat /\ Len(b) \in Nat /\ Len(c) \in Nat
  BY LenProperties
<1>2. \A i \in 1..Len(a) : i \in 1..Len(b)
  BY <1>1 DEF Extends
<1>3. QED
  BY <1>1, <1>2 DEF Extends

\* Writing one more value takes nothing back.
LEMMA ToldMoreValues ==
  ASSUME NEW log \in Seq(Record), NEW told, NEW vals \in Seq(Seq(Value)),
         Told(log, told, vals), NEW v \in Seq(Value)
  PROVE  Told(log, told, Append(vals, v))
<1>1. /\ Len(Append(vals, v)) = Len(vals) + 1 /\ Len(vals) \in Nat
      /\ \A k \in 1..Len(vals) : Append(vals, v)[k] = vals[k]
  BY AppendProperties, LenProperties
<1>2. Len(log) \in Nat
  BY LenProperties
<1>3. \A i \in 1..Len(log) : /\ told[i].count \in Nat
                             /\ told[i].count <= Len(vals)
  BY DEF Told, Known
<1>4. ASSUME NEW i \in 2..Len(log)
      PROVE  Tells(log[i], told[i - 1], told[i], Append(vals, v))
  <2>1. i \in 1..Len(log) /\ i - 1 \in 1..Len(log)
    BY <1>2
  <2>2. Tells(log[i], told[i - 1], told[i], vals)
    BY DEF Told
  <2>3. told[i].count = told[i - 1].count + 1 =>
          Append(vals, v)[told[i].count] = vals[told[i].count]
    BY SMTT(30), <1>1, <1>3, <2>1
  <2>4. CASE log[i].kind = "V"
    <3>1. told[i] = [dict |-> told[i - 1].dict, count |-> told[i - 1].count + 1]
      BY <2>2, <2>4 DEF Tells
    <3>2. Append(vals, v)[told[i].count] = vals[told[i].count]
      <4>1. told[i].count = told[i - 1].count + 1
        BY <3>1
      <4>2. QED
        BY <2>3, <4>1, Zenon
    <3>3. Means(told[i].dict, log[i].content, vals[told[i].count])
      BY <2>2, <2>4 DEF Tells
    <3>4. QED
      BY <2>4, <3>1, <3>2, <3>3 DEF Tells
  <2>5. QED
    BY <2>2, <2>4 DEF Tells
<1>5. \A i \in 1..Len(log) : told[i].count <= Len(Append(vals, v))
  BY <1>1, <1>3
<1>6. QED
  BY <1>4, <1>5 DEF Told

\* One more record in the log.
Further(log, told, x) ==
  [i \in 1..(Len(log) + 1) |-> IF i <= Len(log) THEN told[i] ELSE x]

LEMMA ToldOneMore ==
  ASSUME NEW log \in Seq(Record), NEW told, NEW vals, Told(log, told, vals),
         NEW r \in Record, NEW x \in Known, x.count <= Len(vals),
         Tells(r, told[Len(log)], x, vals)
  PROVE  /\ Told(Append(log, r), Further(log, told, x), vals)
         /\ Extends(log, told, Append(log, r), Further(log, told, x))
         /\ Len(Append(log, r)) = Len(log) + 1
         /\ Further(log, told, x)[Len(log) + 1] = x
<1> DEFINE n == Len(log)
<1> DEFINE log2 == Append(log, r)
<1> DEFINE told2 == Further(log, told, x)
<1>1. /\ n \in Nat /\ Len(log2) = n + 1
      /\ \A i \in 1..n : log2[i] = log[i]
      /\ log2[n + 1] = r
  BY AppendProperties, LenProperties
<1>2. /\ DOMAIN told2 = 1..(n + 1)
      /\ \A i \in 1..n : told2[i] = told[i]
      /\ told2[n + 1] = x
  BY <1>1 DEF Further
<1>3. told2 \in [1..(n + 1) -> Known]
  <2>1. \A i \in 1..n : told[i] \in Known
    BY DEF Told
  <2>2. \A i \in 1..(n + 1) : told2[i] \in Known
    BY <1>1, <2>1 DEF Further
  <2>3. QED
    BY <2>2 DEF Further
<1>4. /\ n >= 2 /\ log[1].kind = "H" /\ log[2].kind = "C"
      /\ told[1] = [dict |-> <<>>, count |-> 0]
      /\ \A i \in 2..n : Tells(log[i], told[i - 1], told[i], vals)
      /\ \A i \in 1..n : told[i].count <= Len(vals)
  BY DEF Told
<1>5. n = Len(log)
  OBVIOUS
<1> HIDE DEF n, log2, told2
<1>6. ASSUME NEW i \in 2..(n + 1)
      PROVE  Tells(log2[i], told2[i - 1], told2[i], vals)
  <2>1. CASE i \in 2..n
    <3>1. i \in 1..n /\ i - 1 \in 1..n
      BY <1>1, <2>1
    <3>2. QED
      BY <1>1, <1>2, <1>4, <2>1, <3>1
  <2>2. CASE i = n + 1
    <3>1. i - 1 = n /\ n \in 1..n
      BY <1>1, <1>4, <2>2
    <3>2. QED
      BY <1>1, <1>2, <1>5, <2>2, <3>1
  <2>3. QED
    BY <1>1, <2>1, <2>2
<1>7. \A i \in 1..(n + 1) : told2[i].count <= Len(vals)
  BY <1>1, <1>2, <1>4
<1>8. Told(log2, told2, vals)
  <2>1. 1 \in 1..n /\ 2 \in 1..n
    BY <1>1, <1>4
  <2>2. QED
    BY <1>1, <1>2, <1>3, <1>4, <1>6, <1>7, <2>1 DEF Told
<1>9. Extends(log, told, log2, told2)
  BY <1>1, <1>2, <1>5 DEF Extends
<1>10. QED
  BY <1>1, <1>2, <1>8, <1>9 DEF n, log2, told2

LEMMA AscendingOneMore ==
  ASSUME NEW e \in EncState, Ascending(e), NEW r \in Record, r.sor = e.end,
         NEW f, f.log = Append(e.log, r), NEW size \in Nat, size > 0,
         f.end = e.end + size
  PROVE  Ascending(f)
<1> DEFINE n == Len(e.log)
<1>1. /\ e.log \in Seq(Record) /\ n \in Nat /\ e.end \in Nat
      /\ Len(f.log) = n + 1
      /\ \A i \in 1..n : f.log[i] = e.log[i]
      /\ f.log[n + 1] = r
  BY AppendProperties, LenProperties DEF EncState
<1>2. \A i \in 1..n : e.log[i].sor \in Nat
  <2>1. \A i \in 1..n : e.log[i] \in Record
    BY <1>1, ElementOfSeq
  <2>2. QED
    BY <2>1 DEF Record
<1>3. \A i, j \in 2..n : i < j => e.log[i].sor < e.log[j].sor
  BY DEF Ascending
<1>4. \A i \in 2..n : e.log[i].sor < e.end
  BY DEF Ascending
<1> HIDE DEF n
<1>5. ASSUME NEW i \in 2..(n + 1), NEW j \in 2..(n + 1), i < j
      PROVE  f.log[i].sor < f.log[j].sor
  <2>1. i \in 2..n /\ i \in 1..n
    BY <1>1, <1>5
  <2>2. CASE j \in 2..n
    <3>1. j \in 1..n
      BY <1>1, <2>2
    <3>2. QED
      BY <1>1, <1>3, <1>5, <2>1, <2>2, <3>1
  <2>3. CASE j = n + 1
    BY <1>1, <1>4, <2>1, <2>3
  <2>4. QED
    BY <1>1, <2>2, <2>3
<1>6. ASSUME NEW i \in 2..(n + 1)
      PROVE  f.log[i].sor < f.end
  <2>1. CASE i \in 2..n
    <3>1. i \in 1..n
      BY <1>1, <2>1
    <3>2. e.log[i].sor < e.end /\ e.log[i].sor \in Nat /\ f.log[i] = e.log[i]
      BY <1>1, <1>2, <1>4, <2>1, <3>1
    <3>3. QED
      BY SMTT(30), <1>1, <3>2
  <2>2. CASE i = n + 1
    BY <1>1, <2>2
  <2>3. QED
    BY <1>1, <2>1, <2>2
<1>7. QED
  BY <1>1, <1>5, <1>6 DEF Ascending

\* A clear record makes the reader forget; whatever the vector holds from now
\* on is still to be announced.
LEMMA ClearTells ==
  ASSUME NEW e, LogInv(e), NEW told, NEW vals, NEW vector \in Seq(Str),
         Told(e.log, told, vals), Ascending(e),
         NEW vector2 \in Seq(Str)
  PROVE  \E told2 : /\ Stage(EmitDictClear(e), told2, vals, vector2)
                    /\ Extends(e.log, told, EmitDictClear(e).log, told2)
                    /\ told2[Len(EmitDictClear(e).log)].count
                         = told[Len(e.log)].count
<1> DEFINE r == Rec("C", e.end, ClearSize, 0, <<>>)
<1> DEFINE n == Len(e.log)
<1> DEFINE x == [dict |-> <<>>, count |-> told[n].count]
<1> DEFINE c == EmitDictClear(e)
<1>1. /\ e \in EncState /\ e.log \in Seq(Record) /\ n \in Nat /\ e.end \in Nat
      /\ Len(vector2) \in Nat
  BY LenProperties DEF LogInv, LogOK, EncState
<1>2. r \in Record /\ r.kind = "C" /\ r.sor = e.end
  BY <1>1 DEF Rec, Record, ClearSize, TermSize
<1>3. told[n].count \in Nat /\ told[n].count <= Len(vals)
  <2>1. n \in 1..n
    BY <1>1 DEF Told
  <2>2. QED
    BY <2>1 DEF Told, Known
<1>4. x \in Known /\ x.count = told[n].count /\ x.dict = <<>>
  BY <1>3 DEF Known
<1>5. c.log = Append(e.log, r) /\ c.end = e.end + ClearSize /\ c.lastDictSize = 0
  BY DEF EmitDictClear, Emit
<1>6. Tells(r, told[Len(e.log)], x, vals)
  BY <1>2 DEF Tells
<1>7. n = Len(e.log)
  OBVIOUS
<1> HIDE DEF r, n, x, c
<1>8. /\ Told(Append(e.log, r), Further(e.log, told, x), vals)
      /\ Extends(e.log, told, Append(e.log, r), Further(e.log, told, x))
      /\ Len(Append(e.log, r)) = n + 1
      /\ Further(e.log, told, x)[n + 1] = x
  <2>1. /\ e.log \in Seq(Record) /\ r \in Record /\ x \in Known
        /\ x.count <= Len(vals)
    BY <1>1, <1>2, <1>3, <1>4
  <2>2. QED
    BY <1>6, <1>7, <2>1, ToldOneMore
<1>9. Ascending(c)
  BY <1>1, <1>2, <1>5, AscendingOneMore DEF ClearSize, TermSize
<1>10. Announced(c, x.dict, vector2)
  BY <1>1, <1>4, <1>5 DEF Announced
<1>11. Stage(c, Further(e.log, told, x), vals, vector2)
  BY <1>5, <1>8, <1>9, <1>10 DEF Stage
<1>12. QED
  BY <1>4, <1>5, <1>7, <1>8, <1>11 DEF c

\* An add record tells the reader the rest of the vector.
LEMMA ExportTells ==
  ASSUME dictInOrder \in Seq(Str), NEW e, LogInv(e),
         NEW told, NEW vals, Stage(e, told, vals, dictInOrder)
  PROVE  \E told2 : /\ Stage(ExportDict(e), told2, vals, dictInOrder)
                    /\ Extends(e.log, told, ExportDict(e).log, told2)
                    /\ told2[Len(ExportDict(e).log)].count
                         = told[Len(e.log)].count
                    /\ ExportDict(e).lastDictSize = Len(dictInOrder)
<1> DEFINE n == Len(e.log)
<1> DEFINE m == Len(dictInOrder)
<1> DEFINE k == e.lastDictSize
<1> DEFINE new == SubSeq(dictInOrder, k + 1, m)
<1>1. /\ e \in EncState /\ e.log \in Seq(Record) /\ n \in Nat /\ e.end \in Nat
      /\ e.backref \in Nat /\ k \in Nat /\ m \in Nat
  BY LenProperties DEF LogInv, LogOK, EncState
<1>2. k <= m
  BY DEF Stage, Announced
<1>3. CASE ~HasNewStrings(e)
  <2>1. ExportDict(e) = e /\ k = m
    BY <1>1, <1>2, <1>3 DEF ExportDict, HasNewStrings
  <2>2. Extends(e.log, told, e.log, told)
    BY <1>1 DEF Extends
  <2>3. QED
    BY <2>1, <2>2
<1>4. CASE HasNewStrings(e)
  <2> DEFINE r == Rec("A", e.end, AddSize(e), e.backref, new)
  <2> DEFINE x == [dict |-> told[n].dict \o new, count |-> told[n].count]
  <2> DEFINE a == ExportDict(e)
  <2>1. k < m
    BY <1>1, <1>4 DEF HasNewStrings
  <2>2. \A i \in 1..m : dictInOrder[i] \in Str
    BY ElementOfSeq
  <2>3. /\ new \in Seq(Str) /\ Len(new) = m - k
        /\ \A i \in 1..(m - k) : new[i] = dictInOrder[k + i]
    <3>1. \A i \in k + 1..m : dictInOrder[i] \in Str
      BY <1>1, <2>2
    <3>2. /\ new \in Seq(Str)
          /\ Len(new) = IF k + 1 <= m THEN m - (k + 1) + 1 ELSE 0
          /\ \A i \in 1..(m - (k + 1) + 1) : new[i] = dictInOrder[k + 1 + i - 1]
      BY SMTT(30), <1>1, <3>1, SubSeqProperties
    <3>3. /\ m - (k + 1) + 1 = m - k
          /\ \A i \in 1..(m - k) : k + 1 + i - 1 = k + i
      BY <1>1
    <3>4. k + 1 <= m
      BY <1>1, <2>1
    <3> HIDE DEF k, m, new
    <3>5. QED
      BY <3>2, <3>3, <3>4
  <2>4. AddSize(e) \in Nat /\ AddSize(e) > 0
    BY <1>1, AddSizePositive
  <2>5. r \in Record /\ r.kind = "A" /\ r.sor = e.end /\ r.content = new
    BY <1>1, <2>3, <2>4 DEF Rec, Record
  <2>6. /\ told[n].count \in Nat /\ told[n].count <= Len(vals)
        /\ told[n].dict \in Seq(Str) /\ Len(told[n].dict) = k
        /\ \A i \in 1..k : told[n].dict[i] = dictInOrder[i]
    <3>1. n \in 1..n
      BY <1>1 DEF Stage, Told
    <3>2. told[n] \in Known /\ told[n].count <= Len(vals)
      BY <3>1 DEF Stage, Told
    <3>3. QED
      BY <3>2 DEF Stage, Announced, Known
  <2>7. /\ a.log = Append(e.log, r) /\ a.end = e.end + AddSize(e)
        /\ a.lastDictSize = m
    BY <1>4 DEF ExportDict, Emit
  <2>7a. n = Len(e.log)
    OBVIOUS
  <2> HIDE DEF n, m, k, new, a
  <2>8. n = Len(e.log) /\ new # <<>>
    BY <1>1, <2>1, <2>3, <2>7a
  <2>9. x \in Known /\ x.count = told[n].count /\ x.dict = told[n].dict \o new
    BY <2>3, <2>6 DEF Known
  <2>10. Tells(r, told[n], x, vals)
    BY <2>3, <2>5, <2>8 DEF Tells
  <2> HIDE DEF r, x
  <2>11. /\ Told(Append(e.log, r), Further(e.log, told, x), vals)
         /\ Extends(e.log, told, Append(e.log, r), Further(e.log, told, x))
         /\ Len(Append(e.log, r)) = n + 1
         /\ Further(e.log, told, x)[n + 1] = x
    BY <1>1, <2>5, <2>6, <2>8, <2>9, <2>10, ToldOneMore DEF Stage
  <2>12. Ascending(a)
    BY <1>1, <2>4, <2>5, <2>7, AscendingOneMore DEF Stage
  <2>13. Announced(a, x.dict, dictInOrder)
    <3>1. /\ Len(x.dict) = k + (m - k)
          /\ \A i \in 1..(k + (m - k)) :
               x.dict[i] = IF i <= k THEN told[n].dict[i] ELSE new[i - k]
      <4>1. /\ told[n].dict \in Seq(Str) /\ new \in Seq(Str)
            /\ Len(told[n].dict) = k /\ Len(new) = m - k
        BY <2>3, <2>6
      <4> DEFINE both == told[n].dict \o new
      <4>2. /\ Len(both) = k + (m - k)
            /\ \A i \in 1..(k + (m - k)) :
                 both[i] = IF i <= k THEN told[n].dict[i] ELSE new[i - k]
        <5>1. \A u, v \in Seq(Str) :
                /\ Len(u \o v) = Len(u) + Len(v)
                /\ \A i \in 1..(Len(u) + Len(v)) :
                     (u \o v)[i] = IF i <= Len(u) THEN u[i] ELSE v[i - Len(u)]
          BY ConcatProperties
        <5>2. QED
          BY ZenonT(30), <4>1, <5>1
      <4>3. x.dict = both
        BY <2>9
      <4> HIDE DEF both
      <4>4. QED
        BY <4>2, <4>3
    <3>2. ASSUME NEW i \in 1..m PROVE x.dict[i] = dictInOrder[i]
      <4>1. CASE i <= k
        BY <1>1, <2>6, <3>1, <4>1
      <4>2. CASE i > k
        <5>1. i - k \in 1..(m - k) /\ k + (i - k) = i
          BY <1>1, <4>2
        <5>2. new[i - k] = dictInOrder[i]
          BY <2>3, <5>1
        <5>3. QED
          BY <1>1, <3>1, <4>2, <5>2
      <4>3. QED
        BY <1>1, <4>1, <4>2
    <3>3. QED
      BY <1>1, <2>7, <3>1, <3>2 DEF Announced, m
  <2>14. Stage(a, Further(e.log, told, x), vals, dictInOrder)
    BY <2>7, <2>11, <2>12, <2>13 DEF Stage
  <2>15. QED
    BY <2>7, <2>8, <2>9, <2>11, <2>14 DEF a, m
<1>5. QED
  BY <1>3, <1>4

\* A value record tells the reader the value, if the dictionary it has by then
\* is the whole vector.
LEMMA ValueTells ==
  ASSUME NEW val \in Seq(Value), Means(dictInOrder, buf.toks, val),
         dictInOrder \in Seq(Str), buf \in [toks : Seq(Token), size : Nat],
         NEW e, LogInv(e), e.lastDictSize = Len(dictInOrder),
         NEW told, NEW vals \in Seq(Seq(Value)),
         Len(vals) > 0, vals[Len(vals)] = val,
         Stage(e, told, vals, dictInOrder),
         told[Len(e.log)].count = Len(vals) - 1
  PROVE  \E told2 :
           /\ Stage(EmitValue(e), told2, vals, dictInOrder)
           /\ Extends(e.log, told, EmitValue(e).log, told2)
           /\ told2[Len(EmitValue(e).log)].count = Len(vals)
<1> DEFINE n == Len(e.log)
<1> DEFINE r == Rec("V", e.end, ValueSize, e.backref, buf.toks)
<1> DEFINE x == [dict |-> told[n].dict, count |-> told[n].count + 1]
<1> DEFINE v == EmitValue(e)
<1>1. /\ e \in EncState /\ e.log \in Seq(Record) /\ n \in Nat /\ e.end \in Nat
      /\ e.backref \in Nat /\ e.lastDictSize \in Nat
  BY LenProperties DEF LogInv, LogOK, EncState
<1>2. ValueSize \in Nat /\ ValueSize > 0
  BY SMTT(30), VarintLenType DEF ValueSize, ValueLen, BackrefSize, TermSize
<1>3. r \in Record /\ r.kind = "V" /\ r.sor = e.end /\ r.content = buf.toks
  BY <1>1, <1>2 DEF Rec, Record
<1>4. Len(vals) \in Nat
  BY LenProperties
<1>5. told[n] \in Known /\ told[n].count = Len(vals) - 1
  <2>1. n \in 1..n
    BY <1>1 DEF Stage, Told
  <2>2. QED
    BY <2>1 DEF Stage, Told
<1>6. x \in Known /\ x.count = Len(vals) /\ x.dict = told[n].dict
  BY <1>4, <1>5 DEF Known
<1>7. Means(x.dict, buf.toks, val)
  <2>1. /\ Len(x.dict) = Len(dictInOrder)
        /\ \A k \in 1..Len(dictInOrder) : x.dict[k] = dictInOrder[k]
    BY <1>6 DEF Stage, Announced
  <2>2. ASSUME NEW k \in 1..Len(buf.toks), buf.toks[k].kind = "ref"
        PROVE  buf.toks[k].idx + 1 \in 1..Len(dictInOrder)
    <3>1. buf.toks[k] \in Token
      BY ElementOfSeq
    <3>2. buf.toks[k].idx \in Nat
      BY <2>2, <3>1 DEF Token
    <3>3. QED
      BY SMTT(30), <2>2, <3>2, LenProperties DEF Means
  <2>3. QED
    BY <2>1, <2>2 DEF Means
<1>8. /\ v.log = Append(e.log, r) /\ v.end = e.end + ValueSize
      /\ v.lastDictSize = e.lastDictSize
  BY DEF EmitValue, Emit
<1>9. Tells(r, told[Len(e.log)], x, vals)
  BY <1>3, <1>4, <1>6, <1>7 DEF Tells
<1>10. n = Len(e.log)
  OBVIOUS
<1> HIDE DEF n, r, x, v
<1>11. /\ Told(Append(e.log, r), Further(e.log, told, x), vals)
       /\ Extends(e.log, told, Append(e.log, r), Further(e.log, told, x))
       /\ Len(Append(e.log, r)) = n + 1
       /\ Further(e.log, told, x)[n + 1] = x
  <2>1. /\ e.log \in Seq(Record) /\ r \in Record /\ x \in Known
        /\ x.count <= Len(vals)
        /\ Told(e.log, told, vals)
    BY <1>1, <1>3, <1>4, <1>6 DEF Stage
  <2>2. QED
    BY SMTT(30), <1>9, <1>10, <2>1, ToldOneMore
<1>12. Ascending(v)
  BY <1>1, <1>2, <1>3, <1>8, AscendingOneMore DEF Stage
<1>13. Announced(v, x.dict, dictInOrder)
  BY <1>6, <1>8, <1>10 DEF Stage, Announced
<1>14. Stage(v, Further(e.log, told, x), vals, dictInOrder)
  BY <1>8, <1>11, <1>12, <1>13 DEF Stage
<1>15. QED
  BY <1>6, <1>8, <1>10, <1>11, <1>14 DEF v

\* encode() tells the readers everything the value refers to, and then the
\* value; a clear that the maintenance adds tells them to start afresh.
LEMMA EndRecordTells ==
  ASSUME EncInv, EncInv', EndRecord, NEW told, Story(told)
  PROVE  /\ \E told2 : /\ Story(told2)'
                       /\ Extends(enc.log, told, enc'.log, told2)
         /\ Len(enc.log) <= flushed' /\ flushed' <= Len(enc'.log)
         /\ sent' = Append(sent, saying) /\ Len(saying) \in 1..MaxTokens
<1> DEFINE e1 == Refreshed(enc)
<1> DEFINE ex == ExportDict(e1)
<1> DEFINE e2 == EmitValue(ex)
<1> DEFINE e3 == Reindexed(e2)
<1>1. /\ buf.toks # <<>>
      /\ Fits(e1) /\ MaintainIntern(e3)
      /\ enc' = Cleared(e3)
      /\ flushed' = Len(e2.log)
      /\ buf' = [toks |-> <<>>, size |-> 0]
      /\ sent' = Append(sent, saying)
      /\ saying' = <<>>
  BY DEF EndRecord
<1>2. /\ dictInOrder \in Seq(Str) /\ dictInOrder' \in Seq(Str)
      /\ buf \in [toks : Seq(Token), size : Nat]
      /\ saying \in Seq(Value) /\ sent \in Seq(Seq(Value))
      /\ sent' \in Seq(Seq(Value))
      /\ enc \in EncState /\ LogInv(enc)
  BY DEF EncInv, EncTypeOK, InternTypeOK
<1>3. LogInv(e1) /\ Close(e1)
  BY <1>2, RefreshedKeepsLog
<1>4. LogInv(ex) /\ Close(ex)
  BY <1>1, <1>2, <1>3, ExportDictKeepsLog DEF Fits
<1>5. LogInv(e2)
  BY <1>1, <1>2, <1>4, EmitValueKeepsLog DEF Fits
<1>6. \/ enc' = EmitDictClear(e2)
      \/ enc' = e2 /\ dictInOrder' = dictInOrder
  <2>1. CASE Due(ReindexInterval)
    <3>1. e3 = EmitDictClear(e2) /\ e3.lastDictSize = 0
      BY <2>1 DEF Reindexed, EmitDictClear
    <3>2. ~ClearNow(e3)
      BY <3>1, EncoderAssumption DEF ClearNow
    <3>3. QED
      BY <1>1, <3>1, <3>2 DEF Cleared
  <2>2. CASE ~Due(ReindexInterval)
    <3>1. e3 = e2
      BY <2>2 DEF Reindexed
    <3>2. ~ClearNow(e3) => dictInOrder' = dictInOrder
      BY <1>1, <2>2 DEF MaintainIntern, Purge, internVars
    <3>3. QED
      BY <1>1, <3>1, <3>2 DEF Cleared
  <2>3. QED
    BY <2>1, <2>2
<1>7. /\ Len(sent') = Len(sent) + 1 /\ Len(sent) \in Nat
      /\ sent'[Len(sent')] = saying
  BY <1>1, <1>2, AppendProperties, LenProperties
<1>8. Stage(enc, told, sent', dictInOrder) /\ told[Len(enc.log)].count = Len(sent)
  <2>1. Told(enc.log, told, sent) /\ enc.log \in Seq(Record)
    BY <1>2 DEF Story, Stage, EncState
  <2>2. Told(enc.log, told, sent')
    BY <1>1, <1>2, <2>1, ToldMoreValues
  <2>3. QED
    BY <2>2 DEF Story, Stage
<1>9. PICK t1 : /\ Stage(e1, t1, sent', dictInOrder)
                /\ Extends(enc.log, told, e1.log, t1)
                /\ t1[Len(e1.log)].count = Len(sent)
  <2>1. CASE e1 = EmitDictClear(enc)
    <3>1. Told(enc.log, told, sent') /\ Ascending(enc)
      BY <1>8 DEF Stage
    <3>2. \E t : /\ Stage(EmitDictClear(enc), t, sent', dictInOrder)
                 /\ Extends(enc.log, told, EmitDictClear(enc).log, t)
                 /\ t[Len(EmitDictClear(enc).log)].count
                      = told[Len(enc.log)].count
      BY <1>2, <3>1, ClearTells, Zenon
    <3>3. QED
      BY <1>8, <2>1, <3>2
  <2>2. CASE e1 = enc
    <3>1. Extends(enc.log, told, enc.log, told)
      BY <1>2, LenProperties DEF Extends, EncState
    <3>2. QED
      BY <1>8, <2>2, <3>1
  <2>3. QED
    BY <2>1, <2>2 DEF Refreshed
<1>10. PICK t2 : /\ Stage(ex, t2, sent', dictInOrder)
                 /\ Extends(e1.log, t1, ex.log, t2)
                 /\ t2[Len(ex.log)].count = Len(sent)
                 /\ ex.lastDictSize = Len(dictInOrder)
  <2> HIDE DEF e1
  <2>1. QED
    BY <1>2, <1>3, <1>9, ExportTells
<1>11. PICK t3 : /\ Stage(e2, t3, sent', dictInOrder)
                 /\ Extends(ex.log, t2, e2.log, t3)
                 /\ t3[Len(e2.log)].count = Len(sent')
  <2> HIDE DEF ex
  <2>1. Means(dictInOrder, buf.toks, saying)
    BY DEF Story
  <2>2. QED
    <3>1. /\ sent' \in Seq(Seq(Value)) /\ saying \in Seq(Value)
          /\ dictInOrder \in Seq(Str) /\ buf \in [toks : Seq(Token), size : Nat]
          /\ LogInv(ex) /\ ex.lastDictSize = Len(dictInOrder)
          /\ Len(sent') > 0 /\ sent'[Len(sent')] = saying
          /\ Stage(ex, t2, sent', dictInOrder)
          /\ t2[Len(ex.log)].count = Len(sent') - 1
      BY <1>2, <1>4, <1>7, <1>10
    <3>2. \E t : /\ Stage(EmitValue(ex), t, sent', dictInOrder)
                 /\ Extends(ex.log, t2, EmitValue(ex).log, t)
                 /\ t[Len(EmitValue(ex).log)].count = Len(sent')
      BY <2>1, <3>1, ValueTells
    <3>3. QED
      BY <3>2
<1> HIDE DEF e1, ex, e2, e3
<1>12. PICK t4 : /\ Stage(enc', t4, sent', dictInOrder')
                 /\ Extends(e2.log, t3, enc'.log, t4)
                 /\ t4[Len(enc'.log)].count = Len(sent')
  <2>1. CASE enc' = EmitDictClear(e2)
    <3>1. Told(e2.log, t3, sent') /\ Ascending(e2)
      BY <1>11 DEF Stage
    <3>2. \E t : /\ Stage(EmitDictClear(e2), t, sent', dictInOrder')
                 /\ Extends(e2.log, t3, EmitDictClear(e2).log, t)
                 /\ t[Len(EmitDictClear(e2).log)].count = t3[Len(e2.log)].count
      BY <1>2, <1>5, <3>1, ClearTells, Zenon
    <3>3. QED
      BY <1>11, <2>1, <3>2
  <2>2. CASE enc' = e2 /\ dictInOrder' = dictInOrder
    <3>1. Extends(e2.log, t3, e2.log, t3)
      BY <1>5, LenProperties DEF Extends, LogInv, LogOK, EncState
    <3>2. QED
      BY <1>11, <2>2, <3>1
  <2>3. QED
    BY <1>6, <2>1, <2>2
<1>13. /\ enc.log \in Seq(Record) /\ e1.log \in Seq(Record)
       /\ ex.log \in Seq(Record) /\ e2.log \in Seq(Record)
       /\ enc'.log \in Seq(Record)
  <2>1. enc' \in EncState
    BY DEF EncInv, EncTypeOK
  <2>2. QED
    BY <1>2, <1>3, <1>4, <1>5, <2>1 DEF LogInv, LogOK, EncState
<1>14. Extends(enc.log, told, e2.log, t3)
  <2>1. Extends(enc.log, told, ex.log, t2)
    BY <1>9, <1>10, <1>13, ExtendsTransitive, Zenon
  <2>2. QED
    BY <1>11, <1>13, <2>1, ExtendsTransitive
<1>15. Extends(enc.log, told, enc'.log, t4)
  BY <1>12, <1>13, <1>14, ExtendsTransitive
<1>16. Len(enc.log) <= flushed' /\ flushed' <= Len(enc'.log)
  BY <1>1, <1>12, <1>14 DEF Extends
<1>17. Means(dictInOrder', buf'.toks, saying') /\ Len(saying') <= MaxTokens
  BY <1>1, EncoderAssumption DEF Means
<1>18. Story(t4)'
  BY <1>12, <1>17 DEF Story
<1>19. Len(saying) \in 1..MaxTokens
  <2>1. Len(saying) = Len(buf.toks) /\ Len(saying) <= MaxTokens
    BY DEF Story, Means
  <2>2. Len(buf.toks) \in Nat /\ Len(buf.toks) # 0
    BY <1>1, <1>2, EmptySeq, LenProperties
  <2>3. QED
    BY <2>1, <2>2, EncoderAssumption
<1>20. QED
  BY <1>1, <1>15, <1>16, <1>18, <1>19

\* One more value in the record: what the values so far refer to has not moved,
\* because the vector has at most got longer.
LEMMA SaidOneMore ==
  ASSUME NEW dict, NEW dict2, NEW toks, NEW val, Means(dict, toks, val),
         Len(dict) \in Nat, Len(dict2) \in Nat, Len(dict) <= Len(dict2),
         \A k \in 1..Len(dict) : dict2[k] = dict[k],
         NEW t \in Token, NEW v \in Value,
         IF t.kind = "ref" THEN t.idx < Len(dict2) /\ dict2[t.idx + 1] = v
                           ELSE t.value = v
  PROVE  Means(dict2, Append(toks, t), Append(val, v))
<1> DEFINE n == Len(toks)
<1> DEFINE toks2 == Append(toks, t)
<1> DEFINE val2 == Append(val, v)
<1>1. /\ toks \in Seq(Token) /\ val \in Seq(Value) /\ Len(val) = n
      /\ \A k \in 1..n :
           IF toks[k].kind = "ref"
           THEN toks[k].idx < Len(dict) /\ dict[toks[k].idx + 1] = val[k]
           ELSE toks[k].value = val[k]
  BY DEF Means
<1>2. /\ n \in Nat
      /\ toks2 \in Seq(Token) /\ Len(toks2) = n + 1
      /\ \A k \in 1..n : toks2[k] = toks[k]
      /\ toks2[n + 1] = t
      /\ val2 \in Seq(Value) /\ Len(val2) = n + 1
      /\ \A k \in 1..n : val2[k] = val[k]
      /\ val2[n + 1] = v
  BY <1>1, AppendProperties, LenProperties
<1>3. \A k \in 1..n : toks[k].kind = "ref" => toks[k].idx \in Nat
  <2>1. \A k \in 1..n : toks[k] \in Token
    BY <1>1, ElementOfSeq
  <2>2. QED
    BY <2>1 DEF Token
<1> HIDE DEF n, toks2, val2
<1>4. ASSUME NEW k \in 1..(n + 1)
      PROVE  IF toks2[k].kind = "ref"
             THEN toks2[k].idx < Len(dict2) /\ dict2[toks2[k].idx + 1] = val2[k]
             ELSE toks2[k].value = val2[k]
  <2>1. CASE k \in 1..n /\ toks[k].kind = "ref"
    <3>1. /\ toks[k].idx \in Nat /\ toks[k].idx < Len(dict)
          /\ dict[toks[k].idx + 1] = val[k]
      BY <1>1, <1>3, <2>1
    <3>2. toks[k].idx + 1 \in 1..Len(dict) /\ toks[k].idx < Len(dict2)
      BY <3>1
    <3>3. QED
      BY <1>2, <2>1, <3>1, <3>2
  <2>2. CASE k \in 1..n /\ toks[k].kind # "ref"
    BY <1>1, <1>2, <2>2
  <2>3. CASE k = n + 1
    BY <1>2, <2>3
  <2>4. QED
    BY <1>2, <2>1, <2>2, <2>3
<1>5. QED
  BY <1>2, <1>4 DEF Means, toks2, val2

\* What an encoder step does to the log and to what has been written.
Grows(told) ==
  /\ \E told2 : Story(told2)' /\ Extends(enc.log, told, enc'.log, told2)
  /\ Len(enc.log) <= Len(enc'.log)
  /\ \/ flushed' = flushed
     \/ Len(enc.log) <= flushed' /\ flushed' <= Len(enc'.log)
  /\ \/ sent' = sent
     \/ sent' = Append(sent, saying) /\ Len(saying) \in 1..MaxTokens

LEMMA WriteStringTells ==
  ASSUME EncInv, EncInv', RoomReserved, RoomReserved', NEW told, Story(told),
         NEW s \in Str, NEW hint \in Hints, WriteString(s, hint)
  PROVE  Grows(told)
<1> DEFINE hit == ~Inline(s, hint) /\ s \in DOMAIN dictionary'
<1> DEFINE t == IF hit THEN Ref(dictionary'[s].internIndex) ELSE InlineToken(s)
<1>1. /\ Len(saying) < MaxTokens /\ Idx(s, hint) /\ Put(t)
      /\ saying' = Append(saying, s)
      /\ UNCHANGED <<enc, flushed, sent>>
  BY DEF WriteString, MaySay
<1>2. /\ dictInOrder \in Seq(Str) /\ dictInOrder' \in Seq(Str)
      /\ saying \in Seq(Value) /\ s \in Value
      /\ enc.log \in Seq(Record) /\ enc.lastDictSize \in Nat
  BY DEF EncInv, EncTypeOK, InternTypeOK, EncState, Value
<1>3. dictInOrder' = dictInOrder \/ dictInOrder' = Append(dictInOrder, s)
  BY <1>1, IdxAppends DEF EncInv, RoomReserved
<1>4. /\ Len(dictInOrder) \in Nat /\ Len(dictInOrder') \in Nat
      /\ Len(dictInOrder) <= Len(dictInOrder')
      /\ \A k \in 1..Len(dictInOrder) : dictInOrder'[k] = dictInOrder[k]
  BY <1>2, <1>3, AppendProperties, LenProperties
<1>5. /\ t \in Token
      /\ IF t.kind = "ref"
         THEN t.idx < Len(dictInOrder') /\ dictInOrder'[t.idx + 1] = s
         ELSE t.value = s
  <2>1. CASE hit
    <3>1. /\ dictionary'[s].internIndex \in Nat
          /\ dictionary'[s].internIndex + 1 \in DOMAIN dictInOrder'
          /\ dictInOrder'[dictionary'[s].internIndex + 1] = s
      BY <2>1 DEF EncInv, InternInv, DictInv, IsHash, InternEntry,
                  IndexNamesItsString
    <3>2. dictionary'[s].internIndex < Len(dictInOrder')
      BY <1>2, <1>4, <3>1, LenProperties
    <3>3. t = [kind |-> "ref", idx |-> dictionary'[s].internIndex]
      BY <2>1 DEF Ref
    <3>4. QED
      BY <3>1, <3>2, <3>3 DEF Token
  <2>2. CASE ~hit
    <3>1. t = [kind |-> "inline", value |-> s]
      BY <2>2 DEF InlineToken
    <3>2. QED
      BY <1>2, <3>1 DEF Token
  <2>3. QED
    BY <2>1, <2>2
<1> HIDE DEF t
<1>6. Means(dictInOrder', buf'.toks, saying')
  <2>1. Means(dictInOrder, buf.toks, saying) /\ buf'.toks = Append(buf.toks, t)
    BY <1>1 DEF Story, Put
  <2>2. Means(dictInOrder', Append(buf.toks, t), Append(saying, s))
    BY <1>2, <1>4, <1>5, <2>1, SaidOneMore
  <2>3. QED
    BY <1>1, <2>1, <2>2
<1>7. Len(saying') <= MaxTokens
  BY <1>1, <1>2, EncoderAssumption
<1>8. Stage(enc', told, sent', dictInOrder')
  <2>1. \A dict : Announced(enc, dict, dictInOrder)
                    => Announced(enc, dict, dictInOrder')
    BY <1>2, <1>4 DEF Announced
  <2>2. QED
    BY <1>1, <2>1 DEF Story, Stage
<1>9. Story(told)'
  BY <1>1, <1>6, <1>7, <1>8 DEF Story
<1>10. Extends(enc.log, told, enc'.log, told)
  BY <1>1, <1>2, LenProperties DEF Extends
<1>11. QED
  BY <1>1, <1>9, <1>10 DEF Grows, Extends

LEMMA WriteScalarTells ==
  ASSUME EncInv, NEW told, Story(told), WriteScalar
  PROVE  Grows(told)
<1> DEFINE t == InlineToken(Scalar)
<1>1. /\ Len(saying) < MaxTokens /\ Put(t)
      /\ saying' = Append(saying, Scalar)
      /\ UNCHANGED <<enc, flushed, sent, dictInOrder>>
  BY DEF WriteScalar, MaySay, internVars
<1>2. /\ dictInOrder \in Seq(Str) /\ saying \in Seq(Value)
      /\ Scalar \in Value /\ enc.log \in Seq(Record)
  BY DEF EncInv, EncTypeOK, InternTypeOK, EncState, Value
<1>3. t \in Token /\ t.kind # "ref" /\ t.value = Scalar
  BY <1>2 DEF InlineToken, Token
<1> HIDE DEF t
<1>4. Means(dictInOrder, Append(buf.toks, t), Append(saying, Scalar))
  <2>1. Means(dictInOrder, buf.toks, saying) /\ Len(dictInOrder) \in Nat
    BY <1>2, LenProperties DEF Story
  <2>2. QED
    <3>1. /\ Len(dictInOrder) <= Len(dictInOrder)
          /\ \A k \in 1..Len(dictInOrder) : dictInOrder[k] = dictInOrder[k]
          /\ IF t.kind = "ref"
             THEN t.idx < Len(dictInOrder) /\ dictInOrder[t.idx + 1] = Scalar
             ELSE t.value = Scalar
      BY <1>3, <2>1
    <3>2. QED
      BY <1>2, <1>3, <2>1, <3>1, SaidOneMore
<1>5. Means(dictInOrder', buf'.toks, saying')
  BY <1>1, <1>4 DEF Put
<1>6. Len(saying') <= MaxTokens
  BY <1>1, <1>2, EncoderAssumption
<1>7. Story(told)'
  BY <1>1, <1>5, <1>6 DEF Story
<1>8. Extends(enc.log, told, enc'.log, told)
  BY <1>1, <1>2, LenProperties DEF Extends
<1>9. QED
  BY <1>1, <1>7, <1>8 DEF Grows, Extends

\* Between records nothing refers to the vector, and a call that reorders it
\* makes the readers start afresh.
LEMMA DictionaryCallTells ==
  ASSUME EncInv, EncInv', NEW told, Story(told),
         UNCHANGED <<buf, flushed, saying, sent>>,
         \/ enc' = enc /\ dictInOrder' = dictInOrder
         \/ buf.toks = <<>> /\ enc' = EmitDictClear(enc)
  PROVE  Grows(told)
<1>1. /\ enc.log \in Seq(Record)
      /\ dictInOrder \in Seq(Str) /\ dictInOrder' \in Seq(Str)
      /\ LogInv(enc)
  BY DEF EncInv, EncTypeOK, EncState, InternTypeOK
<1>2. CASE enc' = enc /\ dictInOrder' = dictInOrder
  <2>1. Story(told)'
    BY <1>2 DEF Story
  <2>2. Extends(enc.log, told, enc'.log, told)
    BY <1>1, <1>2, LenProperties DEF Extends
  <2>3. QED
    BY <2>1, <2>2 DEF Grows, Extends
<1>3. CASE buf.toks = <<>> /\ enc' = EmitDictClear(enc)
  <2>1. Told(enc.log, told, sent) /\ Ascending(enc)
    BY DEF Story, Stage
  <2>2. \E t : /\ Stage(EmitDictClear(enc), t, sent, dictInOrder')
               /\ Extends(enc.log, told, EmitDictClear(enc).log, t)
               /\ t[Len(EmitDictClear(enc).log)].count
                    = told[Len(enc.log)].count
    BY <1>1, <2>1, ClearTells, Zenon
  <2>3. PICK t : /\ Stage(enc', t, sent', dictInOrder')
                 /\ Extends(enc.log, told, enc'.log, t)
                 /\ t[Len(enc'.log)].count = told[Len(enc.log)].count
    BY <1>3, <2>2
  <2>4. Means(dictInOrder', buf'.toks, saying')
    <3>1. buf'.toks = <<>> /\ Len(<<>>) = 0 /\ saying' = saying
      BY <1>3
    <3>2. QED
      BY <3>1 DEF Story, Means
  <2>5. Story(t)'
    BY <2>3, <2>4 DEF Story
  <2>6. QED
    BY <2>3, <2>5 DEF Grows, Extends
<1>4. QED
  BY <1>2, <1>3

LEMMA EncStepTells ==
  ASSUME EncInv, EncInv', RoomReserved, RoomReserved', [EncNext]_encVars,
         NEW told, Story(told)
  PROVE  Grows(told)
<1>1. ASSUME NEW s \in Str, NEW hint \in Hints, WriteString(s, hint)
      PROVE  Grows(told)
  BY <1>1, WriteStringTells
<1>2. CASE WriteScalar
  BY <1>2, WriteScalarTells
<1>3. CASE EndRecord
  BY <1>3, EndRecordTells DEF Grows, Extends
<1>4. CASE EndRecordThrows \/ UNCHANGED encVars
  BY <1>4, DictionaryCallTells DEF EndRecordThrows, internVars, encVars
<1>5. ASSUME NEW all \in BOOLEAN, ClearDictionary(all)
      PROVE  Grows(told)
  BY <1>5, DictionaryCallTells DEF ClearDictionary, BetweenRecords
<1>6. ASSUME NEW threshold \in 1..MaxCount, PurgeDictionary(threshold)
      PROVE  Grows(told)
  BY <1>6, DictionaryCallTells DEF PurgeDictionary, Purge
<1>7. ASSUME NEW threshold \in 1..MaxCount, ReIndexDictionary(threshold)
      PROVE  Grows(told)
  BY <1>7, DictionaryCallTells DEF ReIndexDictionary, BetweenRecords
<1>8. QED
  BY <1>1, <1>2, <1>3, <1>4, <1>5, <1>6, <1>7 DEF EncNext

-----------------------------------------------------------------------------
(***************************************************************************)
(* The reader follows.                                                     *)
(***************************************************************************)

\* What the log tells is well-typed.
LEMMA ToldTypes ==
  ASSUME EncInv, NEW told, Story(told), NEW i \in 1..Len(enc.log)
  PROVE  /\ enc.log[i] \in Record
         /\ told[i] \in Known
         /\ told[i].count \in Nat /\ told[i].count <= Len(sent)
         /\ Len(sent) \in Nat /\ Len(enc.log) \in Nat /\ Len(enc.log) >= 2
<1>1. enc.log \in Seq(Record) /\ sent \in Seq(Seq(Value))
  BY DEF EncInv, EncTypeOK, EncState
<1>2. enc.log[i] \in Record /\ Len(sent) \in Nat /\ Len(enc.log) \in Nat
  BY <1>1, ElementOfSeq, LenProperties
<1>3. /\ told[i] \in Known /\ told[i].count <= Len(sent)
      /\ Len(enc.log) >= 2
  BY DEF Story, Stage, Told
<1>4. QED
  BY <1>2, <1>3 DEF Known

\* A longer log changes nothing behind the reader.
LEMMA EncStepFollowed ==
  ASSUME EncInv, NEW told, Story(told), Following(enc.log, told),
         NEW told2, Extends(enc.log, told, enc'.log, told2), Len(enc'.log) \in Nat,
         \/ flushed' = flushed
         \/ Len(enc.log) <= flushed' /\ flushed' <= Len(enc'.log),
         sent' = sent \/ sent' = Append(sent, saying),
         flushed' \in Nat,
         UNCHANGED <<dicts, pos, delivered, broken>>
  PROVE  Following(enc.log, told2)'
<1> DEFINE n == Len(enc.log)
<1>1. /\ n \in Nat /\ flushed \in Nat /\ pos \in Nat
      /\ pos <= flushed /\ flushed <= n /\ n <= Len(enc'.log)
      /\ sent \in Seq(Seq(Value)) /\ saying \in Seq(Value)
  BY LenProperties DEF EncInv, EncTypeOK, EncState, Following, Extends
<1>2. pos <= flushed' /\ flushed' <= Len(enc'.log)
  BY <1>1
<1>3. \A i \in 1..pos : /\ enc'.log[i] = enc.log[i]
                        /\ told2[i] = told[i]
                        /\ told[i].count \in Nat /\ told[i].count <= Len(sent)
  <2>1. \A i \in 1..pos : i \in 1..n
    BY <1>1
  <2>2. QED
    BY <2>1, ToldTypes DEF Extends
<1>4. /\ Len(sent) \in Nat
      /\ \A k \in 1..Len(sent) : sent'[k] = sent[k]
  BY <1>1, AppendProperties, LenProperties
<1>5. Len(delivered) \in Nat /\ Len(delivered) <= Len(sent)
  <2>1. pos = 0 \/ pos \in 1..pos
    BY <1>1
  <2>2. QED
    BY <1>3, <1>4, <2>1, LenProperties DEF Following
<1>6. \A k \in 1..Len(delivered) : delivered[k] = sent'[k]
  <2>1. \A k \in 1..Len(delivered) : k \in 1..Len(sent)
    BY <1>4, <1>5
  <2>2. \A k \in 1..Len(delivered) : delivered[k] = sent[k]
    BY DEF Following
  <2>3. QED
    BY <1>4, <2>1, <2>2
<1>7. Len(delivered) = IF pos = 0 THEN 0 ELSE told2[pos].count
  <2>1. pos = 0 \/ pos \in 1..pos
    BY <1>1
  <2>2. QED
    BY <1>3, <2>1 DEF Following
<1>8. ASSUME pos >= 2
      PROVE  dicts # <<>> /\ Current(enc'.log, told2[pos].dict)
  <2>1. told2[pos] = told[pos]
    BY SMTT(30), <1>1, <1>3, <1>8
  <2>2. dicts # <<>> /\ Current(enc.log, told[pos].dict)
    BY <1>8 DEF Following
  <2>3. \A d \in 2..pos : enc'.log[d] = enc.log[d] /\ \A k \in (d + 1)..pos : k \in 1..pos
    BY <1>1, <1>3
  <2>4. QED
    BY <1>3, <2>1, <2>2, <2>3 DEF Current
<1>9. /\ ~broken' /\ pos' \in Nat /\ pos' <= flushed' /\ flushed' <= Len(enc'.log)
      /\ dicts' \in Seq(Dict) /\ (pos' < 2 => dicts' = <<>>)
      /\ delivered' \in Seq(Seq(Value))
  BY <1>1, <1>2 DEF Following
<1>10. Current(enc'.log, told2[pos].dict) => Current(enc.log, told2[pos].dict)'
  BY DEF Current
<1>11. QED
  BY <1>6, <1>7, <1>8, <1>9, <1>10 DEF Following

\* The record the reader looks at is the encoder's.
LEMMA ReadyRecord ==
  ASSUME EncInv, NEW told, Story(told), Following(enc.log, told),
         NEW kind, Reader!Ready(kind)
  PROVE  /\ pos + 1 \in 1..Len(enc.log) /\ pos + 1 <= flushed
         /\ File[pos + 1] = enc.log[pos + 1]
         /\ enc.log[pos + 1].kind = kind
<1>1. /\ enc.log \in Seq(Record) /\ Len(enc.log) \in Nat
      /\ flushed \in Nat /\ flushed <= Len(enc.log) /\ pos \in Nat
  BY LenProperties DEF EncInv, EncTypeOK, EncState, Following
<1>2. \A i \in 1..flushed : enc.log[i] \in Record
  <2>1. \A i \in 1..flushed : i \in 1..Len(enc.log)
    BY <1>1
  <2>2. QED
    BY <1>1, <2>1, ElementOfSeq
<1>3. /\ Len(File) = IF 1 <= flushed THEN flushed - 1 + 1 ELSE 0
      /\ \A i \in 1..(flushed - 1 + 1) : File[i] = enc.log[1 + i - 1]
  BY <1>1, <1>2, SubSeqProperties DEF File
<1>4. Len(File) = flushed /\ \A i \in 1..flushed : File[i] = enc.log[i]
  <2>1. flushed - 1 + 1 = flushed /\ \A i \in 1..flushed : 1 + i - 1 = i
    BY <1>1
  <2>2. QED
    BY <1>1, <1>3, <2>1
<1>5. pos < flushed /\ File[pos + 1].kind = kind
  BY <1>4 DEF Reader!Ready
<1>6. QED
  BY <1>1, <1>4, <1>5

\* The newest dictionary wins.
LEMMA SearchNewest ==
  ASSUME dicts \in Seq(Dict), dicts # <<>>, NEW p,
         Reader!Includes(dicts[Len(dicts)], p)
  PROVE  Reader!Search(dicts, p) = Len(dicts)
<1> DEFINE m == Len(dicts)
<1> DEFINE found == {i \in DOMAIN dicts : Reader!Includes(dicts[i], p)}
<1>1. m \in Nat /\ m # 0 /\ DOMAIN dicts = 1..m
  BY EmptySeq, LenProperties
<1>2. m \in found /\ \A j \in found : j <= m /\ j \in Nat
  BY <1>1
<1>3. Reader!Search(dicts, p)
        = IF found = {} THEN 0
          ELSE CHOOSE i \in found : \A j \in found : j <= i
  BY DEF Reader!Search
<1> HIDE DEF m, found
<1>4. \A i \in found : (\A j \in found : j <= i) => i = m
  BY <1>1, <1>2
<1>5. (CHOOSE i \in found : \A j \in found : j <= i) = m
  BY <1>2, <1>4
<1>6. QED
  BY <1>2, <1>3, <1>5 DEF m

\* A backref leads the reader to its newest dictionary, which holds what the
\* log has told so far.
LEMMA BackrefFinds ==
  ASSUME EncInv, NEW told, Story(told), Following(enc.log, told),
         pos >= 2, pos + 1 \in 1..Len(enc.log), HasBackref(enc.log[pos + 1])
  PROVE  LET r == enc.log[pos + 1]
         IN /\ dicts # <<>>
            /\ Reader!Search(dicts, r.sor - r.backref) = Len(dicts)
            /\ dicts[Len(dicts)].entries = told[pos].dict
            /\ dicts[Len(dicts)].startPos <= r.sor
            /\ dicts[Len(dicts)].lastDictPos < r.sor
            /\ \A i \in 1..Len(dicts) : dicts[i].lastDictPos < r.sor
<1> DEFINE n == Len(enc.log)
<1> DEFINE r == enc.log[pos + 1]
<1>1. /\ n \in Nat /\ pos \in Nat /\ pos + 1 <= n
      /\ \A i \in 1..n : enc.log[i] \in Record
      /\ dicts \in Seq(Dict) /\ dicts # <<>>
  BY ToldTypes DEF Following
<1>1a. \A i \in 1..n : enc.log[i].sor \in Nat /\ enc.log[i].backref \in Nat
  BY <1>1 DEF Record
<1>2. PICK d \in 2..pos :
        /\ IsDict(enc.log[d])
        /\ \A k \in (d + 1)..pos : ~IsDict(enc.log[k])
        /\ dicts[Len(dicts)].entries = told[pos].dict
        /\ dicts[Len(dicts)].startPos <= enc.log[d].sor
        /\ dicts[Len(dicts)].lastDictPos = enc.log[d].sor
        /\ \A i \in 1..Len(dicts) : dicts[i].lastDictPos <= enc.log[d].sor
  BY DEF Following, Current
<1>3. PICK j \in 1..pos :
        /\ IsDict(enc.log[j])
        /\ \A k \in (j + 1)..pos : ~IsDict(enc.log[k])
        /\ enc.log[j].sor + r.backref = r.sor
  <2>1. Lands(enc.log) /\ pos + 1 - 1 = pos
    BY <1>1 DEF EncInv, LogInv, LogOK
  <2>2. QED
    BY <1>1, <2>1 DEF Lands
<1>4. j = d
  <2>1. ~(j < d)
    <3>1. SUFFICES ASSUME j < d PROVE FALSE
      OBVIOUS
    <3>2. d \in (j + 1)..pos
      BY <1>1, <3>1
    <3>3. QED
      BY <1>2, <1>3, <3>2
  <2>2. ~(d < j)
    <3>1. SUFFICES ASSUME d < j PROVE FALSE
      OBVIOUS
    <3>2. j \in (d + 1)..pos
      BY <1>1, <3>1
    <3>3. QED
      BY <1>2, <1>3, <3>2
  <2>3. QED
    BY <1>1, <2>1, <2>2
<1>5. d \in 1..n /\ enc.log[d].sor < r.sor
  <2>1. d \in 2..n /\ pos + 1 \in 2..n /\ d < pos + 1
    BY <1>1
  <2>2. enc.log[d].sor < r.sor
    BY <2>1 DEF Story, Stage, Ascending
  <2>3. QED
    BY <2>1, <2>2
<1>6. r.sor - r.backref = enc.log[d].sor
  BY <1>1, <1>1a, <1>3, <1>4, <1>5
<1>7. \A i \in 1..Len(dicts) : /\ dicts[i].lastDictPos \in Nat
                               /\ dicts[i].startPos \in Nat
  <2>1. \A i \in 1..Len(dicts) : dicts[i] \in Dict
    BY <1>1, ElementOfSeq
  <2>2. QED
    BY <2>1 DEF Dict
<1>8. Len(dicts) \in 1..Len(dicts)
  BY <1>1, EmptySeq
<1>9. Reader!Includes(dicts[Len(dicts)], r.sor - r.backref)
  BY <1>1a, <1>2, <1>5, <1>6, <1>7, <1>8 DEF Reader!Includes
<1>10. Reader!Search(dicts, r.sor - r.backref) = Len(dicts)
  BY <1>1, <1>9, SearchNewest
<1>11. /\ dicts[Len(dicts)].startPos <= r.sor
       /\ dicts[Len(dicts)].lastDictPos < r.sor
       /\ \A i \in 1..Len(dicts) : dicts[i].lastDictPos < r.sor
  <2> HIDE DEF r
  <2>1. r.sor \in Nat
    BY <1>1, <1>1a DEF r
  <2>2. QED
    BY SMTT(30), <1>1a, <1>2, <1>5, <1>7, <1>8, <2>1
<1>12. QED
  BY <1>1, <1>2, <1>10, <1>11

\* The header comes first, the first clear second, and each record behind the
\* header tells something.
LEMMA WhatComesNext ==
  ASSUME EncInv, NEW told, Story(told), pos \in Nat, pos + 1 \in 1..Len(enc.log)
  PROVE  /\ enc.log[pos + 1].kind = "H" => pos = 0
         /\ enc.log[pos + 1].kind # "H" => pos >= 1
         /\ HasBackref(enc.log[pos + 1]) => pos >= 2
         /\ pos >= 1 => Tells(enc.log[pos + 1], told[pos], told[pos + 1], sent)
<1>1. /\ enc.log[1].kind = "H" /\ enc.log[2].kind = "C"
      /\ \A i \in 2..Len(enc.log) : Tells(enc.log[i], told[i - 1], told[i], sent)
  BY DEF Story, Stage, Told
<1>2. pos >= 1 => Tells(enc.log[pos + 1], told[pos], told[pos + 1], sent)
  <2>1. SUFFICES ASSUME pos >= 1
                 PROVE  Tells(enc.log[pos + 1], told[pos], told[pos + 1], sent)
    OBVIOUS
  <2>2. pos + 1 \in 2..Len(enc.log) /\ (pos + 1) - 1 = pos
    BY <2>1
  <2>3. QED
    BY <1>1, <2>2
<1>3. pos = 0 \/ pos = 1 \/ pos >= 2
  OBVIOUS
<1>4. pos = 1 => enc.log[pos + 1] = enc.log[2]
  OBVIOUS
<1>5. pos = 0 => enc.log[pos + 1] = enc.log[1]
  OBVIOUS
<1>6. pos >= 1 => enc.log[pos + 1].kind # "H"
  BY <1>2 DEF Tells
<1>7. QED
  BY <1>1, <1>2, <1>3, <1>4, <1>5, <1>6 DEF HasBackref

LEMMA ReadHeaderFollows ==
  ASSUME EncInv, NEW told, Story(told), Following(enc.log, told),
         Reader!ReadHeader, UNCHANGED encVars
  PROVE  Following(enc.log, told)' /\ delivered' = delivered
<1>1. /\ pos + 1 \in 1..Len(enc.log) /\ pos + 1 <= flushed
      /\ enc.log[pos + 1].kind = "H"
  BY ReadyRecord DEF Reader!ReadHeader
<1>2. pos = 0 /\ flushed <= Len(enc.log)
  BY <1>1, WhatComesNext DEF Following
<1>3. pos' = 1 /\ UNCHANGED <<dicts, delivered, broken, enc, flushed, sent>>
  BY <1>2 DEF Reader!ReadHeader, Reader!Advance, encVars
<1>4. told[1].count = 0
  BY DEF Story, Stage, Told
<1>5. QED
  BY <1>1, <1>2, <1>3, <1>4 DEF Following

\* No clear falls into a dictionary the reader holds, so it opens a new one.
LEMMA ReadClearFollows ==
  ASSUME EncInv, NEW told, Story(told), Following(enc.log, told),
         Reader!ReadClear, UNCHANGED encVars
  PROVE  Following(enc.log, told)' /\ delivered' = delivered
<1> DEFINE r == enc.log[pos + 1]
<1> DEFINE kept == IF Len(dicts) = MaxDicts THEN Tail(dicts) ELSE dicts
<1> DEFINE new == Reader!NewDict(r.sor)
<1>1. /\ pos + 1 \in 1..Len(enc.log) /\ pos + 1 <= flushed
      /\ File[pos + 1] = r /\ r.kind = "C"
  BY ReadyRecord DEF Reader!ReadClear
<1>2. /\ pos \in Nat /\ pos >= 1 /\ flushed <= Len(enc.log) /\ ~broken
      /\ Tells(r, told[pos], told[pos + 1], sent)
      /\ dicts \in Seq(Dict)
  BY <1>1, WhatComesNext DEF Following
<1>3. r \in Record /\ r.sor \in Nat /\ Len(enc.log) \in Nat
      /\ \A i \in 1..Len(enc.log) : enc.log[i] \in Record
  BY <1>1, ToldTypes DEF Record
<1>4. Len(dicts) \in Nat /\ DOMAIN dicts = 1..Len(dicts)
      /\ \A i \in 1..Len(dicts) : dicts[i] \in Dict
  BY <1>2, LenProperties, ElementOfSeq
<1>5. \A i \in 1..Len(dicts) : dicts[i].lastDictPos < r.sor
  <2>1. CASE pos < 2
    <3>1. dicts = <<>> /\ Len(<<>>) = 0
      BY <2>1 DEF Following
    <3>2. QED
      BY <3>1
  <2>2. CASE pos >= 2
    <3>1. PICK d \in 2..pos :
            \A i \in 1..Len(dicts) : dicts[i].lastDictPos <= enc.log[d].sor
      BY <2>2 DEF Following, Current
    <3>2. d \in 2..Len(enc.log) /\ pos + 1 \in 2..Len(enc.log) /\ d < pos + 1
      BY <1>1, <1>2, <1>3
    <3>3. enc.log[d].sor < r.sor
      BY <3>2 DEF Story, Stage, Ascending
    <3>4. enc.log[d].sor \in Nat
      BY <1>3, <3>2 DEF Record
    <3>5. \A i \in 1..Len(dicts) : dicts[i].lastDictPos \in Nat
      BY <1>4 DEF Dict
    <3> HIDE DEF r
    <3>6. QED
      BY <1>3, <3>1, <3>3, <3>4, <3>5
  <2>3. QED
    BY <1>2, <2>1, <2>2
<1>6. Reader!Search(dicts, r.sor) = 0
  <2>1. \A i \in DOMAIN dicts : ~Reader!Includes(dicts[i], r.sor)
    <3>1. \A i \in 1..Len(dicts) : dicts[i].lastDictPos \in Nat
      BY <1>4 DEF Dict
    <3> HIDE DEF r
    <3>2. QED
      BY <1>3, <1>4, <1>5, <3>1 DEF Reader!Includes
  <2>2. {i \in DOMAIN dicts : Reader!Includes(dicts[i], r.sor)} = {}
    BY <2>1
  <2>3. QED
    BY <2>2 DEF Reader!Search
<1>7. /\ dicts' = Append(kept, new)
      /\ pos' = pos + 1
      /\ UNCHANGED <<delivered, broken, enc, flushed, sent>>
  BY <1>1, <1>6 DEF Reader!ReadClear, Reader!ClearMismatch, Reader!AlreadyCleared,
                    Reader!Opened, Reader!Advance, encVars
<1>8. /\ new \in Dict /\ new.entries = <<>>
      /\ new.startPos = r.sor /\ new.lastDictPos = r.sor
  BY <1>3 DEF Reader!NewDict, Dict
<1> HIDE DEF new
<1>9. /\ kept \in Seq(Dict) /\ Len(kept) \in Nat
      /\ \A i \in 1..Len(kept) : kept[i].lastDictPos < r.sor
  <2>1. CASE Len(dicts) = MaxDicts
    <3>1. dicts # <<>>
      BY <1>4, <2>1, PipelineAssumption, EmptySeq
    <3>2. /\ kept \in Seq(Dict) /\ Len(kept) = Len(dicts) - 1
          /\ \A i \in 1..Len(kept) : kept[i] = dicts[i + 1]
      BY <1>2, <2>1, <3>1, HeadTailProperties
    <3> HIDE DEF kept, r
    <3>3. \A i \in 1..Len(kept) : i + 1 \in 1..Len(dicts)
      BY <1>4, <3>2
    <3>4. QED
      BY <1>5, <3>2, <3>3, LenProperties
  <2>2. CASE Len(dicts) # MaxDicts
    BY <1>2, <1>4, <1>5, <2>2
  <2>3. QED
    BY <2>1, <2>2
<1> HIDE DEF kept
<1>10. /\ dicts' \in Seq(Dict) /\ Len(dicts') = Len(kept) + 1
       /\ dicts'[Len(dicts')] = new
       /\ \A i \in 1..Len(kept) : dicts'[i] = kept[i]
  BY <1>7, <1>8, <1>9, AppendProperties
<1>11. /\ told[pos + 1].count = told[pos].count /\ told[pos + 1].dict = <<>>
  BY <1>1, <1>2 DEF Tells
<1>12. /\ dicts' # <<>>
       /\ pos + 1 \in 2..(pos + 1) /\ IsDict(r)
       /\ \A k \in ((pos + 1) + 1)..(pos + 1) : ~IsDict(enc.log[k])
       /\ \A i \in 1..Len(dicts') : dicts'[i].lastDictPos <= r.sor
  <2>1. IsDict(r)
    BY <1>1 DEF IsDict
  <2>2. dicts' # <<>>
    BY <1>9, <1>10, EmptySeq
  <2>3. pos + 1 \in 2..(pos + 1) /\ ((pos + 1) + 1)..(pos + 1) = {}
    BY <1>2
  <2>4. \A i \in 1..Len(dicts') : i \in 1..Len(kept) \/ i = Len(dicts')
    BY <1>9, <1>10
  <2>5. \A i \in 1..Len(dicts') : dicts'[i] \in Dict
    BY <1>10, ElementOfSeq
  <2>6. \A i \in 1..Len(dicts') : dicts'[i].lastDictPos \in Nat
    BY <2>5 DEF Dict
  <2> HIDE DEF r
  <2>7. \A i \in 1..Len(dicts') : dicts'[i].lastDictPos <= r.sor
    BY <1>3, <1>8, <1>9, <1>10, <2>4, <2>6
  <2>8. QED
    BY <2>1, <2>2, <2>3, <2>7
<1>13. Current(enc.log, told[pos].dict)'
  <2>1. pos' = pos + 1 /\ enc' = enc
    BY <1>7
  <2>2. /\ dicts'[Len(dicts')].entries = told[pos'].dict
        /\ dicts'[Len(dicts')].startPos <= enc'.log[pos'].sor
        /\ dicts'[Len(dicts')].lastDictPos = enc'.log[pos'].sor
    BY <1>3, <1>8, <1>10, <1>11, <2>1
  <2>3. QED
    BY <1>12, <2>1, <2>2 DEF Current
<1>14. /\ pos' \in Nat /\ pos' <= flushed' /\ flushed' <= Len(enc'.log)
       /\ ~(pos' < 2) /\ pos' # 0
       /\ told[pos'].count = told[pos].count /\ pos # 0
  BY <1>1, <1>2, <1>7, <1>11
<1>15. QED
  BY <1>2, <1>7, <1>10, <1>12, <1>13, <1>14 DEF Following

\* The strings of an add record are new to the reader and go to the newest
\* dictionary.
LEMMA ReadAddFollows ==
  ASSUME EncInv, NEW told, Story(told), Following(enc.log, told),
         Reader!ReadAdd, UNCHANGED encVars
  PROVE  Following(enc.log, told)' /\ delivered' = delivered
<1> DEFINE r == enc.log[pos + 1]
<1> DEFINE m == Len(dicts)
<1> DEFINE longer == Reader!AddAll(dicts[m], r.sor, r.content)
<1>1. /\ pos + 1 \in 1..Len(enc.log) /\ pos + 1 <= flushed
      /\ File[pos + 1] = r /\ r.kind = "A"
  BY ReadyRecord DEF Reader!ReadAdd
<1>2. /\ pos \in Nat /\ flushed <= Len(enc.log) /\ ~broken
      /\ dicts \in Seq(Dict)
  BY DEF Following
<1>3. pos >= 2 /\ Tells(r, told[pos], told[pos + 1], sent)
  BY <1>1, <1>2, WhatComesNext DEF HasBackref
<1>4. r \in Record /\ r.sor \in Nat /\ Len(enc.log) \in Nat
  BY <1>1, ToldTypes DEF Record
<1>5. /\ dicts # <<>>
      /\ Reader!Search(dicts, r.sor - r.backref) = m
      /\ dicts[m].entries = told[pos].dict
      /\ dicts[m].startPos <= r.sor
      /\ dicts[m].lastDictPos < r.sor
      /\ \A i \in 1..m : dicts[i].lastDictPos < r.sor
  BY <1>1, <1>3, BackrefFinds DEF HasBackref
<1>6. /\ m \in Nat /\ m # 0 /\ DOMAIN dicts = 1..m
      /\ \A i \in 1..m : dicts[i] \in Dict
  BY <1>2, <1>5, EmptySeq, LenProperties, ElementOfSeq
<1>6a. /\ dicts[m] \in Dict
       /\ \A i \in 1..m : dicts[i].lastDictPos \in Nat /\ dicts[i].startPos \in Nat
  BY <1>6 DEF Dict
<1>7. ~Reader!Includes(dicts[m], r.sor)
  <2> HIDE DEF r, m
  <2>1. QED
    BY <1>4, <1>5, <1>6, <1>6a DEF Reader!Includes
<1>8. /\ dicts' = [dicts EXCEPT ![m] = longer]
      /\ pos' = pos + 1
      /\ UNCHANGED <<delivered, broken, enc, flushed, sent>>
  <2> DEFINE i == Reader!Search(dicts, r.sor - r.backref)
  <2>1. /\ i # 0
        /\ dicts' = IF Reader!Includes(dicts[i], r.sor) THEN dicts
                    ELSE [dicts EXCEPT ![i] = Reader!AddAll(@, r.sor, r.content)]
        /\ pos' = pos + 1
        /\ UNCHANGED <<delivered, broken>>
    BY <1>1, <1>5, <1>6 DEF Reader!ReadAdd, Reader!Advance
  <2>2. i = m
    BY <1>5
  <2> HIDE DEF i
  <2>3. QED
    BY <1>7, <2>1, <2>2 DEF encVars
<1>9. /\ r.content \in Seq(Str) /\ r.content # <<>>
      /\ told[pos + 1] = [dict |-> told[pos].dict \o r.content,
                          count |-> told[pos].count]
  BY <1>1, <1>3 DEF Tells
<1>10. /\ longer.entries = told[pos + 1].dict
       /\ longer.startPos = dicts[m].startPos
       /\ longer.lastDictPos = r.sor
       /\ longer \in Dict
  <2>1. dicts[m].entries \o r.content \in Seq(Str)
    BY <1>6a, <1>9, ConcatProperties DEF Dict
  <2>2. longer = [dicts[m] EXCEPT !.entries = @ \o r.content,
                                  !.lastDictPos = r.sor]
    BY <1>9 DEF Reader!AddAll
  <2>3. longer = [entries |-> dicts[m].entries \o r.content,
                  startPos |-> dicts[m].startPos, lastDictPos |-> r.sor]
    BY <1>6a, <2>2 DEF Dict
  <2>4. told[pos + 1].dict = dicts[m].entries \o r.content
    <3> DEFINE both == told[pos].dict \o r.content
    <3>1. told[pos + 1].dict = both
      <4>1. told[pos + 1] = [dict |-> both, count |-> told[pos].count]
        BY <1>9
      <4> HIDE DEF both
      <4>2. QED
        BY <4>1
    <3>2. QED
      BY <1>5, <3>1, Zenon
  <2>5. dicts[m].startPos \in Nat
    BY <1>6a DEF Dict
  <2> HIDE DEF longer, r, m
  <2>6. r.sor \in Nat
    BY <1>4 DEF r
  <2>7. QED
    BY <2>1, <2>3, <2>4, <2>5, <2>6 DEF Dict
<1> HIDE DEF longer
<1>11. /\ dicts' \in Seq(Dict) /\ Len(dicts') = m
       /\ dicts'[m] = longer
       /\ \A i \in 1..m : i # m => dicts'[i] = dicts[i]
  <2>1. m \in 1..Len(dicts)
    BY <1>6
  <2>2. QED
    BY ZenonT(30), <1>2, <1>6, <1>8, <1>10, <2>1, ExceptSeq
<1>12. /\ dicts' # <<>> /\ IsDict(r)
       /\ pos + 1 \in 2..(pos + 1)
       /\ \A k \in ((pos + 1) + 1)..(pos + 1) : ~IsDict(enc.log[k])
       /\ \A i \in 1..Len(dicts') : dicts'[i].lastDictPos <= r.sor
  <2>1. IsDict(r)
    BY <1>1 DEF IsDict
  <2>2. dicts' # <<>>
    BY <1>6, <1>11, EmptySeq
  <2>3. pos + 1 \in 2..(pos + 1) /\ ((pos + 1) + 1)..(pos + 1) = {}
    BY <1>2, <1>3
  <2> HIDE DEF r, m
  <2>4. \A i \in 1..Len(dicts') : dicts'[i].lastDictPos <= r.sor
    BY <1>4, <1>5, <1>6, <1>6a, <1>10, <1>11
  <2>5. QED
    BY <2>1, <2>2, <2>3, <2>4
<1>13. Current(enc.log, told[pos].dict)'
  <2>1. pos' = pos + 1 /\ enc' = enc
    BY <1>8
  <2>2. /\ dicts'[Len(dicts')].entries = told[pos'].dict
        /\ dicts'[Len(dicts')].startPos <= enc'.log[pos'].sor
        /\ dicts'[Len(dicts')].lastDictPos = enc'.log[pos'].sor
    BY <1>5, <1>10, <1>11, <2>1
  <2>3. QED
    BY <1>12, <2>1, <2>2 DEF Current
<1>14. /\ pos' \in Nat /\ pos' <= flushed' /\ flushed' <= Len(enc'.log)
       /\ ~(pos' < 2) /\ pos' # 0
       /\ told[pos'].count = told[pos].count /\ pos # 0
  BY <1>1, <1>2, <1>3, <1>8, <1>9
<1>15. QED
  BY <1>2, <1>8, <1>11, <1>12, <1>13, <1>14 DEF Following

\* A value that means val to whoever holds the dictionary is decoded as val.
LEMMA DecodesMeaning ==
  ASSUME NEW d \in Dict, NEW toks, NEW val, Means(d.entries, toks, val)
  PROVE  Reader!Resolvable(d, toks) /\ Reader!Decoded(d, toks) = val
<1>1. /\ toks \in Seq(Token) /\ val \in Seq(Value) /\ Len(toks) = Len(val)
      /\ DOMAIN toks = 1..Len(toks)
      /\ \A k \in 1..Len(toks) :
           IF toks[k].kind = "ref"
           THEN toks[k].idx < Len(d.entries)
                /\ d.entries[toks[k].idx + 1] = val[k]
           ELSE toks[k].value = val[k]
  BY LenProperties DEF Means
<1>2. val = [k \in 1..Len(toks) |-> val[k]]
  BY <1>1
<1>3. Reader!Decoded(d, toks)
        = [k \in 1..Len(toks) |-> IF toks[k].kind = "ref"
                                  THEN d.entries[toks[k].idx + 1]
                                  ELSE toks[k].value]
  BY <1>1 DEF Reader!Decoded
<1>4. Reader!Decoded(d, toks) = [k \in 1..Len(toks) |-> val[k]]
  BY <1>1, <1>3
<1>5. QED
  BY <1>1, <1>2, <1>4 DEF Reader!Resolvable

\* A value is delivered as it was written.
LEMMA ReadValueFollows ==
  ASSUME EncInv, NEW told, Story(told), Following(enc.log, told),
         Reader!ReadValue, UNCHANGED encVars
  PROVE  /\ Following(enc.log, told)'
         /\ Len(delivered) < Len(sent)
         /\ delivered' = Append(delivered, sent[Len(delivered) + 1])
<1> DEFINE r == enc.log[pos + 1]
<1> DEFINE m == Len(dicts)
<1> DEFINE c == Len(delivered) + 1
<1>1. /\ pos + 1 \in 1..Len(enc.log) /\ pos + 1 <= flushed
      /\ File[pos + 1] = r /\ r.kind = "V"
  BY ReadyRecord DEF Reader!ReadValue
<1>2. /\ pos \in Nat /\ flushed <= Len(enc.log) /\ ~broken
      /\ dicts \in Seq(Dict) /\ delivered \in Seq(Seq(Value))
  BY DEF Following
<1>3. pos >= 2 /\ Tells(r, told[pos], told[pos + 1], sent)
  BY <1>1, <1>2, WhatComesNext DEF HasBackref
<1>4. Len(enc.log) \in Nat /\ pos \in 1..Len(enc.log)
  BY <1>1, <1>2, <1>3, ToldTypes
<1>5. /\ dicts # <<>>
      /\ Reader!Search(dicts, r.sor - r.backref) = m
      /\ dicts[m].entries = told[pos].dict
  BY <1>1, <1>3, BackrefFinds DEF HasBackref
<1>6. m \in Nat /\ m # 0 /\ dicts[m] \in Dict
  <2>1. m \in Nat /\ m # 0
    BY <1>2, <1>5, EmptySeq
  <2>2. m \in 1..m
    BY <2>1
  <2>3. QED
    BY <1>2, <2>1, <2>2, ElementOfSeq
<1>7. /\ told[pos + 1] = [dict |-> told[pos].dict, count |-> told[pos].count + 1]
      /\ Means(told[pos + 1].dict, r.content, sent[told[pos + 1].count])
  BY <1>1, <1>3 DEF Tells
<1>8. Len(delivered) = told[pos].count
  BY <1>2, <1>3 DEF Following
<1>9. /\ told[pos + 1].count = c /\ c <= Len(sent) /\ c \in Nat /\ c >= 1
      /\ Len(sent) \in Nat /\ Len(delivered) \in Nat
      /\ told[pos + 1].dict = told[pos].dict
  <2>1. told[pos].count \in Nat
    BY <1>4, ToldTypes
  <2>2. told[pos + 1].count <= Len(sent) /\ Len(sent) \in Nat
    BY <1>1, ToldTypes
  <2>3. QED
    BY <1>7, <1>8, <2>1, <2>2
<1>10. Means(dicts[m].entries, r.content, sent[c])
  BY <1>5, <1>7, <1>9
<1>11. /\ Reader!Resolvable(dicts[m], r.content)
       /\ Reader!Decoded(dicts[m], r.content) = sent[c]
  BY <1>6, <1>10, DecodesMeaning
<1>12. /\ delivered' = Append(delivered, sent[c])
       /\ pos' = pos + 1
       /\ UNCHANGED <<dicts, broken, enc, flushed, sent>>
  <2> DEFINE i == Reader!Search(dicts, r.sor - r.backref)
  <2>1. i = m
    BY <1>5
  <2>2. \/ /\ delivered' = Append(delivered, Reader!Decoded(dicts[i], r.content))
           /\ pos' = pos + 1
           /\ UNCHANGED <<dicts, broken>>
        \/ i = 0 \/ ~Reader!Resolvable(dicts[i], r.content)
    BY <1>1 DEF Reader!ReadValue, Reader!Advance
  <2> HIDE DEF i
  <2>3. QED
    BY <1>6, <1>11, <2>1, <2>2 DEF encVars
<1> HIDE DEF c
<1>13. sent[c] \in Seq(Value)
  BY <1>10 DEF Means
<1>14. /\ delivered' \in Seq(Seq(Value)) /\ Len(delivered') = Len(delivered) + 1
       /\ \A k \in 1..Len(delivered) : delivered'[k] = delivered[k]
       /\ delivered'[Len(delivered) + 1] = sent[c]
  BY <1>2, <1>12, <1>13, AppendProperties
<1>15. \A k \in 1..Len(delivered') : delivered'[k] = sent[k]
  <2>1. \A k \in 1..Len(delivered') : k \in 1..Len(delivered) \/ k = c
    BY <1>9, <1>14 DEF c
  <2>2. \A k \in 1..Len(delivered) : delivered[k] = sent[k]
    BY DEF Following
  <2>3. QED
    BY <1>14, <2>1, <2>2 DEF c
<1>16. dicts' # <<>> /\ Current(enc.log, told[pos].dict)'
  <2>1. pos' = pos + 1 /\ enc' = enc /\ dicts' = dicts
    BY <1>12
  <2>2. PICK d \in 2..pos :
          /\ IsDict(enc.log[d])
          /\ \A k \in (d + 1)..pos : ~IsDict(enc.log[k])
          /\ dicts[Len(dicts)].entries = told[pos].dict
          /\ dicts[Len(dicts)].startPos <= enc.log[d].sor
          /\ dicts[Len(dicts)].lastDictPos = enc.log[d].sor
          /\ \A i \in 1..Len(dicts) : dicts[i].lastDictPos <= enc.log[d].sor
    BY <1>3 DEF Following, Current
  <2>3. ASSUME NEW k \in (d + 1)..(pos + 1) PROVE ~IsDict(enc.log[k])
    <3>1. k \in (d + 1)..pos \/ k = pos + 1
      BY <1>2
    <3>2. QED
      BY <1>1, <2>2, <3>1 DEF IsDict
  <2>4. d \in 2..(pos + 1)
    BY <1>2
  <2>5. told[pos + 1].dict = told[pos].dict
    BY <1>9
  <2>6. QED
    BY <1>5, <2>1, <2>2, <2>3, <2>4, <2>5 DEF Current
<1>17. /\ pos' \in Nat /\ pos' <= flushed' /\ flushed' <= Len(enc'.log)
       /\ ~(pos' < 2) /\ pos' # 0
       /\ Len(delivered') = told[pos'].count /\ ~broken' /\ dicts' \in Seq(Dict)
  BY <1>1, <1>2, <1>3, <1>9, <1>12, <1>14 DEF c
<1>18. Following(enc.log, told)'
  BY <1>12, <1>14, <1>15, <1>16, <1>17 DEF Following
<1>19. QED
  BY <1>9, <1>12, <1>18 DEF c

-----------------------------------------------------------------------------
(***************************************************************************)
(* The composition.                                                        *)
(***************************************************************************)
LEMMA PipeInitInv == PipeInit => PipeInv
<1> SUFFICES ASSUME PipeInit PROVE PipeInv
  OBVIOUS
<1> DEFINE h == Rec("H", 0, HeaderSize, 0, <<>>)
<1> DEFINE c == Rec("C", HeaderSize, ClearSize, 0, <<>>)
<1> DEFINE told == [i \in 1..2 |-> [dict |-> <<>>, count |-> 0]]
<1>1. EncInv
  BY EncInitInv DEF PipeInit
<1>2. /\ enc.log = Append(<<h>>, c) /\ enc.end = HeaderSize + ClearSize
      /\ enc.lastDictSize = 0
      /\ buf.toks = <<>> /\ saying = <<>> /\ sent = <<>> /\ flushed = 0
      /\ dictInOrder = <<>>
      /\ dicts = <<>> /\ pos = 0 /\ delivered = <<>> /\ broken = FALSE
  BY DEF PipeInit, EncInit, InternInit, EmitDictClear, Emit, Reader!ReaderInit
<1>3. /\ Len(enc.log) = 2 /\ enc.log[1] = h /\ enc.log[2] = c
  BY <1>2
<1>4. h.kind = "H" /\ c.kind = "C" /\ c.sor = HeaderSize
  BY DEF Rec
<1> HIDE DEF h, c
<1>5. \A S : <<>> \in Seq(S) /\ Len(<<>>) = 0
  BY EmptySeq
<1>6. /\ told \in [1..2 -> Known]
      /\ told[1] = [dict |-> <<>>, count |-> 0]
      /\ told[2] = [dict |-> <<>>, count |-> 0]
  BY <1>5 DEF Known
<1> HIDE DEF told
<1>7. Tells(enc.log[2], told[1], told[2], sent)
  BY <1>3, <1>4, <1>6 DEF Tells
<1>8. Told(enc.log, told, sent)
  <2>1. \A i \in 1..2 : told[i].count <= Len(sent)
    BY <1>2, <1>5, <1>6
  <2>2. \A i \in 2..2 : i = 2 /\ i - 1 = 1
    OBVIOUS
  <2>3. QED
    BY <1>3, <1>4, <1>6, <1>7, <2>1, <2>2 DEF Told
<1>9. Ascending(enc)
  BY <1>2, <1>3, <1>4, EncoderAssumption DEF Ascending, ClearSize, TermSize
<1>10. Announced(enc, told[2].dict, dictInOrder)
  BY <1>2, <1>5, <1>6 DEF Announced
<1>11. Means(dictInOrder, buf.toks, saying)
  BY <1>2, <1>5 DEF Means
<1>12. Story(told)
  BY <1>2, <1>3, <1>5, <1>6, <1>8, <1>9, <1>10, <1>11, EncoderAssumption
     DEF Story, Stage
<1>13. Following(enc.log, told)
  BY <1>2, <1>3, <1>5 DEF Following
<1>14. QED
  BY <1>12, <1>13 DEF PipeInv

\* What one step of the composition does to the values written and delivered.
LEMMA PipeStep ==
  ASSUME EncInv, EncInv', RoomReserved, RoomReserved', PipeInv,
         [PipeNext]_pipeVars
  PROVE  PipeInv' /\ [Log!LogNext]_(Log!logVars)
<1>1. PICK told : Story(told) /\ Following(enc.log, told)
  BY DEF PipeInv
<1>2. ASSUME [EncNext]_encVars, UNCHANGED <<dicts, pos, delivered, broken>>
      PROVE  PipeInv' /\ [Log!LogNext]_(Log!logVars)
  <2>1. Grows(told)
    BY <1>1, <1>2, EncStepTells
  <2>2. PICK told2 : Story(told2)' /\ Extends(enc.log, told, enc'.log, told2)
    BY <2>1 DEF Grows
  <2>3. enc'.log \in Seq(Record) /\ flushed' \in Nat
    BY DEF EncInv, EncTypeOK, EncState
  <2>4. Len(enc'.log) \in Nat
    BY <2>3, LenProperties
  <2>5. /\ \/ flushed' = flushed
           \/ Len(enc.log) <= flushed' /\ flushed' <= Len(enc'.log)
        /\ \/ sent' = sent
           \/ sent' = Append(sent, saying) /\ Len(saying) \in 1..MaxTokens
    BY <2>1 DEF Grows
  <2>6. Following(enc.log, told2)'
    BY <1>1, <1>2, <2>2, <2>3, <2>4, <2>5, EncStepFollowed
  <2>7. sent' = Append(sent, saying) /\ Len(saying) \in 1..MaxTokens => Log!Write
    <3>1. saying \in Seq(Value)
      BY DEF EncInv, EncTypeOK
    <3>2. Len(saying) \in 1..MaxTokens
            => saying \in UNION {[1..n -> Value] : n \in 1..MaxTokens}
      BY <3>1
    <3>3. QED
      BY <1>2, <3>2 DEF Log!Write
  <2>8. [Log!LogNext]_(Log!logVars)
    BY <1>2, <2>5, <2>7 DEF Log!LogNext, Log!logVars
  <2>9. QED
    BY <2>2, <2>6, <2>8 DEF PipeInv
<1>3. ASSUME Reader!ReaderNext, UNCHANGED encVars
      PROVE  PipeInv' /\ [Log!LogNext]_(Log!logVars)
  <2>1. UNCHANGED <<enc, dictInOrder, buf, saying, sent>>
    BY <1>3 DEF encVars
  <2>2. Story(told)'
    BY <1>1, <2>1 DEF Story
  <2>3. CASE Reader!ReadValue
    <3>1. /\ Following(enc.log, told)'
          /\ Len(delivered) < Len(sent)
          /\ delivered' = Append(delivered, sent[Len(delivered) + 1])
      BY <1>1, <1>3, <2>3, ReadValueFollows
    <3>2. Log!Deliver
      BY <2>1, <3>1 DEF Log!Deliver
    <3>3. QED
      BY <2>2, <3>1, <3>2 DEF PipeInv, Log!LogNext
  <2>4. CASE Reader!ReadHeader \/ Reader!ReadClear \/ Reader!ReadAdd
    <3>1. Following(enc.log, told)' /\ delivered' = delivered
      BY <1>1, <1>3, <2>4, ReadHeaderFollows, ReadClearFollows, ReadAddFollows
    <3>2. QED
      BY <2>1, <2>2, <3>1 DEF PipeInv, Log!logVars
  <2>5. QED
    BY <1>3, <2>3, <2>4 DEF Reader!ReaderNext
<1>4. QED
  BY <1>2, <1>3 DEF PipeNext, EncoderStep, ReaderStep, pipeVars

\* The encoder of the composition is the encoder.
LEMMA PipeRunsEncoder == PipeSpec => EncSpec
<1>1. PipeInit => EncInit
  BY DEF PipeInit
<1>2. [PipeNext]_pipeVars => [EncNext]_encVars
  BY DEF PipeNext, EncoderStep, ReaderStep, pipeVars
<1>3. QED
  BY <1>1, <1>2, PTL DEF PipeSpec, EncSpec

\* The inductive invariant, as long as the vector is never grown.
THEOREM PipeInvariant == PipeSpec /\ []RoomReserved => []PipeInv
<1>1. EncInv /\ EncInv' /\ RoomReserved /\ RoomReserved' /\ PipeInv
        /\ [PipeNext]_pipeVars => PipeInv'
  BY PipeStep
<1>2. QED
  BY <1>1, PipeInitInv, PipeRunsEncoder, EncInvariant, PTL DEF PipeSpec

\* The reader never stops on an error in a file the encoder wrote.
THEOREM ReaderNeverBreaks == PipeSpec /\ []RoomReserved => []NeverBroken
<1>1. PipeInv => NeverBroken
  BY DEF PipeInv, Following, NeverBroken
<1>2. QED
  BY <1>1, PipeInvariant, PTL

\* What the reader has delivered is what was written, value by value: what
\* run pipeline_full refutes can only go wrong when the vector grows.
THEOREM DeliversAsWritten == PipeSpec /\ []RoomReserved => []DeliveredAsWritten
<1>1. EncInv /\ PipeInv => DeliveredAsWritten
  <2> SUFFICES ASSUME EncInv, PipeInv PROVE DeliveredAsWritten
    OBVIOUS
  <2>1. PICK told : Story(told) /\ Following(enc.log, told)
    BY DEF PipeInv
  <2>2. /\ pos \in Nat /\ pos <= Len(enc.log)
        /\ delivered \in Seq(Seq(Value)) /\ sent \in Seq(Seq(Value))
        /\ \A k \in 1..Len(delivered) : delivered[k] = sent[k]
    <3>1. Len(enc.log) \in Nat /\ flushed \in Nat
      BY LenProperties DEF EncInv, EncTypeOK, EncState
    <3>2. QED
      BY <2>1, <3>1 DEF Following, EncInv, EncTypeOK
  <2>3. Len(delivered) \in Nat /\ Len(sent) \in Nat /\ Len(delivered) <= Len(sent)
    <3>1. pos = 0 \/ pos \in 1..Len(enc.log)
      BY <2>2, LenProperties DEF EncInv, EncTypeOK, EncState
    <3>2. pos \in 1..Len(enc.log) => told[pos].count <= Len(sent)
      BY <2>1, ToldTypes
    <3>3. QED
      BY <2>1, <2>2, <3>1, <3>2, LenProperties DEF Following
  <2>4. SubSeq(sent, 1, Len(delivered)) = delivered
    <3>1. \A k \in 1..Len(delivered) : sent[k] = delivered[k]
      BY <2>2
    <3>2. QED
      BY <2>2, <2>3, <3>1
  <2>5. SubSeq(delivered, 1, Len(delivered)) = delivered
    BY <2>2, <2>3
  <2>6. QED
    BY <2>3, <2>4, <2>5 DEF DeliveredAsWritten, IsPrefix
<1>2. QED
  BY <1>1, PipeInvariant, PipeRunsEncoder, EncInvariant, PTL

\* The safety half of ImplementsRecordLog: every step of encoder and reader is a
\* write of one value, the delivery of the next one exactly as written, or
\* invisible.
THEOREM FollowingImplementsLog == PipeSpec /\ []RoomReserved => Log!LogSafety
<1>1. PipeInit => Log!LogInit
  BY DEF PipeInit, EncInit, Reader!ReaderInit, Log!LogInit
<1>2. EncInv /\ EncInv' /\ RoomReserved /\ RoomReserved' /\ PipeInv
        /\ [PipeNext]_pipeVars => [Log!LogNext]_(Log!logVars)
  BY PipeStep
<1>3. QED
  BY <1>1, <1>2, PipeInvariant, PipeRunsEncoder, EncInvariant, PTL
     DEF PipeSpec, Log!LogSafety

\* The same from the constants alone: records short enough for what is reserved
\* beyond clearThreshold.
THEOREM ShortRecordsArrive ==
  ASSUME RecordsFit
  PROVE  PipeSpec => []NeverBroken /\ Log!LogSafety
<1>1. EncSpec => []RoomReserved
  BY RoomStaysReserved
<1>2. QED
  BY <1>1, PipeRunsEncoder, ReaderNeverBreaks, FollowingImplementsLog, PTL
=============================================================================
