----------------------------- MODULE AuEncoder -----------------------------
(***************************************************************************)
(* AuEncoder (src/src/au/AuEncoder.h): turns the values its caller writes  *)
(* into a stream of records                                                *)
(*    H  header          C  clear the dictionary                           *)
(*    A  add strings     V  one value                                      *)
(* Every A and V record holds a backref, the distance in bytes from its    *)
(* first byte back to the first byte of the previous A or C record.        *)
(*                                                                         *)
(* A record is a position, a size and the content the properties need: the *)
(* strings of an A, the tokens of a V.  Byte counts follow the code, with  *)
(* StrLen and ScalarSize as the sizes of what the caller writes.           *)
(***************************************************************************)
EXTENDS AuStringIntern

CONSTANTS
  Scalar,            \* any value that is not a string: number, bool, time...
  ScalarSize,        \* the bytes such a value takes
  HeaderSize,        \* the bytes of the H record
  PurgeInterval,     \* constructor parameters, 0 meaning never
  PurgeThreshold,
  ReindexInterval,
  ClearThreshold,    \* Config::clearThreshold
  BackrefThreshold,  \* backrefThreshold
  MaxBackref,        \* the largest backref its 32 bits can hold
  MaxStrLen,         \* bound: longest string a caller writes
  MaxTokens,         \* bound: values the caller writes in one record
  MaxRecords,        \* bound: records, and calls of the dictionary operations
  MaxCalls           \* bound: those calls

ASSUME EncoderAssumption ==
  /\ Scalar \notin Str
  /\ ScalarSize \in Nat
  /\ HeaderSize \in Nat
  /\ PurgeInterval \in Nat
  /\ PurgeThreshold \in Nat
  /\ ReindexInterval \in Nat
  /\ ClearThreshold \in Nat
  /\ BackrefThreshold \in Nat
  /\ MaxBackref \in Nat /\ MaxBackref >= 4
  /\ MaxStrLen \in Nat
  /\ \A s \in Str : StrLen[s] <= MaxStrLen
  /\ MaxTokens \in Nat
  /\ MaxRecords \in Nat
  /\ MaxCalls \in Nat

VARIABLES
  enc,      \* what emitting records reads and writes, see EncState
  buf,      \* buf_: the tokens of the record under construction, its bytes
  records,  \* records_
  flushed,  \* how many records of enc.log write() was given; the others are
            \* still in dictBuf_
  failed,   \* checkedBackref has thrown
  saying,   \* history: what the caller wrote in the current encode() call
  sent,     \* history: what the caller wrote in each completed one
  calls     \* history: calls of the dictionary operations, for the bound

encVars == <<dictInOrder, dictionary, capacity, inOrder, seen, freeNodes,
             enc, buf, records, flushed, failed, saying, sent, calls>>

-----------------------------------------------------------------------------
(***************************************************************************)
(* Records, tokens and their sizes.                                        *)
(***************************************************************************)
BackrefSize == 4
TermSize == 2             \* RecordEnd, '\n'
ClearSize == 2 + TermSize \* 'C', the version as a small int
AddOverhead == 1 + BackrefSize + TermSize

\* The bytes valueInt takes: seven bits to the byte.  28 bits is as far as the
\* model needs to count.
VarintLen(n) == Cardinality({k \in 0..3 : k = 0 \/ 128^k <= n})

StringOverhead(len) == IF len <= 31 THEN 1 ELSE 1 + VarintLen(len)
StringSize(s) == StringOverhead(StrLen[s]) + StrLen[s]
MaxStringSize == 5 + MaxStrLen

Value == Str \cup {Scalar}

Token == [kind : {"ref"}, idx : Nat] \cup [kind : {"inline"}, value : Value]
Ref(i) == [kind |-> "ref", idx |-> i]
InlineToken(v) == [kind |-> "inline", value |-> v]

TokenSize(t) ==
  CASE t.kind = "ref" -> IF t.idx < 128 THEN 1 ELSE 1 + VarintLen(t.idx)
    [] t.kind = "inline" /\ t.value = Scalar -> ScalarSize
    [] OTHER -> StringSize(t.value)

Record == [kind : {"H", "C", "A", "V"}, sor : Nat, size : Nat, backref : Nat,
           content : Seq(Str) \cup Seq(Token)]
Rec(k, sor, size, backref, content) ==
  [kind |-> k, sor |-> sor, size |-> size, backref |-> backref,
   content |-> content]

IsDict(r) == r.kind \in {"A", "C"}
HasBackref(r) == r.kind \in {"A", "V"}

\* log: the records put into dictBuf_ so far, in order, each value's bytes
\* right behind its V header; end: where the next byte will land;
\* backref: backref_; lastDictSize: lastDictSize_.
EncState == [log : Seq(Record), end : Nat, backref : Nat, lastDictSize : Nat]

EncTypeOK ==
  /\ InternTypeOK
  /\ enc \in EncState
  /\ buf \in [toks : Seq(Token), size : Nat]
  /\ records \in Nat
  /\ flushed \in Nat
  /\ failed \in BOOLEAN
  /\ saying \in Seq(Value)
  /\ sent \in Seq(Seq(Value))
  /\ calls \in Nat

-----------------------------------------------------------------------------
(***************************************************************************)
(* Emitting records.                                                       *)
(***************************************************************************)
Emit(e, kind, size, backref, content) ==
  Append(e.log, Rec(kind, e.end, size, backref, content))

EmitDictClear(e) ==
  [log          |-> Emit(e, "C", ClearSize, 0, <<>>),
   end          |-> e.end + ClearSize,
   backref      |-> ClearSize,
   lastDictSize |-> 0]

\* The bytes of the strings exportDict adds: <<i, b>> is byte b of string i.
NewBytes(e) ==
  {p \in (e.lastDictSize + 1 .. Len(dictInOrder)) \X (1..MaxStringSize) :
     p[2] <= StringSize(dictInOrder[p[1]])}
AddSize(e) == AddOverhead + Cardinality(NewBytes(e))

HasNewStrings(e) == Len(dictInOrder) > e.lastDictSize

ExportDict(e) ==
  IF HasNewStrings(e)
  THEN [log          |-> Emit(e, "A", AddSize(e), e.backref,
                              SubSeq(dictInOrder, e.lastDictSize + 1,
                                     Len(dictInOrder))),
        end          |-> e.end + AddSize(e),
        backref      |-> AddSize(e),
        lastDictSize |-> Len(dictInOrder)]
  ELSE e

\* The V header goes to dictBuf_, the value to write() from buf_; backref_
\* grows by the one before write() and by the other after it.
ValueLen == buf.size + TermSize
ValueSize == 1 + BackrefSize + VarintLen(ValueLen) + ValueLen

\* Mutant of EmitValue: backref_ misses the bytes of the value.
EmitValueHeaderOnly(e) ==
  [log          |-> Emit(e, "V", ValueSize, e.backref, buf.toks),
   end          |-> e.end + ValueSize,
   backref      |-> e.backref + (ValueSize - ValueLen),
   lastDictSize |-> e.lastDictSize]

EmitValue(e) ==
  [log          |-> Emit(e, "V", ValueSize, e.backref, buf.toks),
   end          |-> e.end + ValueSize,
   backref      |-> e.backref + ValueSize,
   lastDictSize |-> e.lastDictSize]

-----------------------------------------------------------------------------
(***************************************************************************)
(* encode(f, write).  f writes the values of one record, one at a time;    *)
(* finalizeAndWrite ends it.                                               *)
(***************************************************************************)
EncInit ==
  /\ InternInit
  /\ enc = EmitDictClear(
             [log |-> <<Rec("H", 0, HeaderSize, 0, <<>>)>>, end |-> HeaderSize,
              backref |-> 0, lastDictSize |-> 0])
  /\ buf = [toks |-> <<>>, size |-> 0]
  /\ records = 0
  /\ flushed = 0
  /\ failed = FALSE
  /\ saying = <<>>
  /\ sent = <<>>
  /\ calls = 0

Put(t) == buf' = [toks |-> Append(buf.toks, t), size |-> buf.size + TokenSize(t)]

\* Bounds of the model: records and calls, and values in one record.
MayAct == ~failed /\ records + calls < MaxRecords
MaySay == MayAct /\ Len(saying) < MaxTokens

\* encodeStringIntern: the index if idx() gives one, otherwise the string.
WriteString(s, hint) ==
  /\ MaySay
  /\ Idx(s, hint)
  /\ Put(IF ~Inline(s, hint) /\ s \in DOMAIN dictionary'
         THEN Ref(dictionary'[s].internIndex) ELSE InlineToken(s))
  /\ saying' = Append(saying, s)
  /\ UNCHANGED <<enc, records, flushed, failed, sent, calls>>

\* Any value that involves no string.
WriteScalar ==
  /\ MaySay
  /\ Put(InlineToken(Scalar))
  /\ saying' = Append(saying, Scalar)
  /\ UNCHANGED internVars
  /\ UNCHANGED <<enc, records, flushed, failed, sent, calls>>

Due(interval) == interval # 0 /\ (records + 1) % interval = 0

\* The maintenance finalizeAndWrite does once the record is out: each test
\* sees the lastDictSize_ that the previous step left.
\* Mutant of Reindexed: the new indices are not announced.
ReindexedSilently(e) == e
Reindexed(e) == IF Due(ReindexInterval) THEN EmitDictClear(e) ELSE e
PurgeNow(e) == Due(PurgeInterval) /\ e.lastDictSize # 0
\* Mutant of ClearNow: a purge is taken to have made room.
ClearNowUnlessPurged(e) == e.lastDictSize > ClearThreshold /\ ~PurgeNow(e)
ClearNow(e) == e.lastDictSize > ClearThreshold
Cleared(e) == IF ClearNow(e) THEN EmitDictClear(e) ELSE e

\* What the maintenance does to the interner: a clear discards what a purge
\* before it kept, and after a re-index lastDictSize_ = 0 rules out both.
MaintainIntern(e) ==
  IF ClearNow(e) THEN Clear(TRUE)
  ELSE IF Due(ReindexInterval) THEN ReIndex(PurgeThreshold)
  ELSE IF PurgeNow(e) THEN Purge(PurgeThreshold)
  ELSE UNCHANGED internVars

\* Mutant of Refreshed: only when the field is exhausted.
RefreshedAtLimit(e) == IF e.backref > MaxBackref THEN EmitDictClear(e) ELSE e
Refreshed(e) == IF e.backref > BackrefThreshold THEN EmitDictClear(e) ELSE e

\* checkedBackref, in exportDict and then in finalizeAndWrite.
\* Mutant of Fits: only the value's backref is checked, before the export.
FitsBeforeExport(e) == e.backref <= MaxBackref

Fits(e) ==
  /\ HasNewStrings(e) => e.backref <= MaxBackref
  /\ ExportDict(e).backref <= MaxBackref

EndRecord ==
  /\ ~failed /\ buf.toks # <<>>
  /\ LET e1 == Refreshed(enc)
         e2 == EmitValue(ExportDict(e1))
         e3 == Reindexed(e2)
     IN /\ Fits(e1)
        /\ MaintainIntern(e3)
        /\ enc' = Cleared(e3)
        /\ flushed' = Len(e2.log)
  /\ records' = records + 1
  /\ buf' = [toks |-> <<>>, size |-> 0]
  /\ sent' = Append(sent, saying)
  /\ saying' = <<>>
  /\ UNCHANGED <<failed, calls>>

\* checkedBackref throws out of encode(); the programs using the encoder end.
EndRecordThrows ==
  /\ ~failed /\ buf.toks # <<>>
  /\ ~Fits(Refreshed(enc))
  /\ failed' = TRUE
  /\ UNCHANGED internVars
  /\ UNCHANGED <<enc, buf, records, flushed, saying, sent, calls>>

-----------------------------------------------------------------------------
(***************************************************************************)
(* The dictionary operations a caller may use between records.             *)
(***************************************************************************)
BetweenRecords == MayAct /\ buf.toks = <<>> /\ calls < MaxCalls

ClearDictionary(clearUsageTracker) ==
  /\ BetweenRecords
  /\ Clear(clearUsageTracker)
  /\ enc' = EmitDictClear(enc)
  /\ calls' = calls + 1
  /\ UNCHANGED <<buf, records, flushed, failed, saying, sent>>

PurgeDictionary(threshold) ==
  /\ BetweenRecords
  /\ Purge(threshold)
  /\ calls' = calls + 1
  /\ UNCHANGED <<enc, buf, records, flushed, failed, saying, sent>>

ReIndexDictionary(threshold) ==
  /\ BetweenRecords
  /\ ReIndex(threshold)
  /\ enc' = EmitDictClear(enc)
  /\ calls' = calls + 1
  /\ UNCHANGED <<buf, records, flushed, failed, saying, sent>>

EncNext ==
  \/ \E s \in Str, hint \in Hints : WriteString(s, hint)
  \/ WriteScalar
  \/ EndRecord
  \/ EndRecordThrows
  \/ \E all \in BOOLEAN : ClearDictionary(all)
  \/ \E threshold \in 1..MaxCount : PurgeDictionary(threshold)
  \/ \E threshold \in 1..MaxCount : ReIndexDictionary(threshold)

EncSpec == EncInit /\ [][EncNext]_encVars

-----------------------------------------------------------------------------
\* Every backref in the stream lands on the first byte of the nearest A or C
\* record before it.  backref_ is kept by increments spread over emitDictClear,
\* exportDict and both sides of write(); one byte off and no decoder finds the
\* dictionary.
BackrefsLand ==
  \A i \in DOMAIN enc.log : HasBackref(enc.log[i]) =>
    \E j \in 1..(i - 1) :
      /\ IsDict(enc.log[j])
      /\ \A k \in (j + 1)..(i - 1) : ~IsDict(enc.log[k])
      /\ enc.log[j].sor + enc.log[i].backref = enc.log[i].sor

\* A backref is at most backrefThreshold, unless the record directly follows
\* the A or C record it refers to, whose size the backref then is: what keeps
\* the running distance within its 32 bits however long the dictionary is left
\* alone.
BackrefsBounded ==
  \A i \in DOMAIN enc.log : HasBackref(enc.log[i]) =>
    \/ enc.log[i].backref <= BackrefThreshold
    \/ /\ i > 1
       /\ IsDict(enc.log[i - 1])
       /\ enc.log[i].backref = enc.log[i - 1].size

\* No backref that 32 bits cannot hold is ever written; and as long as the
\* threshold itself fits, encode() refuses to write one only when a single
\* dictionary record is too large to be pointed across, never because the
\* running distance got away (comments at DEFAULT_BACKREF_THRESHOLD and
\* checkedBackref).
BackrefsFit ==
  /\ \A i \in DOMAIN enc.log : enc.log[i].backref <= MaxBackref
  /\ failed /\ BackrefThreshold <= MaxBackref =>
       /\ HasNewStrings(Refreshed(enc))
       /\ AddSize(Refreshed(enc)) > MaxBackref

\* A dictionary larger than clearThreshold does not outlive, for its readers, the
\* record that made it so (parameter doc of the constructor): it is cleared, or a
\* re-index that falls due on the same record has it written anew.
LargeDictionariesForgotten ==
  buf.toks = <<>> /\ Len(dictInOrder) > ClearThreshold =>
    /\ enc.lastDictSize = 0
    /\ enc.log # <<>> /\ IsDict(enc.log[Len(enc.log)])
=============================================================================
