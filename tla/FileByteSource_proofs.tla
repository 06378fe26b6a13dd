----------------------- MODULE FileByteSource_proofs -----------------------
(***************************************************************************)
(* The window of FileByteSource is right for every buffer size, history    *)
(* and file, and its calls are those of an abstract byte stream.           *)
(***************************************************************************)
EXTENDS FileByteSource, SequenceTheorems, TLAPS

\* What the window properties rest on: the counters are within each other's
\* bounds, and nothing is pinned while a seek is under way.
SrcInv ==
  /\ SrcTypeOK
  /\ WindowIsFile
  /\ PinnedStaysBuffered
  /\ HistoryStaysBuffered
  /\ cur <= pos
  /\ pos <= high
  /\ call.op = "seek" => pin = NoPin

\* read() drops only what is behind both the history and the pin.
LEMMA DroppedFits ==
  ASSUME SrcInv
  PROVE  /\ Dropped \in 0..cur
         /\ HistSz \in Nat
         /\ Dropped > 0 => cur - Dropped = HistSz /\ HistSz >= MinHist
         /\ Dropped > 0 /\ pin # NoPin => pos - HistSz <= pin
BY SourceAssumption DEF SrcInv, SrcTypeOK, Dropped, HistSz, Pinned, NoPin

LEMMA ReadKeepsWindow ==
  ASSUME SrcInv, NEW n \in Nat, Read(n)
  PROVE  /\ buf' \in Seq(Nat) /\ bufSize' \in Nat /\ Len(buf') <= bufSize'
         /\ cur' \in 0..Len(buf') /\ cur' <= pos'
         /\ offset' \in Nat
         /\ WindowIsFile' /\ PinnedStaysBuffered' /\ HistoryStaysBuffered'
<1> USE SourceAssumption
<1> DEFINE new == [i \in 1..n |-> offset + i - 1]
<1>1. /\ Dropped \in 0..cur /\ cur \in 0..Len(buf) /\ offset \in Nat
      /\ buf \in Seq(Nat) /\ bufSize \in Nat /\ Len(buf) <= bufSize
      /\ pos \in Nat /\ cur <= pos /\ pos <= high /\ high \in Nat
      /\ landed \in Nat /\ pin \in Nat \cup {NoPin}
  BY DroppedFits DEF SrcInv, SrcTypeOK
<1>2. /\ Kept \in Seq(Nat)
      /\ Len(Kept) = Len(buf) - Dropped
      /\ \A i \in 1..Len(Kept) : Kept[i] = buf[i + Dropped]
  BY <1>1 DEF Kept
<1>3. new \in Seq(Nat) /\ Len(new) = n /\ \A i \in 1..n : new[i] = offset + i - 1
  BY <1>1
<1>4. /\ buf' = Kept \o new /\ cur' = cur - Dropped /\ bufSize' = RoomySize
      /\ offset' = offset + n /\ pos' = pos /\ pin' = pin /\ landed' = landed
      /\ high' = high
  BY DEF Read
<1> HIDE DEF new
<1>5. /\ buf' \in Seq(Nat) /\ Len(buf') = Len(buf) - Dropped + n
      /\ \A i \in 1..Len(buf') :
           buf'[i] = IF i <= Len(Kept) THEN Kept[i] ELSE new[i - Len(Kept)]
  <2>1. /\ Kept \o new \in Seq(Nat) /\ Len(Kept \o new) = Len(Kept) + Len(new)
        /\ \A i \in 1..Len(Kept) + Len(new) :
             (Kept \o new)[i] =
               IF i <= Len(Kept) THEN Kept[i] ELSE new[i - Len(Kept)]
    BY <1>2, <1>3, ConcatProperties
  <2>2. Len(Kept) + Len(new) = Len(buf) - Dropped + n
    BY <1>2, <1>3
  <2>. QED BY <2>1, <2>2, <1>4
<1>6. RoomySize \in Nat /\ n <= RoomySize - (Len(buf) - Dropped)
  <2>1. RoomySize \in Nat /\ RoomySize >= Len(buf) - Dropped
    BY <1>1 DEF RoomySize
  <2>2. n = 0 \/ n \in 1..(RoomySize - (Len(buf) - Dropped))
    BY DEF Read, DoRead
  <2>. QED BY <2>1, <2>2, <1>1
<1>7. bufSize' \in Nat /\ Len(buf') <= bufSize'
  BY <1>1, <1>4, <1>5, <1>6
<1>8. cur' \in 0..Len(buf') /\ cur' <= pos' /\ offset' \in Nat
  BY <1>1, <1>4, <1>5
<1>9. WindowIsFile'
  <2>1. \A i \in DOMAIN buf : buf[i] = pos - cur + i - 1
    BY DEF SrcInv, WindowIsFile, BufStart
  <2>2. offset = pos + (Len(buf) - cur)
    BY DEF SrcInv, WindowIsFile, BuffAvail
  <2>3. ASSUME NEW i \in 1..Len(buf')
        PROVE  buf'[i] = pos - (cur - Dropped) + i - 1
    <3>1. CASE i <= Len(Kept)
      <4>1. i + Dropped \in 1..Len(buf)
        BY <1>1, <1>2, <3>1
      <4>2. buf'[i] = buf[i + Dropped]
        BY <1>2, <1>5, <3>1
      <4>3. buf[i + Dropped] = pos - cur + (i + Dropped) - 1
        BY <2>1, <4>1, <1>1
      <4>. QED BY <4>2, <4>3, <1>1
    <3>2. CASE ~(i <= Len(Kept))
      <4>1. i - Len(Kept) \in 1..n
        BY <1>1, <1>2, <1>5, <3>2
      <4>2. buf'[i] = offset + (i - Len(Kept)) - 1
        BY <1>3, <1>5, <3>2, <4>1
      <4>. QED BY <4>2, <2>2, <1>1, <1>2
    <3>. QED BY <3>1, <3>2
  <2>4. DOMAIN buf' = 1..Len(buf')
    BY <1>5
  <2>5. BufStart' = pos - (cur - Dropped)
    BY <1>4 DEF BufStart
  <2>6. offset' = pos' + BuffAvail'
    <3>1. Len(buf') = Len(buf) - Dropped + n /\ Len(buf) \in Nat
      BY <1>1, <1>5
    <3>. QED BY <1>1, <1>4, <2>2, <3>1 DEF BuffAvail
  <2>. QED BY <2>3, <2>4, <2>5, <2>6 DEF WindowIsFile
<1>10. PinnedStaysBuffered'
  BY <1>1, <1>4, DroppedFits
  DEF SrcInv, PinnedStaysBuffered, BufStart, NoPin
<1>11. HistoryStaysBuffered'
  BY <1>1, <1>4, DroppedFits
  DEF SrcInv, HistoryStaysBuffered, BufStart
<1>. QED BY <1>5, <1>7, <1>8, <1>9, <1>10, <1>11

\* Moving within the window leaves it as it is.
LEMMA MoveKeepsWindow ==
  ASSUME SrcInv, NEW p \in Nat, BufStart <= p, p <= pos + BuffAvail,
         MoveTo(p), UNCHANGED <<offset, buf, bufSize, pin, landed>>
  PROVE  /\ pos' \in Nat /\ high' \in Nat /\ pos' <= high'
         /\ cur' \in 0..Len(buf') /\ cur' <= pos'
         /\ WindowIsFile' /\ PinnedStaysBuffered' /\ HistoryStaysBuffered'
<1>1. /\ cur \in 0..Len(buf) /\ pos \in Nat /\ high \in Nat /\ cur <= pos
      /\ pos <= high /\ landed \in Nat /\ buf \in Seq(Nat)
      /\ pos - cur <= p /\ p <= pos + (Len(buf) - cur)
      /\ Len(buf) \in Nat
  BY DEF SrcInv, SrcTypeOK, BufStart, BuffAvail
<1>2. /\ pos' = p /\ cur' = cur + (p - pos) /\ high' \in Nat /\ high' >= high
      /\ p <= high' /\ buf' = buf /\ offset' = offset /\ pin' = pin
      /\ landed' = landed
  BY <1>1 DEF MoveTo
<1>3. BufStart' = BufStart /\ pos' + BuffAvail' = pos + BuffAvail
  BY <1>1, <1>2 DEF BufStart, BuffAvail
<1>4. WindowIsFile'
  BY <1>2, <1>3 DEF SrcInv, WindowIsFile
<1>5. PinnedStaysBuffered'
  BY <1>2, <1>3 DEF SrcInv, PinnedStaysBuffered
<1>6. HistoryStaysBuffered'
  BY <1>1, <1>2, <1>3, SourceAssumption
  DEF SrcInv, HistoryStaysBuffered, BufStart
<1>. QED BY <1>1, <1>2, <1>4, <1>5, <1>6

LEMMA OutcomeIsAnswer ==
  /\ \A k \in {"none", "ok", "eof", "error", "notfound"} : Outcome(k) \in Answers
  /\ \A s \in Seq(Nat) : Bytes(s) \in Answers
BY DEF Outcome, Bytes, Answers

\* The calls and their arguments.
LEMMA CallTypes ==
  /\ Idle.op = "idle"
  /\ \A c \in Calls \cup {Idle} : c.n \in Nat
BY SourceAssumption DEF Calls, Idle

LEMMA ReturnTypes ==
  ASSUME SrcInv, NEW a \in Answers, Return(a)
  PROVE  /\ call' \in Calls \cup {Idle} /\ left' \in Nat /\ got' \in Seq(Nat)
         /\ jumped' \in BOOLEAN /\ answer' \in Answers /\ from' \in Nat
         /\ call'.op # "seek"
<1>1. /\ answer' = a /\ call' = Idle /\ left' = 0 /\ got' = <<>>
      /\ jumped' = FALSE /\ from' = from
  BY DEF Return
<1>2. from \in Nat
  BY DEF SrcInv, SrcTypeOK
<1>3. call'.op # "seek"
  BY <1>1, CallTypes
<1>4. <<>> \in Seq(Nat)
  OBVIOUS
<1>5. call' \in Calls \cup {Idle}
  BY <1>1
<1>6. answer' \in Answers /\ left' \in Nat /\ jumped' \in BOOLEAN
  BY <1>1
<1>. QED BY <1>1, <1>2, <1>3, <1>4, <1>5, <1>6

LEMMA WindowUnchanged ==
  ASSUME SrcInv, UNCHANGED <<windowVars, landed, high>>
  PROVE  /\ WindowIsFile' /\ PinnedStaysBuffered' /\ HistoryStaysBuffered'
         /\ cur' <= pos' /\ pos' <= high'
BY DEF SrcInv, windowVars, WindowIsFile, PinnedStaysBuffered,
       HistoryStaysBuffered, BufStart, BuffAvail

-----------------------------------------------------------------------------
LEMMA InitInv == SrcInit => SrcInv
<1> SUFFICES ASSUME SrcInit PROVE SrcInv
  OBVIOUS
<1>1. <<>> \in Seq(Nat) /\ Len(<<>>) = 0 /\ DOMAIN <<>> = {}
  OBVIOUS
<1>2. SrcTypeOK
  <2>1. /\ file \in [size : Nat, follow : BOOLEAN, seekable : BOOLEAN]
        /\ bufSize \in Nat
    BY SourceAssumption DEF SrcInit
  <2>2. buf \in Seq(Nat) /\ got \in Seq(Nat) /\ Len(buf) <= bufSize
        /\ cur \in 0..Len(buf)
    BY <1>1, <2>1 DEF SrcInit
  <2>3. answer \in Answers /\ call \in Calls \cup {Idle}
    BY OutcomeIsAnswer DEF SrcInit
  <2>. QED BY <2>1, <2>2, <2>3 DEF SrcInit, SrcTypeOK
<1>3. WindowIsFile
  BY <1>1 DEF SrcInit, WindowIsFile, BufStart, BuffAvail
<1>4. call.op # "seek"
  BY CallTypes DEF SrcInit
<1>. QED
  BY <1>2, <1>3, <1>4
  DEF SrcInit, SrcInv, PinnedStaysBuffered, HistoryStaysBuffered, BufStart

\* A step that has kept the window and the types of the rest.
LEMMA FillKeepsInv == ASSUME SrcInv, Fill PROVE SrcInv'
<1>1. PICK n \in 1..MaxSize : Read(n)
  BY DEF Fill
<1>2. n \in Nat
  BY SourceAssumption
<1>3. /\ buf' \in Seq(Nat) /\ bufSize' \in Nat /\ Len(buf') <= bufSize'
      /\ cur' \in 0..Len(buf') /\ cur' <= pos' /\ offset' \in Nat
      /\ WindowIsFile' /\ PinnedStaysBuffered' /\ HistoryStaysBuffered'
  BY <1>1, <1>2, ReadKeepsWindow
<1>4. UNCHANGED <<file, pos, pin, landed, high>> /\ UNCHANGED callVars
  BY <1>1 DEF Read, Fill
<1>. QED BY <1>3, <1>4 DEF SrcInv, SrcTypeOK, callVars

LEMMA ExhaustedKeepsInv == ASSUME SrcInv, Exhausted PROVE SrcInv'
<1>1. Read(0)
  BY DEF Exhausted
<1>2. PICK a \in Answers : Return(a)
  BY OutcomeIsAnswer DEF Exhausted
<1>3. /\ buf' \in Seq(Nat) /\ bufSize' \in Nat /\ Len(buf') <= bufSize'
      /\ cur' \in 0..Len(buf') /\ cur' <= pos' /\ offset' \in Nat
      /\ WindowIsFile' /\ PinnedStaysBuffered' /\ HistoryStaysBuffered'
  BY <1>1, ReadKeepsWindow
<1>4. UNCHANGED <<file, pos, pin, landed, high>>
  BY <1>1 DEF Read
<1>. QED BY <1>2, <1>3, <1>4, ReturnTypes DEF SrcInv, SrcTypeOK

\* The calls that move within the window.
LEMMA MoveAndReturn ==
  ASSUME SrcInv, NEW p \in Nat, BufStart <= p, p <= pos + BuffAvail, MoveTo(p),
         NEW a \in Answers, Return(a),
         UNCHANGED <<file, offset, buf, bufSize, pin, landed>>
  PROVE  SrcInv'
<1>1. /\ pos' \in Nat /\ high' \in Nat /\ pos' <= high'
      /\ cur' \in 0..Len(buf') /\ cur' <= pos'
      /\ WindowIsFile' /\ PinnedStaysBuffered' /\ HistoryStaysBuffered'
  BY MoveKeepsWindow
<1>. QED BY <1>1, ReturnTypes DEF SrcInv, SrcTypeOK

\* The calls that end without moving.
LEMMA OnlyReturn ==
  ASSUME SrcInv, NEW a \in Answers, Return(a),
         UNCHANGED <<file, windowVars, landed, high>>
  PROVE  SrcInv'
BY WindowUnchanged, ReturnTypes DEF SrcInv, SrcTypeOK, windowVars

LEMMA Bounds ==
  ASSUME SrcInv
  PROVE  /\ pos \in Nat /\ BufStart \in Nat /\ BuffAvail \in Nat
         /\ BufStart <= pos /\ Len(buf) \in Nat /\ cur \in Nat
         /\ cur + BuffAvail = Len(buf) /\ left \in Nat /\ call.n \in Nat
BY CallTypes DEF SrcInv, SrcTypeOK, BufStart, BuffAvail

LEMMA NextByteIsAnswer ==
  ASSUME SrcInv, BuffAvail > 0 PROVE Bytes(<<buf[cur + 1]>>) \in Answers
<1>1. cur + 1 \in 1..Len(buf)
  BY Bounds
<1>2. buf[cur + 1] \in Nat
  BY <1>1 DEF SrcInv, SrcTypeOK
<1>3. <<buf[cur + 1]>> \in Seq(Nat)
  BY <1>2
<1>. QED BY <1>3, OutcomeIsAnswer

LEMMA ConsumeKeepsInv == ASSUME SrcInv, Consume PROVE SrcInv'
<1>1. Portion \in Nat /\ Portion <= BuffAvail /\ Portion <= left
  BY Bounds DEF Portion
<1>2. /\ pos' \in Nat /\ high' \in Nat /\ pos' <= high'
      /\ cur' \in 0..Len(buf') /\ cur' <= pos'
      /\ WindowIsFile' /\ PinnedStaysBuffered' /\ HistoryStaysBuffered'
  BY SMTT(30), <1>1, Bounds, MoveKeepsWindow DEF Consume
<1>3. left' \in Nat
  <2>1. left' = left - Portion
    BY DEF Consume
  <2>. QED BY <1>1, <2>1, Bounds
<1>4. got' \in Seq(Nat)
  <2>1. SubSeq(buf, cur + 1, cur + Portion) \in Seq(Nat)
    <3>1. buf \in Seq(Nat) /\ cur \in Nat
      BY DEF SrcInv, SrcTypeOK
    <3>2. cur + Portion <= Len(buf)
      BY <1>1, <3>1, Bounds DEF BuffAvail
    <3>3. \A i \in (cur + 1)..(cur + Portion) : buf[i] \in Nat
      BY <1>1, <3>1, <3>2
    <3>. QED BY <1>1, <3>1, <3>2, <3>3, SubSeqProperties
  <2>2. got \in Seq(Nat)
    BY DEF SrcInv, SrcTypeOK
  <2>3. got \o SubSeq(buf, cur + 1, cur + Portion) \in Seq(Nat)
    BY <2>1, <2>2, ConcatProperties
  <2>. QED BY <2>2, <2>3 DEF Consume
<1>5. UNCHANGED <<file, offset, buf, bufSize, pin, landed, call, jumped, answer,
                  from>>
  BY DEF Consume
<1>6. SrcTypeOK'
  BY <1>2, <1>3, <1>4, <1>5 DEF SrcInv, SrcTypeOK
<1>. QED BY <1>2, <1>5, <1>6 DEF SrcInv

LEMMA SeekAwayKeepsInv == ASSUME SrcInv, SeekAway PROVE SrcInv'
<1>1. /\ offset' = call.n /\ buf' = <<>> /\ cur' = 0 /\ pos' = call.n
      /\ landed' = call.n /\ high' = call.n /\ jumped' = TRUE /\ pin' = NoPin
      /\ UNCHANGED <<file, bufSize, pin, call, left, got, answer, from>>
  BY DEF SeekAway, SrcInv
<1>2. call.n \in Nat
  BY Bounds
<1>3. <<>> \in Seq(Nat) /\ Len(<<>>) = 0 /\ DOMAIN <<>> = {}
  OBVIOUS
<1>4. WindowIsFile'
  BY <1>1, <1>2, <1>3 DEF WindowIsFile, BufStart, BuffAvail
<1>5. PinnedStaysBuffered' /\ HistoryStaysBuffered'
  BY <1>1, <1>2 DEF PinnedStaysBuffered, HistoryStaysBuffered, BufStart
<1>6. SrcTypeOK'
  BY <1>1, <1>2, <1>3 DEF SrcInv, SrcTypeOK
<1>. QED BY <1>1, <1>2, <1>4, <1>5, <1>6 DEF SrcInv

LEMMA ScanOnKeepsInv == ASSUME SrcInv, ScanOn PROVE SrcInv'
<1>1. pos + BuffAvail - Remainder \in Nat
      /\ pos <= pos + BuffAvail - Remainder
      /\ pos + BuffAvail - Remainder <= pos + BuffAvail
  BY SMTT(30), Bounds, SourceAssumption DEF ScanOn, Remainder
<1>2. BufStart <= pos + BuffAvail - Remainder
  BY <1>1, Bounds
<1>3. /\ pos' \in Nat /\ high' \in Nat /\ pos' <= high'
      /\ cur' \in 0..Len(buf') /\ cur' <= pos'
      /\ WindowIsFile' /\ PinnedStaysBuffered' /\ HistoryStaysBuffered'
  BY <1>1, <1>2, MoveKeepsWindow DEF ScanOn
<1>. QED BY <1>3 DEF ScanOn, SrcInv, SrcTypeOK, callVars

LEMMA InvokeKeepsInv == ASSUME SrcInv, Invoke PROVE SrcInv'
<1>1. call'.n \in Nat
  BY CallTypes DEF Invoke
<1>2. <<>> \in Seq(Nat)
  OBVIOUS
<1>3. /\ call' \in Calls \cup {Idle} /\ left' \in Nat /\ got' \in Seq(Nat)
      /\ jumped' \in BOOLEAN /\ answer' \in Answers /\ from' \in Nat
  BY <1>1, <1>2, OutcomeIsAnswer DEF Invoke, SrcInv, SrcTypeOK
<1>4. call'.op = "seek" => pin' = NoPin
  BY DEF Invoke, windowVars
<1>5. UNCHANGED <<file, windowVars, landed, high>>
  BY DEF Invoke
<1>. QED BY <1>3, <1>4, <1>5, WindowUnchanged
         DEF SrcInv, SrcTypeOK, windowVars

LEMMA SetPinKeepsInv ==
  ASSUME SrcInv, NEW p \in 0..MaxSize, SetPin(p) PROVE SrcInv'
<1>1. p \in Nat
  BY SourceAssumption
<1>2. call.op # "seek"
  BY CallTypes DEF SetPin
<1>3. PinnedStaysBuffered'
  BY DEF SetPin, PinnedStaysBuffered, BufStart
<1>. QED
  BY <1>1, <1>2, <1>3
  DEF SetPin, SrcInv, SrcTypeOK, callVars, WindowIsFile, HistoryStaysBuffered,
      BufStart, BuffAvail

LEMMA ClearPinKeepsInv == ASSUME SrcInv, ClearPin PROVE SrcInv'
BY DEF ClearPin, SrcInv, SrcTypeOK, callVars, WindowIsFile,
       PinnedStaysBuffered, HistoryStaysBuffered, BufStart, BuffAvail

LEMMA StepKeepsInv == ASSUME SrcInv, Step PROVE SrcInv'
<1>1. CASE Fill
  BY <1>1, FillKeepsInv
<1>2. CASE Exhausted
  BY <1>2, ExhaustedKeepsInv
<1>3. CASE Next
  <2>1. pos + 1 \in Nat /\ BufStart <= pos + 1 /\ pos + 1 <= pos + BuffAvail
    BY SMTT(30), <1>3, Bounds DEF Next
  <2>. QED BY <1>3, <2>1, NextByteIsAnswer, MoveAndReturn DEF Next
<1>4. CASE Peek
  BY <1>4, NextByteIsAnswer, OnlyReturn DEF Peek
<1>5. CASE Consume
  BY <1>5, ConsumeKeepsInv
<1>6. CASE Consumed
  <2>1. Bytes(got) \in Answers /\ Outcome("ok") \in Answers
    BY OutcomeIsAnswer DEF SrcInv, SrcTypeOK
  <2>. QED BY <1>6, <2>1, OnlyReturn DEF Consumed
<1>7. CASE SeekWithin
  <2>1. call.n \in Nat /\ BufStart <= call.n /\ call.n <= pos + BuffAvail
    BY <1>7, Bounds DEF SeekWithin, InWindow
  <2>. QED BY <1>7, <2>1, OutcomeIsAnswer, MoveAndReturn DEF SeekWithin
<1>8. CASE SeekAway
  BY <1>8, SeekAwayKeepsInv
<1>9. CASE SeekArrived
  BY <1>9, OutcomeIsAnswer, OnlyReturn DEF SeekArrived
<1>10. CASE SeekRefused
  BY <1>10, OutcomeIsAnswer, OnlyReturn DEF SeekRefused
<1>11. CASE ScanFound
  <2>1. PICK m \in Matches : MoveTo(m)
    BY <1>11 DEF ScanFound
  <2>2. m \in Nat /\ BufStart <= m /\ m <= pos + BuffAvail
    BY <2>1, Bounds, SourceAssumption DEF Matches
  <2>. QED BY <1>11, <2>1, <2>2, OutcomeIsAnswer, MoveAndReturn DEF ScanFound
<1>12. CASE ScanOn
  BY <1>12, ScanOnKeepsInv
<1>. QED BY <1>1, <1>2, <1>3, <1>4, <1>5, <1>6, <1>7, <1>8, <1>9, <1>10,
            <1>11, <1>12 DEF Step

LEMMA NextKeepsInv == SrcInv /\ [SrcNext]_srcVars => SrcInv'
<1> SUFFICES ASSUME SrcInv, [SrcNext]_srcVars PROVE SrcInv'
  OBVIOUS
<1>1. CASE Invoke
  BY <1>1, InvokeKeepsInv
<1>2. CASE Step
  BY <1>2, StepKeepsInv
<1>3. CASE \E p \in 0..MaxSize : SetPin(p)
  BY <1>3, SetPinKeepsInv
<1>4. CASE ClearPin
  BY <1>4, ClearPinKeepsInv
<1>5. CASE Grow
  <2>1. /\ UNCHANGED <<windowVars, callVars, landed, high>>
        /\ file' = [file EXCEPT !.size = @ + 1]
    BY <1>5 DEF Grow
  <2>2. file' \in [size : Nat, follow : BOOLEAN, seekable : BOOLEAN]
    BY SMTT(30), <2>1 DEF SrcInv, SrcTypeOK
  <2>. QED BY <2>1, <2>2, WindowUnchanged
           DEF SrcInv, SrcTypeOK, windowVars, callVars
<1>6. CASE UNCHANGED srcVars
  BY <1>6 DEF srcVars, SrcInv, SrcTypeOK, WindowIsFile, PinnedStaysBuffered,
              HistoryStaysBuffered, BufStart, BuffAvail
<1>. QED BY <1>1, <1>2, <1>3, <1>4, <1>5, <1>6 DEF SrcNext

\* The inductive invariant holds in every state of every source.
THEOREM SourceInvariant == SrcSpec => []SrcInv
BY InitInv, NextKeepsInv, PTL DEF SrcSpec

\* Type correctness; in particular the window never outgrows the buffer.
THEOREM SourceTypeCorrect == SrcSpec => []SrcTypeOK
BY SourceInvariant, PTL DEF SrcInv

\* Shifts, growths, short reads and seeks never misplace a byte: the window is
\* the stretch of the file that pos_ says it is, and reading continues at its
\* end.
THEOREM WindowAlwaysFile == SrcSpec => []WindowIsFile
BY SourceInvariant, PTL DEF SrcInv

\* A pin holds, however much is read past it.
THEOREM PinsHold == SrcSpec => []PinnedStaysBuffered
BY SourceInvariant, PTL DEF SrcInv

\* The last MIN_HIST_SIZE bytes consumed can be gone back to without a seek.
THEOREM HistoryHeld == SrcSpec => []HistoryStaysBuffered
BY SourceInvariant, PTL DEF SrcInv
-----------------------------------------------------------------------------
(***************************************************************************)
(* The calls.                                                              *)
(***************************************************************************)

\* What is known of a call under way: how far it has come since it was made,
\* and that what it has passed over was not what it looks for.
CallInv ==
  /\ offset <= file.size
  /\ file.seekable \/ landed = 0
  /\ jumped => call.op = "seek" /\ file.seekable /\ pos = call.n
  /\ call # Idle => answer = Outcome("none")
  /\ call.op \in {"next", "peek", "seek"} /\ ~jumped => pos = from
  /\ call.op = "seek" => call.n <= file.size
  /\ call.op \in {"skip", "read"} => from <= pos /\ from + call.n = pos + left
  /\ call.op = "read" => got = [i \in 1..(pos - from) |-> from + i - 1]
  /\ call.op = "scan" =>
       /\ from <= pos
       /\ \A m \in Marks : from <= m => pos <= m
       /\ pos = from \/ BuffAvail >= NeedleLen - 1

\* A sequence of consecutive bytes.
LEMMA RunOfBytes ==
  ASSUME NEW n \in Nat, NEW k, NEW s \in Seq(Nat), Len(s) = n,
         \A i \in 1..n : s[i] = k + i - 1
  PROVE  s = [i \in 1..n |-> k + i - 1]
OBVIOUS

LEMMA CallFacts ==
  ASSUME SrcInv, CallInv
  PROVE  /\ pos \in Nat /\ from \in Nat /\ left \in Nat /\ cur \in Nat
         /\ call.n \in Nat /\ BuffAvail \in Nat /\ file.size \in Nat
         /\ offset = pos + BuffAvail /\ pos + BuffAvail <= file.size
         /\ Len(buf) \in Nat /\ offset \in Nat
BY Bounds DEF SrcInv, SrcTypeOK, CallInv, WindowIsFile

\* A call that returns leaves nothing to know but where the file ends.
LEMMA ReturnEndsCall ==
  ASSUME SrcInv, CallInv, NEW a, Return(a), UNCHANGED <<file, landed>>,
         offset' <= file'.size
  PROVE  CallInv'
<1>1. call' = Idle /\ jumped' = FALSE
  BY DEF Return
<1>2. call'.op = "idle"
  BY <1>1, CallTypes
<1>. QED BY <1>1, <1>2 DEF CallInv

\* read() takes no more than the file has, and only if that is nothing does it
\* take nothing.
LEMMA ReadBounds ==
  ASSUME SrcInv, CallInv, NEW n \in Nat, Read(n)
  PROVE  /\ offset' \in Nat /\ offset' <= file.size
         /\ n = 0 => offset' = offset /\ offset = file.size
         /\ BuffAvail' = BuffAvail + n
<1>1. /\ Dropped \in 0..cur /\ cur \in 0..Len(buf) /\ Len(buf) <= bufSize
      /\ bufSize \in Nat /\ offset \in Nat /\ file.size \in Nat
      /\ Len(buf) \in Nat /\ offset <= file.size /\ pos \in Nat
  BY DroppedFits, CallFacts DEF SrcInv, SrcTypeOK, CallInv
<1>2. RoomySize - (Len(buf) - Dropped) \in Nat \ {0}
  BY <1>1, SourceAssumption DEF RoomySize
<1>3. n \in DoRead(RoomySize - (Len(buf) - Dropped)) /\ offset' = offset + n
  BY DEF Read
<1> HIDE DEF Read
<1>4. n # 0 => offset + n <= file.size
  BY <1>3 DEF DoRead
<1>5. n = 0 => offset = file.size
  <2> SUFFICES ASSUME n = 0, offset < file.size PROVE FALSE
    BY <1>1
  <2>1. 1 \in 1..(RoomySize - (Len(buf) - Dropped)) /\ offset + 1 <= file.size
    BY <1>1, <1>2
  <2>2. n \in 1..(RoomySize - (Len(buf) - Dropped))
    BY <1>3, <2>1 DEF DoRead
  <2>. QED BY <2>2
<1>6. BuffAvail' = BuffAvail + n
  <2>1. WindowIsFile'
    BY ReadKeepsWindow
  <2>2. cur' = cur - Dropped /\ pos' = pos
    BY DEF Read
  <2>3. BuffAvail' \in Nat
    <3>1. cur' \in 0..Len(buf') /\ buf' \in Seq(Nat)
      BY ReadKeepsWindow
    <3>. QED BY <3>1 DEF BuffAvail
  <2>4. offset' = pos' + BuffAvail'
    BY <2>1 DEF WindowIsFile
  <2>5. offset = pos + BuffAvail /\ BuffAvail \in Nat /\ pos \in Nat
    BY CallFacts
  <2>6. offset + n = pos + BuffAvail'
    BY <1>3, <2>2, <2>4
  <2>7. PICK x \in Int : x = BuffAvail'
    BY <2>3
  <2>8. offset + n = pos + x
    BY <2>6, <2>7
  <2>9. PICK y \in Int : y = BuffAvail
    BY <2>5
  <2>10. offset = pos + y /\ pos \in Int
    BY <2>5, <2>9
  <2>11. x = y + n
    BY <2>8, <2>10
  <2>. QED BY <2>7, <2>9, <2>11
<1>. QED BY <1>1, <1>3, <1>4, <1>5, <1>6

LEMMA FillKeepsCall == ASSUME SrcInv, CallInv, Fill PROVE CallInv'
<1>1. PICK n \in 1..MaxSize : Read(n)
  BY DEF Fill
<1>2. n \in Nat
  BY SourceAssumption
<1>3. offset' <= file.size /\ BuffAvail' = BuffAvail + n
  BY <1>1, <1>2, ReadBounds
<1>4. /\ UNCHANGED <<file, pos, landed>>
      /\ UNCHANGED <<call, left, got, jumped, answer, from>>
  BY <1>1 DEF Fill, Read, callVars
<1>5. BuffAvail \in Nat
  BY Bounds
<1>6. BuffAvail >= NeedleLen - 1 => BuffAvail' >= NeedleLen - 1
  BY <1>2, <1>3, <1>5, SourceAssumption
<1>. QED BY <1>3, <1>4, <1>6 DEF CallInv

LEMMA ExhaustedKeepsCall == ASSUME SrcInv, CallInv, Exhausted PROVE CallInv'
<1>1. Read(0)
  BY DEF Exhausted
<1>2. PICK a : Return(a)
  BY DEF Exhausted
<1>3. offset' <= file.size /\ UNCHANGED <<file, landed>>
  BY <1>1, ReadBounds DEF Read
<1>. QED BY <1>2, <1>3, ReturnEndsCall

LEMMA InvokeKeepsCall == ASSUME SrcInv, CallInv, Invoke PROVE CallInv'
<1>1. /\ call' \in Calls /\ UNCHANGED <<file, offset, pos, landed>>
      /\ from' = pos /\ jumped' = FALSE /\ got' = <<>>
      /\ answer' = Outcome("none")
      /\ left' = IF call'.op \in {"skip", "read"} THEN call'.n ELSE 0
      /\ call'.op = "seek" => call'.n <= file.size
  BY DEF Invoke, windowVars
<1>2. pos \in Nat
  BY CallFacts
<1>3. <<>> = [i \in 1..(pos - pos) |-> pos + i - 1]
  BY <1>2
<1>4. call'.op = "read" => got' = [i \in 1..(pos' - from') |-> from' + i - 1]
  BY <1>1, <1>3
<1>5. \A m \in Marks : from' <= m => pos' <= m
  BY <1>1
<1>. QED BY <1>1, <1>2, <1>4, <1>5 DEF CallInv

\* What readFunc is given next continues what it has been given.
LEMMA ConsumeKeepsCall == ASSUME SrcInv, CallInv, Consume PROVE CallInv'
<1>1. /\ Portion \in Nat /\ Portion <= BuffAvail /\ Portion <= left
      /\ pos \in Nat /\ from \in Nat /\ left \in Nat /\ cur \in Nat
      /\ cur + BuffAvail = Len(buf) /\ BuffAvail \in Nat /\ call.n \in Nat
  BY SMTT(30), Bounds, CallFacts DEF Portion
<1>2. /\ UNCHANGED <<file, offset, buf, landed, call, jumped, answer, from>>
      /\ pos' = pos + Portion /\ left' = left - Portion
      /\ call.op \in {"skip", "read"}
      /\ got' = IF call.op = "read"
                THEN got \o SubSeq(buf, cur + 1, cur + Portion) ELSE got
  BY DEF Consume, MoveTo
<1>3. from <= pos /\ from + call.n = pos + left /\ ~jumped
  BY <1>2 DEF CallInv
<1>4. from' <= pos' /\ from' + call'.n = pos' + left'
  BY <1>1, <1>2, <1>3
<1>5. ASSUME call.op = "read"
      PROVE  got' = [i \in 1..(pos' - from') |-> from' + i - 1]
  <2> DEFINE part == SubSeq(buf, cur + 1, cur + Portion)
  <2>1. got = [i \in 1..(pos - from) |-> from + i - 1] /\ got \in Seq(Nat)
    BY <1>5 DEF CallInv, SrcInv, SrcTypeOK
  <2>2. /\ buf \in Seq(Nat) /\ \A i \in 1..Len(buf) : buf[i] = pos - cur + i - 1
    BY SMTT(30) DEF SrcInv, SrcTypeOK, WindowIsFile, BufStart
  <2>3. /\ part \in Seq(Nat) /\ Len(part) = Portion
        /\ \A i \in 1..Portion : part[i] = buf[cur + i]
    <3>1. \A i \in (cur + 1)..(cur + Portion) : buf[i] \in Nat
      BY <1>1, <2>2
    <3>. QED BY <1>1, <2>2, <3>1, SubSeqProperties
  <2>4. \A i \in 1..Portion : part[i] = pos + i - 1
    BY SMTT(30), <1>1, <2>2, <2>3
  <2> HIDE DEF part
  <2>5. from <= pos
    BY <1>5 DEF CallInv
  <2>6. Len(got) = pos - from
    BY <1>1, <2>1, <2>5
  <2>7. /\ got \o part \in Seq(Nat) /\ Len(got \o part) = Len(got) + Len(part)
        /\ \A i \in 1..Len(got) + Len(part) :
             (got \o part)[i] =
               IF i <= Len(got) THEN got[i] ELSE part[i - Len(got)]
    BY ZenonT(30), <2>1, <2>3, ConcatProperties
  <2>8. \A i \in 1..(pos' - from') : (got \o part)[i] = from + i - 1
    BY SMTT(30), <1>1, <1>2, <2>1, <2>3, <2>4, <2>5, <2>6, <2>7
  <2>9. got' = got \o part
    BY <1>2, <1>5 DEF part
  <2>10. pos' - from' \in Nat /\ Len(got \o part) = pos' - from'
    BY <1>1, <1>2, <2>3, <2>5, <2>6, <2>7
  <2>11. got \o part = [i \in 1..(pos' - from') |-> from + i - 1]
    BY <2>7, <2>8, <2>10, RunOfBytes
  <2>. QED BY <1>2, <2>9, <2>11
<1>. QED BY <1>2, <1>3, <1>4, <1>5 DEF CallInv

LEMMA SeekAwayKeepsCall == ASSUME SrcInv, CallInv, SeekAway PROVE CallInv'
<1>1. /\ call.op = "seek" /\ file.seekable
      /\ offset' = call.n /\ pos' = call.n /\ jumped' = TRUE
      /\ UNCHANGED <<file, call, left, got, answer, from>>
  BY DEF SeekAway
<1>. QED BY <1>1 DEF CallInv

\* What is skipped over does not hold the beginning of the needle.
LEMMA ScanOnKeepsCall == ASSUME SrcInv, CallInv, ScanOn PROVE CallInv'
<1>1. /\ call.op = "scan" /\ BuffAvail >= NeedleLen /\ Matches = {}
      /\ pos' = pos + BuffAvail - Remainder
      /\ cur' = cur + ((pos + BuffAvail - Remainder) - pos)
      /\ UNCHANGED <<file, offset, buf, landed, call, left, got, jumped, answer,
                     from>>
  BY DEF ScanOn, MoveTo, callVars
<1>2. /\ pos \in Nat /\ BuffAvail \in Nat /\ cur \in Nat /\ from \in Nat
      /\ Remainder \in Nat /\ Remainder = NeedleLen - 1 /\ NeedleLen \in Nat
      /\ Len(buf) \in Nat /\ BuffAvail = Len(buf) - cur
  BY CallFacts, SourceAssumption DEF Remainder, BuffAvail
<1>3. from <= pos /\ \A m \in Marks : from <= m => pos <= m
  BY <1>1 DEF CallInv
<1>4. \A m \in Marks : from' <= m => pos' <= m
  <2> SUFFICES ASSUME NEW m \in Marks, from <= m, ~(pos' <= m) PROVE FALSE
    BY <1>1
  <2>1. m \in Nat
    BY SourceAssumption
  <2>2. m + NeedleLen <= pos + BuffAvail
    BY <1>1, <1>2, <2>1
  <2>. QED BY <1>1, <1>3, <2>2 DEF Matches
<1>5. BuffAvail' >= NeedleLen - 1
  BY <1>1, <1>2 DEF BuffAvail
<1>6. from' <= pos'
  BY <1>1, <1>2, <1>3
<1>7. ~jumped
  BY <1>1 DEF CallInv
<1>. QED BY <1>1, <1>4, <1>5, <1>6, <1>7 DEF CallInv

LEMMA CallStep ==
  ASSUME SrcInv, CallInv, [SrcNext]_srcVars PROVE CallInv'
<1>1. CASE Invoke
  BY <1>1, InvokeKeepsCall
<1>2. CASE Step
  <2>1. CASE Next \/ Peek \/ Consumed \/ SeekWithin \/ SeekArrived \/ SeekRefused
             \/ ScanFound
    <3>1. UNCHANGED <<file, offset, landed>> /\ \E a : Return(a)
      BY <2>1 DEF Next, Peek, Consumed, SeekWithin, SeekArrived, SeekRefused,
                  ScanFound, windowVars
    <3>2. offset' <= file'.size
      BY <3>1 DEF CallInv
    <3>. QED BY <3>1, <3>2, ReturnEndsCall
  <2>. QED
    BY <1>2, <2>1, FillKeepsCall, ExhaustedKeepsCall, ConsumeKeepsCall,
       SeekAwayKeepsCall, ScanOnKeepsCall
    DEF Step
<1>3. CASE (\E p \in 0..MaxSize : SetPin(p)) \/ ClearPin \/ UNCHANGED srcVars
  <2>1. UNCHANGED <<file, offset, buf, cur, pos, landed, call, left, got, jumped,
                    answer, from>>
    BY <1>3 DEF SetPin, ClearPin, srcVars, callVars
  <2>. QED BY <2>1 DEF CallInv, BuffAvail
<1>4. CASE Grow
  <2>1. /\ UNCHANGED <<offset, buf, cur, pos, landed, call, left, got, jumped,
                       answer, from>>
        /\ file' = [file EXCEPT !.size = @ + 1]
    BY <1>4 DEF Grow, windowVars, callVars
  <2>2. file'.size = file.size + 1 /\ file'.seekable = file.seekable
    BY <2>1 DEF SrcInv, SrcTypeOK
  <2>3. offset' <= file'.size /\ (call'.op = "seek" => call'.n <= file'.size)
    BY <2>1, <2>2, CallFacts DEF CallInv
  <2>. QED BY <2>1, <2>2, <2>3 DEF CallInv, BuffAvail
<1>. QED BY <1>1, <1>2, <1>3, <1>4 DEF SrcNext

\* What is known of the calls holds in every state.
THEOREM CallsTracked == SrcSpec => []CallInv
<1>1. SrcInit => CallInv
  <2>1. Idle.op = "idle"
    BY CallTypes
  <2>. QED BY <2>1 DEF SrcInit, CallInv
<1>. QED BY <1>1, CallStep, SourceInvariant, PTL DEF SrcSpec

-----------------------------------------------------------------------------
(***************************************************************************)
(* The buffered source implements the stream.                              *)
(***************************************************************************)
\* The two modules name the same things.
LEMMA SameNames ==
  /\ Stream!Idle = Idle /\ Stream!Calls = Calls
  /\ \A k : Stream!Outcome(k) = Outcome(k)
  /\ \A f, n : Stream!Bytes(f, n) = Bytes([i \in 1..n |-> f + i - 1])
BY DEF Stream!Idle, Idle, Stream!Calls, Calls, Stream!Outcome, Outcome,
       Stream!Bytes, Bytes

LEMMA ReturnIsStreams ==
  ASSUME NEW a, Return(a), UNCHANGED file
  PROVE  Stream!Return(a, pos')
BY SameNames DEF Return, Stream!Return

\* A step within a call, or of a pin, is not seen.
LEMMA Unseen ==
  ASSUME UNCHANGED <<file, call, answer, from>>, call = Idle => pos' = pos
  PROVE  UNCHANGED Stream!streamVars
BY DEF Stream!streamVars

\* Where a call that scans ends up.
LEMMA LeastFound ==
  ASSUME NEW S \in SUBSET Nat, NEW m \in S, \A k \in S : m <= k
  PROVE  Stream!Min(S) = m
<1>1. \A x \in S : (\A y \in S : x <= y) => x = m
  OBVIOUS
<1>. QED BY <1>1 DEF Stream!Min

LEMMA GreaterOfTwo ==
  ASSUME NEW a \in Int, NEW b \in Int
  PROVE  Stream!Max({a, b}) = IF a >= b THEN a ELSE b
<1>1. \A x \in {a, b} : (\A y \in {a, b} : x >= y)
                          => x = IF a >= b THEN a ELSE b
  OBVIOUS
<1>2. \E x \in {a, b} : \A y \in {a, b} : x >= y
  OBVIOUS
<1>. QED BY <1>1, <1>2 DEF Stream!Max

\* The byte returned is that of the position the call was made at.
LEMMA NextSucceeds ==
  ASSUME SrcInv, CallInv, Next \/ Peek PROVE Stream!Succeed
<1>1. /\ call.op \in {"next", "peek"} /\ BuffAvail > 0
      /\ Return(Bytes(<<buf[cur + 1]>>)) /\ UNCHANGED file
      /\ pos' = IF call.op = "next" THEN pos + 1 ELSE pos
  BY DEF Next, Peek, MoveTo, windowVars
<1>2. pos = from
  BY <1>1 DEF CallInv
<1>3. from < file.size /\ from \in Nat
  BY <1>1, <1>2, CallFacts
<1>4. <<buf[cur + 1]>> = [i \in 1..1 |-> from + i - 1]
  <2>1. cur + 1 \in 1..Len(buf)
    BY <1>1, Bounds
  <2>2. buf[cur + 1] = pos
    <3>1. \A i \in DOMAIN buf : buf[i] = pos - cur + i - 1
      BY DEF SrcInv, WindowIsFile, BufStart
    <3>2. DOMAIN buf = 1..Len(buf) /\ pos \in Nat /\ cur \in Nat
      BY CallFacts DEF SrcInv, SrcTypeOK
    <3>. QED BY <2>1, <3>1, <3>2
  <2>3. <<from>> = [i \in 1..1 |-> from + i - 1]
    BY <1>3
  <2>. QED BY <1>2, <2>2, <2>3
<1>5. Stream!Return(Stream!Bytes(from, 1), pos')
  BY <1>1, <1>4, ReturnIsStreams, SameNames
<1>6. call # Idle
  BY <1>1, CallTypes
<1>. QED BY <1>1, <1>2, <1>3, <1>5, <1>6 DEF Stream!Succeed

\* skip and readFunc have consumed what they were asked to, and no more.
LEMMA ConsumedSucceeds ==
  ASSUME SrcInv, CallInv, Consumed PROVE Stream!Succeed
<1>1. /\ call.op \in {"skip", "read"} /\ left = 0
      /\ Return(IF call.op = "read" THEN Bytes(got) ELSE Outcome("ok"))
      /\ UNCHANGED file /\ pos' = pos
  BY DEF Consumed, windowVars
<1>2. /\ from + call.n = pos /\ pos \in Nat /\ from \in Nat /\ call.n \in Nat
      /\ pos <= file.size
  BY <1>1, CallFacts DEF CallInv
<1>3. call.op = "read" => got = [i \in 1..call.n |-> from + i - 1]
  <2>1. pos - from = call.n
    BY <1>2
  <2>. QED BY <2>1 DEF CallInv
<1>4. call # Idle
  BY <1>1, CallTypes
<1>5. CASE call.op = "read"
  <2>1. Stream!Return(Stream!Bytes(from, call.n), from + call.n)
    BY <1>1, <1>2, <1>3, <1>5, ReturnIsStreams, SameNames
  <2>. QED BY <1>2, <1>4, <1>5, <2>1 DEF Stream!Succeed
<1>6. CASE call.op = "skip"
  <2>1. Stream!Return(Stream!Outcome("ok"), from + call.n)
    BY <1>1, <1>2, <1>6, ReturnIsStreams, SameNames
  <2>. QED BY <1>2, <1>4, <1>6, <2>1 DEF Stream!Succeed
<1>. QED BY <1>1, <1>5, <1>6

LEMMA SeekSucceeds ==
  ASSUME SrcInv, CallInv, SeekWithin \/ SeekArrived PROVE Stream!Succeed
<1>1. /\ call.op = "seek" /\ Return(Outcome("ok")) /\ UNCHANGED file
  BY DEF SeekWithin, SeekArrived
<1>2. pos' = call.n /\ call.n < file.size
  <2>1. CASE SeekWithin
    BY <2>1, CallFacts DEF SeekWithin, MoveTo, InWindow
  <2>2. CASE SeekArrived
    BY <2>2, CallFacts DEF SeekArrived, CallInv, windowVars
  <2>. QED BY <2>1, <2>2
<1>3. Stream!Return(Stream!Outcome("ok"), call.n)
  BY <1>1, <1>2, ReturnIsStreams, SameNames
<1>. QED BY <1>1, <1>2, <1>3 DEF Stream!Succeed

\* Nothing the scan has skipped was the beginning of the needle, so that the
\* first one in the window is the first one from where it started.
LEMMA ScanSucceeds ==
  ASSUME SrcInv, CallInv, ScanFound PROVE Stream!Succeed
<1>1. /\ call.op = "scan" /\ Return(Outcome("ok")) /\ UNCHANGED file
  BY DEF ScanFound
<1>2. PICK m \in Matches : (\A k \in Matches : m <= k) /\ pos' = m
  BY DEF ScanFound, MoveTo
<1>3. /\ from <= pos /\ \A k \in Marks : from <= k => pos <= k
  BY <1>1 DEF CallInv
<1>4. call # Idle
  BY <1>1, CallTypes
<1>5. Marks \subseteq Nat /\ NeedleLen \in Nat
  BY SourceAssumption
<1>6. Stream!Found = {k \in Marks : from <= k /\ k + NeedleLen <= file.size}
  BY <1>4 DEF Stream!Found
<1>7. m \in Stream!Found
  BY <1>2, <1>3, <1>5, <1>6, CallFacts DEF Matches
<1>8. \A k \in Stream!Found : m <= k
  <2> SUFFICES ASSUME NEW k \in Stream!Found, k < m PROVE FALSE
    BY <1>5, <1>6, <1>7
  <2>1. k \in Marks /\ pos <= k /\ k \in Nat
    BY <1>3, <1>5, <1>6
  <2>2. k + NeedleLen <= pos + BuffAvail
    BY <1>2, <1>5, <2>1, CallFacts DEF Matches
  <2>3. k \in Matches
    BY <2>1, <2>2 DEF Matches
  <2>. QED BY <1>2, <1>5, <2>1, <2>3 DEF Matches
<1>9. Stream!Min(Stream!Found) = m
  BY <1>5, <1>6, <1>7, <1>8, LeastFound
<1>10. Stream!Return(Stream!Outcome("ok"), m)
  BY <1>1, <1>2, ReturnIsStreams, SameNames
<1>. QED BY <1>1, <1>7, <1>9, <1>10 DEF Stream!Succeed

\* A call gives up only at the end of the file, where the stream's does.
LEMMA ExhaustedFails ==
  ASSUME SrcInv, CallInv, Exhausted PROVE Stream!Fail
<1>1. /\ Starved /\ ~file.follow /\ Read(0)
      /\ Return(Outcome(CASE call.op \in {"next", "peek"} -> "eof"
                          [] call.op = "scan" -> "notfound"
                          [] OTHER -> "error"))
  BY DEF Exhausted
<1>2. pos' = pos /\ file' = file
  BY <1>1 DEF Read
<1>3. offset = file.size
  BY <1>1, ReadBounds
<1>4. /\ file.size = pos + BuffAvail /\ BuffAvail \in Nat /\ pos \in Nat
      /\ from \in Nat /\ call.n \in Nat /\ left \in Nat /\ file.size \in Nat
  BY <1>3, CallFacts
<1>5. call.op \in {"next", "peek", "skip", "read", "scan", "seek"} /\ call # Idle
  BY <1>1, CallTypes DEF Starved
<1>6. CASE call.op \in {"next", "peek"}
  <2>1. Return(Outcome("eof"))
    BY <1>1, <1>6
  <2>2. from = file.size /\ pos' = from
    BY <1>1, <1>2, <1>4, <1>6 DEF Starved, CallInv
  <2>3. Stream!Return(Stream!Outcome("eof"), from)
    BY <1>2, <2>1, <2>2, ReturnIsStreams, SameNames
  <2>. QED BY <1>1, <1>5, <1>6, <2>2, <2>3 DEF Stream!Fail
<1>7. CASE call.op \in {"skip", "read"}
  <2>1. Return(Outcome("error"))
    BY <1>1, <1>7
  <2>2. BuffAvail = 0 /\ left > 0
    BY <1>1, <1>7 DEF Starved
  <2>3. from + call.n = pos + left
    BY <1>7 DEF CallInv
  <2>4. from + call.n > file.size /\ pos' = file.size
    BY <1>2, <1>4, <2>2, <2>3
  <2>5. Stream!Return(Stream!Outcome("error"), file.size)
    BY <1>2, <2>1, <2>4, ReturnIsStreams, SameNames
  <2>. QED BY <1>1, <1>5, <1>7, <2>4, <2>5 DEF Stream!Fail
<1>8. CASE call.op = "seek"
  <2>1. Return(Outcome("error"))
    BY <1>1, <1>8
  <2>2. jumped /\ BuffAvail = 0
    BY <1>1, <1>8 DEF Starved
  <2>3. pos' = call.n /\ call.n >= file.size
    BY <1>2, <1>4, <2>2 DEF CallInv
  <2>4. Stream!Return(Stream!Outcome("error"), call.n)
    BY <1>2, <2>1, <2>3, ReturnIsStreams, SameNames
  <2>. QED BY <1>1, <1>5, <1>8, <2>3, <2>4 DEF Stream!Fail
<1>9. CASE call.op = "scan"
  <2>1. Return(Outcome("notfound"))
    BY <1>1, <1>9
  <2>2. BuffAvail < NeedleLen /\ NeedleLen \in Nat \ {0} /\ Marks \subseteq Nat
    BY <1>1, <1>9, SourceAssumption DEF Starved
  <2>3. /\ from <= pos /\ \A m \in Marks : from <= m => pos <= m
        /\ pos = from \/ BuffAvail >= NeedleLen - 1
    BY <1>9 DEF CallInv
  <2>4. Stream!Found = {}
    <3>1. Stream!Found = {k \in Marks : from <= k /\ k + NeedleLen <= file.size}
      BY <1>5 DEF Stream!Found
    <3> SUFFICES ASSUME NEW k \in Marks, from <= k, k + NeedleLen <= file.size
        PROVE  FALSE
      BY <3>1
    <3>2. pos <= k /\ k \in Nat
      BY <2>2, <2>3
    <3>. QED BY <1>4, <2>2, <3>2
  <2>5. Stream!Max({from, file.size - (NeedleLen - 1)}) = pos
    <3>1. file.size - (NeedleLen - 1) \in Int
      BY <1>4, <2>2
    <3>2. pos = IF from >= file.size - (NeedleLen - 1) THEN from
                ELSE file.size - (NeedleLen - 1)
      BY <1>4, <2>2, <2>3
    <3>. QED BY <1>4, <3>1, <3>2, GreaterOfTwo
  <2>6. Stream!Return(Stream!Outcome("notfound"), pos)
    BY <1>2, <2>1, ReturnIsStreams, SameNames
  <2>. QED BY <1>1, <1>5, <1>9, <2>4, <2>5, <2>6 DEF Stream!Fail
<1>. QED BY <1>5, <1>6, <1>7, <1>8, <1>9

LEMMA RefusedRefuses ==
  ASSUME SrcInv, CallInv, SeekRefused PROVE Stream!Refuse
<1>1. /\ call.op = "seek" /\ ~jumped /\ ~file.seekable
      /\ Return(Outcome("error")) /\ UNCHANGED <<file, pos>>
  BY DEF SeekRefused, windowVars
<1>2. pos = from
  BY <1>1 DEF CallInv
<1>3. Stream!Return(Stream!Outcome("error"), from)
  BY <1>1, <1>2, ReturnIsStreams, SameNames
<1>4. call # Idle
  BY <1>1, CallTypes
<1>. QED BY <1>1, <1>3, <1>4 DEF Stream!Refuse

LEMMA InvokeInvokes == ASSUME Invoke PROVE Stream!Invoke
<1>1. /\ call = Idle /\ call' \in Calls /\ answer' = Outcome("none")
      /\ from' = pos /\ UNCHANGED <<file, pos>>
  BY DEF Invoke, windowVars
<1>2. call' # Idle
  BY <1>1, CallTypes DEF Calls, Idle
<1>. QED BY <1>1, <1>2, SameNames DEF Stream!Invoke

\* Every step of the source is one of the stream or none.
LEMMA SourceStepIsStreams ==
  ASSUME SrcInv, CallInv, [SrcNext]_srcVars
  PROVE  [Stream!StreamNext]_(Stream!streamVars)
<1>1. CASE Invoke
  BY <1>1, InvokeInvokes DEF Stream!StreamNext
<1>2. CASE Next \/ Peek \/ Consumed \/ SeekWithin \/ SeekArrived \/ ScanFound
  BY <1>2, NextSucceeds, ConsumedSucceeds, SeekSucceeds, ScanSucceeds
  DEF Stream!StreamNext
<1>3. CASE Exhausted
  BY <1>3, ExhaustedFails DEF Stream!StreamNext
<1>4. CASE SeekRefused
  BY <1>4, RefusedRefuses DEF Stream!StreamNext
<1>5. CASE Fill \/ Consume \/ SeekAway \/ ScanOn
  <2>1. call # Idle
    BY <1>5, CallTypes DEF Fill, Starved, Consume, SeekAway, ScanOn
  <2>2. UNCHANGED <<file, call, answer, from>>
    BY <1>5 DEF Fill, Read, Consume, SeekAway, ScanOn, callVars
  <2>. QED BY <2>1, <2>2, Unseen
<1>6. CASE (\E p \in 0..MaxSize : SetPin(p)) \/ ClearPin \/ UNCHANGED srcVars
  <2>1. UNCHANGED <<file, call, answer, from, pos>>
    BY <1>6 DEF SetPin, ClearPin, callVars, srcVars
  <2>. QED BY <2>1, Unseen
<1>7. CASE Grow
  <2>1. Stream!Grow
    BY <1>7 DEF Grow, Stream!Grow, callVars, windowVars
  <2>. QED BY <2>1 DEF Stream!StreamNext
<1>. QED BY <1>1, <1>2, <1>3, <1>4, <1>5, <1>6, <1>7 DEF SrcNext, Step

\* However much is buffered, dropped or read again: every call returns what is
\* in the file at the position where it was made, and reports an end only at
\* the end.
THEOREM SourceImplementsStream == SrcSpec => Stream!StreamSafety
<1>1. SrcInit => Stream!StreamInit
  BY SameNames DEF SrcInit, Stream!StreamInit
<1>2. SrcInv /\ CallInv /\ [SrcNext]_srcVars
        => [Stream!StreamNext]_(Stream!streamVars)
  BY SourceStepIsStreams
<1>. QED BY <1>1, <1>2, SourceInvariant, CallsTracked, PTL
         DEF SrcSpec, Stream!StreamSafety

\* In a pipe a rewind within the history is never refused.
THEOREM RewindsAlwaysServed == SrcSpec => RewindsServed
<1> DEFINE Served == call.op = "seek" /\ answer'.kind = "error" /\ ~file.seekable
                       => ~(call.n < pos /\ high <= call.n + MinHist)
<1>1. ASSUME SrcInv, CallInv, [SrcNext]_srcVars PROVE [Served]_srcVars
  <2> SUFFICES ASSUME SrcNext, call.op = "seek", answer'.kind = "error",
                      ~file.seekable, call.n < pos, high <= call.n + MinHist
               PROVE  FALSE
    BY <1>1
  <2>1. call # Idle /\ answer = Outcome("none")
    BY <1>1, CallTypes DEF CallInv
  <2>2. answer' # answer
    BY <2>1 DEF Outcome
  <2>3. ~jumped /\ landed = 0
    BY <1>1 DEF CallInv
  <2>4. Invoke \/ Step
    BY <2>2 DEF SrcNext, SetPin, ClearPin, Grow, callVars
  <2>5. SeekWithin \/ SeekRefused
    BY <2>1, <2>2, <2>3, <2>4
    DEF Step, Invoke, Fill, Exhausted, Starved, Next, Peek, Consume, Consumed,
        SeekAway, SeekArrived, ScanFound, ScanOn, callVars
  <2>6. ~SeekWithin
    BY DEF SeekWithin, Return, Outcome
  <2>7. ~InWindow(call.n)
    BY <2>5, <2>6 DEF SeekRefused
  <2>8. BufStart > call.n
    BY <1>1, <2>7, Bounds DEF InWindow
  <2>9. BufStart <= landed \/ BufStart + MinHist <= high
    BY <1>1 DEF SrcInv, HistoryStaysBuffered
  <2>10. high \in Nat /\ MinHist \in Nat /\ BufStart \in Nat /\ call.n \in Nat
    BY <1>1, Bounds, SourceAssumption DEF SrcInv, SrcTypeOK
  <2>. QED BY <2>3, <2>8, <2>9, <2>10
<1>. QED BY <1>1, SourceInvariant, CallsTracked, PTL DEF SrcSpec, RewindsServed

=============================================================================
