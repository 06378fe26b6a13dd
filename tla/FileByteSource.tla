--------------------------- MODULE FileByteSource ---------------------------
(***************************************************************************)
(* FileByteSource (src/src/au/FileByteSource.h): a window of the file, held *)
(* in a buffer, with at least MIN_HIST_SIZE bytes of what was already      *)
(* consumed, and more when a pin asks for it, so that a short rewind needs *)
(* no seek in the underlying file.                                         *)
(*                                                                         *)
(* A call is not atomic: each read() is a step, and between two of them    *)
(* another process may append to the file.  The byte at position p of the  *)
(* file is represented by p.                                               *)
(***************************************************************************)
EXTENDS Integers, Sequences

CONSTANTS
  MinHist,      \* MIN_HIST_SIZE
  InitBufSize,  \* INIT_BUFFER_SIZE
  MaxSize, MaxLen, Marks, NeedleLen  \* see ByteStream

ASSUME SourceAssumption ==
  /\ MinHist \in Nat
  /\ InitBufSize \in Nat \ {0}
  /\ MaxSize \in Nat
  /\ MaxLen \in Nat
  /\ Marks \subseteq Nat
  /\ NeedleLen \in Nat \ {0}

VARIABLES
  file,     \* its size, can it be sought in, is it followed (waitForData_)
  offset,   \* where the next fread continues
  buf,      \* the bytes from buf_ to limit_
  bufSize,  \* bufSize_
  cur,      \* cur_ - buf_
  pos,      \* pos_
  pin,      \* pinPos_, or NoPin
  call,     \* the call in progress, or Idle
  left,     \* skip and readFunc: len, what remains to be consumed
  got,      \* readFunc: what func has been given
  jumped,   \* seek: doSeek is done, the read() after it is not
  answer,   \* what the last call returned
  from,     \* history: pos_ when the call began
  landed,   \* history: where the last doSeek went
  high      \* history: the furthest pos_ has been since

windowVars == <<offset, buf, bufSize, cur, pos, pin>>
callVars == <<call, left, got, jumped, answer, from>>
srcVars == <<file, offset, buf, bufSize, cur, pos, pin,
             call, left, got, jumped, answer, from, landed, high>>

Idle == [op |-> "idle", n |-> 0]
Calls == [op : {"next", "peek", "scan"}, n : {0}]
           \cup [op : {"skip", "read"}, n : 1..MaxLen]
           \cup [op : {"seek"}, n : 0..MaxSize]

NoPin == -1
Outcome(kind) == [kind |-> kind, bytes |-> <<>>]
Bytes(s) == [kind |-> "bytes", bytes |-> s]

Answers == [kind : {"none", "ok", "eof", "error", "notfound", "bytes"},
            bytes : Seq(Nat)]

SrcTypeOK ==
  /\ file \in [size : Nat, follow : BOOLEAN, seekable : BOOLEAN]
  /\ offset \in Nat /\ pos \in Nat /\ left \in Nat
  /\ buf \in Seq(Nat)
  /\ bufSize \in Nat /\ Len(buf) <= bufSize
  /\ cur \in 0..Len(buf)
  /\ pin \in Nat \cup {NoPin}
  /\ call \in Calls \cup {Idle}
  /\ got \in Seq(Nat)
  /\ jumped \in BOOLEAN
  /\ answer \in Answers
  /\ from \in Nat /\ landed \in Nat /\ high \in Nat

SrcInit ==
  /\ file \in [size : 0..MaxSize, follow : BOOLEAN, seekable : BOOLEAN]
  /\ offset = 0 /\ buf = <<>> /\ bufSize = InitBufSize /\ cur = 0 /\ pos = 0
  /\ pin = NoPin
  /\ call = Idle /\ left = 0 /\ got = <<>> /\ jumped = FALSE
  /\ answer = Outcome("none")
  /\ from = 0 /\ landed = 0 /\ high = 0

-----------------------------------------------------------------------------
BuffAvail == Len(buf) - cur
BufStart == pos - cur

\* Move pos_ and cur_ together, within the window.
MoveTo(p) ==
  /\ pos' = p
  /\ cur' = cur + (p - pos)
  /\ high' = IF p > high THEN p ELSE high

Return(a) ==
  /\ answer' = a
  /\ call' = Idle
  /\ left' = 0 /\ got' = <<>> /\ jumped' = FALSE
  /\ UNCHANGED from

-----------------------------------------------------------------------------
(***************************************************************************)
(* read(): drop what is too far behind, make room, ask the file for more.  *)
(***************************************************************************)
Pinned == IF pin # NoPin /\ pin < pos THEN pos - pin ELSE 0

\* Mutant of HistSz: the pin instead of the history, not on top of it.
HistSzPinOnly == IF Pinned > 0 THEN Pinned ELSE MinHist
\* Mutant of HistSz: pins do nothing.
HistSzNoPin == MinHist
HistSz == IF Pinned > MinHist THEN Pinned ELSE MinHist

Dropped == IF cur > HistSz THEN cur - HistSz ELSE 0
Kept == SubSeq(buf, Dropped + 1, Len(buf))

RoomySize ==
  IF bufSize = Len(buf) - Dropped THEN bufSize + InitBufSize ELSE bufSize

\* fread and inflate return any number of bytes, but none only if there are
\* none or none were asked for (comment in scanTo).
DoRead(len) ==
  LET some == {n \in 1..len : offset + n <= file.size}
  IN IF some = {} THEN {0} ELSE some

Read(n) ==
  /\ n \in DoRead(RoomySize - (Len(buf) - Dropped))
  /\ buf' = Kept \o [i \in 1..n |-> offset + i - 1]
  /\ cur' = cur - Dropped
  /\ bufSize' = RoomySize
  /\ offset' = offset + n
  /\ UNCHANGED <<file, pos, pin, landed, high>>

\* What the call in progress cannot go on without.
Starved ==
  \/ call.op \in {"next", "peek"} /\ BuffAvail = 0
  \/ call.op \in {"skip", "read"} /\ BuffAvail = 0 /\ left > 0
  \/ call.op = "scan" /\ BuffAvail < NeedleLen
  \/ call.op = "seek" /\ jumped /\ BuffAvail = 0

Fill ==
  /\ Starved
  /\ \E n \in 1..MaxSize : Read(n)
  /\ UNCHANGED callVars

\* read() returns false: next and peek report the end, scanTo has not found
\* anything, the others throw.  With waitForData_ it sleeps and tries again.
Exhausted ==
  /\ Starved /\ ~file.follow
  /\ Read(0)
  /\ Return(Outcome(CASE call.op \in {"next", "peek"} -> "eof"
                      [] call.op = "scan" -> "notfound"
                      [] OTHER -> "error"))

-----------------------------------------------------------------------------
(***************************************************************************)
(* The calls.                                                              *)
(***************************************************************************)
Invoke ==
  /\ call = Idle
  /\ call' \in Calls
  /\ call'.op = "seek" =>
       /\ pin = NoPin         \* the assertion in seek
       /\ call'.n <= file.size  \* every caller seeks to the end at most
  /\ left' = IF call'.op \in {"skip", "read"} THEN call'.n ELSE 0
  /\ got' = <<>> /\ jumped' = FALSE
  /\ answer' = Outcome("none")
  /\ from' = pos
  /\ UNCHANGED <<file, windowVars, landed, high>>

Next ==
  /\ call.op = "next" /\ BuffAvail > 0
  /\ MoveTo(pos + 1)
  /\ Return(Bytes(<<buf[cur + 1]>>))
  /\ UNCHANGED <<file, offset, buf, bufSize, pin, landed>>

Peek ==
  /\ call.op = "peek" /\ BuffAvail > 0
  /\ Return(Bytes(<<buf[cur + 1]>>))
  /\ UNCHANGED <<file, windowVars, landed, high>>

\* skip and readFunc take what the window has and come back for the rest.
\* Mutant of Portion: the window's end ignored.
PortionWhole == left
Portion == IF left < BuffAvail THEN left ELSE BuffAvail

Consume ==
  /\ call.op \in {"skip", "read"}
  /\ BuffAvail > 0 /\ left > 0
  /\ MoveTo(pos + Portion)
  /\ left' = left - Portion
  /\ got' = IF call.op = "read" THEN got \o SubSeq(buf, cur + 1, cur + Portion)
            ELSE got
  /\ UNCHANGED <<file, offset, buf, bufSize, pin, landed, call, jumped, answer,
                 from>>

Consumed ==
  /\ call.op \in {"skip", "read"} /\ left = 0
  /\ Return(IF call.op = "read" THEN Bytes(got) ELSE Outcome("ok"))
  /\ UNCHANGED <<file, windowVars, landed, high>>

\* Mutant of InWindow: its first byte excluded.
InWindowExclusive(p) == BufStart < p /\ p < pos + BuffAvail
InWindow(p) == BufStart <= p /\ p < pos + BuffAvail

SeekWithin ==
  /\ call.op = "seek" /\ ~jumped /\ InWindow(call.n)
  /\ MoveTo(call.n)
  /\ Return(Outcome("ok"))
  /\ UNCHANGED <<file, offset, buf, bufSize, pin, landed>>

\* Mutant of SeekAway: the old window stays.
SeekAwayStale ==
  /\ call.op = "seek" /\ ~jumped /\ ~InWindow(call.n) /\ file.seekable
  /\ offset' = call.n
  /\ pos' = call.n /\ landed' = call.n /\ high' = call.n
  /\ jumped' = TRUE
  /\ UNCHANGED <<file, buf, cur, bufSize, pin, call, left, got, answer, from>>

\* doSeek goes there, the window starts afresh ...
SeekAway ==
  /\ call.op = "seek" /\ ~jumped /\ ~InWindow(call.n) /\ file.seekable
  /\ offset' = call.n
  /\ buf' = <<>> /\ cur' = 0
  /\ pos' = call.n /\ landed' = call.n /\ high' = call.n
  /\ jumped' = TRUE
  /\ UNCHANGED <<file, bufSize, pin, call, left, got, answer, from>>

\* ... and the seek succeeds once there is something to read (Fill); or
\* doSeek throws and nothing has changed.
SeekArrived ==
  /\ call.op = "seek" /\ jumped /\ BuffAvail > 0
  /\ Return(Outcome("ok"))
  /\ UNCHANGED <<file, windowVars, landed, high>>

SeekRefused ==
  /\ call.op = "seek" /\ ~jumped /\ ~InWindow(call.n) /\ ~file.seekable
  /\ Return(Outcome("error"))
  /\ UNCHANGED <<file, windowVars, landed, high>>

\* memmem over the window; failing that, all but the last NeedleLen - 1 bytes
\* are skipped.
Matches == {m \in Marks : pos <= m /\ m + NeedleLen <= pos + BuffAvail}

\* Mutant of Remainder: the whole window is skipped.
RemainderNone == 0
Remainder == NeedleLen - 1

ScanFound ==
  /\ call.op = "scan"
  /\ \E m \in Matches : (\A k \in Matches : m <= k) /\ MoveTo(m)
  /\ Return(Outcome("ok"))
  /\ UNCHANGED <<file, offset, buf, bufSize, pin, landed>>

ScanOn ==
  /\ call.op = "scan" /\ BuffAvail >= NeedleLen /\ Matches = {}
  /\ MoveTo(pos + BuffAvail - Remainder)
  /\ UNCHANGED <<file, offset, buf, bufSize, pin, landed, callVars>>

\* Callers pin where they are, or, as grep does for its before-context, move
\* the pin they have forward.
SetPin(p) ==
  /\ call = Idle
  /\ BufStart <= p /\ p <= pos
  /\ p = pos \/ (pin # NoPin /\ pin <= p)
  /\ pin' = p
  /\ UNCHANGED <<file, offset, buf, bufSize, cur, pos, callVars, landed, high>>

ClearPin ==
  /\ call = Idle /\ pin # NoPin
  /\ pin' = NoPin
  /\ UNCHANGED <<file, offset, buf, bufSize, cur, pos, callVars, landed, high>>

\* Another process appends to the file.
Grow ==
  /\ file.size < MaxSize
  /\ file' = [file EXCEPT !.size = @ + 1]
  /\ UNCHANGED <<windowVars, callVars, landed, high>>

Step ==
  \/ Fill \/ Exhausted
  \/ Next \/ Peek \/ Consume \/ Consumed
  \/ SeekWithin \/ SeekAway \/ SeekArrived \/ SeekRefused
  \/ ScanFound \/ ScanOn

SrcNext ==
  \/ Invoke
  \/ Step
  \/ \E p \in 0..MaxSize : SetPin(p)
  \/ ClearPin
  \/ Grow

\* A call in progress runs; it may wait for data, but does not rest otherwise.
SrcSpec == SrcInit /\ [][SrcNext]_srcVars /\ WF_srcVars(Step)

-----------------------------------------------------------------------------
\* The window holds exactly the file's bytes from BufStart on, and the next
\* read() continues where it ends.  pos_, cur_, limit_ and the position of the
\* FILE are four counters moved by different functions: one of them forgotten
\* in a shift, a seek or a short read, and every byte after is another one.
WindowIsFile ==
  /\ \A i \in DOMAIN buf : buf[i] = BufStart + i - 1
  /\ offset = pos + BuffAvail

\* What is pinned stays in the buffer, so that the rewind grep does to print a
\* match works in a pipe as well.
PinnedStaysBuffered == pin # NoPin => BufStart <= pin

\* The last MIN_HIST_SIZE bytes consumed stay in the buffer: what the detection
\* of file types relies on, which reads ahead in a pipe and goes back (comment
\* in read()).
HistoryStaysBuffered == BufStart <= landed \/ BufStart + MinHist <= high

\* In a pipe, no rewind of up to MIN_HIST_SIZE bytes from the furthest position
\* reached is ever refused, however the bytes before it arrived.
RewindsServed ==
  [][call.op = "seek" /\ answer'.kind = "error" /\ ~file.seekable
       => ~(call.n < pos /\ high <= call.n + MinHist)]_srcVars

\* The buffered source behaves as the plain array: every call returns what is
\* in the file at the position where it was made, leaves the position where
\* the array would, reports an end only at the end, and returns if it can.
Stream == INSTANCE ByteStream WITH at <- IF call = Idle THEN pos ELSE from
ImplementsByteStream == Stream!StreamSpec
=============================================================================
