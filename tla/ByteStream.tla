---------------------------- MODULE ByteStream ----------------------------
(***************************************************************************)
(* What a byte source promises (src/src/au/AuByteSource.h): a file that    *)
(* may grow behaves as an array with a current position, whatever is       *)
(* buffered.  The byte at position p is represented by p.                  *)
(***************************************************************************)
EXTENDS Integers, Sequences, FiniteSetsExt

CONSTANTS
  MaxSize,    \* bound: how far the file grows
  MaxLen,     \* bound: how much a call skips or reads
  Marks,      \* the positions at which what scanTo looks for begins
  NeedleLen   \* its length

VARIABLES
  file,    \* its size, does a reader at its end wait, can it be sought in
  at,      \* pos()
  call,    \* the call in progress, or Idle
  answer   \* what the last call returned

streamVars == <<file, at, call, answer>>

Idle == [op |-> "idle", n |-> 0]
Calls == [op : {"next", "peek", "scan"}, n : {0}]
           \cup [op : {"skip", "read"}, n : 1..MaxLen]
           \cup [op : {"seek"}, n : 0..MaxSize]

Outcome(kind) == [kind |-> kind, bytes |-> <<>>]
Bytes(from, n) == [kind |-> "bytes", bytes |-> [i \in 1..n |-> from + i - 1]]

StreamInit ==
  /\ file \in [size : 0..MaxSize, follow : BOOLEAN, seekable : BOOLEAN]
  /\ at = 0
  /\ call = Idle
  /\ answer = Outcome("none")

Grow ==
  /\ file.size < MaxSize
  /\ file' = [file EXCEPT !.size = @ + 1]
  /\ UNCHANGED <<at, call, answer>>

Invoke ==
  /\ call = Idle
  /\ call' \in Calls
  /\ answer' = Outcome("none")
  /\ UNCHANGED <<file, at>>

Return(a, p) ==
  /\ answer' = a
  /\ at' = p
  /\ call' = Idle
  /\ UNCHANGED file

\* A call succeeds only on bytes that are in the file ...
Found == {m \in Marks : at <= m /\ m + NeedleLen <= file.size}

Succeed ==
  \/ call.op = "next" /\ at < file.size /\ Return(Bytes(at, 1), at + 1)
  \/ call.op = "peek" /\ at < file.size /\ Return(Bytes(at, 1), at)
  \/ call.op = "skip" /\ at + call.n <= file.size /\ Return(Outcome("ok"), at + call.n)
  \/ /\ call.op = "read" /\ at + call.n <= file.size
     /\ Return(Bytes(at, call.n), at + call.n)
  \/ call.op = "seek" /\ call.n < file.size /\ Return(Outcome("ok"), call.n)
  \/ call.op = "scan" /\ Found # {} /\ Return(Outcome("ok"), Min(Found))

\* ... and fails only when the file ends, for good, before them.
Fail ==
  /\ ~file.follow
  /\ \/ call.op \in {"next", "peek"} /\ at = file.size /\ Return(Outcome("eof"), at)
     \/ /\ call.op \in {"skip", "read"} /\ at + call.n > file.size
        /\ Return(Outcome("error"), file.size)
     \/ call.op = "seek" /\ call.n >= file.size /\ Return(Outcome("error"), call.n)
     \/ /\ call.op = "scan" /\ Found = {}
        /\ Return(Outcome("notfound"), Max({at, file.size - (NeedleLen - 1)}))

\* A seek in a pipe may be refused.
Refuse == ~file.seekable /\ call.op = "seek" /\ Return(Outcome("error"), at)

StreamNext == Grow \/ Invoke \/ Succeed \/ Fail \/ Refuse

\* What is never done: no call returns anything else.
StreamSafety == StreamInit /\ [][StreamNext]_streamVars

\* A call that can return does.
StreamSpec == StreamSafety /\ WF_streamVars(Succeed \/ Fail \/ Refuse)
=============================================================================
