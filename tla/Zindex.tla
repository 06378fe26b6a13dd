------------------------------- MODULE Zindex -------------------------------
(***************************************************************************)
(* Gzipped input (src/src/Zindex.cpp): zindexFile writes an index of       *)
(* access points and may be killed while it does; Zindex loads it or       *)
(* refuses to; ZipByteSource::Impl reads and seeks with it, or reads only  *)
(* if there is none.                                                       *)
(*                                                                         *)
(* zlib is external: a gzip member is a sequence of blocks, and inflate    *)
(* yields its bytes in order, from the start or from a block boundary, in  *)
(* the latter case if it is given the WindowSize bytes before.  The byte   *)
(* at position p of the data is represented by p.                          *)
(***************************************************************************)
EXTENDS Integers, Sequences, FiniteSetsExt

CONSTANTS
  Blocks,      \* the blocks: where each ends in the data and in the file
  HeaderLen, TrailerLen,  \* of the gzip member
  IndexEvery,  \* DefaultIndexEvery
  WindowSize, ChunkSize,
  MaxLen       \* bound: the longest read

OutAt(b) == IF b = 0 THEN 0 ELSE Blocks[b].out
InAt(b) == IF b = 0 THEN HeaderLen ELSE Blocks[b].in
DataSize == OutAt(Len(Blocks))

\* A block may hold no data, as the last one after a flush; it takes up room.
ASSUME ZindexAssumption ==
  /\ Blocks \in Seq([out : Nat, in : Nat]) /\ Blocks # <<>>
  /\ \A a, b \in 0..Len(Blocks) :
       a < b => OutAt(a) <= OutAt(b) /\ InAt(a) < InAt(b)
  /\ HeaderLen \in Nat \ {0} /\ TrailerLen \in Nat \ {0}
  /\ IndexEvery \in Nat
  /\ WindowSize \in Nat \ {0} /\ ChunkSize \in Nat \ {0}
  /\ MaxLen \in Nat

VARIABLES
  stage,    \* what is going on: building, loading, reading, or how it ended
  extra,    \* bytes in the file behind the first gzip member
  recorded, \* the size of the file in the index's metadata
  \* zindexFile:
  block,    \* the block inflate is in; 0 before the first
  totalOut,
  window,   \* the circular buffer inflate writes to
  availOut, \* zs.stream.avail_out
  last,
  initial,  \* emitInitialAccessPoint
  index,    \* the entries in the index file, behind its metadata; then index_
  \* ZipByteSource::Impl:
  indexed,  \* index_.has_value()
  context,  \* context_, with the bytes of output_ that are valid
  target    \* where doSeek is to go, or NoTarget

buildVars == <<block, totalOut, window, availOut, last, initial>>
fileVars == <<extra, recorded>>
zVars == <<stage, fileVars, buildVars, index, indexed, context, target>>

NoTarget == -1
Garbage == -1

-----------------------------------------------------------------------------
(***************************************************************************)
(* The file.                                                               *)
(***************************************************************************)
MemberSize == InAt(Len(Blocks)) + TrailerLen
FileSize == MemberSize + extra

\* A context that is to inflate from position at.  limit_ is the length of
\* output; sound says that inflate has the data it may have to refer back to.
NewContext(offset, at, sound) ==
  [pos |-> offset, cur |-> 0, output |-> <<>>, eof |-> FALSE,
   inflated |-> at, sound |-> sound]

ZInit ==
  /\ stage = "building"
  /\ extra \in {0, 1} /\ recorded = FileSize
  /\ block = 0 /\ totalOut = 0
  /\ window = [i \in 1..WindowSize |-> Garbage] /\ availOut = WindowSize
  /\ last = 0 /\ initial = TRUE
  /\ index = <<>>
  /\ indexed = FALSE
  /\ context = NewContext(0, 0, TRUE)
  /\ target = NoTarget

-----------------------------------------------------------------------------
(***************************************************************************)
(* zindexFile.                                                             *)
(***************************************************************************)
\* A window that is full is written over from its start.
Room == IF availOut = 0 THEN WindowSize ELSE availOut

\* inflate stops at the end of a block, of the window or of its input; it may
\* have produced nothing.
Inflate ==
  /\ stage = "building" /\ block > 0
  /\ \E n \in 0..Room :
       LET start == WindowSize - Room
       IN /\ totalOut + n <= OutAt(block)
          /\ window' = [i \in 1..WindowSize |->
                          IF start < i /\ i <= start + n
                          THEN totalOut + (i - start) - 1 ELSE window[i]]
          /\ totalOut' = totalOut + n
          /\ availOut' = Room - n
  /\ UNCHANGED <<stage, fileVars, block, last, initial, index, indexed,
                 context, target>>

\* The window in the order of the data.
\* Mutant of MakeWindow: as it lies in the buffer.
MakeWindowFlat == window
MakeWindow ==
  SubSeq(window, WindowSize - availOut + 1, WindowSize)
    \o SubSeq(window, 1, WindowSize - availOut)

\* Does w hold the data before position at, as far as there is any?
WindowBefore(at, w) ==
  \A i \in 1..WindowSize : at - WindowSize + i - 1 >= 0 => w[i] = at - WindowSize + i - 1

NeedsIndex == totalOut - last > IndexEvery \/ initial

\* The end of the header or of a block that is not the last.
EndOfBlock ==
  /\ stage = "building"
  /\ block < Len(Blocks) /\ totalOut = OutAt(block)
  /\ IF NeedsIndex
     THEN /\ index' = Append(index, [out |-> totalOut, in |-> InAt(block),
                                     window |-> MakeWindow])
          /\ last' = totalOut /\ initial' = FALSE
     ELSE UNCHANGED <<index, last, initial>>
  /\ block' = block + 1
  /\ UNCHANGED <<stage, fileVars, totalOut, window, availOut, indexed,
                 context, target>>

\* Z_STREAM_END: the final entry.
EndOfStream ==
  /\ stage = "building"
  /\ block = Len(Blocks) /\ totalOut = DataSize
  /\ index' = Append(index, [out |-> totalOut, in |-> MemberSize, window |-> <<>>])
  /\ stage' = "built"
  /\ UNCHANGED <<fileVars, buildVars, indexed, context, target>>

\* zindexFile is killed.  Of what it has written to its stream any part may be
\* in the file, the last record of it cut off or not.
Killed ==
  /\ stage \in {"building", "built"}
  /\ \E n \in 0..Len(index) : index' = SubSeq(index, 1, n)
  /\ stage' \in {"killed", "torn"}
  /\ stage = "built" => index' # index
  /\ UNCHANGED <<fileVars, buildVars, indexed, context, target>>

-----------------------------------------------------------------------------
(***************************************************************************)
(* Loading the index.                                                      *)
(***************************************************************************)
\* What the constructor of Zindex accepts.
\* Mutant of Complete: the final entry is not told from the others.
CompleteIfAny == index # <<>>
Complete ==
  /\ index # <<>>
  /\ index[Len(index)].window = <<>>
  /\ index[Len(index)].in = recorded

\* blockSize_ and outputSize_
BlockSize == (2 * index[Len(index)].out) \div Len(index)
OutputSize == IF indexed THEN BlockSize ELSE ChunkSize * 4

\* Wrong filename, size or modification time.
Changed == FileSize # recorded

\* The file changes after it has been indexed.
Grow ==
  /\ stage \in {"built", "killed"} /\ extra = 0
  /\ extra' = 1
  /\ UNCHANGED <<stage, recorded, buildVars, index, indexed, context, target>>

\* A cut off record fails to parse; the constructors throw.
Load ==
  /\ stage \in {"built", "killed", "torn"}
  /\ IF stage # "torn" /\ Complete /\ ~Changed
     THEN stage' = "reading" /\ indexed' = TRUE
     ELSE stage' = "refused" /\ UNCHANGED indexed
  /\ UNCHANGED <<fileVars, buildVars, index, context, target>>

\* There is no index.
LoadNone ==
  /\ stage = "building" /\ block = 0
  /\ stage' = "reading"
  /\ UNCHANGED <<fileVars, buildVars, index, indexed, context, target>>

-----------------------------------------------------------------------------
(***************************************************************************)
(* ZipByteSource::Impl.                                                    *)
(***************************************************************************)
Limit(c) == Len(c.output)

\* Mutant of Placed: next_out is output_, not output_ + limit_.
PlacedFirst(kept, more) == more \o SubSeq(kept \o more, Len(more) + 1, Len(kept \o more))
Placed(kept, more) == kept \o more

\* Decompress behind what output_ holds, or into an empty one if it is full.
\* That the data has ended, inflate may say with its last byte or after it.
Gzread(c) ==
  LET kept == IF c.cur = OutputSize THEN <<>> ELSE c.output
      room == Min({OutputSize - Len(kept), ChunkSize})
      n == Min({room, DataSize - c.inflated})
      more == [i \in 1..n |-> IF c.sound THEN c.inflated + i - 1 ELSE Garbage]
      read == [c EXCEPT !.cur = Len(kept), !.output = Placed(kept, more),
                         !.inflated = @ + n]
  IN IF c.eof THEN {c}
     ELSE {[read EXCEPT !.eof = e] : e \in
             {e \in BOOLEAN : /\ n < room => e
                              /\ e => read.inflated = DataSize}}

\* What doRead of len bytes may make of the context.
DoRead(len) ==
  LET filled == IF context.cur = Limit(context) THEN Gzread(context) ELSE {context}
      Advance(c) == LET n == Min({Limit(c) - c.cur, len})
                    IN [c EXCEPT !.cur = @ + n, !.pos = @ + n]
  IN {Advance(c) : c \in filled}

Read ==
  /\ stage = "reading" /\ target = NoTarget
  /\ \E len \in 1..MaxLen : context' \in DoRead(len)
  /\ UNCHANGED <<stage, fileVars, buildVars, index, indexed, target>>

\* Mutant of Find: the entry after it (lower_bound).
FindNext(p) == CHOOSE i \in 1..Len(index) :
                 index[i].out >= p /\ \A j \in 1..i - 1 : index[j].out < p
Find(p) == Max({i \in 1..Len(index) : index[i].out <= p})

\* A seek to p: doSeek is called.
Seek ==
  /\ stage = "reading" /\ indexed /\ target = NoTarget
  /\ target' \in 0..DataSize + 1
  /\ stage' = "seeking"
  /\ UNCHANGED <<fileVars, buildVars, index, indexed, context>>

\* Mutant of Backward: whether the bytes are still in output_ is not asked.
BackwardAlways == target < context.pos
Backward == target < context.pos /\ context.pos - target <= context.cur
Forward == /\ target > context.pos
           /\ target - context.pos <= Limit(context) - context.cur

\* The distance of a jump forward is counted from the start of the data.
Jumps == \/ target < context.pos
         \/ target > BlockSize + (Limit(context) - context.cur)

SeekInBuffer ==
  /\ stage = "seeking"
  /\ Backward \/ Forward
  /\ context' = [context EXCEPT !.cur = @ + target - context.pos, !.pos = target]
  /\ stage' = "reading" /\ target' = NoTarget
  /\ UNCHANGED <<fileVars, buildVars, index, indexed>>

\* To the access point before target.  inflate goes on at the block it names;
\* the final entry has no window to go on with, and uncompressing it throws, as
\* does an access point behind target.
Jump ==
  /\ stage = "seeking"
  /\ ~Backward /\ ~Forward /\ Jumps
  /\ LET entry == index[Find(target)]
         b == CHOOSE b \in 0..Len(Blocks) : InAt(b) = entry.in
     IN IF entry.window = <<>> \/ entry.out > target
        THEN stage' = "failed" /\ UNCHANGED context
        ELSE /\ context' = NewContext(entry.out, OutAt(b),
                                      WindowBefore(OutAt(b), entry.window))
             /\ stage' = "skipping"
  /\ UNCHANGED <<fileVars, buildVars, index, indexed, target>>

StartSkipping ==
  /\ stage = "seeking"
  /\ ~Backward /\ ~Forward /\ ~Jumps
  /\ stage' = "skipping"
  /\ UNCHANGED <<fileVars, buildVars, index, indexed, context, target>>

\* A round of doSeek's loop, or its end.
\* Mutant of SkippedNone: that nothing could be skipped is not noticed.
SkippedNoneUnseen(c) == FALSE
SkippedNone(c) == c.pos = context.pos

\* Mutant of SkipNow: a whole buffer at a time.
SkipNowAll == WindowSize
SkipNow == Min({WindowSize, target - context.pos})

Skip ==
  /\ stage = "skipping"
  /\ IF context.pos < target
     THEN /\ context' \in DoRead(SkipNow)
          /\ stage' = IF SkippedNone(context') THEN "failed" ELSE "skipping"
          /\ UNCHANGED target
     ELSE stage' = "reading" /\ target' = NoTarget /\ UNCHANGED context
  /\ UNCHANGED <<fileVars, buildVars, index, indexed>>

SeekStep == SeekInBuffer \/ Jump \/ StartSkipping \/ Skip

ZNext ==
  \/ Inflate \/ EndOfBlock \/ EndOfStream \/ Killed \/ Grow
  \/ Load \/ LoadNone
  \/ Read \/ Seek \/ SeekStep

\* doSeek runs to its end.
ZSpec == ZInit /\ [][ZNext]_zVars /\ WF_zVars(SeekStep)

-----------------------------------------------------------------------------
(***************************************************************************)
(* Properties.                                                             *)
(***************************************************************************)
Stages == {"building", "built", "killed", "torn", "refused",
           "reading", "seeking", "skipping", "failed"}
Positions == 0..DataSize + 1

\* Type invariant.
ZTypeOK ==
  /\ stage \in Stages
  /\ extra \in {0, 1} /\ recorded \in {MemberSize, MemberSize + 1}
  /\ block \in 0..Len(Blocks) /\ totalOut \in 0..DataSize
  /\ window \in [1..WindowSize -> {Garbage} \cup 0..DataSize - 1]
  /\ availOut \in 0..WindowSize
  /\ last \in 0..DataSize /\ initial \in BOOLEAN /\ indexed \in BOOLEAN
  /\ context.pos \in Positions /\ context.inflated \in 0..DataSize
  /\ Limit(context) <= OutputSize /\ context.cur \in 0..Limit(context)
  /\ target \in Positions \cup {NoTarget}

\* Every access point holds the bytes inflate may refer back to from there, in
\* their order, however they lie in the circular window when it is taken.
AccessPointsSound ==
  \A i \in 1..Len(index) :
    index[i].window # <<>> => WindowBefore(index[i].out, index[i].window)

\* An index in use is that of this file, from its first byte to its last:
\* what a killed zindexFile leaves is refused, and so is the index of a file
\* that has grown since.
LoadedIndexFits ==
  indexed => /\ FileSize = MemberSize
             /\ index[1].out = 0 /\ index[Len(index)].out = DataSize
             /\ \A i, j \in 1..Len(index) - 1 :
                  i < j => index[i].out < index[j].out

\* Through reads that append to output_ or start it over, seeks within it,
\* jumps and skips, the bytes at hand are those of the positions they are
\* taken for.
OutputIsData ==
  stage \in {"reading", "seeking", "skipping"} =>
    /\ \A i \in 1..Limit(context) : context.output[i] = context.pos - context.cur + i - 1
    /\ context.inflated = context.pos + Limit(context) - context.cur

\* A seek into the data never fails, whatever was read before it; it is only
\* at the data's end or beyond that doSeek throws.
FailsOnlyAtEnd == stage = "failed" => target >= DataSize

\* A seek that returns leaves the source at the position asked for.
SeeksLand ==
  [][stage # "reading" /\ stage' = "reading" /\ indexed => context'.pos = target]_zVars

\* doSeek does not skip forever.
SeekEnds == (stage = "seeking") ~> (stage \in {"reading", "failed"})
=============================================================================
