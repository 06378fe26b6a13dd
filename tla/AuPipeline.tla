----------------------------- MODULE AuPipeline -----------------------------
(***************************************************************************)
(* An encoder and a reader that follows its output, as `au tail -f' does   *)
(* on the file a program is logging to.  The reader sees the records that  *)
(* write() was given; those in dictBuf_ are not in the file yet.           *)
(***************************************************************************)
EXTENDS AuEncoder

CONSTANT MaxDicts

ASSUME PipelineAssumption == MaxDicts \in Nat \ {0}

VARIABLES dicts, pos, delivered, broken

pipeVars == <<encVars, dicts, pos, delivered, broken>>

File == SubSeq(enc.log, 1, flushed)

Reader == INSTANCE AuReader WITH file <- File

PipeInit == EncInit /\ Reader!ReaderInit

EncoderStep == EncNext /\ UNCHANGED <<dicts, pos, delivered, broken>>
ReaderStep == Reader!ReaderNext /\ UNCHANGED encVars

PipeNext == EncoderStep \/ ReaderStep

\* A reader with something to read reads it: the process is scheduled.  Nothing
\* is asked of the program that writes.
PipeSpec == PipeInit /\ [][PipeNext]_pipeVars /\ WF_pipeVars(ReaderStep)

-----------------------------------------------------------------------------
Log == INSTANCE RecordLog
         WITH Values <- UNION {[1..n -> Value] : n \in 1..MaxTokens},
              written <- sent, received <- delivered

\* Following the file implements the abstract log: every step of the two is a
\* write, a delivery of the next value exactly as written, or invisible, and
\* every value written is delivered in the end.
ImplementsRecordLog == Log!LogSpec

\* The reader never stops on an error in a file the encoder wrote: each backref
\* selects a dictionary, each index an entry, no clear falls into a dictionary.
NeverBroken == ~broken

\* What the reader has delivered so far is what was written, value by value:
\* each index means, to the reader, the string it stood for when the encoder
\* handed it out.
DeliveredAsWritten == IsPrefix(delivered, sent)
=============================================================================
