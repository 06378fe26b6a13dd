------------------------------ MODULE AuReader ------------------------------
(***************************************************************************)
(* A sequential decoder: RecordParser (src/src/au/AuDecoder.h) driving     *)
(* AuRecordHandler (src/src/AuRecordHandler.h) over a file that may still  *)
(* grow.  `cat' reads a finished file this way, `tail -f' a growing one,   *)
(* for which the byte source waits at the end for more.                    *)
(*                                                                         *)
(* file is the sequence of records written so far; the reader only reads   *)
(* it.  Its records are those of module AuEncoder.                         *)
(***************************************************************************)
EXTENDS Dictionary

CONSTANT MaxDicts    \* Dictionary's maxDicts, 1 for cat and tail

VARIABLES
  file,       \* the records in the file
  dicts,      \* Dictionary::dictionaries_
  pos,        \* how many records have been read
  delivered,  \* the values handed to the output handler, decoded
  broken      \* a parse_error ended the reading

readerVars == <<dicts, pos, delivered, broken>>

ReaderInit ==
  /\ dicts = <<>>
  /\ pos = 0
  /\ delivered = <<>>
  /\ broken = FALSE

Ready(kind) == ~broken /\ pos < Len(file) /\ file[pos + 1].kind = kind

Advance == pos' = pos + 1

Throw == broken' = TRUE /\ UNCHANGED <<dicts, pos, delivered>>

\* onHeader ignores the metadata.
ReadHeader ==
  /\ Ready("H")
  /\ Advance
  /\ UNCHANGED <<dicts, delivered, broken>>

\* Mutant of ReadClear: the record is not consumed.
ReadClearInPlace ==
  /\ Ready("C")
  /\ LET sor == file[pos + 1].sor
     IN dicts' = IF Search(dicts, sor) # 0 THEN dicts
                 ELSE Opened(dicts, sor, MaxDicts)
  /\ UNCHANGED <<pos, delivered, broken>>

\* onDictClear: dictionary_.clear(sor_).
ReadClear ==
  /\ Ready("C")
  /\ LET sor == file[pos + 1].sor
     IN IF ClearMismatch(dicts, sor)
        THEN Throw
        ELSE /\ dicts' = IF AlreadyCleared(dicts, sor) THEN dicts
                         ELSE Opened(dicts, sor, MaxDicts)
             /\ Advance
             /\ UNCHANGED <<delivered, broken>>

\* onDictAddStart finds the dictionary the backref points into; the strings
\* are added unless the dictionary already covers this record.
ReadAdd ==
  /\ Ready("A")
  /\ LET r == file[pos + 1]
         i == Search(dicts, r.sor - r.backref)
     IN IF i = 0
        THEN Throw
        ELSE /\ dicts' = IF Includes(dicts[i], r.sor) THEN dicts
                         ELSE [dicts EXCEPT ![i] = AddAll(@, r.sor, r.content)]
             /\ Advance
             /\ UNCHANGED <<delivered, broken>>

\* Dict::at throws on an index beyond the dictionary.
Resolvable(d, toks) ==
  \A i \in DOMAIN toks : toks[i].kind = "ref" => toks[i].idx < Len(d.entries)

Decoded(d, toks) ==
  [i \in DOMAIN toks |-> IF toks[i].kind = "ref" THEN d.entries[toks[i].idx + 1]
                         ELSE toks[i].value]

\* onValue: the value is decoded with the dictionary its backref selects.
ReadValue ==
  /\ Ready("V")
  /\ LET r == file[pos + 1]
         i == Search(dicts, r.sor - r.backref)
     IN IF i = 0 \/ (i # 0 /\ ~Resolvable(dicts[i], r.content))
        THEN Throw
        ELSE /\ delivered' = Append(delivered, Decoded(dicts[i], r.content))
             /\ Advance
             /\ UNCHANGED <<dicts, broken>>

ReaderNext == ReadHeader \/ ReadClear \/ ReadAdd \/ ReadValue
=============================================================================
