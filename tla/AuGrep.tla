------------------------------ MODULE AuGrep ------------------------------
(***************************************************************************)
(* grep over an au file (Grepper and AuGrepper in src/src/GrepHandler.h):  *)
(* the date scan and the context loop.  Each record is read once by the    *)
(* handler that matches; a record to be printed is gone back to and read   *)
(* again by the one that prints, which may mean going back over several    *)
(* dictionaries.                                                           *)
(*                                                                         *)
(* A record is one of three things to the pattern: a hit, a miss (it has   *)
(* the key, with another value) or neither.  The file is complete when it  *)
(* is searched.                                                            *)
(***************************************************************************)
EXTENDS AuLog

CONSTANTS
  Options,      \* the command lines considered
  ScanRecords,  \* DATE_SCAN_RECORDS
  MaxValues,    \* bound: values in the file
  MaxDictRecs   \* bound: A and C records in the file besides the first C

Classes == {"hit", "miss", "neither"}

ASSUME GrepAssumption ==
  /\ Options \subseteq [before : Nat, after : Nat, matches : Nat,
                        follow : BOOLEAN, count : BOOLEAN, dated : BOOLEAN]
  /\ \A o \in Options : o.count => o.before = 0 /\ o.after = 0
  /\ MaxDicts \in Nat \ {0}
  /\ ScanRecords \in Nat

VARIABLES
  opt,        \* the pattern's options, once grep runs
  loc,        \* where in the loop it is
  scanned,    \* performDateScan: i
  posBuffer,  \* posBuffer; positions count records, as pos does
  pin,        \* the source's pin, or NoPin
  force,      \* force
  total,      \* total
  inRegion,   \* inMatchRegion
  due         \* how many values outputValue is still to print

grepVars == <<opt, loc, scanned, posBuffer, pin, force, total, inRegion, due>>
allVars == <<fileVars, readerVars, grepVars>>

NoPin == -1

GrepInit ==
  /\ LogInit /\ ReaderInit
  /\ opt \in Options
  /\ loc = "outside"
  /\ scanned = 0 /\ posBuffer = <<>> /\ pin = NoPin
  /\ force = 0 /\ total = 0 /\ inRegion = FALSE /\ due = 0

\* Without -F, a miss and a record of neither kind are the same to the loop.
Distinct == IF opt.follow THEN Classes ELSE Classes \ {"neither"}

Write ==
  /\ loc = "outside"
  /\ \/ /\ Cardinality(DictRecs) <= MaxDictRecs
        /\ WriteClear \/ WriteAdd
     \/ /\ Len(sent) < MaxValues
        /\ \E class \in Distinct : WriteValue(<<class>>)
  /\ UNCHANGED <<readerVars, grepVars>>

-----------------------------------------------------------------------------
(***************************************************************************)
(* Reading.                                                                *)
(***************************************************************************)
AtEnd == pos = Len(file)

\* parseUntilValue goes through the records before the next value.
Approach ==
  /\ loc \in {"dating", "parse", "print"}
  /\ ReadHeader \/ ReadClear \/ ReadAdd
  /\ loc' = IF broken' THEN "failed" ELSE loc
  /\ UNCHANGED <<fileVars, opt, scanned, posBuffer, pin, force, total,
                 inRegion, due>>

Selected == Search(dicts, file[pos + 1].sor - file[pos + 1].backref)
Unreadable ==
  \/ Selected = 0
  \/ Selected # 0 /\ ~Resolvable(dicts[Selected], file[pos + 1].content)

\* The exception ends the search.
Fails ==
  /\ loc \in {"dating", "parse", "print"} /\ Ready("V") /\ Unreadable
  /\ Throw
  /\ loc' = "failed"
  /\ UNCHANGED <<fileVars, opt, scanned, posBuffer, pin, force, total,
                 inRegion, due>>

\* The value read, as the matching handler sees it.
Class == Decoded(dicts[Selected], file[pos + 1].content)[1]
Matching == Ready("V") /\ ~Unreadable

-----------------------------------------------------------------------------
(***************************************************************************)
(* doGrep.                                                                 *)
(***************************************************************************)
Start ==
  /\ loc = "outside"
  /\ IF opt.dated
     THEN loc' = "dating" /\ pin' = pos
     ELSE loc' = "top" /\ UNCHANGED pin
  /\ UNCHANGED <<fileVars, readerVars, opt, scanned, posBuffer, force, total,
                 inRegion, due>>

DateRecord ==
  /\ loc = "dating" /\ scanned < ScanRecords /\ Matching
  /\ Advance
  /\ scanned' = IF Class = "hit" THEN ScanRecords ELSE scanned + 1
  /\ UNCHANGED <<fileVars, dicts, delivered, broken, opt, loc, posBuffer, pin,
                 force, total, inRegion, due>>

\* Enough records, or too many bytes, or no more: back to the start.
DateScanned ==
  /\ loc = "dating" /\ (Ready("V") \/ AtEnd)
  /\ pos' = pin
  /\ pin' = NoPin
  /\ loc' = "top"
  /\ UNCHANGED <<fileVars, dicts, delivered, broken, opt, scanned, posBuffer,
                 force, total, inRegion, due>>

-----------------------------------------------------------------------------
(***************************************************************************)
(* reallyDoGrep.                                                           *)
(***************************************************************************)
\* The last beforeContext records and the candidate.
Buffered ==
  Append(IF Len(posBuffer) = opt.before + 1 THEN Tail(posBuffer) ELSE posBuffer,
         pos)

\* The furthest place that may have to be gone back to.
\* Mutant of PinAt: the candidate alone.
PinAtCandidate == pos
PinAt == Head(Buffered)

Top ==
  /\ loc = "top" /\ ~AtEnd
  /\ IF opt.count
     THEN UNCHANGED <<posBuffer, pin>>
     ELSE posBuffer' = Buffered /\ pin' = PinAt
  /\ loc' = "parse"
  /\ UNCHANGED <<fileVars, readerVars, opt, scanned, force, total, inRegion,
                 due>>

\* No record, or none that is a value, is left.
Finish ==
  /\ loc \in {"top", "parse"} /\ AtEnd
  /\ loc' = "done"
  /\ UNCHANGED <<fileVars, readerVars, opt, scanned, posBuffer, pin, force,
                 total, inRegion, due>>

\* Mutant of Counted: -m forgotten.
CountedAll == Class = "hit"
Counted == Class = "hit" /\ total < opt.matches
Region == Counted \/ (inRegion /\ Class = "neither")
MatchedNow == Counted \/ (opt.follow /\ Region)

\* What is printed leaves posBuffer.
\* Mutant of Unprinted: it stays.
UnprintedAll == posBuffer
Unprinted == <<>>

Parse ==
  /\ loc = "parse" /\ Matching
  /\ inRegion' = Region
  /\ total' = IF Counted THEN total + 1 ELSE total
  /\ \/ /\ MatchedNow /\ ~opt.count
        /\ pos' = Head(posBuffer) /\ pin' = NoPin
        /\ due' = Len(posBuffer) /\ posBuffer' = Unprinted
        /\ force' = opt.after
        /\ loc' = "print"
     \/ /\ ~MatchedNow /\ force > 0
        /\ pos' = posBuffer[Len(posBuffer)] /\ pin' = NoPin
        /\ due' = 1 /\ posBuffer' = Unprinted
        /\ force' = force - 1
        /\ loc' = "print"
     \/ /\ IF MatchedNow THEN opt.count ELSE force = 0
        /\ Advance
        /\ loc' = "top"
        /\ UNCHANGED <<pin, due, posBuffer, force>>
  /\ UNCHANGED <<fileVars, dicts, delivered, broken, opt, scanned>>

\* outputValue prints the next value, and the loop goes on after the last due.
OutputValue ==
  /\ loc = "print" /\ Matching
  /\ ReadValue
  /\ due' = due - 1
  /\ loc' = IF due = 1 THEN "top" ELSE "print"
  /\ UNCHANGED <<fileVars, opt, scanned, posBuffer, pin, force, total, inRegion>>

GrepStep ==
  \/ Start \/ DateRecord \/ DateScanned
  \/ Top \/ Approach \/ Parse \/ OutputValue \/ Fails \/ Finish

GrepNext == Write \/ GrepStep

GrepSpec ==
  GrepInit /\ [][GrepNext]_allVars /\ WF_allVars(GrepStep /\ loc # "outside")

-----------------------------------------------------------------------------
(***************************************************************************)
(* What a search should print.                                             *)
(***************************************************************************)
ClassOf(k) == sent[k].value[1]

\* The first -m records that match ...
Hits ==
  LET All == {k \in DOMAIN sent : ClassOf(k) = "hit"}
  IN {k \in All : Cardinality({j \in All : j < k}) < opt.matches}

\* ... with -F, each up to the next record that has the key and is none ...
Followed ==
  {k \in DOMAIN sent :
     \E h \in Hits : h <= k /\ \A j \in (h + 1)..k : ClassOf(j) = "neither"}

\* ... and the context of all of these.
Wanted ==
  {k \in DOMAIN sent :
     \E i \in IF opt.follow THEN Followed ELSE Hits :
       i <= k + opt.before /\ k <= i + opt.after}

\* Every record wanted is printed, in the order of the file, once and as it was
\* written, and no other: however the contexts of neighbouring matches overlap,
\* and whatever dictionaries had to be gone back over.
PrintsWanted ==
  loc # "outside" /\ ~opt.count =>
    /\ \A n \in DOMAIN delivered : \E k \in Wanted :
         /\ Cardinality({j \in Wanted : j < k}) = n - 1
         /\ delivered[n] = sent[k].value
    /\ loc = "done" => Len(delivered) = Cardinality(Wanted)

\* -c counts the records that -m and the pattern select.
CountsHits == loc = "done" => total = Cardinality(Hits)

\* The file is only ever gone back in to a place that is pinned, so that every
\* option works in a pipe too.
RewindsPinned == [][pos' < pos => pin # NoPin /\ pin <= pos']_allVars

\* Going back for context never fails, unless more dictionaries than are kept
\* began since the records gone back to (comment in reallyDoGrep).
DictsBetween(i, j) ==
  Cardinality({c \in DOMAIN file :
                 file[c].kind = "C" /\ sent[i].sor < file[c].sor
                                    /\ file[c].sor < sent[j].sor})
ContextReadable ==
  loc = "failed" =>
    \E i, j \in DOMAIN sent :
      i < j /\ j <= i + opt.before /\ DictsBetween(i, j) >= MaxDicts

\* Every search ends.
GrepEnds == loc = "top" ~> loc \in {"done", "failed"}
=============================================================================
