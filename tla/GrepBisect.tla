---------------------------- MODULE GrepBisect ----------------------------
(***************************************************************************)
(* grep -o over a file whose records are roughly ordered by a key          *)
(* (Grepper::doBisect in src/src/GrepHandler.h, the seekSync and           *)
(* parseValue of its three subclasses, and the loop over files at the end  *)
(* of grepCmd in src/src/Grep.cpp): a bisection by position for the first  *)
(* record not less than the pattern, then a scan that begins some way      *)
(* before it and gives up some way behind the last match.                  *)
(*                                                                         *)
(* To the pattern a record is less, a match or greater, or it lacks the    *)
(* key.  All positions are in bytes; the thresholds are scaled down.       *)
(***************************************************************************)
EXTENDS Integers, Sequences, FiniteSetsExt, SequencesExt

CONSTANTS
  SCAN_THRESHOLD, PREFIX_AMOUNT,
  Overrun,     \* how far the scan goes behind the range, at least
  Disorder,    \* how far out of order, in bytes, two records may be
  KeyGap,      \* how far apart, in bytes, the records that have the key may be
  Sizes,       \* sizes of records
  Ordinary,    \* the size most of them have
  MaxRecords,  \* bound: records in the first file; half as many in the second
  MaxOdd,      \* bound: those without the key or not of the ordinary size
  MaxFiles     \* bound: files on the command line

ASSUME BisectAssumption ==
  /\ {SCAN_THRESHOLD, PREFIX_AMOUNT, Overrun, Disorder, KeyGap} \subseteq Nat
  /\ {MaxRecords, MaxOdd, MaxFiles} \subseteq Nat
  /\ Sizes \subseteq Nat \ {0, 1}
  /\ SCAN_THRESHOLD > 0

\* How rough the order may be for the amounts the code has.
ASSUME RoughnessAssumption ==
  /\ Disorder + 2 <= PREFIX_AMOUNT
  /\ Disorder + KeyGap <= Overrun
  /\ Disorder + 2 * (KeyGap + 1) <= SCAN_THRESHOLD + Overrun

SUFFIX_AMOUNT == SCAN_THRESHOLD + PREFIX_AMOUNT + Overrun

Kinds == {"au", "json", "ascii"}
Rank == [less |-> 1, match |-> 2, greater |-> 3]
Keyed == DOMAIN Rank

VARIABLES
  kind,            \* the file's kind
  recs,            \* its value records
  wanted,          \* the classes the command line asks for (-g: greater, too)
  loc,             \* where in doBisect or reallyDoGrep it is
  matchOrGreater,  \* pattern.matchOrGreater, which outlives a file
  origMatchOrGreater,
  start, end,      \* the range left
  startOfScan,
  pos,             \* source.pos()
  suffixStartPos,
  printed,         \* the records printed from this file
  filesLeft        \* the files still to come

fileVars == <<kind, recs, wanted, filesLeft>>
rangeVars == <<start, end, startOfScan>>
patternVars == <<matchOrGreater, origMatchOrGreater>>
scanVars == <<suffixStartPos, printed>>
bisectVars == <<fileVars, loc, patternVars, rangeVars, pos, scanVars>>

-----------------------------------------------------------------------------
(***************************************************************************)
(* Files.                                                                  *)
(***************************************************************************)
\* An au file begins with a header; a text file with its first record.
FileStart == IF kind = "au" THEN 2 ELSE 0
EndPos == IF recs = <<>> THEN FileStart ELSE Last(recs).at + Last(recs).size

NewFile ==
  /\ kind' \in Kinds
  /\ recs' = <<>>

BisectInit ==
  /\ kind \in Kinds /\ recs = <<>>
  /\ wanted \in {{"match"}, {"match", "greater"}}
  /\ loc = "outside"
  /\ matchOrGreater = ("greater" \in wanted)
  /\ origMatchOrGreater = FALSE
  /\ start = 0 /\ end = 0 /\ startOfScan = 0 /\ pos = 0
  /\ suffixStartPos = 0 /\ printed = <<>>
  /\ filesLeft = MaxFiles - 1

\* What "roughly ordered" leaves open.
InOrder(class, at) ==
  class \in Keyed =>
    \A i \in DOMAIN recs :
      recs[i].class \in Keyed /\ Rank[recs[i].class] > Rank[class] =>
        at - recs[i].at <= Disorder

Odd(class, size) == class = "keyless" \/ size # Ordinary
Write ==
  /\ loc = "outside" /\ Len(recs) < MaxRecords \div (MaxFiles - filesLeft)
  /\ \E class \in Keyed \cup {"keyless"}, size \in Sizes :
       /\ InOrder(class, EndPos)
       /\ Odd(class, size) =>
            Cardinality({i \in DOMAIN recs : Odd(recs[i].class, recs[i].size)})
              < MaxOdd
       /\ recs' = Append(recs, [at |-> EndPos, size |-> size, class |-> class])
  /\ UNCHANGED <<kind, wanted, filesLeft, loc, patternVars, rangeVars, pos,
                 scanVars>>

-----------------------------------------------------------------------------
(***************************************************************************)
(* seekSync and parseValue.                                                *)
(***************************************************************************)
\* Behind a record: the JSON reader stops before the newline, the others
\* behind all of it.
After(r) == r.at + r.size - (IF kind = "json" THEN 1 ELSE 0)

\* Where seekSync(p) lands, if it does not throw.  In an au file it is the next
\* record that begins two bytes behind p; in a text file the next newline, except
\* that the start of the file is where the first record begins.
AuStarts(p) == {r.at : r \in {q \in Range(recs) : q.at >= p + 2}}
TextStarts(p) ==
  IF p = 0 THEN {0}
  ELSE {After(r) : r \in {q \in Range(recs) : q.at + q.size - 1 >= p}}
Landings(p) == IF kind = "au" THEN AuStarts(p) ELSE TextStarts(p)

\* The records parseValue may still read; it reads the first of them.
Rest == {r \in Range(recs) : r.at >= pos}
Candidate == CHOOSE r \in Rest : \A q \in Rest : r.at <= q.at

Matched(r) ==
  IF matchOrGreater THEN r.class \in {"match", "greater"} ELSE r.class = "match"
Attempted(r) == r.class \in Keyed

-----------------------------------------------------------------------------
(***************************************************************************)
(* doBisect.                                                               *)
(***************************************************************************)
\* Mutant of Open: records that are greater send it on, too.
OpenAsGiven ==
  /\ loc = "outside"
  /\ origMatchOrGreater' = matchOrGreater /\ UNCHANGED matchOrGreater
  /\ start' = 0 /\ end' = EndPos
  /\ loc' = "bisect"
  /\ UNCHANGED <<fileVars, startOfScan, pos, scanVars>>
Open ==
  /\ loc = "outside"
  /\ origMatchOrGreater' = matchOrGreater /\ matchOrGreater' = TRUE
  /\ start' = 0 /\ end' = EndPos
  /\ loc' = "bisect"
  /\ UNCHANGED <<fileVars, startOfScan, pos, scanVars>>

\* "Cannot binary search in non-seekable file": the exit status ends grep.
OpenPipe ==
  /\ loc = "outside"
  /\ loc' = "failed"
  /\ UNCHANGED <<fileVars, patternVars, rangeVars, pos, scanVars>>

Middle == start + (end - start) \div 2

Probe ==
  /\ loc = "bisect" /\ end - start > SCAN_THRESHOLD
  /\ Landings(Middle) # {}
  /\ pos' = Min(Landings(Middle))
  /\ startOfScan' = pos'
  /\ loc' = "probe"
  /\ UNCHANGED <<fileVars, patternVars, start, end, scanVars>>

\* The range once its middle is known not to be less.  A landing behind the range
\* leaves one byte, so that what is left is scanned.
\* Mutant of Upper: the landing, wherever it is.
UpperAtLanding == startOfScan
Upper == IF startOfScan < end THEN startOfScan ELSE start + 1

ProbeRecord ==
  /\ loc = "probe" /\ Rest # {}
  /\ pos' = After(Candidate)
  /\ end' = IF Matched(Candidate) THEN Upper ELSE end
  /\ start' = IF Attempted(Candidate) /\ ~Matched(Candidate) THEN startOfScan ELSE start
  /\ loc' = IF Attempted(Candidate) THEN "bisect" ELSE "probe"
  /\ UNCHANGED <<fileVars, patternVars, startOfScan, scanVars>>

\* No record with the key is left behind the middle.
ProbeEnds ==
  /\ loc = "probe" /\ Rest = {}
  /\ loc' = "returned"
  /\ UNCHANGED <<fileVars, patternVars, rangeVars, pos, scanVars>>

ScanFrom == IF start > PREFIX_AMOUNT THEN start - PREFIX_AMOUNT ELSE 0

StartScan ==
  /\ loc = "bisect" /\ end > start /\ end - start <= SCAN_THRESHOLD
  /\ Landings(ScanFrom) # {}
  /\ pos' = Min(Landings(ScanFrom))
  /\ suffixStartPos' = pos'
  /\ matchOrGreater' = origMatchOrGreater
  /\ loc' = "scan"
  /\ UNCHANGED <<fileVars, origMatchOrGreater, rangeVars, printed>>

\* seekSync throws when there is no record where it looks.
SyncThrows ==
  /\ loc = "bisect" /\ end > start
  /\ Landings(IF end - start > SCAN_THRESHOLD THEN Middle ELSE ScanFrom) = {}
  /\ loc' = "failed"
  /\ UNCHANGED <<fileVars, patternVars, rangeVars, pos, scanVars>>

\* Nothing is left: an empty file, or a start behind the end.
RangeEmpty ==
  /\ loc = "bisect" /\ end <= start
  /\ loc' = "returned"
  /\ UNCHANGED <<fileVars, patternVars, rangeVars, pos, scanVars>>

-----------------------------------------------------------------------------
(***************************************************************************)
(* reallyDoGrep: the loop with a suffix amount.                            *)
(***************************************************************************)
Exceeded == pos - suffixStartPos > SUFFIX_AMOUNT

\* Behind a match the amount counts anew.
\* Mutant of SuffixStart: it counts from the start of the scan.
SuffixStartOfScan == suffixStartPos
SuffixStart == After(Candidate)

ScanRecord ==
  /\ loc = "scan" /\ Rest # {} /\ ~Exceeded
  /\ pos' = After(Candidate)
  /\ IF Matched(Candidate)
     THEN /\ printed' = Append(printed, Candidate.at)
          /\ suffixStartPos' = SuffixStart
     ELSE UNCHANGED scanVars
  /\ UNCHANGED <<fileVars, loc, patternVars, rangeVars>>

ScanEnds ==
  /\ loc = "scan" /\ (Rest = {} \/ Exceeded)
  /\ loc' = "returned"
  /\ UNCHANGED <<fileVars, patternVars, rangeVars, pos, scanVars>>

\* grepCmd goes on to the next file, with the same pattern.
NextFile ==
  /\ loc = "returned" /\ filesLeft > 0
  /\ filesLeft' = filesLeft - 1
  /\ NewFile
  /\ loc' = "outside"
  /\ origMatchOrGreater' = FALSE
  /\ start' = 0 /\ end' = 0 /\ startOfScan' = 0 /\ pos' = 0
  /\ suffixStartPos' = 0 /\ printed' = <<>>
  /\ UNCHANGED <<wanted, matchOrGreater>>

Search == Probe \/ ProbeRecord \/ ProbeEnds \/ StartScan \/ SyncThrows
            \/ RangeEmpty \/ ScanRecord \/ ScanEnds

BisectNext == Write \/ Open \/ OpenPipe \/ Search \/ NextFile

BisectSpec ==
  BisectInit /\ [][BisectNext]_bisectVars /\ WF_bisectVars(Search)

-----------------------------------------------------------------------------
WantedAt == {r.at : r \in {q \in Range(recs) : q.class \in wanted}}

KeyedAt == {r.at : r \in {q \in Range(recs) : q.class \in Keyed}}

\* A file the bisection is made for: the key is never far away, least of all from
\* the end.
Bisectable ==
  /\ KeyedAt # {}
  /\ EndPos - Max(KeyedAt) < SCAN_THRESHOLD \div 2
  /\ \A a \in KeyedAt \cup {FileStart} :
       a = Max(KeyedAt \cup {FileStart}) \/ \E b \in KeyedAt : a < b /\ b - a <= KeyGap

\* The records wanted, each once and in the order of the file.
PrintedAsWanted ==
  /\ Range(printed) = WantedAt
  /\ \A i, j \in DOMAIN printed : i < j => printed[i] < printed[j]

\* -o prints what -k would, unless the key is rare in the file, and leaves the
\* pattern as it was given for the next file.
AsGiven == "greater" \in wanted
PrintsMatches ==
  loc = "returned" /\ Bisectable /\ origMatchOrGreater = AsGiven =>
    PrintedAsWanted /\ matchOrGreater = AsGiven

\* -o is "like -k" (usage text).
OrderedLikeKey == loc = "returned" => PrintedAsWanted

\* While the range shrinks, the first record wanted stays within what a scan of the
\* range would read.
FirstInReach ==
  loc = "bisect" /\ Bisectable /\ WantedAt # {} =>
    /\ ScanFrom <= Min(WantedAt)
    /\ Min(WantedAt) <= Max({end, start + SCAN_THRESHOLD}) + Overrun

\* Every search ends, in every file.
BisectEnds == loc = "bisect" ~> loc \in {"returned", "failed"}
=============================================================================
