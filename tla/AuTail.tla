------------------------------- MODULE AuTail -------------------------------
(***************************************************************************)
(* Entering a log in the middle: TailHandler::sync and DictionaryBuilder   *)
(* (src/src/Tail.h), used by `tail' and by the bisection of `grep', then   *)
(* reading on as module AuReader does.                                     *)
(*                                                                         *)
(* sync() scans for the end of a record followed by a V, takes that for a  *)
(* value record, collects its dictionary backwards along the backrefs, and *)
(* checks that the value can be decoded.  What looks like a V may be bytes *)
(* of a string: a false start.  A false start has an arbitrary backref; it *)
(* is assumed that its value does not happen to be well-formed, and that   *)
(* no string holds a false A or C record that a false backref points to.   *)
(***************************************************************************)
EXTENDS AuLog

CONSTANT
  Uses  \* how the handler is used, and the bounds on that use: does the source
        \* wait at the end of the file (-f); does the file still grow; records
        \* and false starts in it; how many times, and where in a record, it is
        \* entered

ASSUME TailAssumption ==
  /\ MaxDicts \in Nat \ {0}
  /\ Uses \subseteq [follow : BOOLEAN, grows : BOOLEAN, records : Nat,
                     falses : Nat, entries : Nat, enterAt : SUBSET (0..5)]

VARIABLES
  use,         \* one of Uses
  falses,      \* the false starts: their positions and backrefs
  torn,        \* the file ends behind the first byte of a value record
  phase,       \* where in parseStream the handler is
  at,          \* source_.pos() while scanning
  sor,         \* the record being tried
  target,      \* sor - backDictRef
  link,        \* the dictionary record DictionaryBuilder has reached
  newEntries,  \* newEntries_
  entered,     \* history: the positions at which the file was entered
  first        \* history: the values before the record sync() found

logVars == <<use, fileVars, falses, torn>>
syncVars == <<phase, at, sor, target, link, newEntries, entered, first>>
tailVars == <<logVars, syncVars, readerVars>>

-----------------------------------------------------------------------------
(***************************************************************************)
(* The file: what AuLog writes, and what may be in its strings.            *)
(***************************************************************************)
FalseAt == 3      \* where in a record a false start may be
FileEnd == Len(file) * RecSize + (IF torn THEN 1 ELSE 0)

\* A string may look like the start of a value record.  Its backref leads to the
\* start of some record, to the middle of one, or before the file.
WriteFalse ==
  \/ UNCHANGED falses
  \/ /\ Cardinality(falses) < use.falses
     /\ \E b \in {1} \cup {FalseAt + k * RecSize : k \in 0..(Len(file) + 1)} :
          falses' = falses \cup
                      {[sor |-> Len(file) * RecSize + FalseAt, backref |-> b]}

MayGrow == use.grows \/ entered = <<>>

Writer ==
  /\ MayGrow
  /\ Len(file) < use.records /\ ~torn
  /\ \/ WriteClear /\ UNCHANGED falses
     \/ (WriteAdd \/ WriteValue(<<>>)) /\ WriteFalse
  /\ UNCHANGED <<use, torn, syncVars, readerVars>>

\* A writer's buffer has been flushed up to the first byte of a value.
Tear ==
  /\ MayGrow /\ ~torn /\ ~use.follow
  /\ torn' = TRUE
  /\ UNCHANGED <<use, fileVars, falses, syncVars, readerVars>>

-----------------------------------------------------------------------------
(***************************************************************************)
(* sync().                                                                 *)
(***************************************************************************)
TailInit ==
  /\ use \in Uses
  /\ LogInit
  /\ falses = {} /\ torn = FALSE
  /\ phase = "outside"
  /\ at = 0 /\ sor = 0 /\ target = 0 /\ link = 0 /\ newEntries = <<>>
  /\ entered = <<>> /\ first = 0
  /\ ReaderInit

\* tail(length), or the seek of seekSync: the cached dictionaries stay.
Enter ==
  /\ phase \in {"outside", "reading", "done"}
  /\ Len(entered) < use.entries
  /\ \E p \in 0..(FileEnd - 1) :
       p % RecSize \in use.enterAt /\ at' = p /\ entered' = Append(entered, p)
  /\ phase' = "scan"
  /\ delivered' = <<>>
  /\ UNCHANGED <<logVars, sor, target, link, newEntries, first, dicts, pos,
                 broken>>

\* What follows the two bytes that end a record and looks like a V.
Starts ==
  {[sor |-> file[i].sor, backref |-> file[i].backref] :
     i \in {j \in DOMAIN file : file[j].kind = "V"}} \cup falses

Ahead == {v \in Starts : v.sor - 2 >= at}

\* Whatever is thrown while a start is tried, sync() goes on behind its first
\* byte.  A seek to the end of a file that does not grow throws in turn, out of
\* sync().
\* Mutant of GiveUp: it goes on behind what it takes for a whole record.
GiveUpFurther ==
  /\ at' = sor' + 2
  /\ phase' = "scan"
\* Mutant of GiveUp: it goes back to where the start was found.
GiveUpAgain ==
  /\ at' = sor' - 2
  /\ phase' = "scan"
GiveUp ==
  /\ at' = sor' + 1
  /\ phase' = IF sor' + 1 < FileEnd \/ use.follow THEN "scan" ELSE "threw"

\* scanTo finds the next start; its backref is read.
Try ==
  /\ phase = "scan"
  /\ \E v \in Ahead :
       /\ \A w \in Ahead : v.sor <= w.sor
       /\ sor' = v.sor
       /\ target' = v.sor - v.backref
       /\ \/ /\ target' < 0
             /\ GiveUp
             /\ UNCHANGED <<link, newEntries>>
          \/ /\ target' >= 0
             /\ phase' = IF Search(dicts, target') # 0 THEN "validate" ELSE "build"
             /\ link' = target'
             /\ newEntries' = <<>>
             /\ UNCHANGED at
  /\ UNCHANGED <<logVars, readerVars, entered, first>>

\* The torn record's backref cannot be read.
TryTorn ==
  /\ phase = "scan" /\ Ahead = {}
  /\ torn /\ at + 2 < FileEnd
  /\ sor' = FileEnd - 1
  /\ GiveUp
  /\ UNCHANGED <<logVars, readerVars, target, link, newEntries, entered, first>>

NothingFound ==
  /\ phase = "scan" /\ Ahead = {}
  /\ ~use.follow /\ ~(torn /\ at + 2 < FileEnd)
  /\ phase' = "lost"
  /\ UNCHANGED <<logVars, readerVars, at, sor, target, link, newEntries,
                 entered, first>>

-----------------------------------------------------------------------------
(***************************************************************************)
(* DictionaryBuilder::build, one action per dictionary record.             *)
(***************************************************************************)
Linked == {i \in DictRecs : file[i].sor = link}

\* Mutant of Collected: the strings in the order they are found.
CollectedBackwards(strings) == newEntries \o strings
Collected(strings) == strings \o newEntries

\* populate(): every string is added under the position the build began at.
Populated(d, strings) == AddAll(d, target, strings)

BuildAdd ==
  /\ phase = "build"
  /\ \E i \in Linked :
       LET prev == link - file[i].backref
           strings == Collected(file[i].content)
           d == Search(dicts, prev)
       IN /\ file[i].kind = "A"
          /\ \/ /\ d = 0
                /\ link' = prev /\ newEntries' = strings
                /\ UNCHANGED <<phase, at, sor, dicts>>
             \/ /\ d # 0 /\ dicts[d].lastDictPos = prev
                /\ dicts' = [dicts EXCEPT ![d] = Populated(@, strings)]
                /\ phase' = "validate"
                /\ UNCHANGED <<at, sor, link, newEntries>>
             \/ /\ d # 0 /\ dicts[d].lastDictPos # prev
                /\ UNCHANGED <<sor, link, newEntries, dicts>>
                /\ GiveUp
  /\ UNCHANGED <<logVars, target, entered, first, pos, delivered, broken>>

BuildClear ==
  /\ phase = "build"
  /\ \E i \in Linked :
       LET opened == IF AlreadyCleared(dicts, link) THEN dicts
                     ELSE Opened(dicts, link, MaxDicts)
           d == Search(opened, link)
       IN /\ file[i].kind = "C"
          /\ \/ /\ ClearMismatch(dicts, link)
                /\ UNCHANGED <<sor, dicts>>
                /\ GiveUp
             \/ /\ ~ClearMismatch(dicts, link)
                /\ dicts' = [opened EXCEPT ![d] = Populated(@, newEntries)]
                /\ phase' = "validate"
                /\ UNCHANGED <<at, sor>>
  /\ UNCHANGED <<logVars, target, link, newEntries, entered, first, pos,
                 delivered, broken>>

\* A false backref leads to no dictionary record.
BuildFails ==
  /\ phase = "build" /\ Linked = {}
  /\ UNCHANGED sor
  /\ GiveUp
  /\ UNCHANGED <<logVars, readerVars, target, link, newEntries, entered, first>>

\* source_.seek(sor), back to the start of the record validated.
\* Mutant of Resume: not back, but on behind the record.
ResumeBehind(i) == pos' = i
Resume(i) == pos' = i - 1

\* The value is read with the dictionary its backref selects; if it is sound,
\* the reader starts at this record.
Validate ==
  /\ phase = "validate"
  /\ LET d == Search(dicts, target)
         sound == {i \in DOMAIN file :
                     /\ file[i].sor = sor /\ d # 0
                     /\ Resolvable(dicts[d], file[i].content)}
     IN \/ /\ sound = {}
           /\ UNCHANGED <<sor, pos, first>>
           /\ GiveUp
        \/ \E i \in sound :
             /\ phase' = "reading"
             /\ Resume(i)
             /\ first' = Cardinality({k \in DOMAIN sent : sent[k].sor < sor})
             /\ UNCHANGED <<at, sor>>
  /\ UNCHANGED <<logVars, target, link, newEntries, entered, dicts, delivered,
                 broken>>

-----------------------------------------------------------------------------
Sync == Try \/ TryTorn \/ NothingFound \/ BuildAdd \/ BuildClear \/ BuildFails
          \/ Validate

ReadOn == phase = "reading" /\ ReaderNext /\ UNCHANGED <<logVars, syncVars>>

\* The end of the file is the end of the output, unless a record is cut off.
Finish ==
  /\ phase = "reading" /\ ~use.follow /\ pos = Len(file)
  /\ phase' = IF torn THEN "failed" ELSE "done"
  /\ UNCHANGED <<logVars, readerVars, at, sor, target, link, newEntries,
                 entered, first>>

TailNext == Writer \/ Tear \/ Enter \/ Sync \/ ReadOn \/ Finish

\* Nothing is asked of the writer; the reader runs.
TailSpec ==
  /\ TailInit
  /\ [][TailNext]_tailVars
  /\ WF_tailVars(Sync) /\ WF_tailVars(ReadOn \/ Finish)

-----------------------------------------------------------------------------
\* Every cached dictionary is the truth about the positions it covers: it
\* starts at a C, reaches to an A or C before the next C, and holds exactly the
\* strings added in between, in order - however the file was entered, in which
\* order the dictionaries were built, and whatever false starts were tried.
CacheIsTrue ==
  \A k \in DOMAIN dicts :
    \E i, j \in DictRecs :
      /\ i <= j
      /\ file[i].kind = "C" /\ file[i].sor = dicts[k].startPos
      /\ file[j].sor = dicts[k].lastDictPos
      /\ \A c \in (i + 1)..j : file[c].kind # "C"
      /\ known[j] = dicts[k].entries

\* sync() settles on the first value record that begins at least two bytes
\* behind the place it was asked to start from: a false start tried before it
\* neither hides it nor is taken for it.
SyncsAtFirst ==
  \A i \in DOMAIN file :
    phase = "reading" /\ delivered = <<>> /\ pos = i - 1 /\ file[i].sor = sor =>
      /\ file[i].kind = "V"
      /\ \A v \in DOMAIN sent :
           sent[v].sor - 2 >= entered[Len(entered)] => sor <= sent[v].sor

\* From there on every value is delivered as it was written.
TailDelivers ==
  phase \in {"reading", "done", "failed"} =>
    /\ ~broken
    /\ first + Len(delivered) <= Len(sent)
    /\ \A i \in DOMAIN delivered : delivered[i] = sent[first + i].value

\* Without -f, tail comes to an end when the file does: sync() does not try the
\* same start for ever, and what is read after it is read to the end.
TailEnds == phase = "scan" /\ ~use.follow ~> phase \in {"done", "failed", "lost", "threw"}

\* A follower that has found its place delivers everything written after it.
FollowerCatchesUp ==
  \A n \in 1..Max({u.records - 2 : u \in {w \in Uses : w.follow}}) :
    use.follow /\ phase = "reading" /\ Len(sent) >= n ~> first + Len(delivered) >= n

\* sync() finds a record or reports that there is none.
SyncReports == phase # "threw"
=============================================================================
