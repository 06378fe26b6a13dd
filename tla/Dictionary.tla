----------------------------- MODULE Dictionary -----------------------------
(***************************************************************************)
(* The decoder's cache of dictionaries (src/src/Dictionary.h).             *)
(*                                                                         *)
(* A Dict is the strings collected since the C record at startPos, together *)
(* with the position of the last A record that added to it.  A backref     *)
(* selects the dictionary whose range of positions includes the place it   *)
(* points to.  The operators take and return the sequence dictionaries_,   *)
(* oldest first.                                                           *)
(***************************************************************************)
EXTENDS Integers, Sequences

NewDict(sor) == [entries |-> <<>>, startPos |-> sor, lastDictPos |-> sor]

Includes(d, pos) == d.startPos <= pos /\ pos <= d.lastDictPos

\* Mutant of AddAll: lastDictPos_ stays.
AddAllInPlace(d, sor, strings) == [d EXCEPT !.entries = @ \o strings]

\* Dict::add for each of the strings of one A record: lastDictPos_ moves only
\* when there is a string to add.
AddAll(d, sor, strings) ==
  IF strings = <<>> THEN d
  ELSE [d EXCEPT !.entries = @ \o strings, !.lastDictPos = sor]

\* search(): the newest dictionary that includes pos, by index; 0 for nullptr.
Search(dicts, pos) ==
  LET found == {i \in DOMAIN dicts : Includes(dicts[i], pos)}
  IN IF found = {} THEN 0
     ELSE CHOOSE i \in found : \A j \in found : j <= i

\* clear(): a known dictionary starting right here is kept as it is ...
AlreadyCleared(dicts, sor) ==
  LET i == Search(dicts, sor) IN i # 0 /\ dicts[i].startPos = sor

\* ... one that merely covers this position is a mismatch and throws ...
ClearMismatch(dicts, sor) ==
  LET i == Search(dicts, sor) IN i # 0 /\ dicts[i].startPos # sor

\* Mutant of Opened: the newest is recycled.
OpenedOverNewest(dicts, sor, maxDicts) ==
  Append(IF Len(dicts) = maxDicts THEN SubSeq(dicts, 1, Len(dicts) - 1)
         ELSE dicts, NewDict(sor))

\* ... and otherwise a new one is added, recycling the oldest of maxDicts.
Opened(dicts, sor, maxDicts) ==
  Append(IF Len(dicts) = maxDicts THEN Tail(dicts) ELSE dicts, NewDict(sor))
=============================================================================
