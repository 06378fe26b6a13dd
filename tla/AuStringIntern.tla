--------------------------- MODULE AuStringIntern ---------------------------
(***************************************************************************)
(* The encoder's string dictionary: AuStringIntern and its UsageTracker    *)
(* (src/src/au/AuEncoder.h).                                               *)
(*                                                                         *)
(* A string that is long enough is replaced in the output by its index in  *)
(* dictInOrder_ once the caller forces it or the tracker has seen it often *)
(* enough.  dictionary_ is the hash that finds a string's index; purge()   *)
(* takes strings out of the hash but not out of the vector, doReIndex()    *)
(* rebuilds both with the frequent strings first.                          *)
(***************************************************************************)
EXTENDS Integers, Sequences, FiniteSets, SequencesExt

CONSTANTS
  Str,              \* the strings a caller may write
  StrLen,           \* their lengths, [Str -> Nat]
  StrOrd,           \* their rank in std::string's operator<, [Str -> Nat]
  TinyStr,          \* Config::tinyStr
  InternThresh,     \* Config::internThresh
  InternCacheSize,  \* Config::internCacheSize
  ReserveSize,      \* what the constructor reserves in dictInOrder_: the code
                    \* takes 1.2 * Config::clearThreshold, an instance a
                    \* small number it can fill
  MaxCount          \* bound: uses counted of one string, strings in the vector

ASSUME InternAssumption ==
  /\ StrLen \in [Str -> Nat]
  /\ StrOrd \in [Str -> Nat]
  /\ \A s, t \in Str : StrOrd[s] = StrOrd[t] => s = t
  /\ TinyStr \in Nat
  /\ InternThresh \in Nat
  /\ InternCacheSize \in Nat \ {0}
  /\ ReserveSize \in Nat
  /\ MaxCount \in Nat

VARIABLES
  dictInOrder,  \* dictInOrder_: the strings by index
  dictionary,   \* dictionary_: string -> its index (from 0) and use count
  capacity,     \* dictInOrder_.capacity()
  inOrder,      \* UsageTracker::inOrder_: tracked strings, oldest first
  seen,         \* UsageTracker::dict_: tracked string -> times seen
  freeNodes     \* UsageTracker::freeList_.size()

trackerVars == <<inOrder, seen, freeNodes>>
internVars == <<dictInOrder, dictionary, capacity, inOrder, seen, freeNodes>>

Hints == {"ByFrequency", "ForceIntern", "ForceExplicit"}

InternEntry == [internIndex : Nat, occurences : Nat]

\* Partial functions on Str, the shape of both unordered_maps.
IsHash(f, V) == DOMAIN f \subseteq Str /\ f \in [DOMAIN f -> V]

EmptyHash == [s \in {} |-> 0]

InternTypeOK ==
  /\ dictInOrder \in Seq(Str)
  /\ IsHash(dictionary, InternEntry)
  /\ capacity \in Nat
  /\ inOrder \in Seq(Str)
  /\ IsHash(seen, Nat)
  /\ freeNodes \in Nat

InternInit ==
  /\ dictInOrder = <<>>
  /\ dictionary = EmptyHash
  /\ capacity = ReserveSize
  /\ inOrder = <<>>
  /\ seen = EmptyHash
  /\ freeNodes = InternCacheSize + 1

-----------------------------------------------------------------------------
(***************************************************************************)
(* The usage tracker.                                                      *)
(***************************************************************************)

\* shouldIntern's first branch: the string has been counted often enough.
Frequent(s) == s \in DOMAIN seen /\ seen[s] >= InternThresh

\* pop() of a frequent string: its list node goes back to the free list.
Promote(s) ==
  /\ \E i \in DOMAIN inOrder :
       /\ inOrder[i] = s
       /\ inOrder' = RemoveAt(inOrder, i)
  /\ seen' = [t \in DOMAIN seen \ {s} |-> seen[t]]
  /\ freeNodes' = freeNodes + 1

\* shouldIntern on a string already tracked, below the threshold.
CountAgain(s) ==
  /\ s \in DOMAIN seen
  /\ seen' = [seen EXCEPT ![s] = @ + 1]
  /\ UNCHANGED <<inOrder, freeNodes>>

\* Mutant of StartTracking: eviction frees no node.
StartTrackingLeaking(s) ==
  /\ s \notin DOMAIN seen
  /\ LET full == Len(inOrder) >= InternCacheSize
         evicted == IF full THEN {Head(inOrder)} ELSE {}
     IN /\ inOrder' = Append(IF full THEN Tail(inOrder) ELSE inOrder, s)
        /\ seen' = [t \in (DOMAIN seen \ evicted) \cup {s} |->
                      IF t = s THEN 1 ELSE seen[t]]
        /\ freeNodes' = freeNodes - 1

\* shouldIntern on a string not tracked: when the cache is full the oldest
\* string's node is freed first, then a free node is moved to the end.
StartTracking(s) ==
  /\ s \notin DOMAIN seen
  /\ LET full == Len(inOrder) >= InternCacheSize
         evicted == IF full THEN {Head(inOrder)} ELSE {}
         kept == IF full THEN Tail(inOrder) ELSE inOrder
     IN /\ inOrder' = Append(kept, s)
        /\ seen' = [t \in (DOMAIN seen \ evicted) \cup {s} |->
                      IF t = s THEN 1 ELSE seen[t]]
        /\ freeNodes' = IF full THEN freeNodes ELSE freeNodes - 1

-----------------------------------------------------------------------------
(***************************************************************************)
(* Re-indexing.  std::sort orders (occurrences, string) pairs descending;  *)
(* no two pairs are equal, so exactly one sequence qualifies.              *)
(***************************************************************************)
Outranks(d, s, t) ==
  \/ d[s].occurences > d[t].occurences
  \/ d[s].occurences = d[t].occurences /\ StrOrd[s] > StrOrd[t]

SortedOrders(d) ==
  {o \in [1..Cardinality(DOMAIN d) -> DOMAIN d] :
     /\ \A i, j \in DOMAIN o : i < j => Outranks(d, o[i], o[j])
     /\ \A s \in DOMAIN d : \E i \in DOMAIN o : o[i] = s}

\* The hash doReIndex fills while it appends the strings of o.
\* Mutant of Indexing: the strings move, their indices stay.
IndexingStale(o, d) == d
Indexing(o, d) ==
  [s \in DOMAIN d |->
     [internIndex |-> (CHOOSE i \in DOMAIN o : o[i] = s) - 1,
      occurences  |-> d[s].occurences]]

\* What purge(threshold) leaves in the hash.
Survivors(threshold) ==
  LET kept == {s \in DOMAIN dictionary : dictionary[s].occurences >= threshold}
  IN [s \in kept |-> dictionary[s]]

-----------------------------------------------------------------------------
(***************************************************************************)
(* idx(sv, intern), one action per way through it.                         *)
(***************************************************************************)
Inline(s, hint) == StrLen[s] <= TinyStr \/ hint = "ForceExplicit"

\* Already in the hash: count the use, hand out the index it has.
IdxHit(s) ==
  /\ s \in DOMAIN dictionary
  /\ dictionary' = [dictionary EXCEPT ![s].occurences = @ + 1]
  /\ UNCHANGED <<dictInOrder, capacity, inOrder, seen, freeNodes>>

\* Not interned yet and not to be: only the tracker learns of it.
IdxTrack(s, hint) ==
  /\ s \notin DOMAIN dictionary
  /\ hint = "ByFrequency"
  /\ ~Frequent(s)
  /\ CountAgain(s) \/ StartTracking(s)
  /\ UNCHANGED <<dictInOrder, dictionary, capacity>>

\* emplace_back of s behind the strings of o, which d indexes.
AppendEntry(s, o, d) ==
  /\ dictInOrder' = Append(o, s)
  /\ dictionary' = [t \in DOMAIN d \cup {s} |->
                      IF t = s THEN [internIndex |-> Len(o), occurences |-> 1]
                      ELSE d[t]]

\* A full vector is grown and, because growing moves the strings the hash's
\* string_views point into, re-indexed before s is appended.
GrowCapacity == IF capacity = 0 THEN 1 ELSE 2 * capacity

\* Mutant of AddEntry: emplace_back left to grow the vector by itself.
AddEntryUnchecked(s) ==
  AppendEntry(s, dictInOrder, dictionary) /\ UNCHANGED capacity

AddEntry(s) ==
  IF Len(dictInOrder) = capacity
  THEN /\ capacity' = GrowCapacity
       /\ \E o \in SortedOrders(dictionary) :
            AppendEntry(s, o, Indexing(o, dictionary))
  ELSE /\ AppendEntry(s, dictInOrder, dictionary)
       /\ UNCHANGED capacity

IdxAdd(s, hint) ==
  /\ s \notin DOMAIN dictionary
  /\ \/ hint = "ForceIntern" /\ UNCHANGED trackerVars
     \/ hint = "ByFrequency" /\ Frequent(s) /\ Promote(s)
  /\ AddEntry(s)

Idx(s, hint) ==
  \/ Inline(s, hint) /\ UNCHANGED internVars
  \/ ~Inline(s, hint) /\ IdxHit(s)
  \/ ~Inline(s, hint) /\ IdxTrack(s, hint)
  \/ ~Inline(s, hint) /\ IdxAdd(s, hint)

-----------------------------------------------------------------------------
(***************************************************************************)
(* The other operations.                                                   *)
(***************************************************************************)
\* Mutant of Clear: the tracker's hash is cleared, its list is not.
ClearHalfTracker(clearUsageTracker) ==
  /\ dictionary' = EmptyHash
  /\ dictInOrder' = <<>>
  /\ seen' = IF clearUsageTracker THEN EmptyHash ELSE seen
  /\ UNCHANGED <<capacity, inOrder, freeNodes>>

Clear(clearUsageTracker) ==
  /\ dictionary' = EmptyHash
  /\ dictInOrder' = <<>>
  /\ UNCHANGED capacity
  /\ IF clearUsageTracker
     THEN /\ inOrder' = <<>>
          /\ seen' = EmptyHash
          /\ freeNodes' = freeNodes + Len(inOrder)
     ELSE UNCHANGED trackerVars

Purge(threshold) ==
  /\ dictionary' = Survivors(threshold)
  /\ UNCHANGED <<dictInOrder, capacity, inOrder, seen, freeNodes>>

ReIndex(threshold) ==
  /\ \E o \in SortedOrders(Survivors(threshold)) :
       /\ dictInOrder' = o
       /\ dictionary' = Indexing(o, Survivors(threshold))
  /\ UNCHANGED <<capacity, inOrder, seen, freeNodes>>

\* Bounds of the interner on its own: MaxCount strings, MaxCount uses of each.
WithinCounts ==
  /\ Len(dictInOrder) < MaxCount
  /\ \A s \in DOMAIN dictionary : dictionary[s].occurences < MaxCount

InternNext ==
  \/ \E s \in Str, hint \in Hints : WithinCounts /\ Idx(s, hint)
  \/ \E all \in BOOLEAN : Clear(all)
  \/ \E threshold \in 1..MaxCount : Purge(threshold) \/ ReIndex(threshold)

InternSpec == InternInit /\ [][InternNext]_internVars

-----------------------------------------------------------------------------
\* The hash and the vector agree: the index stored for a string is the
\* position of that string.  doReIndex() reads the vector at every stored
\* index, and a decoder resolves the indices it was given by position; purge
\* and the re-index inside idx() are where the two could drift apart.
IndexNamesItsString ==
  \A s \in DOMAIN dictionary :
    /\ dictionary[s].internIndex + 1 \in DOMAIN dictInOrder
    /\ dictInOrder[dictionary[s].internIndex + 1] = s

\* The vector never outgrows what it has reserved: beyond that emplace_back
\* would move the strings that dictionary_'s string_views point into.
ViewsNeverDangle == Len(dictInOrder) <= capacity

\* The tracker's list and hash hold the same strings, each once, never more
\* than INTERN_CACHE_SIZE of them, and every node is in exactly one list: so
\* shouldIntern always finds a free node and never throws bad_alloc.
TrackerConsistent ==
  /\ DOMAIN seen = {inOrder[i] : i \in DOMAIN inOrder}
  /\ \A i, j \in DOMAIN inOrder : inOrder[i] = inOrder[j] => i = j
  /\ Len(inOrder) <= InternCacheSize
  /\ freeNodes + Len(inOrder) = InternCacheSize + 1
=============================================================================
