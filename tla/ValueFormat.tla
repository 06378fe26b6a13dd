---------------------------- MODULE ValueFormat ----------------------------
(***************************************************************************)
(* The bytes of a value: what AuWriter writes (src/src/au/AuEncoder.h) and *)
(* what BaseParser and ValueParser make of them (src/src/au/AuDecoder.h).  *)
(*                                                                         *)
(* The first byte of a value and the bytes of a varint are themselves,     *)
(* with a varint's groups and the widest integers scaled down.  The        *)
(* content of a string is one element of the sequence, and so are the      *)
(* eight bytes of an integer, a double or a time.                          *)
(***************************************************************************)
EXTENDS Integers, Sequences, FiniteSetsExt, SequencesExt

CONSTANTS
  Width,        \* bits of an integer (64)
  GroupBits,    \* bits in a byte of a varint (7)
  VarintLimit,  \* integers from this on take eight bytes (2^48)
  Strings       \* the strings: Strings[s] has the length of string s, its text
                \* if it looks like a time, and the strings that are part of it

ASSUME ValueFormatAssumption ==
  /\ {Width, GroupBits, VarintLimit} \subseteq Nat \ {0}
  /\ VarintLimit <= 2^Width /\ GroupBits <= 7

MarkerNames ==
  <<"Null", "True", "False", "Double", "Timestamp", "String", "Varint", "NegVarint",
    "PosInt64", "NegInt64", "DictRef", "ArrayStart", "ArrayEnd", "ObjectStart",
    "ObjectEnd", "RecordEnd">>
marker == [name \in Range(MarkerNames) |-> CHOOSE b \in 0..15 : MarkerNames[b + 1] = name]

MaxInlineStringSize == 31
NegIntLimit == 2^(Width - 1)

-----------------------------------------------------------------------------
(***************************************************************************)
(* AuWriter.                                                               *)
(***************************************************************************)
\* valueInt: groups of bits, the lowest first; all but the last say that more follow.
ValueInt(i) ==
  LET groups == CHOOSE n \in 1..Width :
                  i < 2^(n * GroupBits) /\ (n > 1 => i >= 2^((n - 1) * GroupBits))
      Group(g) == (i \div 2^((g - 1) * GroupBits)) % 2^GroupBits
  IN [g \in 1..groups |-> Group(g) + (IF g < groups THEN 128 ELSE 0)]

EncodeString(s) ==
  LET len == Strings[s].len
  IN (IF len <= MaxInlineStringSize THEN <<32 + len>>
      ELSE <<marker["String"]>> \o ValueInt(len))
       \o (IF len > 0 THEN <<s>> ELSE <<>>)

EncodeIndex(idx) ==
  IF idx < 128 THEN <<128 + idx>> ELSE <<marker["DictRef"]>> \o ValueInt(idx)

\* auInt, for a signed integer.
\* Mutant of IntSigned: 32 bits for a small negative number, which has five.
IntSignedThirtyTwo(i) ==
  LET val == Max({i, -i})
      neg == i < 0
  IN IF i \in 0..31 THEN <<96 + i>>
     ELSE IF neg /\ i >= -32 THEN <<64 - i>>
     ELSE IF val >= VarintLimit
     THEN <<marker[IF neg THEN "NegInt64" ELSE "PosInt64"], val>>
     ELSE <<marker[IF neg THEN "NegVarint" ELSE "Varint"]>> \o ValueInt(val)
IntSigned(i) ==
  LET val == Max({i, -i})
      neg == i < 0
  IN IF i \in 0..31 THEN <<96 + i>>
     ELSE IF neg /\ i > -32 THEN <<64 - i>>
     ELSE IF val >= VarintLimit
     THEN <<marker[IF neg THEN "NegInt64" ELSE "PosInt64"], val>>
     ELSE <<marker[IF neg THEN "NegVarint" ELSE "Varint"]>> \o ValueInt(val)

IntUnsigned(i) ==
  IF i < 32 THEN <<96 + i>>
  ELSE IF i >= VarintLimit THEN <<marker["PosInt64"], i>>
  ELSE <<marker["Varint"]>> \o ValueInt(i)

\* The end of a record: the marker and a newline.
Term == <<marker["RecordEnd"], 10>>

\* value() and the SAX interface, but for strings.
Atoms == {"Null", "True", "False"}
Brackets == {"ArrayStart", "ArrayEnd", "ObjectStart", "ObjectEnd"}
Encode(e) ==
  CASE e.type \in Atoms \cup Brackets -> <<marker[e.type]>>
    [] e.type = "Int" -> IntSigned(e.v)
    [] e.type = "Uint" -> IntUnsigned(e.v)
    [] e.type = "Double" -> <<marker["Double"], e.v>>
    [] e.type = "Time" -> <<marker["Timestamp"], e.v>>

-----------------------------------------------------------------------------
(***************************************************************************)
(* BaseParser and ValueParser: what is read at position p, and the         *)
(* position behind it; "Bad" where the code throws.                        *)
(***************************************************************************)
Event(type, v) == [type |-> type, v |-> v]
Result(type, v, next) == [e |-> Event(type, v), next |-> next]
Bad == Result("Bad", 0, 0)

\* readVarint.
Varint(bytes, p) ==
  LET ends == {q \in p..Len(bytes) : bytes[q] < 128}
      last == Min(ends)
      Shifted(q) == (bytes[q] % 128) * 2^((q - p) * GroupBits)
      val == FoldLeft(+, 0, [i \in 1..(last - p + 1) |-> Shifted(p + i - 1)])
  IN IF ends = {} \/ (last - p) * GroupBits >= Width THEN Bad
     ELSE Result("Varint", val % 2^Width, last + 1)

\* parseString: the handler hears of a string only when all of it is there.
StringAt(bytes, p, len) ==
  IF len = 0
  THEN Result("String", CHOOSE s \in DOMAIN Strings : Strings[s].len = 0, p)
  ELSE IF p <= Len(bytes) /\ bytes[p] \in DOMAIN Strings /\ Strings[bytes[p]].len = len
  THEN Result("String", bytes[p], p + 1)
  ELSE Bad

\* The eight bytes at p, and what was read as an event.
EightBytes(bytes, p) == IF p > Len(bytes) THEN Bad ELSE Result("Bytes", bytes[p], p + 1)
As(type, r) == IF r = Bad THEN Bad ELSE Result(type, r.e.v, r.next)
\* A magnitude, which may not be below the least integer.
NegInt(r) ==
  IF r = Bad \/ r.e.v > NegIntLimit THEN Bad ELSE Result("Int", -r.e.v, r.next)

LongStringAt(bytes, p) ==
  LET len == Varint(bytes, p)
  IN IF len = Bad THEN Bad ELSE StringAt(bytes, len.next, len.e.v)

\* A first byte that a key may have, too.
StringToken(bytes, p) ==
  LET b == bytes[p]
  IN CASE b >= 128 -> Result("DictRef", b - 128, p + 1)
       [] b \in 32..63 -> StringAt(bytes, p + 1, b - 32)
       [] b = marker["DictRef"] -> As("DictRef", Varint(bytes, p + 1))
       [] b = marker["String"] -> LongStringAt(bytes, p + 1)
       [] OTHER -> Bad

Token(bytes, p) ==
  LET b == bytes[p]
  IN CASE b \in 64..95 -> Result("Int", 64 - b, p + 1)
       [] b \in 96..127 -> Result("Uint", b - 96, p + 1)
       [] \E type \in Atoms \cup {"ArrayStart", "ObjectStart"} : b = marker[type] ->
            Result(MarkerNames[b + 1], 0, p + 1)
       [] b = marker["Varint"] -> As("Uint", Varint(bytes, p + 1))
       [] b = marker["NegVarint"] -> NegInt(Varint(bytes, p + 1))
       [] b = marker["PosInt64"] -> As("Uint", EightBytes(bytes, p + 1))
       [] b = marker["NegInt64"] -> NegInt(EightBytes(bytes, p + 1))
       [] b = marker["Double"] -> As("Double", EightBytes(bytes, p + 1))
       [] b = marker["Timestamp"] -> As("Time", EightBytes(bytes, p + 1))
       [] OTHER -> StringToken(bytes, p)
=============================================================================
