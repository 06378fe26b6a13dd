----------------------------- MODULE AuValues -----------------------------
(***************************************************************************)
(* One value from where it is said to where it is read.                    *)
(*                                                                         *)
(* A JSON parser says it to the encoder (JsonSaxHandler in                 *)
(* src/src/Json2Au.cpp) and to the search of JSON files (JsonSaxProxy in   *)
(* src/src/JsonProxies.h); or a program says it to AuWriter directly, as   *)
(* `grep -e' does (AuOutputHandler).  AuWriter writes bytes.  ValueParser  *)
(* reads them and tells the search of au files and the printer             *)
(* (JsonOutputHandler) what it finds.                                      *)
(***************************************************************************)
EXTENDS GrepValue

CONSTANTS
  MaxDepth,   \* ValueParser's bound on nesting
  Scopes      \* what is said, what is searched for, and the bounds on both: the
              \* producer; the scalars and keys it may say; which of those keys are
              \* in the list of Json2Au.cpp; the depth and number of events;
              \* may JSON break off; the length of the dictionary before; the requests

ASSUME AuValuesAssumption ==
  /\ MaxDepth \in Nat \ {0}
  /\ \A s \in Scopes : s.producer \in {"json", "program"} /\ s.dictLen \in Nat
                        /\ s.breaks \in BOOLEAN

VARIABLES
  scope,     \* one of Scopes
  request,   \* one of its requests
  said,      \* the events so far
  open,      \* the producer's brackets: "array", "key" or "value" (in an object)
  intern,    \* intern_ of the SAX handler: "unset" or "explicit"
  bytes,     \* msgBuf_
  dict,      \* the strings interned behind those that were there before
  phase,     \* "say", "read", "done" or "failed"
  pos,       \* source.pos()
  frames,    \* the calls of parseArray and parseObject: "array", "key" or "value"
  shown,     \* what the parser's handler was told
  jsonGrep,  \* the GrepHandler of a search in JSON
  auGrep     \* the GrepHandler of a search in au

producerVars == <<scope, request, said, open, intern>>
writerVars == <<bytes, dict>>
readerVars == <<pos, frames, shown, auGrep>>
valueVars == <<producerVars, writerVars, phase, readerVars, jsonGrep>>

ValuesInit ==
  /\ scope \in Scopes
  /\ request \in scope.requests
  /\ said = <<>> /\ open = <<>> /\ intern = "unset"
  /\ bytes = <<>> /\ dict = <<>>
  /\ phase = "say"
  /\ pos = 1 /\ frames = <<>> /\ shown = <<>>
  /\ jsonGrep = InitializeForValue(Pattern(request))
  /\ auGrep = InitializeForValue(Pattern(request))

-----------------------------------------------------------------------------
(***************************************************************************)
(* What is said is well-formed.                                            *)
(***************************************************************************)
\* In an object, keys and values take turns; the same holds for the parser's calls.
AfterValue(stack) ==
  IF stack # <<>> /\ Last(stack) = "value" THEN Append(Front(stack), "key") ELSE stack
AfterKey(stack) == Append(Front(stack), "value")

CanSay ==
  /\ phase = "say"
  /\ Len(said) + Len(open) < scope.maxEvents
MaySayValue ==
  /\ CanSay
  /\ IF open = <<>> THEN said = <<>> ELSE Last(open) # "key"

Say(e) == said' = Append(said, e)

\* The search in JSON is told.
Hear(e) == jsonGrep' = OnEvent(jsonGrep, e)

-----------------------------------------------------------------------------
(***************************************************************************)
(* The SAX handlers, and AuWriter.                                         *)
(***************************************************************************)
Write(s) == bytes' = bytes \o s /\ UNCHANGED dict

\* String: a text that is a time is said to be one.
AsTime(e) ==
  IF scope.producer = "json" /\ e.type = "String"
  THEN {Event("Time", t) : t \in TryTime(Strings[e.v].text)} ELSE {}

\* encodeStringIntern: the interner has the string's index, or gives it one, or
\* none (module AuStringIntern says when).
IndexOf(s) == {scope.dictLen + i - 1 : i \in {j \in DOMAIN dict : dict[j] = s}}
WriteString(s, mayIntern) ==
  \/ Write(EncodeString(s))
  \/ /\ mayIntern
     /\ IF IndexOf(s) # {}
        THEN Write(EncodeIndex(Min(IndexOf(s))))
        ELSE /\ bytes' = bytes \o EncodeIndex(scope.dictLen + Len(dict))
             /\ dict' = Append(dict, s)

SayScalar ==
  /\ MaySayValue
  /\ \E e \in scope.scalars :
       LET told == IF AsTime(e) = {} THEN e ELSE CHOOSE t \in AsTime(e) : TRUE
       IN /\ Say(e)
          /\ open' = AfterValue(open)
          /\ Hear(told)
          /\ IF told.type = "String"
             THEN WriteString(e.v, intern = "unset") /\ intern' = "unset"
             ELSE Write(Encode(told)) /\ UNCHANGED intern
  /\ UNCHANGED <<scope, request, phase, readerVars>>

\* Key: the key itself may be interned; for some, the value is not to be.  A value
\* that is no string leaves that to a later one.
SayKey ==
  /\ CanSay /\ open # <<>> /\ Last(open) = "key"
  /\ Len(said) + Len(open) + 1 < scope.maxEvents
  /\ \E s \in scope.keys :
       /\ Say(Event("String", s))
       /\ Hear(Event("String", s))
       /\ WriteString(s, TRUE)
       /\ intern' = IF s \in scope.explicitKeys THEN "explicit" ELSE intern
  /\ open' = AfterKey(open)
  /\ UNCHANGED <<scope, request, phase, readerVars>>

SayStart ==
  /\ MaySayValue
  /\ Len(said) + Len(open) + 1 < scope.maxEvents /\ Len(open) < scope.depth
  /\ \E bracket \in {<<"ArrayStart", "array">>, <<"ObjectStart", "key">>} :
       LET e == Event(bracket[1], 0)
       IN /\ Say(e)
          /\ open' = Append(AfterValue(open), bracket[2])
          /\ Hear(e)
          /\ Write(Encode(e))
  /\ UNCHANGED <<scope, request, intern, phase, readerVars>>

SayEnd ==
  /\ phase = "say" /\ open # <<>> /\ Last(open) # "value"
  /\ LET e == Event(IF Last(open) = "array" THEN "ArrayEnd" ELSE "ObjectEnd", 0)
     IN /\ Say(e)
        /\ Hear(e)
        /\ Write(Encode(e))
  /\ open' = Front(open)
  /\ UNCHANGED <<scope, request, intern, phase, readerVars>>

\* encode() ends a record that is not empty, be the value complete or not: JSON that
\* breaks off in the middle of a value leaves half of it in the file.
EndRecord ==
  /\ phase' = "read"
  /\ Write(Term)
  /\ UNCHANGED <<producerVars, readerVars, jsonGrep>>

Encoded == phase = "say" /\ said # <<>> /\ open = <<>> /\ EndRecord
BrokenOff == phase = "say" /\ open # <<>> /\ scope.breaks /\ EndRecord

-----------------------------------------------------------------------------
(***************************************************************************)
(* ValueParser.                                                            *)
(***************************************************************************)
Reading == phase = "read"
Expecting(what) == Reading /\ (IF frames = <<>> THEN "value" ELSE Last(frames)) = what
AtEnd(type) == pos <= Len(bytes) /\ bytes[pos] = marker[type]

\* What comes next; a dictionary index is looked up by the handler.
Resolved(r) ==
  IF r.e.type # "DictRef" THEN r
  ELSE IF r.e.v - scope.dictLen + 1 \in DOMAIN dict
  THEN [r EXCEPT !.e.v = dict[r.e.v - scope.dictLen + 1]] ELSE Bad
NextToken == IF pos > Len(bytes) THEN Bad ELSE Resolved(Token(bytes, pos))
NextString == IF pos > Len(bytes) THEN Bad ELSE Resolved(StringToken(bytes, pos))

\* The handler is told.
Tell(e) ==
  /\ shown' = Append(shown, IF e.type = "DictRef" THEN Event("String", e.v) ELSE e)
  /\ auGrep' = OnEvent(auGrep, e)
Fail == phase' = "failed" /\ UNCHANGED readerVars

\* value(), but for the elements of a container; DepthRaii throws before the handler
\* is told.
ParseValue(r) ==
  CASE r.e.type = "Bad" -> Fail
    [] r.e.type \in {"ArrayStart", "ObjectStart"} ->
         IF Len(frames) + 1 > MaxDepth THEN Fail
         ELSE /\ Tell(r.e)
              /\ pos' = r.next
              /\ frames' = Append(AfterValue(frames),
                                  IF r.e.type = "ArrayStart" THEN "array" ELSE "key")
              /\ UNCHANGED phase
    [] OTHER ->
         /\ Tell(r.e)
         /\ pos' = r.next
         /\ frames' = AfterValue(frames)
         /\ phase' = IF frames = <<>> THEN "done" ELSE phase

ParseEnd(type) ==
  /\ Tell(Event(type, 0))
  /\ pos' = pos + 1
  /\ frames' = Front(frames)
  /\ phase' = IF Len(frames) = 1 THEN "done" ELSE phase

ParseArray ==
  /\ Expecting("array")
  /\ IF AtEnd("ArrayEnd") THEN ParseEnd("ArrayEnd") ELSE ParseValue(NextToken)
  /\ UNCHANGED <<producerVars, writerVars, jsonGrep>>

ParseKey ==
  /\ Expecting("key")
  /\ IF AtEnd("ObjectEnd") THEN ParseEnd("ObjectEnd")
     ELSE LET r == NextString
          IN IF r.e.type = "Bad" THEN Fail
             ELSE /\ Tell(r.e)
                  /\ pos' = r.next
                  /\ frames' = AfterKey(frames)
                  /\ UNCHANGED phase
  /\ UNCHANGED <<producerVars, writerVars, jsonGrep>>

ParseOneValue ==
  /\ Expecting("value")
  /\ ParseValue(NextToken)
  /\ UNCHANGED <<producerVars, writerVars, jsonGrep>>

ValuesNext ==
  \/ SayScalar \/ SayKey \/ SayStart \/ SayEnd \/ Encoded \/ BrokenOff
  \/ ParseArray \/ ParseKey \/ ParseOneValue

ValuesSpec == ValuesInit /\ [][ValuesNext]_valueVars

-----------------------------------------------------------------------------
(***************************************************************************)
(* Properties.  First, what was said, without regard to how it was dealt   *)
(* with: in which container an event is (0: in none; an end is in the one  *)
(* it ends), which events are keys, and which key is that of a value.      *)
(***************************************************************************)
IsStart(i) == said[i].type \in {"ArrayStart", "ObjectStart"}
IsEnd(i) == said[i].type \in {"ArrayEnd", "ObjectEnd"}
IsScalar(i) == ~IsStart(i) /\ ~IsEnd(i)
Container[i \in DOMAIN said] ==
  CASE i = 1 -> 0
    [] i > 1 /\ IsStart(i - 1) -> i - 1
    [] i > 1 /\ IsEnd(i - 1) -> Container[Container[i - 1]]
    [] i > 1 /\ IsScalar(i - 1) -> Container[i - 1]
MembersBefore(i) ==
  {m \in (Container[i] + 1)..(i - 1) : ~IsEnd(m) /\ Container[m] = Container[i]}
InObject(i) == Container[i] # 0 /\ said[Container[i]].type = "ObjectStart"
IsKeyAt(i) == InObject(i) /\ Cardinality(MembersBefore(i)) % 2 = 0
KeyOf[i \in DOMAIN said] ==
  CASE Container[i] = 0 -> {}
    [] InObject(i) -> {said[Max(MembersBefore(i))].v}
    [] Container[i] # 0 /\ ~InObject(i) -> KeyOf[Container[i]]
Depth[i \in 0..Len(said)] == IF i = 0 THEN 0 ELSE 1 + Depth[Container[i]]
MaxNesting == Max({Depth[i] : i \in {j \in DOMAIN said : IsStart(j)}} \cup {0})

Values == {i \in DOMAIN said : IsScalar(i) /\ ~IsKeyAt(i)}
IsTime(i) == AsTime(said[i]) # {} /\ ~IsKeyAt(i)
Times == {i \in DOMAIN said : IsTime(i)}

\* What an event means.
Meaning(i) ==
  IF IsTime(i) THEN CHOOSE t \in AsTime(said[i]) : TRUE
  ELSE IF said[i].type = "Int" /\ said[i].v >= 0 THEN Event("Uint", said[i].v)
  ELSE said[i]

\* The text of a time in full: with a T, a point, and all digits of the fraction.
InFull(text) ==
  LET long == IF Len(text) = TimeLen - FractionLen - 1 THEN Append(text, Dot) ELSE text
  IN [c \in 1..TimeLen |->
        IF c > Len(long) THEN 0
        ELSE CASE long[c] = Blank -> Tee [] long[c] = Comma -> Dot [] OTHER -> long[c]]
TextAt(i) == InFull(Strings[said[i].v].text)
Day(text) == Number(SubSeq(text, 9, 10))
Year(text) == Number(SubSeq(text, 1, 4)) - 1900
Month(text) == Number(SubSeq(text, 6, 7)) - 1
MonthLength(text) ==
  DaysBefore(Year(text), Month(text) + 1) - DaysBefore(Year(text), Month(text))
OnCalendar(text) == Day(text) <= MonthLength(text)

\* Every value comes out as it went in, as a value and, if it is a time, as a text;
\* only nesting deeper than the parser's bound is refused, and what is but the
\* beginning of a value.  Not so for a time that
\* is not on the calendar or before 1970 (see TimesSurvive).
AsSaid(i) ==
  /\ shown[i].type = Meaning(i).type /\ shown[i].v = Meaning(i).v
  /\ IsTime(i) /\ OnCalendar(TextAt(i)) /\ shown[i].v >= 0 =>
       OnTimeText(shown[i].v) = TextAt(i)
RoundTrip ==
  /\ phase = "done" =>
       open = <<>> /\ Len(shown) = Len(said) /\ \A i \in DOMAIN said : AsSaid(i)
  /\ phase = "failed" => MaxNesting > MaxDepth \/ open # <<>>

\* "Strings that happen to be representable as timestamps" are encoded as such, and
\* timestamps are decoded as strings (README.md): as the same ones.
TimesSurvive ==
  phase = "done" => \A i \in Times : OnTimeText(shown[i].v) = TextAt(i)

(***************************************************************************)
(* A value is compared with the pattern if there is no key to look for or  *)
(* it is the value of that key, be it in an array.                         *)
(***************************************************************************)
Checked == {i \in Values : request.keys = {} \/ KeyOf[i] \cap request.keys # {}}

\* The date of a time of day is that of the first time there is.
DatedRequest ==
  LET times == {i \in Checked : Meaning(i).type = "Time"}
      asked == Pattern(request)
  IN IF times = {} THEN asked ELSE Dated(asked, Meaning(Min(times)).v)

\* -g: "match any value equal to or greater than <pattern>" (usage text).  Atoms and
\* parts of strings have no order.
Reaches(v, n) == v = n \/ (request.orGreater /\ v > n)
Meets(i) ==
  LET e == Meaning(i)
  IN CASE e.type \in Atoms -> e.type \in request.atoms /\ ~request.orGreater
       [] e.type \in {"Int", "Uint"} -> \E n \in request.ints : Reaches(e.v, n)
       [] e.type = "Double" -> \E n \in request.doubles : Reaches(e.v, n)
       [] e.type = "Time" -> MatchesTime(DatedRequest, e.v)
       [] e.type = "String" ->
            \E s \in request.strs :
              IF request.substring THEN s \in Strings[e.v].parts /\ ~request.orGreater
              ELSE Reaches(e.v, s)

\* Whether -g with a negative integer finds those that are not negative is left
\* open: the text says so, but the pattern has no unsigned counterpart then.
LeftOpen(i) ==
  /\ said[i].type \in {"Int", "Uint"} /\ said[i].v >= 0
  /\ request.orGreater /\ \E n \in request.ints : n < 0

\* Whether a value meets the pattern, those left open counted or not.
Met(openCounts) == \E i \in Checked : (openCounts \/ ~LeftOpen(i)) /\ Meets(i)

\* A search finds the same in a value whether it is read as JSON or as au: whether
\* a value was compared with the pattern, and whether one met it.
Matches ==
  phase = "done" =>
    /\ jsonGrep.matched = auGrep.matched /\ jsonGrep.attempted = auGrep.attempted
    /\ auGrep.attempted = (Checked # {})
    /\ auGrep.matched \in {Met(counted) : counted \in BOOLEAN}

\* The prefix of a time matches the times whose texts begin with it, and a time of
\* day those of that hour, minute or second.  Not so for one digit of a day when
\* the month has not all the days it stands for.
DaysComplete(prefix) ==
  /\ Len(prefix) = 9 => Min({Last(prefix) * 10 + 9, 31}) <= MonthLength(prefix)
  /\ Len(prefix) >= 10 => OnCalendar(prefix)
IsPart(prefix, text) == IsPrefix(prefix, SubSeq(text, 1, Len(prefix)))
PrefixMatches ==
  phase = "done" /\ Times = {1} /\ OnCalendar(TextAt(1)) /\ ~request.orGreater =>
    \A prefix \in request.times : \A p \in ParseFlexPattern(prefix) :
      IF p.isRelativeTime
      THEN auGrep.matched <=> IsPart(prefix, SubSeq(TextAt(1), 12, TimeLen))
      ELSE DaysComplete(prefix) => (auGrep.matched <=> IsPart(prefix, TextAt(1)))
=============================================================================
