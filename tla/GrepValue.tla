----------------------------- MODULE GrepValue -----------------------------
(***************************************************************************)
(* Whether a value matches: Pattern and GrepHandler of                     *)
(* src/src/GrepHandler.h, and what Grep.cpp makes of the command line.     *)
(* What may be missing from a pattern is a set of at most one element.     *)
(* Strings are compared as their numbers are.                              *)
(***************************************************************************)
EXTENDS ValueFormat, Timestamp

(***************************************************************************)
(* A request is what the command line asks for: a key, values of each      *)
(* type, the text of a time, and -u and -g.                                *)
(***************************************************************************)
AnyRequest ==
  [keys |-> {}, ints |-> {}, doubles |-> {}, atoms |-> {}, strs |-> {}, times |-> {},
   substring |-> FALSE, orGreater |-> FALSE]

\* setIntPattern and its like.  An integer is a pattern for signed and unsigned
\* values, as far as it fits.
Pattern(request) ==
  [keyPattern |-> request.keys,
   intPattern |-> {i \in request.ints : i < NegIntLimit},
   uintPattern |-> {i \in request.ints : i >= 0},
   doublePattern |-> request.doubles, atomPattern |-> request.atoms,
   strPattern |-> request.strs,
   timestampPattern |-> UNION {ParseFlexPattern(text) : text \in request.times},
   fullMatch |-> ~request.substring, matchOrGreater |-> request.orGreater]

MatchesNumber(pattern, numbers, val) ==
  \E n \in numbers : IF pattern.matchOrGreater THEN val >= n ELSE val = n

MatchesString(pattern, s) ==
  \E p \in pattern.strPattern :
    IF pattern.fullMatch THEN IF pattern.matchOrGreater THEN s >= p ELSE s = p
    ELSE ~pattern.matchOrGreater /\ p \in Strings[s].parts

MatchesKey(pattern, key) == pattern.keyPattern = {} \/ key \in pattern.keyPattern

\* The time of day asked for gets its date from the first time it is compared with.
Dated(pattern, t) ==
  [pattern EXCEPT !.timestampPattern =
     {IF p.isRelativeTime THEN GuessDate(p, t) ELSE p : p \in @}]
MatchesTime(pattern, t) ==
  \E p \in pattern.timestampPattern :
    t >= p.start /\ (pattern.matchOrGreater \/ t < p.end)

MatchesValue(pattern, e) ==
  CASE e.type \in Atoms -> ~pattern.matchOrGreater /\ e.type \in pattern.atomPattern
    [] e.type = "Int" -> MatchesNumber(pattern, pattern.intPattern, e.v)
    [] e.type = "Uint" -> MatchesNumber(pattern, pattern.uintPattern, e.v)
    [] e.type = "Double" -> MatchesNumber(pattern, pattern.doublePattern, e.v)
    [] e.type = "Time" -> MatchesTime(pattern, e.v)

-----------------------------------------------------------------------------
(***************************************************************************)
(* GrepHandler: its state, and each of the functions a parser calls.       *)
(***************************************************************************)
NoString == 0
Marker(context, checkVal) == [context |-> context, counter |-> 0, checkVal |-> checkVal]

\* initializeForValue.
InitializeForValue(pattern) ==
  [pattern |-> pattern, str |-> NoString, attempted |-> FALSE, matched |-> FALSE,
   context |-> <<Marker("BARE", pattern.keyPattern = {})>>]

CheckVal(g) == Last(g.context).checkVal
IsKey(g) == Last(g.context).context = "OBJECT" /\ Last(g.context).counter % 2 = 0
IncrCounter(g) == [g EXCEPT !.context[Len(g.context)].counter = @ + 1]

Check(g, matches) ==
  [g EXCEPT !.attempted = @ \/ CheckVal(g), !.matched = @ \/ (CheckVal(g) /\ matches)]

OnScalar(g, e) ==
  LET h == IF e.type = "Time" /\ CheckVal(g)
           THEN [g EXCEPT !.pattern = Dated(@, e.v)] ELSE g
  IN IncrCounter(Check(h, MatchesValue(h.pattern, e)))

CheckString(g, s) ==
  IF IsKey(g)
  THEN [g EXCEPT !.context[Len(g.context)].checkVal = MatchesKey(g.pattern, s)]
  ELSE Check(g, MatchesString(g.pattern, s))

OnDictRef(g, s) == IncrCounter(CheckString(g, s))

\* onStringStart, onStringFragment, onStringEnd.  A string nobody will look at is
\* not kept, and the one before it stays in str_.
OnString(g, s) ==
  LET kept == g.pattern.strPattern # {} \/ (g.pattern.keyPattern # {} /\ IsKey(g))
      h == IF kept THEN [g EXCEPT !.str = s] ELSE g
  IN IncrCounter(CheckString(h, h.str))

OnObjectStart(g) == [g EXCEPT !.context = Append(@, Marker("OBJECT", FALSE))]
OnArrayStart(g) == [g EXCEPT !.context = Append(@, Marker("ARRAY", CheckVal(g)))]
\* Mutant of OnEnd: a container is not counted as a value.
OnEndUncounted(g) == [g EXCEPT !.context = Front(@)]
OnEnd(g) == IncrCounter([g EXCEPT !.context = Front(@)])

OnEvent(g, e) ==
  CASE e.type = "ObjectStart" -> OnObjectStart(g)
    [] e.type = "ArrayStart" -> OnArrayStart(g)
    [] e.type \in {"ObjectEnd", "ArrayEnd"} -> OnEnd(g)
    [] e.type = "String" -> OnString(g, e.v)
    [] e.type = "DictRef" -> OnDictRef(g, e.v)
    [] OTHER -> OnScalar(g, e)
=============================================================================
