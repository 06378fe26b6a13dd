----------------------------- MODULE MCAuValues -----------------------------
(* What TLC says, and searches for: shapes of values, numbers and strings at  *)
(* the edges of their encodings, and times.                                   *)
EXTENDS AuValues

Plain(len, parts) == [len |-> len, text |-> <<>>, parts |-> parts]
Text(text) == [len |-> Len(text), text |-> text, parts |-> {}]
\* yyyy-mm-ddThh:m:s
At(y, mon, d, h, m, s) ==
  Digits(y, 4) \o <<Dash>> \o Digits(mon, 2) \o <<Dash>> \o Digits(d, 2) \o <<Tee>>
    \o Digits(h, 2) \o <<Colon, m, Colon, s>>

MCStrings ==
  <<Plain(0, {1}), Plain(1, {1, 2}), Plain(2, {1, 2, 3}),
    Plain(31, {4}), Plain(32, {5}), Plain(64, {6}),
    Text(At(2018, 2, 28, 23, 1, 5) \o <<Dot, 5>>),
    Text(At(2018, 3, 1, 0, 0, 0)),
    Text(At(2018, 2, 31, 0, 0, 0)),                   \* 3 March
    Text([At(1969, 12, 31, 23, 1, 4) EXCEPT ![11] = Blank] \o <<Dot, 5, 0>>),
    Text(At(2018, 12, 31, 23, 1, 5) \o <<Dot, 9, 9>>),
    Text(At(2018, 4, 30, 20, 0, 0) \o <<Comma, 0, 0>>),
    Text(At(2018, 5, 1, 9, 1, 0)),
    Text(At(1969, 12, 31, 23, 1, 5)),                 \* the second -1
    Text(At(2018, 13, 1, 0, 0, 0)),                   \* no such month
    Text(At(2016, 2, 29, 0, 0, 0))>>

Ev(type, v) == Event(type, v)

\* Keys 2 and 3, one of them in the list of Json2Au.cpp.
Shapes(keys, scalars, maxEvents, depth, breaks, requests) ==
  [producer |-> "json", keys |-> keys, explicitKeys |-> {3}, dictLen |-> 0,
   scalars |-> scalars, maxEvents |-> maxEvents, depth |-> depth, breaks |-> breaks,
   requests |-> requests]
ShapeRequests ==
  {[AnyRequest EXCEPT !.keys = {2}, !.ints = {3}],
   [AnyRequest EXCEPT !.keys = {2}, !.strs = {2}],
   [AnyRequest EXCEPT !.strs = {2}, !.substring = TRUE]}

Numbers ==
  [producer |-> "json", keys |-> {}, explicitKeys |-> {}, dictLen |-> 0, breaks |-> FALSE, depth |-> 0,
   maxEvents |-> 1,
   scalars |-> {Ev("Int", i) : i \in -512..-1} \cup {Ev("Uint", i) : i \in 0..1023}
                 \cup {Ev("Double", d) : d \in -1..1} \cup {Ev(a, 0) : a \in Atoms},
   requests |->
     {[AnyRequest EXCEPT !.ints = {n}, !.doubles = {n} \cap {0}, !.orGreater = g] :
        n \in {-512, -33, 0, 32, 511, 512, 1023}, g \in BOOLEAN}
     \cup {[AnyRequest EXCEPT !.atoms = {a}, !.orGreater = g] : a \in Atoms, g \in BOOLEAN}]
ProgramNumbers ==
  [Numbers EXCEPT !.producer = "program", !.requests = {[AnyRequest EXCEPT !.ints = {32}]},
     !.scalars = {Ev("Int", i) : i \in -512..511} \cup {Ev("Time", t) : t \in {-1, 0, 512}}]

\* Two strings about the end of the one-byte form of a dictionary index.
Lengths(dictLen) ==
  [producer |-> "program", keys |-> {}, explicitKeys |-> {}, dictLen |-> dictLen, breaks |-> FALSE,
   scalars |-> {Ev("String", s) : s \in 1..6}, maxEvents |-> 5, depth |-> 1,
   requests |-> {[AnyRequest EXCEPT !.strs = {3}, !.orGreater = g, !.substring = u] :
                   g \in BOOLEAN, u \in BOOLEAN}]

Begin(text, n) == SubSeq(text, 1, n)
Instants ==
  UNION {{Begin(At(2018, 2, 28, 23, 1, 5) \o <<Dot, 5, 0>>, n) : n \in 1..20},
         {Begin(At(2018, 12, 31, 0, 0, 0), n) : n \in 6..11},
         {Begin(At(2018, 4, 30, 0, 0, 0), n) : n \in 7..10},
         {Begin(At(2018, 5, 1, 0, 0, 0), n) : n \in 9..13},
         {At(1969, 12, 31, 23, 1, 5), At(2018, 2, 31, 0, 0, 0), <<1, 9, 6>>, <<1, 9, 7>>}}
TimesOfDay == {Begin(<<2, 3, Colon, 1, Colon, 5, Dot, 5>>, n) : n \in 1..8}
                \cup {<<0>>, <<0, 0>>, <<0, 9, Colon, 1>>}
TimeScope(texts, requests, maxEvents) ==
  [producer |-> "json", keys |-> {}, explicitKeys |-> {}, dictLen |-> 0, breaks |-> FALSE,
   scalars |-> {Ev("String", s) : s \in texts}, maxEvents |-> maxEvents, depth |-> 1,
   requests |-> requests]
TimeRequests(texts, g) == {[AnyRequest EXCEPT !.times = {x}, !.orGreater = g] : x \in texts}

MCScopes ==
  {Shapes({2, 3}, {Ev("Uint", 3), Ev("String", 2)}, 8, 3, FALSE, ShapeRequests),
   Shapes({2}, {Ev("Null", 0), Ev("String", 3)}, 7, 2, TRUE, {AnyRequest}),
   Numbers, ProgramNumbers, Lengths(127), Lengths(0),
   TimeScope(7..16, TimeRequests(Instants \cup TimesOfDay, FALSE), 1),
   TimeScope(7..16, TimeRequests(Instants, TRUE), 1),
   TimeScope({7, 8, 10, 11, 13}, TimeRequests(TimesOfDay, FALSE), 4)}

TimesOnly == {TimeScope(7..16, {AnyRequest}, 1)}
=============================================================================
