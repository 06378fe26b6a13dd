----------------------------- MODULE Timestamp -----------------------------
(***************************************************************************)
(* Times as texts (src/src/TimestampPattern.h, and onTime of               *)
(* src/src/JsonOutputHandler.h).  A text is a sequence of characters: a    *)
(* digit is its value, any other character is a negative number.  A time   *)
(* is a count of ticks, the smallest fraction of a second, since 1970.     *)
(***************************************************************************)
EXTENDS Integers, Sequences, FiniteSetsExt, SequencesExt

Dash == -1
Tee == -2
Blank == -3
Colon == -4
Dot == -5
Comma == -6

CONSTANTS
  MinuteLen, MaxMinute, SecondLen, MaxSecond, FractionLen
             \* the code has 2, 59, 2, 59 and 9: smaller in TLC's integers

ASSUME TimestampAssumption ==
  {MinuteLen, MaxMinute, SecondLen, MaxSecond, FractionLen} \subseteq Nat \ {0}

SubSecond == 10^FractionLen

Field(len, delims, max, min, base) ==
  [len |-> len, delims |-> delims, max |-> max, min |-> min, base |-> base]
DateFields ==
  <<Field(4, {Dash}, 9999, 1900, 1900), Field(2, {Dash}, 12, 1, 1),
    Field(2, {Tee, Blank}, 31, 1, 0)>>
TimeFields ==
  <<Field(2, {Colon}, 23, 0, 0), Field(MinuteLen, {Colon}, MaxMinute, 0, 0),
    Field(SecondLen, {Dot, Comma}, MaxSecond, 0, 0),
    Field(FractionLen, {}, SubSecond - 1, 0, 0)>>

Number(digits) == FoldLeft(LAMBDA n, d : 10 * n + d, 0, digits)

(***************************************************************************)
(* parsePrefix: a field that is cut off stands for the range of its        *)
(* completions, one that is not there for its least value.                 *)
(***************************************************************************)
\* Mutant of Clip: the range may leave the field.
ClipNothing(f, end) == end
Clip(f, end) == Min({end, f.max + 1})

ParsePrefix(f, text) ==
  LET n == Min({f.len, Len(text)})
      digits == SubSeq(text, 1, n)
      rest == SubSeq(text, n + 1, Len(text))
      scale == 10^(f.len - n)
      start == Number(digits) * scale
      end == IF rest = <<>> THEN start + scale ELSE start
  IN IF text = <<>>
     THEN [ok |-> TRUE, rest |-> <<>>, start |-> f.min - f.base, end |-> f.min - f.base]
     ELSE [ok |-> /\ \A i \in 1..n : digits[i] \in 0..9
                  /\ rest # <<>> => Head(rest) \in f.delims /\ Len(rest) > 1
                  /\ start <= f.max
                  /\ start < f.min => end > f.min,
           rest |-> SubSeq(rest, 2, Len(rest)),
           start |-> Max({start, f.min}) - f.base,
           end |-> Clip(f, end) - f.base]

ParseFields(fields, text) ==
  LET Parse(p, f) ==
        LET r == ParsePrefix(f, p.rest)
        IN [ok |-> p.ok /\ r.ok, rest |-> r.rest,
            start |-> Append(p.start, r.start), end |-> Append(p.end, r.end)]
  IN FoldLeft(Parse, [ok |-> TRUE, rest |-> text, start |-> <<>>, end |-> <<>>], fields)

(***************************************************************************)
(* timegm and gmtime: years count from 1900, months from 0; what exceeds a *)
(* field is carried.                                                       *)
(***************************************************************************)
IsLeap(y) == y % 4 = 0 /\ (y % 100 = 0 => y % 400 = 0)
MonthStarts == <<0, 31, 59, 90, 120, 151, 181, 212, 243, 273, 304, 334>>
DaysBefore(y, mon) ==
  LET year == y + 1900 + mon \div 12
      m == mon % 12
      Leaps(x) == x \div 4 - x \div 100 + x \div 400
  IN 365 * (year - 1970) + Leaps(year - 1) - Leaps(1969) + MonthStarts[m + 1]
       + (IF m >= 2 /\ IsLeap(year) THEN 1 ELSE 0)

HourSeconds == (MaxMinute + 1) * (MaxSecond + 1)
DaySeconds == 24 * HourSeconds
TimeGm(tm) ==
  (DaysBefore(tm[1], tm[2]) + tm[3] - 1) * DaySeconds
    + tm[4] * HourSeconds + tm[5] * (MaxSecond + 1) + tm[6]

-----------------------------------------------------------------------------
(***************************************************************************)
(* The patterns: [start, end) in ticks, or none.                           *)
(***************************************************************************)
RangeOf(p, date, relative) ==
  LET start == TimeGm(date \o p.start)
      end == TimeGm(date \o p.end)
      startInt == start * SubSecond + Last(p.start)
      endInt == end * SubSecond + Last(p.end)
  IN IF p.ok /\ -1 \notin {start, end}
     THEN {[start |-> startInt, isRelativeTime |-> relative,
            end |-> IF endInt = startInt THEN endInt + 1 ELSE endInt]}
     ELSE {}

ParseTimestampPattern(text) ==
  RangeOf(ParseFields(DateFields \o TimeFields, text), <<>>, FALSE)
ParseTimePattern(text) ==
  RangeOf(ParseFields(TimeFields, text), <<70, 0, 1>>, TRUE)
ParseFlexPattern(text) ==
  IF ParseTimePattern(text) # {} THEN ParseTimePattern(text)
  ELSE ParseTimestampPattern(text)

\* duration_cast and to_time_t round toward zero.
Trunc(t) == IF t >= 0 THEN t \div SubSecond ELSE -((-t) \div SubSecond)

\* guessDate: a time of day is taken for the one at or behind time t.
GuessDate(p, t) ==
  LET day == SubSecond * DaySeconds
      midnight == (Trunc(t) \div DaySeconds) * day
      base == IF p.end + midnight < t THEN midnight + day ELSE midnight
  IN [start |-> p.start + base, end |-> p.end + base, isRelativeTime |-> FALSE]

(***************************************************************************)
(* The texts that are taken for times when they are encoded, and how a     *)
(* time is written again.  TimeLen is the length of a text with all of its *)
(* fraction; a fraction may lack digits, or be left out with its point.    *)
(***************************************************************************)
TimeLen == 10 + 4 + MinuteLen + 1 + SecondLen + 1 + FractionLen
TimeLengths ==
  {TimeLen - FractionLen - 1} \cup {TimeLen - FractionLen + n : n \in 1..FractionLen}

TryTime(text) ==
  IF Len(text) \in TimeLengths THEN {p.start : p \in ParseTimestampPattern(text)}
  ELSE {}

Digits(n, len) == [i \in 1..len |-> (n \div 10^(len - i)) % 10]

\* The fraction of a time before 1970 is negative; as an unsigned number it begins
\* with these digits.
WrappedDigits == <<1, 8, 4, 4, 6, 7, 4, 4, 0>>

OnTimeText(t) ==
  LET s == Trunc(t)
      day == s \div DaySeconds
      year == CHOOSE y \in 1700..2200 :
                DaysBefore(y - 1900, 0) <= day /\ day < DaysBefore(y - 1899, 0)
      mon == CHOOSE m \in 0..11 :
               DaysBefore(year - 1900, m) <= day /\ day < DaysBefore(year - 1900, m + 1)
      fraction == t - s * SubSecond
  IN Digits(year, 4) \o <<Dash>> \o Digits(mon + 1, 2) \o <<Dash>>
       \o Digits(day - DaysBefore(year - 1900, mon) + 1, 2) \o <<Tee>>
       \o Digits((s \div HourSeconds) % 24, 2) \o <<Colon>>
       \o Digits((s \div (MaxSecond + 1)) % (MaxMinute + 1), MinuteLen) \o <<Colon>>
       \o Digits(s % (MaxSecond + 1), SecondLen) \o <<Dot>>
       \o (IF fraction >= 0 THEN Digits(fraction, FractionLen)
           ELSE SubSeq(WrappedDigits, 1, FractionLen))
=============================================================================
