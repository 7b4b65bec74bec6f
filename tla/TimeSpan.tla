------------------------------ MODULE TimeSpan ------------------------------
(***************************************************************************)
(* How thermos-graph-generator names a time span: get_short_name(), which  *)
(* becomes the name of a page's file, and get_human_readable_span(), which *)
(* its readers see (src/graph-generator/generator.cpp).                    *)
(*                                                                         *)
(* A name is a sequence of pairs, a number and its unit.                   *)
(***************************************************************************)
EXTENDS Naturals, Sequences

CONSTANT MaxHours  \* bound: names of longer time spans are not looked at

VARIABLE hours     \* the argument time_span

Day == 24
Year == 365 * 24

\* Mutant: the rest of a day is left out.
NameOfDaysOnly(n, h, d) ==
  IF n < Day THEN << <<n, h>> >> ELSE << <<n \div Day, d>> >>

\* The name of n hours of less than a year, in the units given.
NameOfDays(n, h, d) ==
  IF n < Day THEN << <<n, h>> >>
  ELSE IF n % Day = 0 THEN << <<n \div Day, d>> >>
  ELSE << <<n \div Day, d>>, <<n % Day, h>> >>

\* With more than a year, the functions call themselves once, for the rest.
Name(n, h, d, y) ==
  IF n < Year THEN NameOfDays(n, h, d)
  ELSE IF n % Year = 0 THEN << <<n \div Year, y>> >>
  ELSE << <<n \div Year, y>> >> \o NameOfDays(n % Year, h, d)

get_short_name(n) == Name(n, "h", "d", "y")

\* "1 hour", but "2 hours": each part with whether it is a plural.
get_human_readable_span(n) ==
  LET name == Name(n, "hour", "day", "year")
  IN  [i \in DOMAIN name |-> <<name[i][1], name[i][2], name[i][1] # 1>>]

\* Any time span, the longer after the shorter.
SpanInit == hours = 0

Longer ==
  /\ hours < MaxHours
  /\ hours' = hours + 1

SpanSpec == SpanInit /\ [][Longer]_hours

-----------------------------------------------------------------------------
\* Properties.

\* What a name says, read back: the hours of its parts.
Part(name, i, unit) ==
  IF i \in DOMAIN name
  THEN name[i][1] * unit[name[i][2]]
  ELSE 0

HoursOf(name, unit) == Part(name, 1, unit) + Part(name, 2, unit) + Part(name, 3, unit)

\* No two time spans have the same name, so that no page is written into the
\* file of another: the name tells the hours it was made of, and what the reader
\* sees tells the same.
SpanNamesDiffer ==
  /\ HoursOf(get_short_name(hours), [h |-> 1, d |-> Day, y |-> Year]) = hours
  /\ HoursOf(get_human_readable_span(hours), [hour |-> 1, day |-> Day, year |-> Year]) = hours
=============================================================================
