------------------------------ MODULE LocalTime ------------------------------
(***************************************************************************)
(* Dates in the database: time_to_string() and string_to_time()            *)
(* (lib/storage/utilities.cpp) with the queries that compare the texts     *)
(* (lib/storage/db.hpp).  A date is local time without a time zone, and    *)
(* local time is put forward in spring and back in autumn.                 *)
(*                                                                         *)
(* An instant is a number of half hours.  The text of a date is a sequence *)
(* of ASCII codes; year, month and seconds, which stay the same here, are  *)
(* left out of it.                                                         *)
(***************************************************************************)
EXTENDS Integers, Sequences

CONSTANTS
  Start,    \* local time of instant 0, in minutes since the month began
  ShiftAt,  \* the instant at which the clock is put forward or back
  Hours,    \* the argument time_span of get_device_readings(), in hours
  MaxTime   \* bound: instants up to here

ASSUME HoursAssumption == Hours \in Nat
ASSUME StartAssumption == Start \in Nat /\ Start >= 60 * Hours
ASSUME ShiftAssumption == ShiftAt \in Int
ASSUME MaxTimeAssumption == MaxTime \in Nat

VARIABLES
  shift,    \* "none", "forward" or "back": what happens at ShiftAt
  now,      \* the system clock
  rows,     \* the readings stored: the text of the date, and its instant
  query,    \* the function that was called last, or "none"
  read,     \* the numbers of the rows it selected, whose dates it then converts
  order     \* its order: pairs of rows of which the first must come first

timeVars == <<shift, now, rows, query, read, order>>

TimeInit ==
  /\ shift \in {"none", "forward", "back"}
  /\ now = 0
  /\ rows = <<>>
  /\ query = "none"
  /\ read = {}
  /\ order = {}

-----------------------------------------------------------------------------
\* Conversions.

\* What localtime_r() adds to the standard time, in minutes: one hour of
\* daylight saving time.
Dst(t) ==
  IF (shift = "forward" /\ t >= ShiftAt) \/ (shift = "back" /\ t < ShiftAt)
  THEN 60 ELSE 0

Local(t) == Start + 30 * t + Dst(t)

Digit(n) == 48 + n

\* A number with its zero-padding.
Padded(n) == <<Digit(n \div 10), Digit(n % 10)>>

\* Mutant: the day comes last, "hh:mm DD".
DateTextDayLast(m) ==
  Padded((m % 1440) \div 60) \o <<58>> \o Padded(m % 60) \o <<32>> \o Padded(m \div 1440)

\* "DD hh:mm"
DateText(m) ==
  Padded(m \div 1440) \o <<32>> \o Padded((m % 1440) \div 60) \o <<58>> \o Padded(m % 60)

time_to_string(t) == DateText(Local(t))

Number(s, i) == (s[i] - 48) * 10 + (s[i + 1] - 48)

Minutes(s) == 1440 * Number(s, 1) + 60 * Number(s, 4) + Number(s, 7)

\* Mutant: tm_isdst is zero, which says that it is standard time.
MktimeStandard(m) == {t \in -4 .. MaxTime + 4 : Start + 30 * t = m}

\* mktime() with tm_isdst = -1: any instant with that local time.  In the hour
\* that is repeated there are two; in the hour that is left out there is none,
\* and no date of a row is in it.
Mktime(m) == {t \in -4 .. MaxTime + 4 : Local(t) = m}

\* What string_to_time() may return; nothing is an error.
string_to_time(s) == IF Len(s) # 8 \/ s[6] # 58 THEN {} ELSE Mktime(Minutes(s))

\* vectorize() puts the dates of the readings into a graph, as csv::save_impl()
\* puts them into a file: what is shown for a date of the database.
Shown(s) == {time_to_string(t) : t \in string_to_time(s)}

\* The order of texts, in which SQLite compares dates.
Before(s, t) ==
  \E i \in DOMAIN t :
    /\ \A j \in 1 .. i - 1 : j \in DOMAIN s /\ s[j] = t[j]
    /\ i \in DOMAIN s => s[i] < t[i]

-----------------------------------------------------------------------------

NoQuery == query' = "none" /\ read' = {} /\ order' = {}

\* A round of the logger stores a reading; time goes on.
Store ==
  /\ now < MaxTime
  /\ rows' = Append(rows, [date |-> time_to_string(now), at |-> now])
  /\ now' = now + 1
  /\ NoQuery
  /\ UNCHANGED shift

\* No logger runs, and time goes on.
Pass ==
  /\ now < MaxTime
  /\ now' = now + 1
  /\ NoQuery
  /\ UNCHANGED <<shift, rows>>

\* The rows a query returns, and what is known of their order.
Answer(q, selected, pairs) ==
  /\ query = "none"
  /\ rows # <<>>
  /\ query' = q
  /\ read' = selected
  /\ order' = pairs
  /\ UNCHANGED <<shift, now, rows>>

Dates == {rows[i].date : i \in DOMAIN rows}

\* SELECT MAX(date).
IsLatest(d) == d \in Dates /\ \A e \in Dates : ~Before(d, e)

\* The rows whose date is not before the one of m minutes.
Since(m) == {i \in DOMAIN rows : ~Before(rows[i].date, DateText(m))}

\* Mutant: the time span is taken for minutes.
GetDeviceReadingsMinutes ==
  \E max \in Dates : IsLatest(max) /\ Answer("readings", Since(Minutes(max) - Hours), {})

\* get_device_readings(): date >= datetime(MAX(date), '-N hours'), in any order.
GetDeviceReadings ==
  \E max \in Dates : IsLatest(max) /\ Answer("readings", Since(Minutes(max) - 60 * Hours), {})

\* load(): the rows of a device, ORDER BY date; rows that have the same date come
\* in either order.
Load ==
  Answer("load", DOMAIN rows,
         {p \in (DOMAIN rows) \X (DOMAIN rows) : Before(rows[p[1]].date, rows[p[2]].date)})

TimeNext == Store \/ Pass \/ GetDeviceReadings \/ Load

TimeSpec == TimeInit /\ [][TimeNext]_timeVars

-----------------------------------------------------------------------------
\* Properties.

\* A date that is read from the database, converted, and written again, into a
\* graph (vectorize()) or into a CSV file, is the same text, whatever instant it
\* was taken for; and every row that was selected comes through.
DatesSurvive == \A d \in Dates : Shown(d) = {d}

Newest == rows[Len(rows)].at

\* The time span of a graph is right up to the hour by which the clock is
\* changed: no reading that is an hour younger than its limit is missing, and
\* none that is more than an hour older is there.
SpanWithinShift ==
  query = "readings" =>
    \A i \in DOMAIN rows :
      LET age == 30 * (Newest - rows[i].at)
          off == IF shift = "none" THEN 0 ELSE 60
      IN  /\ age <= 60 * Hours - off => i \in read
          /\ age > 60 * Hours + off => i \notin read

\* An export is in the order of time, but for the readings of the hour that is
\* repeated, which are put in between those of the hour before: a row that may
\* come before another was not stored later than that.
ExportOrdered ==
  query = "load" =>
    \A i, j \in read :
      <<j, i>> \notin order =>
        30 * (rows[i].at - rows[j].at) <= (IF shift = "back" THEN 60 ELSE 0)

\* get_device_readings(), db.hpp:109-110: a time span of two hours "will retrieve
\* the data from the latest time up to two hours back".
SpanExact ==
  query = "readings" =>
    \A i \in DOMAIN rows :
      30 * (Newest - rows[i].at) <= 60 * Hours => i \in read
=============================================================================
