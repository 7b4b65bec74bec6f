----------------------------- MODULE GraphProofs -----------------------------
(***************************************************************************)
(* Proofs about the graph generator: the names of time spans, the dates of *)
(* the readings, and the pages of a run, for any number of time spans, any *)
(* devices and any number of runs.                                         *)
(***************************************************************************)
EXTENDS Pages, TimeSpan, LocalTime, SequenceTheorems, TLAPS

-----------------------------------------------------------------------------
\* The names of time spans tell which time span they are of, however long it is.

\* The lengths of a day and of a year, in hours.
LEMMA YearIs == Year = 8760 /\ Day = 24
  BY DEF Year, Day

\* Names of two and of three parts, the first of which was put in front.
LEMMA TwoParts ==
  ASSUME NEW p, NEW x
  PROVE  LET name == <<p>> \o <<x>>
         IN  DOMAIN name = 1 .. 2 /\ name[1] = p /\ name[2] = x
<1> DEFINE S == {p, x}
           name == <<p>> \o <<x>>
<1>1. <<p>> \in Seq(S) /\ <<x>> \in Seq(S) /\ Len(<<p>>) = 1 /\ Len(<<x>>) = 1
  OBVIOUS
<1>2. /\ name \in Seq(S)
      /\ Len(name) = 2
      /\ \A i \in 1 .. 2 : name[i] = IF i <= 1 THEN <<p>>[i] ELSE <<x>>[i - 1]
  BY <1>1, ConcatProperties
<1> QED
  BY <1>2

LEMMA ThreeParts ==
  ASSUME NEW p, NEW x, NEW z
  PROVE  LET name == <<p>> \o <<x, z>>
         IN  DOMAIN name = 1 .. 3 /\ name[1] = p /\ name[2] = x /\ name[3] = z
<1> DEFINE S == {p, x, z}
           name == <<p>> \o <<x, z>>
<1>1. <<p>> \in Seq(S) /\ <<x, z>> \in Seq(S) /\ Len(<<p>>) = 1 /\ Len(<<x, z>>) = 2
  OBVIOUS
<1>2. /\ name \in Seq(S)
      /\ Len(name) = 3
      /\ \A i \in 1 .. 3 : name[i] = IF i <= 1 THEN <<p>>[i] ELSE <<x, z>>[i - 1]
  BY <1>1, ConcatProperties
<1> QED
  BY <1>2

\* A name of days and hours says how many hours it was made of.
LEMMA DaysTellHours ==
  ASSUME NEW n \in Nat, NEW h, NEW d, NEW unit, unit[h] = 1, unit[d] = 24
  PROVE  /\ HoursOf(NameOfDays(n, h, d), unit) = n
         /\ \/ NameOfDays(n, h, d) = << <<n, h>> >>
            \/ \E a \in Nat : NameOfDays(n, h, d) = << <<a, d>> >> /\ n = 24 * a
            \/ \E a, b \in Nat :
                 NameOfDays(n, h, d) = << <<a, d>>, <<b, h>> >> /\ n = 24 * a + b
<1>1. CASE n < 24
  <2>1. NameOfDays(n, h, d) = << <<n, h>> >>
    BY <1>1, YearIs DEF NameOfDays
  <2> QED
    BY <2>1 DEF HoursOf, Part
<1>2. CASE n >= 24 /\ n % 24 = 0
  <2>1. PICK a \in Nat : a = n \div 24 /\ n = 24 * a
    BY <1>2
  <2>2. NameOfDays(n, h, d) = << <<a, d>> >>
    BY <1>2, <2>1, YearIs DEF NameOfDays
  <2> QED
    BY <2>1, <2>2 DEF HoursOf, Part
<1>3. CASE n >= 24 /\ n % 24 # 0
  <2>1. PICK a \in Nat, b \in Nat : a = n \div 24 /\ b = n % 24 /\ n = 24 * a + b
    OBVIOUS
  <2>2. NameOfDays(n, h, d) = << <<a, d>>, <<b, h>> >>
    BY <1>3, <2>1, YearIs DEF NameOfDays
  <2> QED
    BY <2>1, <2>2 DEF HoursOf, Part
<1> QED
  BY <1>1, <1>2, <1>3

\* So does any name, in any units.
LEMMA NameTellsHours ==
  ASSUME NEW n \in Nat, NEW h, NEW d, NEW y, NEW unit,
         unit[h] = 1, unit[d] = 24, unit[y] = 8760
  PROVE  HoursOf(Name(n, h, d, y), unit) = n
<1>1. CASE n < 8760
  BY <1>1, YearIs, DaysTellHours DEF Name
<1>2. CASE n >= 8760
  <2>1. PICK q \in Nat, r \in Nat : q = n \div 8760 /\ r = n % 8760 /\ n = 8760 * q + r
    OBVIOUS
  <2>2. CASE r = 0
    <3>1. Name(n, h, d, y) = << <<q, y>> >>
      BY <1>2, <2>1, <2>2, YearIs DEF Name
    <3> QED
      BY <2>1, <2>2, <3>1 DEF HoursOf, Part
  <2>3. CASE r # 0
    <3> DEFINE name == << <<q, y>> >> \o NameOfDays(r, h, d)
    <3>1. Name(n, h, d, y) = name
      BY <1>2, <2>1, <2>3, YearIs DEF Name
    <3>2. CASE NameOfDays(r, h, d) = << <<r, h>> >>
      <4>1. DOMAIN name = 1 .. 2 /\ name[1] = <<q, y>> /\ name[2] = <<r, h>>
        BY <3>2, TwoParts
      <4> HIDE DEF name
      <4> QED
        BY <2>1, <3>1, <4>1 DEF HoursOf, Part
    <3>3. ASSUME NEW a \in Nat, NameOfDays(r, h, d) = << <<a, d>> >>, r = 24 * a
          PROVE  HoursOf(name, unit) = n
      <4>1. DOMAIN name = 1 .. 2 /\ name[1] = <<q, y>> /\ name[2] = <<a, d>>
        BY <3>3, TwoParts
      <4> HIDE DEF name
      <4>2. HoursOf(name, unit) = 8760 * q + 24 * a
        BY <4>1 DEF HoursOf, Part
      <4> QED
        BY <2>1, <3>3, <4>2
    <3>4. ASSUME NEW a \in Nat, NEW b \in Nat,
                 NameOfDays(r, h, d) = << <<a, d>>, <<b, h>> >>, r = 24 * a + b
          PROVE  HoursOf(name, unit) = n
      <4>1. /\ DOMAIN name = 1 .. 3
            /\ name[1] = <<q, y>> /\ name[2] = <<a, d>> /\ name[3] = <<b, h>>
        BY <3>4, ThreeParts
      <4> HIDE DEF name
      <4> QED
        BY <2>1, <3>4, <4>1 DEF HoursOf, Part
    <3> HIDE DEF name
    <3> QED
      BY <3>1, <3>2, <3>3, <3>4, DaysTellHours
  <2> QED
    BY <2>2, <2>3
<1> QED
  BY <1>1, <1>2

\* Whatever get_human_readable_span() appends to the units, its parts are those
\* of the name.
LEMMA HumanHasTheParts ==
  ASSUME NEW n, NEW unit
  PROVE  HoursOf(get_human_readable_span(n), unit) = HoursOf(Name(n, "hour", "day", "year"), unit)
  BY DEF get_human_readable_span, HoursOf, Part

\* get_short_name() gives no two time spans the same name.
THEOREM ShortNamesDiffer ==
  ASSUME NEW m \in Nat, NEW n \in Nat, get_short_name(m) = get_short_name(n)
  PROVE  m = n
<1> DEFINE unit == [h |-> 1, d |-> Day, y |-> Year]
<1>1. unit["h"] = 1 /\ unit["d"] = 24 /\ unit["y"] = 8760
  BY YearIs
<1>2. ASSUME NEW k \in Nat
      PROVE  HoursOf(get_short_name(k), unit) = k
  <2> HIDE DEF unit
  <2> QED
    BY <1>1, NameTellsHours DEF get_short_name
<1> QED
  BY <1>2

HoursOK == hours \in Nat

\* Both names of the time span tell its hours, however long it grows.
THEOREM SpanNamesTellHours == SpanSpec => []SpanNamesDiffer
<1> DEFINE short == [h |-> 1, d |-> Day, y |-> Year]
           long == [hour |-> 1, day |-> Day, year |-> Year]
<1>1. /\ short["h"] = 1 /\ short["d"] = 24 /\ short["y"] = 8760
      /\ long["hour"] = 1 /\ long["day"] = 24 /\ long["year"] = 8760
  BY YearIs
<1>2. SpanInit => HoursOK
  BY DEF SpanInit, HoursOK
<1>3. HoursOK /\ [Longer]_hours => HoursOK'
  BY DEF Longer, HoursOK
<1>4. HoursOK => SpanNamesDiffer
  <2> SUFFICES ASSUME hours \in Nat PROVE SpanNamesDiffer
    BY DEF HoursOK
  <2> HIDE DEF short, long
  <2>1. HoursOf(get_short_name(hours), short) = hours
    BY <1>1, NameTellsHours DEF get_short_name
  <2>2. HoursOf(get_human_readable_span(hours), long) = hours
    BY <1>1, NameTellsHours, HumanHasTheParts
  <2> QED
    BY <2>1, <2>2 DEF SpanNamesDiffer, short, long
<1> QED
  BY <1>2, <1>3, <1>4, PTL DEF SpanSpec

-----------------------------------------------------------------------------
\* The files of the pages.

FileFields == {"run", "whole", "page"}

\* While a run is at the page of a time span, those before it are written, and
\* those after it are of this run or an earlier one.
FilesInv ==
  /\ run \in Nat
  /\ span \in Span
  /\ DOMAIN files = Span
  /\ \A s \in Span :
       /\ DOMAIN files[s] = FileFields
       /\ files[s].run \in Nat
       /\ files[s].run <= run
  /\ step = "idle" => span = 1
  /\ step # "idle" =>
       /\ result = "none"
       /\ \A s \in Span :
            s < span => files[s].run = run /\ (files[s].whole \/ s \in lost)
  /\ step = "write" => files[span].run = run
  /\ NewerPagesFirst
  /\ SuccessMeansWritten

-----------------------------------------------------------------------------
\* The texts of a page.

Device == UNION Found

TraceText(s, d, t) ==
  [section |-> "trace",
   fills   |-> [dates  |-> [dev |-> d, type |-> t, span |-> s],
                values |-> [dev |-> d, type |-> t, span |-> s],
                yaxis  |-> IF t = "thermal" THEN "y2" ELSE "",
                name   |-> [dev |-> d]]]

TraceTexts(s) == {TraceText(s, d, t) : d \in Device, t \in {"thermal", "load"}}

GraphText(s, traces) ==
  [section |-> "graph",
   fills   |-> [plotId |-> "id_1", title |-> [of |-> s], traces |-> traces]]

ItemText(s, k) ==
  [section |-> "nav_item",
   fills   |-> [url |-> [page |-> k], name |-> [page |-> k], active |-> (k = s)]]

ItemTexts(s) == {ItemText(s, k) : k \in Span}

NavText(items) == [section |-> "navigation", fills |-> [items |-> items]]

FullText(header, content) ==
  [section |-> "full", fills |-> [header |-> header, content |-> content]]

\* What has been generated is of the page's time span, and there is no more of
\* it than the step calls for.
TextsInv ==
  /\ DOMAIN texts = DOMAIN NoTexts
  /\ devs \subseteq Device
  /\ rtype \in {"thermal", "load"}
  /\ texts.traces \in Seq(TraceTexts(span))
  /\ texts.items \in Seq(ItemTexts(span))
  /\ \A k \in DOMAIN texts.items : texts.items[k] = ItemText(span, k)
  /\ IF step \in {"navigation", "full", "open", "write"}
     THEN Len(texts.items) = Spans
     ELSE Len(texts.items) < Spans
  /\ texts.graph = IF step \in {"nav_item", "navigation", "full", "open", "write"}
                   THEN <<GraphText(span, texts.traces)>>
                   ELSE <<>>
  /\ texts.nav = IF step \in {"full", "open", "write"} THEN <<NavText(texts.items)>> ELSE <<>>
  /\ texts.page = IF step \in {"open", "write"}
                  THEN <<FullText(texts.header, texts.nav \o texts.graph)>>
                  ELSE <<>>

-----------------------------------------------------------------------------
\* The steps of generate().

\* generate() of a section whose placeholders have just been set.
LEMMA TextOfNew ==
  ASSUME NEW s, NEW new, Uses[s] = DOMAIN new, new = [n \in DOMAIN new |-> new[n]]
  PROVE  /\ Text(s, new) = [section |-> s, fills |-> new]
         /\ \A n \in Uses[s] : n \in DOMAIN Set(new)
<1>1. /\ DOMAIN Set(new) = DOMAIN values \union DOMAIN new
      /\ \A n \in DOMAIN new : Set(new)[n] = new[n]
  BY DEF Set
<1>2. Uses[s] \intersect DOMAIN Set(new) = DOMAIN new
  BY <1>1
<1>3. [n \in DOMAIN new |-> Set(new)[n]] = [n \in DOMAIN new |-> new[n]]
  BY <1>1
<1> QED
  BY <1>1, <1>2, <1>3 DEF Text

\* A step fills its section, or it is the end of the run.
Filled(s, new, part, next) ==
  /\ step = s
  /\ step' = next
  /\ texts' = [texts EXCEPT ![part] = Append(@, [section |-> s, fills |-> new])]
  /\ holes' => holes
  /\ UNCHANGED <<span, sections, devs, rtype, files, result, run, lost>>

Failed == End("error") /\ UNCHANGED files

LEMMA StepDoes ==
  ASSUME NEW s, NEW new, NEW part, NEW next, Step(s, new, part, next),
         Uses[s] = DOMAIN new, new = [n \in DOMAIN new |-> new[n]]
  PROVE  step = s /\ (Filled(s, new, part, next) \/ Failed)
<1>1. Text(s, new) = [section |-> s, fills |-> new] /\ \A n \in Uses[s] : n \in DOMAIN Set(new)
  BY TextOfNew
<1> QED
  BY <1>1 DEF Step, Fill, Filled, Failed

LEMMA LinkDoes ==
  ASSUME LinkWithIntegrity
  PROVE  \/ Failed
         \/ \E new : Filled("link_with_integrity", new, "scripts", "script_with_integrity")
  BY StepDoes DEF LinkWithIntegrity, Uses

LEMMA ScriptLinkDoes ==
  ASSUME ScriptWithIntegrity
  PROVE  \/ Failed
         \/ \E new : Filled("script_with_integrity", new, "scripts", "script")
  BY StepDoes DEF ScriptWithIntegrity, Uses

LEMMA HeaderDoes ==
  ASSUME Header
  PROVE  Failed \/ \E new : Filled("header", new, "header", "traces")
  BY StepDoes DEF Header, Uses

LEMMA GraphDoes ==
  ASSUME Graph
  PROVE  \/ Failed
         \/ Filled("graph", [plotId |-> "id_1", title |-> [of |-> span], traces |-> texts.traces],
                   "graph", "nav_item")
  BY StepDoes DEF Graph, Uses

LEMMA NavItemDoes ==
  ASSUME NavItem
  PROVE  LET k == Len(texts.items) + 1 IN
           \/ step = "nav_item" /\ Failed
           \/ Filled("nav_item",
                     [url |-> [page |-> k], name |-> [page |-> k], active |-> (k = span)],
                     "items", IF k = Spans THEN "navigation" ELSE "nav_item")
<1> DEFINE k == Len(texts.items) + 1
           new == [url |-> [page |-> k], name |-> [page |-> k], active |-> (k = span)]
           next == IF k = Spans THEN "navigation" ELSE "nav_item"
<1>1. Step("nav_item", new, "items", next)
  BY DEF NavItem
<1>2. Uses["nav_item"] = DOMAIN new /\ new = [n \in DOMAIN new |-> new[n]]
  BY DEF Uses
<1> HIDE DEF new, next
<1>3. step = "nav_item" /\ (Filled("nav_item", new, "items", next) \/ Failed)
  BY <1>1, <1>2, StepDoes
<1> QED
  BY <1>3 DEF new, next

LEMMA NavigationDoes ==
  ASSUME Navigation
  PROVE  Failed \/ Filled("navigation", [items |-> texts.items], "nav", "full")
  BY StepDoes DEF Navigation, Uses

LEMMA FullDoes ==
  ASSUME Full
  PROVE  \/ Failed
         \/ Filled("full", [header |-> texts.header, content |-> texts.nav \o texts.graph],
                   "page", "open")
<1> DEFINE new == [header |-> texts.header, content |-> texts.nav \o texts.graph]
<1>1. Step("full", new, "page", "open")
  BY DEF Full
<1>2. Uses["full"] = DOMAIN new /\ new = [n \in DOMAIN new |-> new[n]]
  BY DEF Uses
<1> HIDE DEF new
<1>3. Filled("full", new, "page", "open") \/ Failed
  BY <1>1, <1>2, StepDoes
<1> QED
  BY <1>3 DEF new

\* The section "script" may be missing without an end.
LEMMA ScriptDoes ==
  ASSUME Script
  PROVE  \/ Failed
         \/ \E new : Filled("script", new, "scripts", "header")
         \/ /\ step = "script"
            /\ step' = "traces"
            /\ texts' = [texts EXCEPT !["header"] = <<[section |-> "message"]>>]
            /\ UNCHANGED <<span, sections, values, devs, rtype, files, result, run, holes, lost>>
<1> DEFINE new == [url |-> [asset |-> "plotly"]]
<1>1. Uses["script"] = DOMAIN new /\ new = [n \in DOMAIN new |-> new[n]]
  BY DEF Uses
<1>2. CASE Step("script", new, "scripts", "header")
  <2> HIDE DEF new
  <2> QED
    BY <1>1, <1>2, StepDoes
<1>3. CASE ~Step("script", new, "scripts", "header")
  BY <1>3 DEF Script
<1> QED
  BY <1>2, <1>3

LEMMA TraceDoes ==
  ASSUME Trace
  PROVE  \/ Failed
         \/ /\ step = "trace" /\ step' = "trace"
            /\ \E d \in devs :
                 /\ devs' = devs \ {d}
                 /\ texts' = [texts EXCEPT !["traces"] = Append(@, TraceText(span, d, rtype))]
            /\ holes' => holes
            /\ UNCHANGED <<span, sections, rtype, files, result, run, lost>>
         \/ /\ step = "trace" /\ step' \in {"traces", "graph"}
            /\ rtype' \in {"thermal", "load"}
            /\ UNCHANGED <<span, sections, values, texts, devs, files, result, run, holes, lost>>
<1>1. CASE devs = {}
  BY <1>1 DEF Trace, Failed
<1>2. CASE Failed
  BY <1>2
<1>3. CASE devs # {} /\ ~Failed
  <2>1. PICK d \in devs :
          /\ Fill("trace", TraceText(span, d, rtype).fills, "traces")
          /\ step = "trace"
          /\ devs' = devs \ {d}
          /\ UNCHANGED <<step, span, sections, rtype, files, result, run, lost>>
    BY <1>3 DEF Trace, Failed, TraceText
  <2> DEFINE new == TraceText(span, d, rtype).fills
  <2>2. Uses["trace"] = DOMAIN new /\ new = [n \in DOMAIN new |-> new[n]]
    BY DEF TraceText, Uses
  <2>3. TraceText(span, d, rtype) = [section |-> "trace", fills |-> new]
    BY DEF TraceText
  <2> HIDE DEF new
  <2>4. Text("trace", new) = TraceText(span, d, rtype) /\ \A n \in Uses["trace"] : n \in DOMAIN Set(new)
    BY <2>2, <2>3, TextOfNew
  <2> QED
    BY <2>1, <2>4 DEF Fill, new
<1> QED
  BY <1>1, <1>2, <1>3

-----------------------------------------------------------------------------
\* No section is generated with a placeholder that is not set.

LEMMA HolesStep == PlaceholdersFilled /\ [PageNext]_pageVars => PlaceholdersFilled'
<1> SUFFICES ASSUME PlaceholdersFilled, [PageNext]_pageVars PROVE PlaceholdersFilled'
  OBVIOUS
<1> USE DEF PlaceholdersFilled
<1>1. CASE UNCHANGED pageVars
  BY <1>1 DEF pageVars
<1>2. CASE Failed
  BY <1>2 DEF Failed, End
<1>3. CASE StartPages \/ KillPages \/ Open \/ Traces
  BY <1>3 DEF StartPages, KillPages, Open, Traces, End
<1>4. CASE Write
  BY <1>4 DEF Write, NextSpan, End
<1>5. CASE Trace
  BY <1>2, <1>5, TraceDoes
<1>6. CASE Script
  BY <1>2, <1>6, ScriptDoes DEF Filled
<1>7. CASE LinkWithIntegrity \/ ScriptWithIntegrity \/ Header
  BY <1>2, <1>7, LinkDoes, ScriptLinkDoes, HeaderDoes DEF Filled
<1>8. CASE Graph \/ NavItem \/ Navigation \/ Full
  BY <1>2, <1>8, GraphDoes, NavItemDoes, NavigationDoes, FullDoes DEF Filled
<1> QED
  BY <1>1, <1>3, <1>4, <1>5, <1>6, <1>7, <1>8 DEF PageNext, PageStep

\* Every placeholder of a section is set when the section is generated, whatever
\* sections are missing and whatever devices there are.
THEOREM NoPlaceholderLeft == PageSpec => []PlaceholdersFilled
<1>1. PageInit => PlaceholdersFilled
  BY DEF PageInit, PlaceholdersFilled
<1> QED
  BY <1>1, HolesStep, PTL DEF PageSpec

-----------------------------------------------------------------------------
\* The files are replaced in their order, and success means that they all are.

LEMMA FilesInit == PageInit => FilesInv
<1> SUFFICES ASSUME PageInit PROVE FilesInv
  OBVIOUS
<1>1. /\ files = [s \in Span |-> [run |-> 0, whole |-> FALSE, page |-> <<>>]]
      /\ run = 0 /\ span = 1 /\ step = "idle" /\ result = "none"
  BY DEF PageInit
<1>2. 1 \in Span
  BY SpansAssumption DEF Span
<1> QED
  BY <1>1, <1>2 DEF FilesInv, FileFields, NewerPagesFirst, SuccessMeansWritten

\* Nothing happens to the files while the texts of a page are put together ...
LEMMA FilesKept ==
  ASSUME FilesInv, UNCHANGED <<span, files, result, run, lost>>,
         step # "idle", step' \notin {"idle", "write"}
  PROVE  FilesInv'
  BY DEF FilesInv, NewerPagesFirst, SuccessMeansWritten

\* ... or when the run ends before it is done.
LEMMA FilesAtEnd ==
  ASSUME FilesInv, NEW how, how # "ok", End(how), files' = files
  PROVE  FilesInv'
<1>1. /\ step' = "idle" /\ span' = 1 /\ result' = how
      /\ files' = files /\ run' = run /\ lost' = lost
  BY DEF End
<1>2. 1 \in Span
  BY SpansAssumption DEF Span
<1> QED
  BY <1>1, <1>2 DEF FilesInv, NewerPagesFirst, SuccessMeansWritten

LEMMA FilesAtStart == ASSUME FilesInv, StartPages PROVE FilesInv'
<1>1. /\ step = "idle" /\ step' = "link_with_integrity" /\ result' = "none"
      /\ run' = run + 1 /\ span' = span /\ files' = files
  BY DEF StartPages
<1>2. span = 1 /\ \A s \in Span : ~(s < span)
  BY <1>1 DEF FilesInv, Span
<1> QED
  BY <1>1, <1>2 DEF FilesInv, NewerPagesFirst, SuccessMeansWritten

\* The file that is opened is emptied: those before it are of this run.
LEMMA FilesAtOpen == ASSUME FilesInv, Open PROVE FilesInv'
<1>1. CASE Failed
  BY <1>1, FilesAtEnd DEF Failed
<1>2. CASE ~Failed
  <2>1. /\ step = "open" /\ step' = "write"
        /\ files' = [files EXCEPT ![span] = [run |-> run, whole |-> FALSE, page |-> <<>>]]
        /\ span' = span /\ result' = result /\ run' = run /\ lost' = lost
    BY <1>2 DEF Open, Failed
  <2>2. /\ DOMAIN files' = Span
        /\ files'[span] = [run |-> run, whole |-> FALSE, page |-> <<>>]
        /\ \A s \in Span : s # span => files'[s] = files[s]
    BY <2>1 DEF FilesInv
  <2>3. \A s \in Span :
          /\ DOMAIN files'[s] = FileFields
          /\ files'[s].run \in Nat
          /\ files'[s].run <= run
    BY <2>2 DEF FilesInv, FileFields
  <2>4. \A s \in Span : s < span => files'[s].run = run /\ (files'[s].whole \/ s \in lost)
    BY <2>1, <2>2 DEF FilesInv, Span
  <2>5. \A s, t \in Span : s < t => files'[s].run >= files'[t].run
    <3> SUFFICES ASSUME NEW s \in Span, NEW t \in Span, s < t
                 PROVE  files'[s].run >= files'[t].run
      OBVIOUS
    <3>1. CASE s < span \/ s = span
      BY <2>2, <2>3, <2>4, <3>1
    <3>2. CASE s > span
      BY <2>2, <3>2 DEF FilesInv, NewerPagesFirst, Span
    <3> QED
      BY <3>1, <3>2 DEF FilesInv, Span
  <2>6. result' # "ok"
    BY <2>1 DEF FilesInv
  <2> QED
    BY <2>1, <2>2, <2>3, <2>4, <2>5, <2>6
       DEF FilesInv, NewerPagesFirst, SuccessMeansWritten
<1> QED
  BY <1>1, <1>2

\* After the page is written, or lost, comes the next time span or the end.
LEMMA FilesAtWrite == ASSUME FilesInv, Write PROVE FilesInv'
<1>1. CASE Failed
  BY <1>1, FilesAtEnd DEF Failed
<1>2. CASE ~Failed
  <2>1. /\ step = "write" /\ NextSpan
        /\ \/ /\ files' = [files EXCEPT ![span].whole = TRUE, ![span].page = texts.page]
              /\ lost' = lost
           \/ /\ lost' = lost \union {span}
              /\ files' = files
    BY <1>2 DEF Write, Failed
  <2>2. span \in Span /\ DOMAIN files = Span /\ DOMAIN files[span] = FileFields
    BY DEF FilesInv
  <2>3. /\ DOMAIN files' = Span
        /\ \A s \in Span : DOMAIN files'[s] = FileFields /\ files'[s].run = files[s].run
        /\ \A s \in Span : s # span => files'[s] = files[s]
        /\ files'[span].whole \/ span \in lost'
        /\ \A s \in lost : s \in lost'
    <3>1. CASE /\ files' = [files EXCEPT ![span].whole = TRUE, ![span].page = texts.page]
               /\ lost' = lost
      BY <2>2, <3>1 DEF FilesInv, FileFields
    <3>2. CASE files' = files /\ lost' = lost \union {span}
      BY <2>2, <3>2 DEF FilesInv, FileFields
    <3> QED
      BY <2>1, <3>1, <3>2
  <2>4. \A s \in Span :
          s < span + 1 => files'[s].run = run /\ (files'[s].whole \/ s \in lost')
    BY <2>1, <2>3 DEF FilesInv, Span
  <2>5. NewerPagesFirst'
    BY <2>3 DEF FilesInv, NewerPagesFirst
  <2>6. CASE span < Spans
    <3>1. /\ span' = span + 1 /\ step' = "link_with_integrity"
          /\ result' = result /\ run' = run
      BY <2>1, <2>6 DEF NextSpan
    <3>2. span' \in Span /\ result = "none"
      BY <2>1, <2>6, <3>1, SpansAssumption DEF FilesInv, Span
    <3> QED
      BY <2>3, <2>4, <2>5, <3>1, <3>2 DEF FilesInv, SuccessMeansWritten
  <2>7. CASE ~(span < Spans)
    <3>1. /\ span' = 1 /\ step' = "idle" /\ result' = "ok" /\ run' = run
      BY <2>1, <2>7 DEF NextSpan
    <3>2. 1 \in Span /\ \A s \in Span : s < span + 1
      BY <2>2, <2>7, SpansAssumption DEF Span
    <3> QED
      BY <2>3, <2>4, <2>5, <3>1, <3>2 DEF FilesInv, SuccessMeansWritten
  <2> QED
    BY <2>6, <2>7
<1> QED
  BY <1>1, <1>2

LEMMA FilesStep == FilesInv /\ [PageNext]_pageVars => FilesInv'
<1> SUFFICES ASSUME FilesInv, [PageNext]_pageVars PROVE FilesInv'
  OBVIOUS
<1>1. CASE UNCHANGED pageVars
  BY <1>1 DEF pageVars, FilesInv, NewerPagesFirst, SuccessMeansWritten
<1>2. CASE Failed
  BY <1>2, FilesAtEnd DEF Failed
<1>3. CASE KillPages
  BY <1>3, FilesAtEnd DEF KillPages
<1>4. CASE Traces
  BY <1>2, <1>4, FilesKept DEF Traces, Failed
<1>5. CASE Trace
  BY <1>2, <1>5, TraceDoes, FilesKept
<1>6. CASE Script
  BY <1>2, <1>6, ScriptDoes, FilesKept DEF Filled
<1>7. CASE LinkWithIntegrity \/ ScriptWithIntegrity \/ Header
  BY <1>2, <1>7, LinkDoes, ScriptLinkDoes, HeaderDoes, FilesKept DEF Filled
<1>8. CASE Graph \/ Navigation \/ Full
  BY <1>2, <1>8, GraphDoes, NavigationDoes, FullDoes, FilesKept DEF Filled
<1>9. CASE NavItem
  BY <1>2, <1>9, NavItemDoes, FilesKept DEF Filled
<1> QED
  BY <1>1, <1>3, <1>4, <1>5, <1>6, <1>7, <1>8, <1>9,
     FilesAtStart, FilesAtOpen, FilesAtWrite DEF PageNext, PageStep

\* Whatever run failed or was killed, and wherever, no page is older than the one
\* of the next time span.
THEOREM NewestFirst == PageSpec => []NewerPagesFirst
<1>1. FilesInv => NewerPagesFirst
  BY DEF FilesInv
<1> QED
  BY <1>1, FilesInit, FilesStep, PTL DEF PageSpec

\* A run that reports success has written every page, but for those lost as
\* their stream was closed.
THEOREM SuccessIsTrue == PageSpec => []SuccessMeansWritten
<1>1. FilesInv => SuccessMeansWritten
  BY DEF FilesInv
<1> QED
  BY <1>1, FilesInit, FilesStep, PTL DEF PageSpec

-----------------------------------------------------------------------------
\* The texts of a page are all of its time span.

AtGraph == {"nav_item", "navigation", "full", "open", "write"}

LEMMA AppendToNone == ASSUME NEW x PROVE Append(<<>>, x) = <<x>>
  OBVIOUS

\* A page begins with no text, and so does a program that is idle.
LEMMA TextsNone ==
  ASSUME texts' = NoTexts, devs' \subseteq Device, rtype' \in {"thermal", "load"},
         step' \notin AtGraph
  PROVE  TextsInv'
<1>1. /\ <<>> \in Seq(TraceTexts(span')) /\ <<>> \in Seq(ItemTexts(span'))
      /\ Len(<<>>) = 0 /\ DOMAIN <<>> = {} /\ 0 < Spans
  BY SpansAssumption
<1>2. /\ DOMAIN NoTexts = DOMAIN NoTexts
      /\ NoTexts.traces = <<>> /\ NoTexts.items = <<>> /\ NoTexts.graph = <<>>
      /\ NoTexts.nav = <<>> /\ NoTexts.page = <<>>
  BY DEF NoTexts
<1> HIDE DEF NoTexts
<1> QED
  BY <1>1, <1>2 DEF TextsInv, AtGraph

LEMMA TextsInit == PageInit => TextsInv
<1> SUFFICES ASSUME PageInit PROVE TextsInv
  OBVIOUS
<1>1. texts = NoTexts /\ devs = {} /\ rtype = "thermal" /\ step = "idle"
  BY DEF PageInit
<1>2. /\ <<>> \in Seq(TraceTexts(span)) /\ <<>> \in Seq(ItemTexts(span))
      /\ Len(<<>>) = 0 /\ DOMAIN <<>> = {} /\ 0 < Spans
  BY SpansAssumption
<1>3. /\ NoTexts.traces = <<>> /\ NoTexts.items = <<>> /\ NoTexts.graph = <<>>
      /\ NoTexts.nav = <<>> /\ NoTexts.page = <<>>
  BY DEF NoTexts
<1> QED
  BY <1>1, <1>2, <1>3 DEF TextsInv

LEMMA TextsAtEnd ==
  ASSUME NEW how, End(how)
  PROVE  TextsInv'
  BY TextsNone DEF End, AtGraph

\* Up to the graph, only the texts of the header are generated, and traces.
LEMMA TextsBefore ==
  ASSUME TextsInv, span' = span, step \notin AtGraph, step' \notin AtGraph \ {"nav_item"},
         devs' \subseteq Device, rtype' \in {"thermal", "load"},
         DOMAIN texts' = DOMAIN texts,
         texts'.traces \in Seq(TraceTexts(span)),
         texts'.items = texts.items, texts'.nav = texts.nav, texts'.page = texts.page,
         IF step' = "nav_item"
         THEN texts'.graph = <<GraphText(span, texts'.traces)>>
         ELSE texts'.graph = texts.graph
  PROVE  TextsInv'
  BY DEF TextsInv, AtGraph

\* A header may be appended to, or replaced, and no other text is changed.
LEMMA TextsOfHeader ==
  ASSUME TextsInv, NEW part \in {"header", "scripts"}, NEW t,
         texts' = [texts EXCEPT ![part] = t],
         span' = span, step \notin AtGraph, step' \notin AtGraph,
         devs' = devs, rtype' = rtype
  PROVE  TextsInv'
<1>1. /\ DOMAIN texts' = DOMAIN texts
      /\ texts'.traces = texts.traces /\ texts'.items = texts.items
      /\ texts'.nav = texts.nav /\ texts'.page = texts.page /\ texts'.graph = texts.graph
  BY DEF TextsInv, NoTexts
<1> QED
  BY <1>1, TextsBefore DEF TextsInv, AtGraph

LEMMA TextsAtTrace == ASSUME TextsInv, Trace PROVE TextsInv'
<1>1. CASE Failed
  BY <1>1, TextsAtEnd DEF Failed
<1>2. ASSUME NEW d \in devs, step = "trace", step' = "trace", devs' = devs \ {d},
             texts' = [texts EXCEPT !["traces"] = Append(@, TraceText(span, d, rtype))],
             rtype' = rtype, span' = span
      PROVE  TextsInv'
  <2>1. /\ DOMAIN texts' = DOMAIN texts
        /\ texts'.traces = Append(texts.traces, TraceText(span, d, rtype))
        /\ texts'.items = texts.items
        /\ texts'.nav = texts.nav /\ texts'.page = texts.page /\ texts'.graph = texts.graph
    BY <1>2 DEF TextsInv, NoTexts
  <2>2. TraceText(span, d, rtype) \in TraceTexts(span) /\ texts.traces \in Seq(TraceTexts(span))
    BY DEF TextsInv, TraceTexts
  <2> HIDE DEF TraceText
  <2>3. texts'.traces \in Seq(TraceTexts(span))
    BY <2>1, <2>2
  <2> QED
    BY <1>2, <2>1, <2>3, TextsBefore DEF TextsInv, AtGraph
<1>3. CASE /\ step = "trace" /\ step' \in {"traces", "graph"}
           /\ rtype' \in {"thermal", "load"}
           /\ UNCHANGED <<span, texts, devs>>
  BY <1>3, TextsBefore DEF TextsInv, AtGraph
<1> QED
  BY <1>1, <1>2, <1>3, TraceDoes

LEMMA TextsAtGraph == ASSUME TextsInv, Graph PROVE TextsInv'
<1>1. CASE Failed
  BY <1>1, TextsAtEnd DEF Failed
<1>2. CASE Filled("graph", [plotId |-> "id_1", title |-> [of |-> span], traces |-> texts.traces],
                  "graph", "nav_item")
  <2> DEFINE g == GraphText(span, texts.traces)
  <2>1. /\ step = "graph" /\ step' = "nav_item"
        /\ texts' = [texts EXCEPT !["graph"] = Append(@, g)]
        /\ span' = span /\ devs' = devs /\ rtype' = rtype
    BY <1>2 DEF Filled, GraphText
  <2>2. texts.graph = <<>> /\ DOMAIN texts = DOMAIN NoTexts
    BY <2>1 DEF TextsInv
  <2> HIDE DEF g
  <2>3. /\ DOMAIN texts' = DOMAIN texts
        /\ texts'.graph = Append(texts.graph, g)
        /\ texts'.traces = texts.traces /\ texts'.items = texts.items
        /\ texts'.nav = texts.nav /\ texts'.page = texts.page
    BY <2>1, <2>2 DEF NoTexts
  <2>4. texts'.graph = <<g>>
    BY <2>2, <2>3, AppendToNone
  <2>5. texts'.graph = <<GraphText(span, texts'.traces)>>
    BY <2>3, <2>4 DEF g
  <2>6. /\ texts'.traces \in Seq(TraceTexts(span))
        /\ devs' \subseteq Device /\ rtype' \in {"thermal", "load"}
    BY <2>1, <2>3 DEF TextsInv
  <2> QED
    BY <2>1, <2>3, <2>5, <2>6, TextsBefore DEF AtGraph
<1> QED
  BY <1>1, <1>2, GraphDoes

LEMMA TextsAtNavItem == ASSUME TextsInv, NavItem PROVE TextsInv'
<1> DEFINE k == Len(texts.items) + 1
           item == ItemText(span, k)
           next == IF k = Spans THEN "navigation" ELSE "nav_item"
<1>1. CASE Failed
  BY <1>1, TextsAtEnd DEF Failed
<1>2. CASE ~Failed
  <2>1. /\ step = "nav_item" /\ step' = next
        /\ texts' = [texts EXCEPT !["items"] = Append(@, item)]
        /\ span' = span /\ devs' = devs /\ rtype' = rtype
    BY <1>2, NavItemDoes DEF Filled, ItemText
  <2>2. /\ texts.items \in Seq(ItemTexts(span)) /\ Len(texts.items) < Spans
        /\ DOMAIN texts = DOMAIN NoTexts
        /\ \A i \in DOMAIN texts.items : texts.items[i] = ItemText(span, i)
    BY <2>1 DEF TextsInv
  <2>3. k \in Span /\ k \in Nat /\ k <= Spans
    BY <2>2, SpansAssumption DEF Span
  <2>4. item \in ItemTexts(span)
    BY <2>3 DEF ItemTexts
  <2> HIDE DEF item
  <2>5. /\ DOMAIN texts' = DOMAIN texts
        /\ texts'.items = Append(texts.items, item)
        /\ texts'.traces = texts.traces /\ texts'.graph = texts.graph
        /\ texts'.nav = texts.nav /\ texts'.page = texts.page
    BY <2>1, <2>2 DEF NoTexts
  <2>6. /\ texts'.items \in Seq(ItemTexts(span)) /\ Len(texts'.items) = k
        /\ texts'.items[k] = item
        /\ DOMAIN texts'.items = 1 .. k
        /\ \A i \in 1 .. k - 1 : texts'.items[i] = texts.items[i] /\ i \in DOMAIN texts.items
    BY <2>2, <2>4, <2>5
  <2>7. \A i \in DOMAIN texts'.items : texts'.items[i] = ItemText(span, i)
    <3> SUFFICES ASSUME NEW i \in 1 .. k PROVE texts'.items[i] = ItemText(span, i)
      BY <2>6
    <3>1. CASE i = k
      BY <2>6, <3>1 DEF item
    <3>2. CASE i # k
      <4>1. i \in 1 .. k - 1
        BY <2>3, <3>2
      <4> QED
        BY <2>2, <2>6, <4>1
    <3> QED
      BY <3>1, <3>2
  <2>8. IF step' = "navigation" THEN Len(texts'.items) = Spans ELSE Len(texts'.items) < Spans
    BY <2>1, <2>3, <2>6, SpansAssumption
  <2> HIDE DEF k
  <2> QED
    BY <2>1, <2>2, <2>5, <2>6, <2>7, <2>8 DEF TextsInv
<1> QED
  BY <1>1, <1>2

LEMMA TextsAtNavigation == ASSUME TextsInv, Navigation PROVE TextsInv'
<1>1. CASE Failed
  BY <1>1, TextsAtEnd DEF Failed
<1>2. CASE Filled("navigation", [items |-> texts.items], "nav", "full")
  <2> DEFINE n == NavText(texts.items)
  <2>1. /\ step = "navigation" /\ step' = "full"
        /\ texts' = [texts EXCEPT !["nav"] = Append(@, n)]
        /\ span' = span /\ devs' = devs /\ rtype' = rtype
    BY <1>2 DEF Filled, NavText
  <2>2. texts.nav = <<>> /\ DOMAIN texts = DOMAIN NoTexts
    BY <2>1 DEF TextsInv
  <2> HIDE DEF n
  <2>3. /\ DOMAIN texts' = DOMAIN texts
        /\ texts'.nav = Append(texts.nav, n)
        /\ texts'.traces = texts.traces /\ texts'.items = texts.items
        /\ texts'.graph = texts.graph /\ texts'.page = texts.page
    BY <2>1, <2>2 DEF NoTexts
  <2>4. texts'.nav = <<n>>
    BY <2>2, <2>3, AppendToNone
  <2>5. texts'.nav = <<NavText(texts'.items)>>
    BY <2>3, <2>4 DEF n
  <2> QED
    BY <2>1, <2>3, <2>5 DEF TextsInv
<1> QED
  BY <1>1, <1>2, NavigationDoes

LEMMA TextsAtFull == ASSUME TextsInv, Full PROVE TextsInv'
<1>1. CASE Failed
  BY <1>1, TextsAtEnd DEF Failed
<1>2. CASE Filled("full", [header |-> texts.header, content |-> texts.nav \o texts.graph],
                  "page", "open")
  <2> DEFINE p == FullText(texts.header, texts.nav \o texts.graph)
  <2>1. /\ step = "full" /\ step' = "open"
        /\ texts' = [texts EXCEPT !["page"] = Append(@, p)]
        /\ span' = span /\ devs' = devs /\ rtype' = rtype
    BY <1>2 DEF Filled, FullText
  <2>2. texts.page = <<>> /\ DOMAIN texts = DOMAIN NoTexts
    BY <2>1 DEF TextsInv
  <2> HIDE DEF p
  <2>3. /\ DOMAIN texts' = DOMAIN texts
        /\ texts'.page = Append(texts.page, p)
        /\ texts'.traces = texts.traces /\ texts'.items = texts.items
        /\ texts'.graph = texts.graph /\ texts'.nav = texts.nav
        /\ texts'.header = texts.header
    BY <2>1, <2>2 DEF NoTexts
  <2>4. texts'.page = <<p>>
    BY <2>2, <2>3, AppendToNone
  <2>5. texts'.page = <<FullText(texts'.header, texts'.nav \o texts'.graph)>>
    BY <2>3, <2>4 DEF p
  <2> QED
    BY <2>1, <2>3, <2>5 DEF TextsInv
<1> QED
  BY <1>1, <1>2, FullDoes

LEMMA TextsStep == TextsInv /\ [PageNext]_pageVars => TextsInv'
<1> SUFFICES ASSUME TextsInv, [PageNext]_pageVars PROVE TextsInv'
  OBVIOUS
<1>1. CASE UNCHANGED pageVars
  BY <1>1 DEF pageVars, TextsInv
<1>2. CASE Failed
  BY <1>2, TextsAtEnd DEF Failed
<1>3. CASE KillPages
  BY <1>3, TextsAtEnd DEF KillPages
<1>4. CASE StartPages
  <2>1. /\ step = "idle" /\ step' = "link_with_integrity"
        /\ span' = span /\ texts' = texts /\ devs' = devs /\ rtype' = rtype
    BY <1>4 DEF StartPages
  <2> QED
    BY <2>1 DEF TextsInv
<1>5. CASE Traces
  <2>1. CASE ~Failed
    <3>1. /\ step = "traces" /\ step' = "trace" /\ devs' \in Found
          /\ span' = span /\ texts' = texts /\ rtype' = rtype
      BY <1>5, <2>1 DEF Traces, Failed
    <3>2. devs' \subseteq Device
      BY <3>1 DEF Device
    <3> QED
      BY <3>1, <3>2 DEF TextsInv
  <2> QED
    BY <1>2, <2>1
<1>6. CASE LinkWithIntegrity \/ ScriptWithIntegrity \/ Header
  BY <1>2, <1>6, LinkDoes, ScriptLinkDoes, HeaderDoes, TextsOfHeader DEF Filled, AtGraph
<1>7. CASE Script
  BY <1>2, <1>7, ScriptDoes, TextsOfHeader DEF Filled, AtGraph
<1>8. CASE Open
  <2>1. CASE ~Failed
    <3>1. /\ step = "open" /\ step' = "write"
          /\ span' = span /\ texts' = texts /\ devs' = devs /\ rtype' = rtype
      BY <1>8, <2>1 DEF Open, Failed
    <3> QED
      BY <3>1 DEF TextsInv
  <2> QED
    BY <1>2, <2>1
<1>9. CASE Write
  <2>1. CASE NextSpan
    <3>1. /\ texts' = NoTexts /\ devs' = devs /\ rtype' = rtype
          /\ step' \in {"link_with_integrity", "idle"}
      BY <2>1 DEF NextSpan
    <3> QED
      BY <3>1, TextsNone DEF TextsInv, AtGraph
  <2> QED
    BY <1>2, <1>9, <2>1 DEF Write, Failed
<1> QED
  BY <1>1, <1>3, <1>4, <1>5, <1>6, <1>7, <1>8, <1>9,
     TextsAtTrace, TextsAtGraph, TextsAtNavItem, TextsAtNavigation, TextsAtFull
     DEF PageNext, PageStep

-----------------------------------------------------------------------------
\* So the page that is written is that of its time span.

\* What PagesAreTheirOwn says of a trace, an item of the navigation and a page.
OwnTrace(s, f) ==
  /\ f.dates = f.values
  /\ f.dates.span = s
  /\ f.name = [dev |-> f.dates.dev]
  /\ f.yaxis = "y2" <=> f.dates.type = "thermal"

OwnItem(s, k, f) == f.url = [page |-> k] /\ f.name = [page |-> k] /\ (f.active <=> k = s)

OwnPage(s, p) ==
  LET content == p[1].fills.content
      items == content[1].fills.items
      traces == content[2].fills.traces
  IN  /\ content[2].fills.title = [of |-> s]
      /\ \A i \in DOMAIN traces : OwnTrace(s, traces[i].fills)
      /\ Len(items) = Spans
      /\ \A k \in DOMAIN items : OwnItem(s, k, items[k].fills)

LEMMA OwnPages ==
  /\ PagesAreTheirOwn <=> \A s \in Span : files[s].whole => OwnPage(s, files[s].page)
  /\ PagesAreTheirOwn' <=> \A s \in Span : files'[s].whole => OwnPage(s, files'[s].page)
  BY DEF PagesAreTheirOwn, OwnPage, OwnTrace, OwnItem, Content, Items, TracesOf

LEMMA ItemIsOwn ==
  ASSUME NEW s, NEW k
  PROVE  OwnItem(s, k, ItemText(s, k).fills)
<1>1. ItemText(s, k).fills = [url |-> [page |-> k], name |-> [page |-> k], active |-> (k = s)]
  BY DEF ItemText
<1>2. ItemText(s, k).fills.active = (k = s)
  BY <1>1
<1>3. ItemText(s, k).fills.url = [page |-> k] /\ ItemText(s, k).fills.name = [page |-> k]
  BY <1>1
<1>4. ItemText(s, k).fills.active <=> k = s
  BY <1>2, Zenon
<1> QED
  BY <1>3, <1>4, Zenon DEF OwnItem

LEMMA TraceIsOwn ==
  ASSUME NEW s, NEW d, NEW t
  PROVE  OwnTrace(s, TraceText(s, d, t).fills)
  BY DEF TraceText, OwnTrace

LEMMA PageIsOwn == ASSUME TextsInv, step = "write" PROVE OwnPage(span, texts.page)
<1> DEFINE content == texts.nav \o texts.graph
           n == NavText(texts.items)
           g == GraphText(span, texts.traces)
<1>1. /\ texts.page = <<FullText(texts.header, content)>>
      /\ texts.nav = <<n>> /\ texts.graph = <<g>>
      /\ Len(texts.items) = Spans
      /\ texts.traces \in Seq(TraceTexts(span))
      /\ \A k \in DOMAIN texts.items : texts.items[k] = ItemText(span, k)
  BY DEF TextsInv
<1>2. texts.page[1].fills.content = content
  <2> HIDE DEF content
  <2> QED
    BY <1>1 DEF FullText
<1>3. content[1] = n /\ content[2] = g
  <2> HIDE DEF n, g
  <2> QED
    BY <1>1, TwoParts
<1>4. n.fills.items = texts.items
  BY DEF NavText
<1>5. g.fills.title = [of |-> span] /\ g.fills.traces = texts.traces
  BY DEF GraphText
<1>6. ASSUME NEW i \in DOMAIN texts.traces
      PROVE  OwnTrace(span, texts.traces[i].fills)
  <2>1. texts.traces[i] \in TraceTexts(span)
    BY <1>1
  <2>2. PICK d \in Device, t \in {"thermal", "load"} : texts.traces[i] = TraceText(span, d, t)
    BY <2>1 DEF TraceTexts
  <2> QED
    BY <2>2, TraceIsOwn
<1>7. ASSUME NEW k \in DOMAIN texts.items
      PROVE  OwnItem(span, k, texts.items[k].fills)
  BY <1>1, <1>7, ItemIsOwn
<1> HIDE DEF content, n, g
<1> QED
  BY <1>1, <1>2, <1>3, <1>4, <1>5, <1>6, <1>7 DEF OwnPage

LEMMA OwnStep ==
  FilesInv /\ TextsInv /\ PagesAreTheirOwn /\ [PageNext]_pageVars => PagesAreTheirOwn'
<1> SUFFICES ASSUME FilesInv, TextsInv, [PageNext]_pageVars,
                    \A s \in Span : files[s].whole => OwnPage(s, files[s].page)
             PROVE  \A s \in Span : files'[s].whole => OwnPage(s, files'[s].page)
  BY OwnPages
<1>1. CASE files' = files
  BY <1>1
<1>2. CASE files' # files
  <2>1. span \in Span /\ DOMAIN files = Span /\ DOMAIN files[span] = FileFields
    BY DEF FilesInv
  <2>2. \/ files' = [files EXCEPT ![span] = [run |-> run, whole |-> FALSE, page |-> <<>>]]
        \/ /\ step = "write"
           /\ files' = [files EXCEPT ![span].whole = TRUE, ![span].page = texts.page]
    <3>1. ~Failed /\ ~KillPages /\ ~StartPages /\ ~Traces /\ ~UNCHANGED pageVars
      BY <1>2 DEF Failed, KillPages, StartPages, Traces, pageVars
    <3>2. ~Trace /\ ~Script
      BY <1>2, TraceDoes, ScriptDoes DEF Failed, Filled
    <3>3. ~LinkWithIntegrity /\ ~ScriptWithIntegrity /\ ~Header
      BY <1>2, LinkDoes, ScriptLinkDoes, HeaderDoes DEF Failed, Filled
    <3>4. ~Graph /\ ~NavItem /\ ~Navigation /\ ~Full
      BY <1>2, GraphDoes, NavItemDoes, NavigationDoes, FullDoes DEF Failed, Filled
    <3>5. Open \/ Write
      BY <3>1, <3>2, <3>3, <3>4 DEF PageNext, PageStep
    <3> QED
      BY <1>2, <3>5 DEF Open, Write
  <2>3. \A s \in Span : s # span => files'[s] = files[s]
    BY <2>1, <2>2
  <2>4. files'[span].whole => OwnPage(span, files'[span].page)
    <3>1. CASE files' = [files EXCEPT ![span] = [run |-> run, whole |-> FALSE, page |-> <<>>]]
      BY <2>1, <3>1
    <3>2. CASE /\ step = "write"
               /\ files' = [files EXCEPT ![span].whole = TRUE, ![span].page = texts.page]
      <4>1. files'[span].page = texts.page
        BY <2>1, <3>2 DEF FileFields
      <4> QED
        BY <3>2, <4>1, PageIsOwn
    <3> QED
      BY <2>2, <3>1, <3>2
  <2> QED
    BY <2>3, <2>4
<1> QED
  BY <1>1, <1>2

\* Each page that was written in full is that of its time span, for any number of
\* time spans and any devices: nothing of another page, of another device or of
\* the other type of readings has stayed in the template.
THEOREM PagesOfTheirSpan == PageSpec => []PagesAreTheirOwn
<1>1. PageInit => PagesAreTheirOwn
  BY DEF PageInit, PagesAreTheirOwn
<1> QED
  BY <1>1, FilesInit, FilesStep, TextsInit, TextsStep, OwnStep, PTL DEF PageSpec

-----------------------------------------------------------------------------
\* The dates of the database survive every conversion.

\* ASCII codes, and whatever number Padded() makes of more than two digits.
Char == Int

\* Tens and units.
LEMMA TensAndUnits ==
  ASSUME NEW n \in Nat
  PROVE  /\ n \div 10 \in Nat /\ n % 10 \in 0 .. 9
         /\ n = 10 * (n \div 10) + (n % 10)
  OBVIOUS

Tens(n) == 48 + (n \div 10)
Units(n) == 48 + (n % 10)

LEMMA PaddedIs ==
  ASSUME NEW n \in Nat
  PROVE  /\ Padded(n) \in Seq(Char) /\ Len(Padded(n)) = 2
         /\ Padded(n)[1] = Tens(n) /\ Padded(n)[2] = Units(n)
<1>1. Tens(n) \in Int /\ Units(n) \in Int
  BY TensAndUnits DEF Tens, Units
<1>2. Padded(n) = <<Tens(n), Units(n)>>
  BY DEF Padded, Digit, Tens, Units
<1> QED
  BY <1>1, <1>2 DEF Char

\* The digits of a date.
DayOf(m) == m \div 1440
HourOf(m) == (m % 1440) \div 60
MinuteOf(m) == m % 60

\* The characters of the text of a date.
LEMMA TextIs ==
  ASSUME NEW m \in Nat
  PROVE  LET s == DateText(m) IN
         /\ DOMAIN s = 1 .. 8 /\ Len(s) = 8
         /\ s[1] = Tens(DayOf(m)) /\ s[2] = Units(DayOf(m))
         /\ s[3] = 32
         /\ s[4] = Tens(HourOf(m)) /\ s[5] = Units(HourOf(m))
         /\ s[6] = 58
         /\ s[7] = Tens(MinuteOf(m)) /\ s[8] = Units(MinuteOf(m))
<1> DEFINE d == m \div 1440
           h == (m % 1440) \div 60
           n == m % 60
           day == Padded(d)
           hour == Padded(h)
           minute == Padded(n)
           space == <<32>>
           colon == <<58>>
           a == day \o space
           b == a \o hour
           c == b \o colon
           s == c \o minute
<1>1. d \in Nat /\ h \in Nat /\ n \in Nat
  OBVIOUS
<1>2. d = DayOf(m) /\ h = HourOf(m) /\ n = MinuteOf(m)
  BY DEF DayOf, HourOf, MinuteOf
<1>3. DateText(m) = s
  BY DEF DateText
<1> HIDE DEF d, h, n
<1>4. /\ day \in Seq(Char) /\ Len(day) = 2 /\ day[1] = Tens(d) /\ day[2] = Units(d)
      /\ hour \in Seq(Char) /\ Len(hour) = 2 /\ hour[1] = Tens(h) /\ hour[2] = Units(h)
      /\ minute \in Seq(Char) /\ Len(minute) = 2
      /\ minute[1] = Tens(n) /\ minute[2] = Units(n)
  BY <1>1, PaddedIs
<1>5. /\ space \in Seq(Char) /\ Len(space) = 1 /\ space[1] = 32
      /\ colon \in Seq(Char) /\ Len(colon) = 1 /\ colon[1] = 58
  BY DEF Char
<1> HIDE DEF day, hour, minute, space, colon
<1>6. \A u, v \in Seq(Char) :
        /\ u \o v \in Seq(Char)
        /\ Len(u \o v) = Len(u) + Len(v)
        /\ \A i \in 1 .. Len(u) + Len(v) :
             (u \o v)[i] = IF i <= Len(u) THEN u[i] ELSE v[i - Len(u)]
  BY ConcatProperties
<1>7. /\ a \in Seq(Char) /\ Len(a) = 3
      /\ a[1] = day[1] /\ a[2] = day[2] /\ a[3] = 32
  <2>1. /\ a \in Seq(Char) /\ Len(a) = Len(day) + Len(space)
        /\ \A i \in 1 .. Len(day) + Len(space) :
             a[i] = IF i <= Len(day) THEN day[i] ELSE space[i - Len(day)]
    BY <1>4, <1>5, <1>6
  <2> HIDE DEF a
  <2> QED
    BY <1>4, <1>5, <2>1
<1> HIDE DEF a
<1>8. /\ b \in Seq(Char) /\ Len(b) = 5
      /\ b[1] = day[1] /\ b[2] = day[2] /\ b[3] = 32 /\ b[4] = hour[1] /\ b[5] = hour[2]
  <2>1. /\ b \in Seq(Char) /\ Len(b) = Len(a) + Len(hour)
        /\ \A i \in 1 .. Len(a) + Len(hour) :
             b[i] = IF i <= Len(a) THEN a[i] ELSE hour[i - Len(a)]
    BY <1>4, <1>6, <1>7
  <2> HIDE DEF b
  <2> QED
    BY <1>4, <1>7, <2>1
<1> HIDE DEF b
<1>9. /\ c \in Seq(Char) /\ Len(c) = 6
      /\ c[1] = day[1] /\ c[2] = day[2] /\ c[3] = 32 /\ c[4] = hour[1] /\ c[5] = hour[2]
      /\ c[6] = 58
  <2>1. /\ c \in Seq(Char) /\ Len(c) = Len(b) + Len(colon)
        /\ \A i \in 1 .. Len(b) + Len(colon) :
             c[i] = IF i <= Len(b) THEN b[i] ELSE colon[i - Len(b)]
    BY <1>5, <1>6, <1>8
  <2> HIDE DEF c
  <2> QED
    BY <1>5, <1>8, <2>1
<1> HIDE DEF c
<1>10. /\ DOMAIN s = 1 .. 8 /\ Len(s) = 8
       /\ s[1] = day[1] /\ s[2] = day[2] /\ s[3] = 32
       /\ s[4] = hour[1] /\ s[5] = hour[2] /\ s[6] = 58
       /\ s[7] = minute[1] /\ s[8] = minute[2]
  <2>1. /\ s \in Seq(Char) /\ Len(s) = Len(c) + Len(minute)
        /\ \A i \in 1 .. Len(c) + Len(minute) :
             s[i] = IF i <= Len(c) THEN c[i] ELSE minute[i - Len(c)]
    BY <1>4, <1>6, <1>9
  <2> HIDE DEF s
  <2> QED
    BY <1>4, <1>9, <2>1
<1> HIDE DEF s
<1> QED
  BY <1>2, <1>3, <1>4, <1>10

\* What is read back from the text of a date is the date.
LEMMA TextTellsMinutes ==
  ASSUME NEW m \in Nat
  PROVE  /\ Len(DateText(m)) = 8 /\ DateText(m)[6] = 58
         /\ Minutes(DateText(m)) = m
<1> DEFINE s == DateText(m)
           d == DayOf(m)
           h == HourOf(m)
           n == MinuteOf(m)
<1>1. d \in Nat /\ h \in Nat /\ n \in Nat /\ m = 1440 * d + 60 * h + n
  BY DEF DayOf, HourOf, MinuteOf
<1>2. /\ Len(s) = 8 /\ s[6] = 58
      /\ s[1] = Tens(d) /\ s[2] = Units(d)
      /\ s[4] = Tens(h) /\ s[5] = Units(h)
      /\ s[7] = Tens(n) /\ s[8] = Units(n)
  BY TextIs
<1> HIDE DEF s, d, h, n
<1>3. \A k \in Nat : (Tens(k) - 48) * 10 + (Units(k) - 48) = k
  <2> SUFFICES ASSUME NEW k \in Nat PROVE (Tens(k) - 48) * 10 + (Units(k) - 48) = k
    OBVIOUS
  <2>1. /\ k \div 10 \in Nat /\ k % 10 \in 0 .. 9 /\ k = 10 * (k \div 10) + (k % 10)
    BY TensAndUnits
  <2> DEFINE a == k \div 10
             b == k % 10
  <2>2. Tens(k) = 48 + a /\ Units(k) = 48 + b
    BY DEF Tens, Units
  <2> HIDE DEF a, b
  <2> QED
    BY <2>1, <2>2 DEF a, b
<1>4. 1 + 1 = 2 /\ 4 + 1 = 5 /\ 7 + 1 = 8
  OBVIOUS
<1>5. Number(s, 1) = d /\ Number(s, 4) = h /\ Number(s, 7) = n
  BY <1>1, <1>2, <1>3, <1>4 DEF Number
<1> QED
  BY <1>1, <1>2, <1>5 DEF Minutes, s

\* Of two numbers, the digits are in the order of the numbers.
LEMMA DigitsOrder ==
  ASSUME NEW m \in Nat, NEW n \in Nat
  PROVE  /\ Tens(m) \in Int /\ Units(m) \in Int
         /\ m < n => \/ Tens(m) < Tens(n)
                     \/ Tens(m) = Tens(n) /\ Units(m) < Units(n)
<1> DEFINE a == m \div 10
           b == m % 10
           c == n \div 10
           d == n % 10
<1>1. a \in Nat /\ b \in 0 .. 9 /\ m = 10 * a + b
  BY TensAndUnits
<1>2. c \in Nat /\ d \in 0 .. 9 /\ n = 10 * c + d
  BY TensAndUnits
<1>3. Tens(m) = 48 + a /\ Units(m) = 48 + b /\ Tens(n) = 48 + c /\ Units(n) = 48 + d
  BY DEF Tens, Units
<1> HIDE DEF a, b, c, d
<1>4. m < n => a < c \/ (a = c /\ b < d)
  BY <1>1, <1>2
<1> QED
  BY <1>1, <1>2, <1>3, <1>4

\* The texts of two dates differ first in a place where that of the earlier date
\* has the lesser character.
LEMMA EarlierIsBefore ==
  ASSUME NEW m \in Nat, NEW n \in Nat, m < n
  PROVE  Before(DateText(m), DateText(n))
<1> DEFINE s == DateText(m)
           t == DateText(n)
<1>1. /\ DayOf(m) \in Nat /\ HourOf(m) \in Nat /\ MinuteOf(m) \in Nat
      /\ DayOf(n) \in Nat /\ HourOf(n) \in Nat /\ MinuteOf(n) \in Nat
  BY DEF DayOf, HourOf, MinuteOf
<1>2. \/ DayOf(m) < DayOf(n)
      \/ DayOf(m) = DayOf(n) /\ HourOf(m) < HourOf(n)
      \/ DayOf(m) = DayOf(n) /\ HourOf(m) = HourOf(n) /\ MinuteOf(m) < MinuteOf(n)
  BY DEF DayOf, HourOf, MinuteOf
<1>3. /\ DOMAIN s = 1 .. 8 /\ DOMAIN t = 1 .. 8
      /\ s[3] = t[3] /\ s[6] = t[6]
      /\ s[1] = Tens(DayOf(m)) /\ s[2] = Units(DayOf(m))
      /\ s[4] = Tens(HourOf(m)) /\ s[5] = Units(HourOf(m))
      /\ s[7] = Tens(MinuteOf(m)) /\ s[8] = Units(MinuteOf(m))
      /\ t[1] = Tens(DayOf(n)) /\ t[2] = Units(DayOf(n))
      /\ t[4] = Tens(HourOf(n)) /\ t[5] = Units(HourOf(n))
      /\ t[7] = Tens(MinuteOf(n)) /\ t[8] = Units(MinuteOf(n))
  BY TextIs
<1> HIDE DEF s, t
<1>4. \A k \in 1 .. 8 :
        (\A j \in 1 .. k - 1 : s[j] = t[j]) /\ s[k] < t[k] => Before(s, t)
  <2> SUFFICES ASSUME NEW k \in 1 .. 8, \A j \in 1 .. k - 1 : s[j] = t[j], s[k] < t[k]
               PROVE  Before(s, t)
    OBVIOUS
  <2>1. \A j \in 1 .. k - 1 : j \in DOMAIN s
    BY <1>3
  <2> QED
    BY <1>3, <2>1 DEF Before
<1>5. CASE DayOf(m) < DayOf(n)
  <2>1. s[1] < t[1] \/ (s[1] = t[1] /\ s[2] < t[2])
    BY <1>1, <1>3, <1>5, DigitsOrder
  <2>2. s[1] < t[1] => Before(s, t)
    BY <1>4
  <2>3. s[1] = t[1] /\ s[2] < t[2] => Before(s, t)
    BY <1>4
  <2> QED
    BY <2>1, <2>2, <2>3 DEF s, t
<1>6. CASE DayOf(m) = DayOf(n) /\ HourOf(m) < HourOf(n)
  <2>1. s[1] = t[1] /\ s[2] = t[2] /\ s[3] = t[3]
    BY <1>3, <1>6
  <2>2. s[4] < t[4] \/ (s[4] = t[4] /\ s[5] < t[5])
    BY <1>1, <1>3, <1>6, DigitsOrder
  <2>3. s[4] < t[4] => Before(s, t)
    <3>1. \A j \in 1 .. 4 - 1 : j = 1 \/ j = 2 \/ j = 3
      OBVIOUS
    <3> QED
      BY <1>4, <2>1, <3>1
  <2>4. s[4] = t[4] /\ s[5] < t[5] => Before(s, t)
    <3>1. \A j \in 1 .. 5 - 1 : j = 1 \/ j = 2 \/ j = 3 \/ j = 4
      OBVIOUS
    <3> QED
      BY <1>4, <2>1, <3>1
  <2> QED
    BY <2>2, <2>3, <2>4 DEF s, t
<1>7. CASE DayOf(m) = DayOf(n) /\ HourOf(m) = HourOf(n) /\ MinuteOf(m) < MinuteOf(n)
  <2>1. /\ s[1] = t[1] /\ s[2] = t[2] /\ s[3] = t[3]
        /\ s[4] = t[4] /\ s[5] = t[5] /\ s[6] = t[6]
    BY <1>3, <1>7
  <2>2. s[7] < t[7] \/ (s[7] = t[7] /\ s[8] < t[8])
    BY <1>1, <1>3, <1>7, DigitsOrder
  <2>3. s[7] < t[7] => Before(s, t)
    <3>1. \A j \in 1 .. 7 - 1 : j = 1 \/ j = 2 \/ j = 3 \/ j = 4 \/ j = 5 \/ j = 6
      OBVIOUS
    <3> QED
      BY <1>4, <2>1, <3>1
  <2>4. s[7] = t[7] /\ s[8] < t[8] => Before(s, t)
    <3>1. \A j \in 1 .. 8 - 1 :
            j = 1 \/ j = 2 \/ j = 3 \/ j = 4 \/ j = 5 \/ j = 6 \/ j = 7
      OBVIOUS
    <3> QED
      BY <1>4, <2>1, <3>1
  <2> QED
    BY <2>2, <2>3, <2>4 DEF s, t
<1> QED
  BY <1>2, <1>5, <1>6, <1>7

\* Texts are in the order of the minutes that they tell.
LEMMA TextsInOrder ==
  ASSUME NEW m \in Nat, NEW n \in Nat
  PROVE  Before(DateText(m), DateText(n)) <=> m < n
<1>1. ASSUME Before(DateText(m), DateText(n)), ~(m < n) PROVE FALSE
  <2> DEFINE s == DateText(m)
             t == DateText(n)
  <2>1. /\ DOMAIN s = 1 .. 8 /\ DOMAIN t = 1 .. 8
        /\ \A i \in 1 .. 8 : s[i] \in Int /\ t[i] \in Int
    <3>1. \A k \in Nat : /\ DayOf(k) \in Nat /\ HourOf(k) \in Nat /\ MinuteOf(k) \in Nat
                         /\ Tens(k) \in Int /\ Units(k) \in Int
      BY DEF DayOf, HourOf, MinuteOf, Tens, Units
    <3>2. \A i \in 1 .. 8 : i = 1 \/ i = 2 \/ i = 3 \/ i = 4 \/ i = 5 \/ i = 6 \/ i = 7 \/ i = 8
      OBVIOUS
    <3> QED
      BY <3>1, <3>2, TextIs, SMTT(30)
  <2>2. m = n \/ Before(t, s)
    BY <1>1, EarlierIsBefore
  <2> HIDE DEF s, t
  <2>3. PICK i \in 1 .. 8 : (\A j \in 1 .. i - 1 : s[j] = t[j]) /\ s[i] < t[i]
    BY <1>1, <2>1 DEF Before, s, t
  <2>4. CASE m = n
    BY <2>1, <2>3, <2>4 DEF s, t
  <2>5. CASE Before(t, s)
    <3>1. PICK k \in 1 .. 8 : (\A j \in 1 .. k - 1 : t[j] = s[j]) /\ t[k] < s[k]
      BY <2>1, <2>5 DEF Before
    <3> QED
      BY <2>1, <2>3, <3>1
  <2> QED
    BY <2>2, <2>4, <2>5
<1> QED
  BY <1>1, EarlierIsBefore

\* A row that has been stored at some instant.
RowsStored == {[date |-> time_to_string(t), at |-> t] : t \in 0 .. MaxTime}

TimeInv ==
  /\ now \in 0 .. MaxTime
  /\ rows \in Seq(RowsStored)
  /\ \A i \in DOMAIN rows : rows[i].at < now
  /\ \A i, j \in DOMAIN rows : i < j => rows[i].at < rows[j].at

\* The answer to a query is still true of the rows.
AnswerInv ==
  /\ query = "readings" =>
       /\ rows # <<>>
       /\ \E max \in Dates : IsLatest(max) /\ read = Since(Minutes(max) - 60 * Hours)
  /\ query = "load" =>
       /\ read = DOMAIN rows
       /\ \A i, j \in read : Before(rows[i].date, rows[j].date) => <<i, j>> \in order

LEMMA TimeStep == TimeInv /\ [TimeNext]_timeVars => TimeInv'
<1> SUFFICES ASSUME TimeInv, [TimeNext]_timeVars PROVE TimeInv'
  OBVIOUS
<1>1. ASSUME shift' = shift PROVE RowsStored' = RowsStored
  BY <1>1 DEF RowsStored, time_to_string, Local, Dst
<1>2. \A i \in DOMAIN rows : rows[i].at \in Int
  BY DEF TimeInv, RowsStored
<1>3. CASE UNCHANGED timeVars \/ GetDeviceReadings \/ Load
  <2>1. UNCHANGED <<shift, now, rows>>
    BY <1>3 DEF timeVars, GetDeviceReadings, Load, Answer
  <2> QED
    BY <1>1, <2>1 DEF TimeInv
<1>4. CASE Pass
  <2>1. UNCHANGED <<shift, rows>> /\ now' = now + 1 /\ now < MaxTime
    BY <1>4 DEF Pass
  <2>2. now' \in 0 .. MaxTime /\ now < now'
    BY <2>1, MaxTimeAssumption DEF TimeInv
  <2>3. \A i \in DOMAIN rows : rows[i].at < now'
    BY <1>2, <2>2 DEF TimeInv
  <2> QED
    BY <1>1, <2>1, <2>2, <2>3 DEF TimeInv
<1>5. CASE Store
  <2> DEFINE row == [date |-> time_to_string(now), at |-> now]
             n == Len(rows)
  <2>1. /\ rows' = Append(rows, row) /\ now' = now + 1 /\ now < MaxTime
        /\ RowsStored' = RowsStored
    BY <1>1, <1>5 DEF Store
  <2>2. row \in RowsStored /\ row.at = now
    BY DEF TimeInv, RowsStored
  <2> HIDE DEF row
  <2>3. /\ rows' \in Seq(RowsStored) /\ n \in Nat
        /\ DOMAIN rows = 1 .. n /\ DOMAIN rows' = 1 .. n + 1
        /\ \A i \in 1 .. n : rows'[i] = rows[i]
        /\ rows'[n + 1] = row
    BY <2>1, <2>2 DEF TimeInv
  <2>4. now' \in 0 .. MaxTime /\ now < now' /\ now \in Int
    BY <2>1, MaxTimeAssumption DEF TimeInv
  <2>5. \A i \in DOMAIN rows' : i \in DOMAIN rows \/ i = n + 1
    BY <2>3
  <2>6. \A i \in DOMAIN rows' : rows'[i].at < now'
    BY <1>2, <2>2, <2>3, <2>4, <2>5 DEF TimeInv
  <2>7. \A i, j \in DOMAIN rows' : i < j => rows'[i].at < rows'[j].at
    BY <1>2, <2>2, <2>3, <2>4, <2>5 DEF TimeInv
  <2> QED
    BY <2>1, <2>3, <2>4, <2>6, <2>7 DEF TimeInv
<1> QED
  BY <1>3, <1>4, <1>5 DEF TimeNext

LEMMA AnswerStep == AnswerInv /\ [TimeNext]_timeVars => AnswerInv'
<1> SUFFICES ASSUME AnswerInv, [TimeNext]_timeVars PROVE AnswerInv'
  OBVIOUS
<1>1. ASSUME rows' = rows
      PROVE  Dates' = Dates /\ (\A m : Since(m)' = Since(m)) /\ (\A d : IsLatest(d)' <=> IsLatest(d))
  BY <1>1 DEF Dates, Since, IsLatest, Before, DateText, Padded, Digit
<1>2. CASE UNCHANGED timeVars
  BY <1>1, <1>2 DEF timeVars, AnswerInv
<1>3. CASE Store \/ Pass
  BY <1>3 DEF Store, Pass, NoQuery, AnswerInv
<1>4. CASE GetDeviceReadings
  <2>1. PICK max \in Dates :
          IsLatest(max) /\ Answer("readings", Since(Minutes(max) - 60 * Hours), {})
    BY <1>4 DEF GetDeviceReadings
  <2>2. /\ query' = "readings" /\ rows' = rows /\ rows # <<>>
        /\ read' = Since(Minutes(max) - 60 * Hours)
    BY <2>1 DEF Answer
  <2> QED
    BY <1>1, <2>1, <2>2 DEF AnswerInv
<1>5. CASE Load
  <2>1. /\ query' = "load" /\ rows' = rows /\ read' = DOMAIN rows
        /\ order' = {p \in (DOMAIN rows) \X (DOMAIN rows) :
                       Before(rows[p[1]].date, rows[p[2]].date)}
    BY <1>5 DEF Load, Answer
  <2> QED
    BY <2>1 DEF AnswerInv
<1> QED
  BY <1>2, <1>3, <1>4, <1>5 DEF TimeNext

\* A row has the text of its local time, which is a number.
LEMMA RowIs ==
  ASSUME TimeInv, NEW i \in DOMAIN rows
  PROVE  /\ rows[i].at \in Nat
         /\ Local(rows[i].at) \in Nat /\ Local(rows[i].at) >= Start
         /\ rows[i].date = DateText(Local(rows[i].at))
<1>1. PICK t \in 0 .. MaxTime : rows[i] = [date |-> time_to_string(t), at |-> t]
  BY DEF TimeInv, RowsStored
<1> QED
  BY <1>1, StartAssumption, HoursAssumption, MaxTimeAssumption DEF time_to_string, Local, Dst

\* By how much the local times of two instants differ.
LEMMA LocalDiffers ==
  ASSUME NEW t \in Nat, NEW u \in Nat
  PROVE  LET off == IF shift = "none" THEN 0 ELSE 60 IN
         /\ Local(t) - Local(u) <= 30 * (t - u) + off
         /\ Local(t) - Local(u) >= 30 * (t - u) - off
         /\ Local(t) <= Local(u) => 30 * (t - u) <= IF shift = "back" THEN 60 ELSE 0
  BY StartAssumption, HoursAssumption, ShiftAssumption DEF Local, Dst

LEMMA AnswerInit == TimeInit => TimeInv /\ AnswerInv
  BY MaxTimeAssumption DEF TimeInit, TimeInv, AnswerInv

\* Every date of the database is read and shown again as the same text, from any
\* start, with the clock put forward or back at any instant or not at all.
THEOREM DatesComeThrough == TimeSpec => []DatesSurvive
<1>1. TimeInit => TimeInv
  BY AnswerInit
<1>2. TimeInv => DatesSurvive
  <2> SUFFICES ASSUME TimeInv, NEW i \in DOMAIN rows
               PROVE  Shown(rows[i].date) = {rows[i].date}
    BY DEF DatesSurvive, Dates
  <2>1. PICK t \in 0 .. MaxTime : rows[i].date = time_to_string(t)
    BY DEF TimeInv, RowsStored
  <2> DEFINE m == Local(t)
             text == DateText(m)
  <2>2. m \in Nat
    BY StartAssumption, MaxTimeAssumption DEF Local, Dst
  <2>3. rows[i].date = text
    BY <2>1 DEF time_to_string
  <2>4. string_to_time(text) = Mktime(m)
    <3> HIDE DEF m
    <3>1. Len(text) = 8 /\ text[6] = 58 /\ Minutes(text) = m
      BY <2>2, TextTellsMinutes
    <3> QED
      BY <3>1 DEF string_to_time
  <2>5. t \in Mktime(m)
    BY MaxTimeAssumption DEF Mktime
  <2>6. \A u \in Mktime(m) : time_to_string(u) = text
    BY DEF Mktime, time_to_string
  <2> HIDE DEF m, text
  <2> QED
    BY <2>3, <2>4, <2>5, <2>6 DEF Shown
<1> QED
  BY <1>1, <1>2, TimeStep, PTL DEF TimeSpec

\* What get_device_readings() selects is right up to an hour, for any time span
\* and any change of the clock: no reading that is an hour younger than the limit
\* is missing, and none that is more than an hour older is there.
THEOREM SpansUpToTheShift == TimeSpec => []SpanWithinShift
<1>1. TimeInv /\ AnswerInv => SpanWithinShift
  <2> SUFFICES ASSUME TimeInv, AnswerInv, query = "readings", NEW i \in DOMAIN rows
               PROVE  LET age == 30 * (Newest - rows[i].at)
                          off == IF shift = "none" THEN 0 ELSE 60
                      IN  /\ age <= 60 * Hours - off => i \in read
                          /\ age > 60 * Hours + off => i \notin read
    BY DEF SpanWithinShift
  <2>1. PICK m \in DOMAIN rows :
          IsLatest(rows[m].date) /\ read = Since(Minutes(rows[m].date) - 60 * Hours)
    BY DEF AnswerInv, Dates
  <2> DEFINE n == Len(rows)
             last == rows[n].at
             latest == rows[m].at
             t == rows[i].at
             limit == Local(latest) - 60 * Hours
  <2>2. n \in DOMAIN rows /\ DOMAIN rows = 1 .. n
    BY DEF TimeInv
  <2>3. /\ last \in Nat /\ latest \in Nat /\ t \in Nat
        /\ Local(last) \in Nat /\ Local(latest) \in Nat /\ Local(t) \in Nat
        /\ limit \in Nat
        /\ rows[n].date = DateText(Local(last))
        /\ rows[m].date = DateText(Local(latest))
        /\ rows[i].date = DateText(Local(t))
    BY <2>2, RowIs, StartAssumption, HoursAssumption
  <2>4. latest <= last
    BY <2>1, <2>2, <2>3 DEF TimeInv
  <2>5. Local(last) <= Local(latest)
    <3>1. ~Before(rows[m].date, rows[n].date)
      BY <2>1, <2>2 DEF IsLatest, Dates
    <3> QED
      BY <2>3, <3>1, TextsInOrder
  <2>6. Minutes(rows[m].date) = Local(latest)
    BY <2>3, TextTellsMinutes
  <2>7. i \in read <=> Local(t) >= limit
    <3>1. i \in read <=> ~Before(DateText(Local(t)), DateText(limit))
      BY <2>1, <2>3, <2>6 DEF Since
    <3> QED
      BY <2>3, <3>1, TextsInOrder
  <2> DEFINE off == IF shift = "none" THEN 0 ELSE 60
  <2>8. /\ Local(latest) - Local(t) <= 30 * (latest - t) + off
        /\ Local(last) - Local(t) >= 30 * (last - t) - off
    BY <2>3, LocalDiffers
  <2>9. off \in Nat /\ Newest = last /\ limit = Local(latest) - 60 * Hours
    BY DEF Newest
  <2> HIDE DEF off, limit, last, latest, t
  <2>10. /\ 30 * (last - t) <= 60 * Hours - off => i \in read
         /\ 30 * (last - t) > 60 * Hours + off => i \notin read
    BY <2>3, <2>4, <2>5, <2>7, <2>8, <2>9, HoursAssumption
  <2> QED
    BY <2>9, <2>10 DEF t, off
<1> QED
  BY <1>1, AnswerInit, TimeStep, AnswerStep, PTL DEF TimeSpec

\* In an export, a reading comes before an earlier one at most if the clock was
\* put back between them and they are no more than an hour apart.
THEOREM ExportsInOrder == TimeSpec => []ExportOrdered
<1>1. TimeInv /\ AnswerInv => ExportOrdered
  <2> SUFFICES ASSUME TimeInv, AnswerInv, query = "load",
                      NEW i \in read, NEW j \in read, <<j, i>> \notin order
               PROVE  30 * (rows[i].at - rows[j].at) <= IF shift = "back" THEN 60 ELSE 0
    BY DEF ExportOrdered
  <2>1. i \in DOMAIN rows /\ j \in DOMAIN rows /\ ~Before(rows[j].date, rows[i].date)
    BY DEF AnswerInv
  <2>2. Local(rows[i].at) <= Local(rows[j].at)
    BY <2>1, RowIs, TextsInOrder
  <2> QED
    BY <2>1, <2>2, RowIs, LocalDiffers
<1> QED
  BY <1>1, AnswerInit, TimeStep, AnswerStep, PTL DEF TimeSpec
=============================================================================
