------------------------------- MODULE Pages -------------------------------
(***************************************************************************)
(* generate() of thermos-graph-generator (src/graph-generator/): one HTML  *)
(* file for each time span, each put together from the sections of one     *)
(* Template, whose tags and includes stay set from one section to the      *)
(* next, and written over the file of the run before.                      *)
(*                                                                         *)
(* A generated text is a record: its section, and what its placeholders    *)
(* were filled with.  A missing header is the text of an error message.    *)
(* Tags and includes share one function here, as the templates use no name *)
(* for both.                                                               *)
(***************************************************************************)
EXTENDS Naturals, Sequences, FiniteSets

CONSTANTS
  Spans,     \* how many time spans there are: four in the code
  Found,     \* the sets of devices that get_devices() may come up with; a
             \* device is a number, its place in the order of the names
  MaxRuns    \* bound: the program is started this often

ASSUME SpansAssumption == Spans \in Nat \ {0}
ASSUME FoundAssumption == Found \subseteq SUBSET Nat

Span == 1 .. Spans

\* The placeholders of each section of the template that comes with the code.
Uses ==
  [link_with_integrity |-> {"url", "hash"},
   script_with_integrity |-> {"url", "hash"},
   script |-> {"url"},
   header |-> {"title", "scripts"},
   trace |-> {"dates", "values", "yaxis", "name"},
   graph |-> {"plotId", "title", "traces"},
   nav_item |-> {"url", "name", "active"},
   navigation |-> {"items"},
   full |-> {"header", "content"}]

Section == DOMAIN Uses

VARIABLES
  step,      \* the section that is filled next, or what is done with the file
  span,      \* the time span of the page
  sections,  \* the sections of the template that was loaded
  values,    \* tags and includes: what those that are set are set to
  texts,     \* the texts generated for the page so far, by what they are for
  devs,      \* the devices whose traces are still to be generated
  rtype,     \* the type of the readings that traces are generated of
  files,     \* the files in the output directory
  result,    \* what generate() returned
  run,       \* history: how often the program was started
  holes,     \* history: a placeholder was unset when its section was generated
  lost       \* history: the files of this run that could not be closed

pageVars == <<step, span, sections, values, texts, devs, rtype, files, result,
              run, holes, lost>>

NothingSet == [n \in {} |-> ""]

NoTexts == [header |-> <<>>, scripts |-> <<>>, traces |-> <<>>, graph |-> <<>>,
            items |-> <<>>, nav |-> <<>>, page |-> <<>>]

PageInit ==
  /\ step = "idle"
  /\ span = 1
  /\ sections = {}
  /\ values = NothingSet
  /\ texts = NoTexts
  /\ devs = {}
  /\ rtype = "thermal"
  /\ files = [s \in Span |-> [run |-> 0, whole |-> FALSE, page |-> <<>>]]
  /\ result = "none"
  /\ run = 0
  /\ holes = FALSE
  /\ lost = {}

-----------------------------------------------------------------------------
\* The template.

\* tag() and integrate(), for all the names of new.
Set(new) ==
  [n \in DOMAIN values \union DOMAIN new |-> IF n \in DOMAIN new THEN new[n] ELSE values[n]]

\* generate() of the template, with its values as they are after Set(new).  A
\* placeholder that is not set stays in the text.
Text(s, new) ==
  [section |-> s, fills |-> [n \in Uses[s] \intersect DOMAIN Set(new) |-> Set(new)[n]]]

\* load_section(s), Set(new) and generate(); the text is appended to those for
\* the part of the page.
Fill(s, new, part) ==
  /\ values' = Set(new)
  /\ texts' = [texts EXCEPT ![part] = Append(@, Text(s, new))]
  /\ holes' = (holes \/ \E n \in Uses[s] : n \notin DOMAIN Set(new))

\* generate() returns an error, or the program is killed: the strings and the
\* template are gone, the files stay.
End(how) ==
  /\ step' = "idle"
  /\ result' = how
  /\ span' = 1
  /\ sections' = {}
  /\ values' = NothingSet
  /\ texts' = NoTexts
  /\ devs' = {}
  /\ rtype' = "thermal"
  /\ UNCHANGED <<run, holes, lost>>

\* The step at hand fills section s when the template has it; without it, the
\* page ends with an error.
Step(s, new, part, next) ==
  /\ step = s
  /\ \/ /\ s \in sections
        /\ Fill(s, new, part)
        /\ step' = next
        /\ UNCHANGED <<span, sections, devs, rtype, files, result, run, lost>>
     \/ /\ s \notin sections
        /\ End("error")
        /\ UNCHANGED files

-----------------------------------------------------------------------------
\* The program.

\* Mutant: the loop over the time spans begins with the last one.
StartPagesAtLast ==
  /\ step = "idle"
  /\ run < MaxRuns
  /\ run' = run + 1
  /\ sections' \in {Section} \union {Section \ {s} : s \in Section}
  /\ step' = "link_with_integrity"
  /\ result' = "none"
  /\ span' = Spans
  /\ lost' = {}
  /\ UNCHANGED <<values, texts, devs, rtype, files, holes>>

\* main() loads a template: that of the repository, or one that lacks a section.
StartPages ==
  /\ step = "idle"
  /\ run < MaxRuns
  /\ run' = run + 1
  /\ sections' \in {Section} \union {Section \ {s} : s \in Section}
  /\ step' = "link_with_integrity"
  /\ result' = "none"
  /\ lost' = {}
  /\ UNCHANGED <<span, values, texts, devs, rtype, files, holes>>

\* generate_header(): three texts for the include "scripts" ...
LinkWithIntegrity ==
  Step("link_with_integrity", [url |-> [asset |-> "css"], hash |-> "css"], "scripts",
       "script_with_integrity")

ScriptWithIntegrity ==
  Step("script_with_integrity", [url |-> [asset |-> "js"], hash |-> "js"], "scripts", "script")

\* ... of which the last, when its section is missing, gives an error message
\* that is returned as if it were the header.
Script ==
  \/ /\ "script" \in sections
     /\ Step("script", [url |-> [asset |-> "plotly"]], "scripts", "header")
  \/ /\ "script" \notin sections
     /\ step = "script"
     /\ texts' = [texts EXCEPT !["header"] = <<[section |-> "message"]>>]
     /\ step' = "traces"
     /\ UNCHANGED <<span, sections, values, devs, rtype, files, result, run, holes,
                    lost>>

Header ==
  Step("header", [title |-> [text |-> "temperatures"], scripts |-> texts.scripts],
       "header", "traces")

\* generate_traces(): the section is loaded and the devices are selected.
Traces ==
  /\ step = "traces"
  /\ \/ /\ "trace" \in sections
        /\ devs' \in Found
        /\ step' = "trace"
        /\ UNCHANGED <<span, sections, values, texts, rtype, files, result, run,
                       holes, lost>>
     \/ /\ End("error")
        /\ UNCHANGED files

\* Mutant: the name is set once for all, before the loop.
TraceKeepsName ==
  /\ step = "trace"
  /\ \/ \E d \in devs :
          /\ \A e \in devs : d <= e
          /\ Fill("trace",
                  [dates  |-> [dev |-> d, type |-> rtype, span |-> span],
                   values |-> [dev |-> d, type |-> rtype, span |-> span],
                   yaxis  |-> IF rtype = "thermal" THEN "y2" ELSE "",
                   name   |-> IF "name" \in DOMAIN values THEN values["name"] ELSE [dev |-> d]],
                  "traces")
          /\ devs' = devs \ {d}
          /\ UNCHANGED <<step, span, sections, rtype, files, result, run, lost>>
     \/ /\ devs = {}
        /\ IF rtype = "thermal"
           THEN rtype' = "load" /\ step' = "traces"
           ELSE rtype' = "thermal" /\ step' = "graph"
        /\ UNCHANGED <<span, sections, values, texts, devs, files, result, run,
                       holes, lost>>

\* One trace, of a device whose readings could be selected; or an error; or the
\* loop over the devices is over, first that of the temperatures.
Trace ==
  /\ step = "trace"
  /\ \/ \E d \in devs :
          /\ \A e \in devs : d <= e
          /\ Fill("trace",
                  [dates  |-> [dev |-> d, type |-> rtype, span |-> span],
                   values |-> [dev |-> d, type |-> rtype, span |-> span],
                   yaxis  |-> IF rtype = "thermal" THEN "y2" ELSE "",
                   name   |-> [dev |-> d]],
                  "traces")
          /\ devs' = devs \ {d}
          /\ UNCHANGED <<step, span, sections, rtype, files, result, run, lost>>
     \/ /\ devs # {}
        /\ End("error")
        /\ UNCHANGED files
     \/ /\ devs = {}
        /\ IF rtype = "thermal"
           THEN rtype' = "load" /\ step' = "traces"
           ELSE rtype' = "thermal" /\ step' = "graph"
        /\ UNCHANGED <<span, sections, values, texts, devs, files, result, run,
                       holes, lost>>

\* Mutant: a tag of the section is forgotten.
GraphWithoutId ==
  Step("graph", [title |-> [of |-> span], traces |-> texts.traces],
       "graph", "nav_item")

Graph ==
  Step("graph", [plotId |-> "id_1", title |-> [of |-> span], traces |-> texts.traces],
       "graph", "nav_item")

\* generate_navigation(): an item for each time span.
NavItem ==
  LET k == Len(texts.items) + 1 IN
    Step("nav_item", [url |-> [page |-> k], name |-> [page |-> k], active |-> (k = span)],
         "items", IF k = Spans THEN "navigation" ELSE "nav_item")

Navigation == Step("navigation", [items |-> texts.items], "nav", "full")

Full ==
  Step("full", [header |-> texts.header, content |-> texts.nav \o texts.graph],
       "page", "open")

\* The stream is opened, which empties the file; or it cannot be opened.
Open ==
  /\ step = "open"
  /\ \/ /\ files' = [files EXCEPT ![span] =
                       [run |-> run, whole |-> FALSE, page |-> <<>>]]
        /\ step' = "write"
        /\ UNCHANGED <<span, sections, values, texts, devs, rtype, result, run,
                       holes, lost>>
     \/ /\ End("error")
        /\ UNCHANGED files

\* Mutant: the loop stays at the time span.
NextSpanStays ==
  /\ texts' = NoTexts
  /\ step' = "link_with_integrity"
  /\ UNCHANGED <<span, sections, values, devs, rtype, result, run, holes>>

\* On to the page of the next time span, or the end.
NextSpan ==
  IF span < Spans
  THEN /\ span' = span + 1
       /\ texts' = NoTexts
       /\ step' = "link_with_integrity"
       /\ UNCHANGED <<sections, values, devs, rtype, result, run, holes>>
  ELSE /\ step' = "idle"
       /\ result' = "ok"
       /\ span' = 1
       /\ sections' = {}
       /\ values' = NothingSet
       /\ texts' = NoTexts
       /\ UNCHANGED <<devs, rtype, run, holes>>

\* Mutant: the stream is not tested after write().
WriteUntested ==
  /\ step = "write"
  /\ \/ /\ files' = [files EXCEPT ![span].whole = TRUE, ![span].page = texts.page]
        /\ NextSpan
        /\ UNCHANGED lost
     \/ /\ NextSpan
        /\ UNCHANGED <<files, lost>>

\* The page is written and the stream closed.  What cannot be written is an
\* error; what gets lost when the stream is closed goes unnoticed.
Write ==
  /\ step = "write"
  /\ \/ /\ files' = [files EXCEPT ![span].whole = TRUE, ![span].page = texts.page]
        /\ NextSpan
        /\ UNCHANGED lost
     \/ /\ lost' = lost \union {span}
        /\ NextSpan
        /\ UNCHANGED files
     \/ /\ End("error")
        /\ UNCHANGED files

KillPages ==
  /\ step # "idle"
  /\ End("killed")
  /\ UNCHANGED files

PageStep ==
  \/ LinkWithIntegrity
  \/ ScriptWithIntegrity
  \/ Script
  \/ Header
  \/ Traces
  \/ Trace
  \/ Graph
  \/ NavItem
  \/ Navigation
  \/ Full
  \/ Open
  \/ Write

PageNext == StartPages \/ PageStep \/ KillPages

\* The program goes on once it is started.
PageSpec == PageInit /\ [][PageNext]_pageVars /\ WF_pageVars(PageStep)

-----------------------------------------------------------------------------
\* Properties.

\* The texts of a page that was written in full.
Content(s) == files[s].page[1].fills.content
Items(s) == Content(s)[1].fills.items
TracesOf(s) == Content(s)[2].fills.traces

\* Each page is that of its time span, although all are generated from one
\* template whose values stay set: its traces have data and name of the same
\* device and the axis of their type, all of its time span, and its navigation
\* links each page once, with its own as the only active one.
PagesAreTheirOwn ==
  \A s \in Span :
    files[s].whole =>
      /\ Content(s)[2].fills.title = [of |-> s]
      /\ \A i \in DOMAIN TracesOf(s) :
           LET f == TracesOf(s)[i].fills IN
             /\ f.dates = f.values
             /\ f.dates.span = s
             /\ f.name = [dev |-> f.dates.dev]
             /\ f.yaxis = "y2" <=> f.dates.type = "thermal"
      /\ Len(Items(s)) = Spans
      /\ \A k \in DOMAIN Items(s) :
           LET f == Items(s)[k].fills IN
             f.url = [page |-> k] /\ f.name = [page |-> k] /\ (f.active <=> k = s)

\* No page shows a placeholder: generate() fills every one that its section
\* uses, whatever sections the template lacks.
PlaceholdersFilled == ~holes

\* Pages are replaced in the order of the time spans, so that after an error,
\* or a kill, the directory holds the newer pages first: a page is never older
\* than the one after it.
NewerPagesFirst ==
  \A s, t \in Span : s < t => files[s].run >= files[t].run

\* Success is reported only when this run has written every page in full,
\* unless the content was lost as the stream was closed.
SuccessMeansWritten ==
  result = "ok" =>
    \A s \in Span : files[s].run = run /\ (files[s].whole \/ s \in lost)

\* A run that was started ends.
PagesEnd == step # "idle" ~> step = "idle"

\* The documentation of generate() in generator.hpp: it returns "an empty
\* optional, if graph generation was successful" and "an error message
\* otherwise".  A template without one of its sections is such an error: a page
\* never has an error message in the place of its header.
NoMessageAsHeader ==
  \A s \in Span :
    files[s].whole => files[s].page[1].fills.header[1].section = "header"
=============================================================================
