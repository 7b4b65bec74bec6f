------------------------------ MODULE MCGraphs ------------------------------
(***************************************************************************)
(* Small instances of Pages, and of what its pages are made with:          *)
(* LocalTime, TemplateText and TimeSpan.  They share no state here and are *)
(* explored one at a time.                                                 *)
(***************************************************************************)
EXTENDS Pages, LocalTime, TemplateText, TimeSpan

CONSTANTS
  MaxPieces,  \* bound: sections have as many places, or one less with torn ones
  MaxTokens   \* bound: files with sections in any order have as many tokens

TextsOf(pieces, n) ==
  {FlattenSeq(p) : p \in UNION {[1 .. k -> pieces] : k \in 0 .. n}}

MCChar ==
  {"&", "<", ">", "\"", "a", "g", "l", "m", "o", "p", "q", "t", "u", ";",
   "{", "{>", "}", "x", "y"} \union Starts \union Ends

MCTagName == {"x", "y"}

MCPlaces == {Needle(o, n) : o \in {"{", "{>"}, n \in MCTagName}

\* Files: one section with places in it, whole or also torn, or markers in any
\* order.
MCFiles ==
  {<<StartOf["a"]>> \o body \o <<EndOf["a"]>> :
     body \in TextsOf(MCPlaces, MaxPieces)
             \union TextsOf(MCPlaces \union {<<"{">>, <<"{>">>, <<"x", "}">>}, MaxPieces - 1)}
  \union TextsOf({<<m>> : m \in Starts \union Ends \union {"x"}}, MaxTokens)

\* Values: places whole and torn, each as it is and behind what is escaped.
MCValues ==
  LET plain == TextsOf({<<"{">>, <<"x", "}">>, Needle("{", "x"), Needle("{", "y"),
                        Needle("{>", "x")}, 1)
  IN  plain \union {<<"\"">> \o v : v \in plain}

graphVars == <<pageVars, timeVars, templateVars, hours>>

PagesOff == run = 0 /\ UNCHANGED pageVars
TimeOff == now = 0 /\ rows = <<>> /\ shift = "none" /\ UNCHANGED timeVars
TemplateOff == file = <<>> /\ UNCHANGED templateVars
SpanOff == hours = 0 /\ UNCHANGED hours

GraphInit == PageInit /\ TimeInit /\ TemplateInit /\ SpanInit

GraphNext ==
  \/ TimeOff /\ TemplateOff /\ SpanOff /\ PageNext
  \/ PagesOff /\ TemplateOff /\ SpanOff /\ TimeNext
  \/ PagesOff /\ TimeOff /\ SpanOff /\ TemplateNext
  \/ PagesOff /\ TimeOff /\ TemplateOff /\ Longer

GraphSpec == GraphInit /\ [][GraphNext]_graphVars /\ WF_pageVars(PageStep)
=============================================================================
