---------------------------- MODULE TemplateText ----------------------------
(***************************************************************************)
(* Class Template (lib/templating/): the sections of a file, the tags and  *)
(* includes that are set, and what generate() makes of them.               *)
(*                                                                         *)
(* A text is a sequence of characters, in which "{", "{>" and "}" stand    *)
(* for the opening and closing braces of the code, and the strings of      *)
(* StartOf and EndOf for the comments that enclose a section.  The name *)
(* of a tag or an include is one character.  An optional value is a        *)
(* sequence of one element or none.                                        *)
(***************************************************************************)
EXTENDS Naturals, FiniteSets, Functions, SequencesExt

CONSTANTS
  Char,    \* the characters that texts are made of
  TagName, \* those that are the names of tags and includes
  Files,   \* the texts that may be loaded
  Values,  \* what tags and includes may be set to
  MaxSet   \* bound: so many tags and includes are set in all

ASSUME CharAssumption ==
  {"&", "<", ">", "\"", "a", "g", "l", "m", "o", "p", "q", "t", "u", ";",
   "{", "{>", "}"} \subseteq Char

ASSUME TagNameAssumption == TagName \subseteq Char \ {"{", "{>", "}"}

ASSUME FilesAssumption == Files \subseteq Seq(Char)

ASSUME ValuesAssumption == Values \subseteq Seq(Char)

VARIABLES
  file,      \* history: the text that was loaded
  named,     \* the sections by their names
  tpl,       \* the section that was loaded, if any
  tags,      \* the values of the tags that are set, by their names
  includes,  \* the values of the includes that are set, by their names
  out        \* what generate() returned, if it was called last, and how it came

templateVars == <<file, named, tpl, tags, includes, out>>

SectionName == {"a", "b"}
StartOf == [a |-> "<!--start a-->", b |-> "<!--start b-->"]
EndOf == [a |-> "<!--end a-->", b |-> "<!--end b-->"]
Starts == {StartOf[n] : n \in SectionName}
Ends == {EndOf[n] : n \in SectionName}

TemplateInit ==
  /\ file = <<>>
  /\ named = <<>>
  /\ tpl = <<>>
  /\ tags = <<>>
  /\ includes = <<>>
  /\ out = <<>>

-----------------------------------------------------------------------------
\* Search and replacement.

\* find(): the first place of x from pos on, or zero.
Find(s, x, pos) ==
  LET at == {i \in pos .. Len(s) - Len(x) + 1 : SubSeq(s, i, i + Len(x) - 1) = x}
  IN  IF at = {} THEN 0 ELSE CHOOSE i \in at : \A j \in at : i <= j

\* The loop that replaces every x by new and goes on searching advance
\* characters after the place of the last one.  It is cut off after as many
\* rounds as the text has characters at first: "ends" says whether it was over.
Replace(s, x, new, advance) ==
  LET loop[k \in 0 .. Len(s)] ==
        IF k = 0 THEN [out |-> s, pos |-> 1]
        ELSE LET l == loop[k - 1]
                 i == Find(l.out, x, l.pos)
             IN  IF i = 0 THEN l
                 ELSE [out |-> SubSeq(l.out, 1, i - 1) \o new
                               \o SubSeq(l.out, i + Len(x), Len(l.out)),
                       pos |-> i + advance]
      last == loop[Len(s)]
  IN  [out |-> last.out, ends |-> Find(last.out, x, last.pos) = 0]

\* The characters that are escaped, and what is put in their place.
Special == {"&", "<", ">", "\""}

Entity(c) ==
  CASE c = "&" -> <<"&", "a", "m", "p", ";">>
    [] c = "<" -> <<"&", "l", "t", ";">>
    [] c = ">" -> <<"&", "g", "t", ";">>
    [] c = "\"" -> <<"&", "q", "u", "o", "t", ";">>

\* One round of the loop over the characters: the search goes on three
\* characters after the place of the one that was replaced.
Escape(s, c) == Replace(s, <<c>>, Entity(c), 3).out

\* Mutant: the ampersand is escaped last.
AmpersandLast(s) == Escape(Escape(Escape(Escape(s, "<"), ">"), "\""), "&")

htmlspecialchars(s) == Escape(Escape(Escape(Escape(s, "&"), "<"), ">"), "\"")

Needle(opener, name) == <<opener, name, "}">>

\* The rounds of the loops over tags and includes: what the places that are
\* searched look like, what they are replaced by, and how far the search then
\* moves on, which is by the length of the value before it is escaped.
TagRound(n) ==
  [opener |-> "{", name |-> n, text |-> htmlspecialchars(tags[n]), skip |-> Len(tags[n])]

IncludeRound(n) ==
  [opener |-> "{>", name |-> n, text |-> includes[n], skip |-> Len(includes[n])]

\* The tags in any order, then the includes in any order: both are kept in
\* unordered maps.
Rounds ==
  {[k \in DOMAIN o |-> TagRound(o[k])] \o [k \in DOMAIN p |-> IncludeRound(p[k])] :
     o \in Bijection(1 .. Cardinality(DOMAIN tags), DOMAIN tags),
     p \in Bijection(1 .. Cardinality(DOMAIN includes), DOMAIN includes)}

\* Mutant: the search goes on where the value begins.
FromTheStart(s, r) == Replace(s, Needle(r.opener, r.name), r.text, 0)

\* One round: what is found is replaced.
FillIn(s, r) == Replace(s, Needle(r.opener, r.name), r.text, r.skip)

\* The text after all rounds.
Filled(text, rounds) ==
  LET after[k \in 0 .. Len(rounds)] ==
        IF k = 0 THEN [out |-> text, ends |-> TRUE]
        ELSE LET f == FillIn(after[k - 1].out, rounds[k])
             IN  [out |-> f.out, ends |-> after[k - 1].ends /\ f.ends]
  IN  after[Len(rounds)]

-----------------------------------------------------------------------------
\* Sections.

\* Mutant: the body of a section is as long as possible.
GreedyEnd(text, s) ==
  {e \in s + 1 .. Len(text) : text[e] \in Ends /\ \A i \in e + 1 .. Len(text) : text[i] \notin Ends}

\* The end of the shortest body for a section that starts at s, if there is one.
LazyEnd(text, s) ==
  {e \in s + 1 .. Len(text) : text[e] \in Ends /\ \A i \in s + 1 .. e - 1 : text[i] \notin Ends}

\* The matches of the pattern, each as its first and last place: the next one
\* starts after the one before, whether or not the names at both ends agree.
Matches(text) ==
  LET from[i \in 1 .. Len(text) + 1] ==
        LET first == {m \in (i .. Len(text)) \X (i .. Len(text)) :
                        /\ text[m[1]] \in Starts
                        /\ \A j \in i .. m[1] - 1 : text[j] \notin Starts
                        /\ m[2] \in LazyEnd(text, m[1])}
        IN  UNION {{m} \union from[m[2] + 1] : m \in first}
  IN  from[1]

\* The sections of a file; of two with the same name, the last one counts.
Sections(text) ==
  LET of(n) == {m \in Matches(text) : text[m[1]] = StartOf[n] /\ text[m[2]] = EndOf[n]}
      last(n) == CHOOSE m \in of(n) : \A k \in of(n) : k[1] <= m[1]
  IN  [n \in {s \in SectionName : of(s) # {}} |-> SubSeq(text, last(n)[1] + 1, last(n)[2] - 1)]

-----------------------------------------------------------------------------
\* Operations.

load_from_str ==
  /\ file = <<>>
  /\ file' \in Files \ {<<>>}
  /\ named' = Sections(file')
  /\ tags' = <<>>
  /\ includes' = <<>>
  /\ tpl' = <<>>
  /\ out' = <<>>

load_section ==
  /\ \E n \in DOMAIN named : tpl' = <<named[n]>>
  /\ out' = <<>>
  /\ UNCHANGED <<file, named, tags, includes>>

\* Bound: what may have a place in the section is set, and once.
MaySet(opener) ==
  /\ tpl # <<>> /\ out = <<>>
  /\ \E i \in DOMAIN tpl[1] : tpl[1][i] = opener
  /\ Cardinality(DOMAIN tags) + Cardinality(DOMAIN includes) < MaxSet

With(values, n, v) ==
  [m \in DOMAIN values \union {n} |-> IF m = n THEN v ELSE values[m]]

tag ==
  /\ MaySet("{")
  /\ \E n \in TagName \ DOMAIN tags, v \in Values : tags' = With(tags, n, v)
  /\ UNCHANGED <<file, named, tpl, includes, out>>

integrate ==
  /\ MaySet("{>")
  /\ \E n \in TagName \ DOMAIN includes, v \in Values : includes' = With(includes, n, v)
  /\ UNCHANGED <<file, named, tpl, tags, out>>

generate ==
  /\ out = <<>>
  /\ IF tpl = <<>>
     THEN out' = <<>>
     ELSE \E r \in Rounds : out' = <<[rounds |-> r, result |-> Filled(tpl[1], r)]>>
  /\ UNCHANGED <<file, named, tpl, tags, includes>>

TemplateNext == load_from_str \/ load_section \/ tag \/ integrate \/ generate

TemplateSpec == TemplateInit /\ [][TemplateNext]_templateVars

-----------------------------------------------------------------------------
\* Properties.

\* htmlspecialchars() escapes every character once: the ampersands it puts in
\* itself are not escaped again by a later round of its loop.
EscapedOnce ==
  \A n \in DOMAIN tags :
    htmlspecialchars(tags[n]) =
      FlattenSeq([i \in DOMAIN tags[n] |->
        IF tags[n][i] \in Special THEN Entity(tags[n][i]) ELSE <<tags[n][i]>>])

\* The places of text t for the values that are set of one kind.
Places(t, opener, values) ==
  {i \in 1 .. Len(t) - 2 : t[i] = opener /\ t[i + 1] \in DOMAIN values /\ t[i + 2] = "}"}

\* The section with its places filled, each on its own.
EachFilled ==
  LET t == tpl[1]
      ofTags == Places(t, "{", tags)
      ofIncludes == Places(t, "{>", includes)
  IN  FlattenSeq([i \in DOMAIN t |->
        IF i \in ofTags THEN htmlspecialchars(tags[t[i + 1]])
        ELSE IF i \in ofIncludes THEN includes[t[i + 1]]
        ELSE IF \E j \in ofTags \union ofIncludes : i \in j + 1 .. j + 2 THEN <<>>
        ELSE <<t[i]>>])

\* Whatever comes before and after the text v, no place that round r searches
\* begins in it.
Shut(v, r) == \A k \in DOMAIN v : v[k] = r.opener => k < Len(v) /\ v[k + 1] # r.name

\* In text t every opening brace that round r searches is that of a place.
Whole(t, r) ==
  \A k \in DOMAIN t :
    t[k] = r.opener => k + 2 <= Len(t) /\ t[k + 1] \in TagName /\ t[k + 2] = "}"

\* generate() ends, with each place of the section filled once, in whatever order
\* the maps have the tags and the includes: nothing in a value is taken for a
\* place, neither by the round of the value nor by a later one.  That takes that
\* what is put in by one round has no place that a later round searches, and no
\* beginning of one at its end; a place of the same or of an earlier round may be
\* in it.  In a value that gets longer as it is escaped, a place of its own must
\* not begin behind its first so many characters.  In the section, a later round
\* must find no brace that opens no place: a value may complete it.
GenerateFills ==
  \A k \in DOMAIN out :
    LET r == out[k].rounds IN
      (/\ \A i, j \in DOMAIN r : i < j => Shut(r[i].text, r[j])
       /\ \A i \in DOMAIN r :
            \A c \in r[i].skip + 1 .. Len(r[i].text) : r[i].text[c] # r[i].opener
       /\ \A i \in DOMAIN r : i > 1 => Whole(tpl[1], r[i]))
        => out[k].result = [out |-> EachFilled, ends |-> TRUE]

\* When the marker after each start of a section is its own end, and the marker
\* before each end its start, then every section is found, with the text between
\* its markers.
SectionsFound ==
  LET next(s, e) == s < e /\ \A i \in s + 1 .. e - 1 : file[i] \notin Starts \union Ends
      pairs == {m \in (DOMAIN file) \X (DOMAIN file) :
                  /\ \E n \in SectionName : file[m[1]] = StartOf[n] /\ file[m[2]] = EndOf[n]
                  /\ next(m[1], m[2])}
  IN  (\A i \in DOMAIN file : file[i] \in Starts \union Ends => \E p \in pairs : i \in {p[1], p[2]})
      => /\ {StartOf[n] : n \in DOMAIN named} = {file[p[1]] : p \in pairs}
         /\ \A n \in DOMAIN named :
              \E p \in pairs : /\ file[p[1]] = StartOf[n]
                               /\ \A q \in pairs : q[1] > p[1] => file[q[1]] # StartOf[n]
                               /\ named[n] = SubSeq(file, p[1] + 1, p[2] - 1)
=============================================================================
