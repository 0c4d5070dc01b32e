------------------------------ MODULE Suppress ------------------------------
(***************************************************************************)
(* Inline suppressions: the scanner of core/src/suppress.cpp, which finds  *)
(* the bytes an allow comment covers, and the two commands of the editor   *)
(* extension (extension.ts) that write such comments into the text.        *)
(*                                                                         *)
(* A text is a sequence of tokens, one position each: code, braces, blanks *)
(* ("ws", "cr", "nl"), one-line block comments and line comments.  A       *)
(* string literal is code to every part of the scanner that looks at one.  *)
(* A line comment may hold allow lists.  The scanner and the editor read   *)
(* them differently: parse_marker takes the list the comment starts with   *)
(* (its head), the regular expression of the commands the first list of    *)
(* its own form, which may stand behind other words (the tail).  Other     *)
(* tokens hold no list.                                                    *)
(***************************************************************************)
EXTENDS Integers, Sequences, FiniteSets, FiniteSetsExt

CONSTANTS
  Texts,        \* the texts an editor opens
  Rule,         \* the rule the user suppresses
  OtherRule,    \* any other rule
  Wildcard,     \* the rule name *
  Garbled,      \* any element of a list that is not a rule name, as "a b"
  MaxCommands   \* bound on commands per behaviour

ASSUME RulesDiffer ==
  /\ Rule # OtherRule /\ Wildcard \notin {Rule, OtherRule}
  /\ Garbled \notin {Rule, OtherRule, Wildcard}

VARIABLES text, commands

vars == <<text, commands>>

Tok(t) == [t |-> t]
Comment(head, tail) == [t |-> "comment", head |-> head, tail |-> tail]

\* A list and how it is written: "tight" for allow(a, b), which both read;
\* "spaced" for allow (a), which parse_marker alone reads; "loose" for what the
\* regular expression alone reads and a rewritten list does not keep, as the
\* empty element of allow(,a) or an unusual blank; "unclosed" for allow(a, with
\* the elements before its last comma; "none" for no list.
Mark(form, rules) == [form |-> form, rules |-> rules]
NoMark == Mark("none", {})
Plain == Comment(NoMark, NoMark)

\* A line comment ends with its line, and a carriage return stands before a
\* newline.  Rules that none of the names stands for are not told apart.
Marks ==
  [form : {"none", "tight", "spaced", "loose", "unclosed"},
   rules : SUBSET {Rule, OtherRule, Wildcard, Garbled}]
Tokens ==
  [t : {"code", "open", "close", "ws", "cr", "nl", "block"}]
  \cup [t : {"comment"}, head : Marks, tail : Marks]
WellFormed(src) ==
  /\ src \in Seq(Tokens)
  /\ \A i \in DOMAIN src :
       /\ src[i].t = "comment" => i = Len(src) \/ src[i + 1].t \in {"cr", "nl"}
       /\ src[i].t = "cr" => i < Len(src) /\ src[i + 1].t = "nl"

ASSUME TextsAreWellFormed == \A src \in Texts : WellFormed(src)

Code == {"code", "open", "close"}
IsCode(src, i) == src[i].t \in Code

Eof(src) == Len(src) + 1
FirstOf(src, hits) == IF hits = {} THEN Eof(src) ELSE Min(hits)

end_of_line(src, i) == FirstOf(src, {j \in i .. Len(src) : src[j].t = "nl"})
skip_ws_and_comments(src, i) == FirstOf(src, {j \in i .. Len(src) : IsCode(src, j)})
line_start(src, i) == Max({0} \cup {j \in 1 .. i - 1 : src[j].t = "nl"}) + 1

\* One past the brace that closes the one at `open`, or the end of the text.
end_of_block_brace(src, open) ==
  LET count(b, j) == Cardinality({k \in open .. j : src[k].t = b})
      closed == {j \in open + 1 .. Len(src) : count("open", j) = count("close", j)}
  IN IF closed = {} THEN Eof(src) ELSE Min(closed) + 1

\* One past the newline at i, if there is one.
past(src, i) == IF i > Len(src) THEN Eof(src) ELSE i + 1

\* next_code_line_start and next_code_line_end, from the end of a line.  A
\* carriage return is neither blank nor comment here.
next_code_line(src, from) ==
  LET line[i \in 1 .. Eof(src)] ==
        LET j == FirstOf(src, {k \in i .. Len(src) : src[k].t # "ws"})
        IN IF j = Eof(src) THEN [lo |-> j, hi |-> j]
           ELSE IF src[j].t \in {"nl", "block"} THEN line[j + 1]
           ELSE IF src[j].t = "comment" THEN line[past(src, end_of_line(src, j))]
           ELSE [lo |-> i, hi |-> end_of_line(src, j)]
  IN line[past(src, from)]

\* parse_marker: the rules a comment allows, none when it is no marker or one
\* that is malformed.
parse_marker(c) ==
  IF c.head.form \in {"tight", "spaced"} /\ Garbled \notin c.head.rules
  THEN c.head.rules ELSE {}

\* Variant for the mutant of resolve_scope: * reaches the file from anywhere.
resolve_scope_AnyWildcard(src, m) ==
  LET hi == end_of_line(src, m)
  IN IF Wildcard \in parse_marker(src[m]) THEN [lo |-> 1, hi |-> Eof(src)]
     ELSE next_code_line(src, hi)

\* resolve_scope of the marker at m: the half-open range it covers.
resolve_scope(src, m) ==
  LET hi    == end_of_line(src, m)
      token == skip_ws_and_comments(src, hi)
      topOfFile == ~\E i \in 1 .. m - 1 : IsCode(src, i)
      trailing == \E i \in line_start(src, m) .. m - 1 : src[i].t # "ws"
  IN CASE trailing -> [lo |-> line_start(src, m), hi |-> hi]
       [] ~trailing /\ topOfFile /\ Wildcard \in parse_marker(src[m]) -> [lo |-> 1, hi |-> Eof(src)]
       [] OTHER ->
            IF token = Eof(src) THEN [lo |-> hi, hi |-> hi]
            ELSE IF src[token].t = "open"
                 THEN [lo |-> token, hi |-> end_of_block_brace(src, token)]
                 ELSE next_code_line(src, hi)

Markers(src) == {m \in DOMAIN src : src[m].t = "comment" /\ parse_marker(src[m]) # {}}
MarkersFor(src, r) == {m \in Markers(src) : parse_marker(src[m]) \cap {r, Wildcard} # {}}

\* The bytes lo .. hi - 1 of a diagnostic start in the range of the marker at
\* m; an empty diagnostic may also stand at the end of a range, unless that is
\* empty as well.
covers(src, m, lo, hi) ==
  LET s == resolve_scope(src, m)
  IN \/ s.lo <= lo /\ lo < s.hi
     \/ lo = hi /\ lo = s.hi /\ s.lo < s.hi

suppresses(src, r, lo, hi) == \E m \in MarkersFor(src, r) : covers(src, m, lo, hi)

-----------------------------------------------------------------------------
(* The commands.  A line is named by the position it starts at.            *)

LineStarts(src) == {1} \cup {i + 1 : i \in {j \in DOMAIN src : src[j].t = "nl"}}

\* The editor's text of a line ends before its carriage return and newline.
LineEnd(src, l) ==
  LET e == end_of_line(src, l)
  IN IF e > l /\ src[e - 1].t = "cr" THEN e - 1 ELSE e

\* The comment of line l, if it has one: it is the last token of the line.
CommentAt(src, l) ==
  LET e == LineEnd(src, l) IN IF e > l /\ src[e - 1].t = "comment" THEN e - 1 ELSE 0

\* The regular expression of both commands, and the list it finds first.
Matches(mark) == mark.form \in {"tight", "loose"}
HasList(c) == Matches(c.head) \/ Matches(c.tail)
ListOf(c) == IF Matches(c.head) THEN c.head ELSE c.tail

\* Variant for the mutant of WithRule: the list is replaced.
WithRule_Replaced(mark) == Mark("tight", {Rule})

\* The list is written anew, its blanks and empty elements gone.
WithRule(mark) == Mark("tight", mark.rules \cup {Rule})

\* A rule that is listed already is left alone, with a message.
Extended(c) ==
  IF Rule \in ListOf(c).rules THEN c
  ELSE IF Matches(c.head) THEN Comment(WithRule(c.head), c.tail)
  ELSE Comment(c.head, WithRule(c.tail))

\* A comment of one's own behind another comment is part of that comment, and
\* its parenthesis closes a list that was left open.
ClosedList(mark) == Mark("tight", mark.rules \cup {Garbled})
Joined(c) ==
  IF c.head.form = "unclosed" THEN Comment(ClosedList(c.head), c.tail)
  ELSE IF c.tail.form = "unclosed" THEN Comment(c.head, ClosedList(c.tail))
  ELSE Comment(c.head, Mark("tight", {Rule}))

NewComment == Comment(Mark("tight", {Rule}), NoMark)

\* Variant for the mutant of Appended: the comment goes above the line.
Appended_Above(src, l) ==
  SubSeq(src, 1, l - 1) \o <<NewComment, Tok("nl")>> \o SubSeq(src, l, Len(src))

Appended(src, l) ==
  LET e == LineEnd(src, l)
  IN SubSeq(src, 1, e - 1) \o <<Tok("ws"), NewComment>> \o SubSeq(src, e, Len(src))

SuppressedLine(src, l) ==
  LET c == CommentAt(src, l)
  IN IF c = 0 THEN Appended(src, l)
     ELSE [src EXCEPT ![c] = IF HasList(@) THEN Extended(@) ELSE Joined(@)]

\* Only the first five lines are searched for a list to extend.
SearchedLines == 5
LineNumber(src, l) == Cardinality({k \in LineStarts(src) : k < l}) + 1
Listed(src) ==
  {l \in LineStarts(src) :
     /\ LineNumber(src, l) <= SearchedLines
     /\ CommentAt(src, l) # 0 /\ HasList(src[CommentAt(src, l)])}

SuppressedFile(src) ==
  IF Listed(src) = {} THEN <<NewComment, Tok("nl")>> \o src
  ELSE [src EXCEPT ![CommentAt(src, Min(Listed(src)))] = Extended(@)]

Init == text \in Texts /\ commands = 0

Command(new) ==
  /\ commands < MaxCommands
  /\ text' = new
  /\ commands' = commands + 1

suppressRuleForLine(l) == Command(SuppressedLine(text, l))
suppressRuleForFile == Command(SuppressedFile(text))

Next == (\E l \in LineStarts(text) : suppressRuleForLine(l)) \/ suppressRuleForFile

Spec == Init /\ [][Next]_vars

-----------------------------------------------------------------------------
(* Properties.  A diagnostic is known by the code token it starts at.     *)

CodeAt(src) == {p \in DOMAIN src : IsCode(src, p)}
Scope(src, m) == {p \in CodeAt(src) : covers(src, m, p, p + 1)}
Covered(src, r) == {p \in CodeAt(src) : suppresses(src, r, p, p + 1)}
OnLine(src, l) == {p \in CodeAt(src) : line_start(src, p) = l}

\* Line and block scope, docs/configuration.md:149-182: the marker's own line
\* behind code, else the next line with code on it, or the block that begins
\* there.
LineOrBlock(src, m) ==
  LET below == {p \in CodeAt(src) : p > m}
      first == Min(below)
      depth(p) == Cardinality({k \in first .. p : src[k].t = "open"})
                  - Cardinality({k \in first .. p : src[k].t = "close"})
      inside(p) == \A k \in first .. p - 1 : depth(k) > 0
  IN IF OnLine(src, line_start(src, m)) # {} THEN OnLine(src, line_start(src, m))
     ELSE IF below = {} THEN {}
     ELSE IF src[first].t = "open" THEN {p \in below : inside(p)}
     ELSE OnLine(src, line_start(src, first))

\* File scope, docs/configuration.md:184-193: an allow(...) before any code
\* covers the file, with * as with the names of rules.
BeforeAllCode(src, m) == \A p \in CodeAt(src) : m < p
Documented(src, m) == IF BeforeAllCode(src, m) THEN CodeAt(src) ELSE LineOrBlock(src, m)

\* Across a command a code token is known by its number in the text, which no
\* command changes.
Numbers(src, P) == {Cardinality({q \in CodeAt(src) : q <= p}) : p \in P}
Silenced(src, r) == Numbers(src, Covered(src, r))

\* Two shapes the scanner treats otherwise, and the properties leave out.  A
\* line without code, blank or with block comments only, that ends in CR LF is a
\* code line to next_code_line; a marker with only a block comment before it on
\* its line is a trailing marker.
BareCr(src, i) ==
  /\ src[i].t = "cr"
  /\ \A j \in line_start(src, i) .. i - 1 : src[j].t \in {"ws", "block"}
BlankCr(src) == \E i \in DOMAIN src : BareCr(src, i)
BehindBlock(src) ==
  \E m \in Markers(src) :
    /\ OnLine(src, line_start(src, m)) = {}
    /\ \E j \in line_start(src, m) .. m - 1 : src[j].t = "block"

\* A marker covers at least its line or block and at most what is documented,
\* allow(*) all of it, whatever comments, blank lines and braces stand between
\* a marker and its target: the byte ranges of resolve_scope against lines
\* and blocks (suppress.cpp:352-393, docs/configuration.md:149-193).  A list of
\* rules before any code falls short of the documented file (suppress.cpp:389).
ScopesAsDocumented ==
  ~BlankCr(text) /\ ~BehindBlock(text) =>
    \A m \in Markers(text) :
      /\ LineOrBlock(text, m) \subseteq Scope(text, m)
      /\ Scope(text, m) \subseteq Documented(text, m)
      /\ Wildcard \in parse_marker(text[m]) => Scope(text, m) = Documented(text, m)

\* The scanner will read what the line command makes of the comment: both read
\* its list, or rewriting makes it a list that both read.
Readable(c) ==
  /\ Matches(c.head) /\ Garbled \notin c.head.rules
  /\ c.head.form = "loose" => Rule \notin c.head.rules

\* "Suppress for this line" silences the rule on that line, and never anywhere
\* else: on a line without a comment, or with one that Readable describes
\* (extension.ts:319-344 against suppress.cpp:81-137, 365-372).
LineCommandTakesEffect ==
  \A l \in LineStarts(text) :
    LET after == Silenced(SuppressedLine(text, l), Rule)
        both  == Silenced(text, Rule) \cup Numbers(text, OnLine(text, l))
        c     == CommentAt(text, l)
    IN OnLine(text, l) # {} =>
         /\ after \subseteq both
         /\ c = 0 \/ Readable(text[c]) => after = both

\* No command takes a suppression away, and none touches another rule's unless
\* it rewrites a list that parse_marker did not read: the line a command adds
\* does not come between a marker and its target, nor in front of an allow(*)
\* at the top (suppress.cpp:251-337, 486-501).
Loose(src) == \E m \in DOMAIN src : src[m].t = "comment" /\ src[m].head.form = "loose"
CommandsOnlyAdd ==
  [][~BlankCr(text) =>
       /\ \A r \in {Rule, OtherRule} : Silenced(text, r) \subseteq Silenced(text', r)
       /\ Loose(text) \/ Silenced(text, OtherRule) = Silenced(text', OtherRule)]_vars
=============================================================================
