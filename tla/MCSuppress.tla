----------------------------- MODULE MCSuppress -----------------------------
(***************************************************************************)
(* Texts of up to three lines for Suppress, with either line ending.       *)
(***************************************************************************)
EXTENDS Suppress

MCRule == "rule"
MCOther == "other"
MCWildcard == "*"
MCGarbled == "garbled"

MCTight(r) == Comment(Mark("tight", {r}), NoMark)
MCMarkers == {MCTight(r) : r \in {MCRule, MCOther, MCWildcard}}

\* Lists that the scanner or the commands do not read, or neither does.
MCOdd ==
  {Plain,
   Comment(Mark("spaced", {MCOther}), NoMark),
   Comment(Mark("spaced", {MCOther}), Mark("tight", {MCRule})),
   Comment(Mark("loose", {MCOther}), NoMark),
   Comment(Mark("loose", {MCRule}), NoMark),
   Comment(Mark("unclosed", {MCRule}), NoMark),
   Comment(NoMark, Mark("tight", {MCOther})),
   MCTight(MCGarbled)}
MCNested == <<Tok("open"), Tok("open"), Tok("close"), Tok("code"), Tok("close"), Tok("code")>>
MCLines ==
  {<<>>, <<Tok("code")>>, <<Tok("open")>>, <<Tok("close")>>, <<Plain>>,
   <<Tok("code"), Tok("open")>>, MCNested,
   <<Tok("block")>>, <<Tok("block"), Tok("code")>>, <<Tok("block"), MCTight(MCRule)>>}
  \cup {<<Tok("ws"), m>> : m \in MCMarkers}
  \cup {<<Tok("code"), m>> : m \in MCMarkers \cup MCOdd}
  \cup {<<Tok("ws"), Comment(Mark("loose", {MCWildcard}), NoMark)>>}

MCEnd(eol) == IF eol = "crlf" THEN <<Tok("cr"), Tok("nl")>> ELSE <<Tok("nl")>>
MCTexts ==
  {a \o MCEnd(e) \o b \o MCEnd(e) \o c : a, b, c \in MCLines, e \in {"lf", "crlf"}}
=============================================================================
