------------------------------ MODULE MCCliFix ------------------------------
(* Two files, the first of three bytes, and what the rules may say of them.  *)
EXTENDS CliFix

CONSTANTS a, b

MCPaths == {a, b}
MCArgv == <<a, b>>
Long == <<"p", "q", "r">>
Short == <<"p">>
MCTexts == {Short}
MCDisks == {[p \in MCPaths |-> IF p = a THEN Long ELSE other] : other \in {Short, Missing}}
MCBytes == {"p", "q", "r", "1", "2", "3", "4"}

Ranges == {<<lo, hi>> \in (0..3) \X (0..3) : lo <= hi}

\* Deletions, and replacements by one byte that says whose it is.
EditsBy(who) ==
  {[lo |-> r[1], hi |-> r[2], replacement |-> text] : r \in Ranges, text \in {<<>>, <<who>>}}
    \ {[lo |-> p, hi |-> p, replacement |-> <<>>] : p \in 0..3}

Report(severity, code, edits) ==
  [severity |-> severity, code |-> code, machine_applicable |-> TRUE, edits |-> edits]

\* For the second file: nothing, a note, a warning, a suggestion, a fix.
FewDiagnoses ==
  {<<>>, <<Report("Note", 1, <<>>)>>, <<Report("Warning", 1, <<>>)>>,
   <<[Report("Error", 1, <<>>) EXCEPT !.machine_applicable = FALSE]>>,
   <<Report("Warning", 1, <<[lo |-> 0, hi |-> 1, replacement |-> <<"4", "4">>]>>)>>}

\* For the first: three edits, of three fixes or of two, ranked otherwise than
\* in the order of the list, by severity or by rule.  One reaches the end.
Reach(lists) == {l \in lists : \E i \in DOMAIN l : \E j \in DOMAIN l[i].edits : l[i].edits[j].hi = 3}
MCDiagnoses ==
  FewDiagnoses \cup
  Reach({<<Report("Warning", 2, <<e>>), Report("Warning", code, <<f>>)>> :
           e \in EditsBy("1"), f \in EditsBy("2"), code \in {1, 2}}) \cup
  Reach({<<Report("Note", 1, <<e, f>>), Report("Error", 2, <<g>>)>> :
           e \in {x \in EditsBy("1") : x.replacement # <<>>}, f \in EditsBy("2"),
           g \in {x \in EditsBy("3") : x.replacement # <<>>}}) \cup
  Reach({<<Report("Note", 1, <<e>>), Report("Warning", 2, <<f>>), Report("Warning", 1, <<g>>)>> :
           e \in {x \in EditsBy("1") : x.replacement # <<>>},
           f \in {x \in EditsBy("2") : x.replacement # <<>>},
           g \in {x \in EditsBy("3") : x.replacement # <<>>}})
=============================================================================
