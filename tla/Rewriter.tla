------------------------------ MODULE Rewriter ------------------------------
(***************************************************************************)
(* Rewriter::apply (core/src/rewriter.cpp): pick, in priority order, the    *)
(* fixes that can live together, then splice their edits into the source    *)
(* from the back to the front.                                              *)
(*                                                                          *)
(* The two loops are a state machine, one action per iteration.  A byte is  *)
(* any value; the model only looks at where it ends up.  An accepted edit   *)
(* is named <<fix, edit>>, its place in the list of fixes handed in.        *)
(***************************************************************************)
EXTENDS Integers, Sequences

CONSTANT Bytes   \* what a buffer is made of

VARIABLES
  source,     \* the buffer handed to apply
  fixes,      \* the fixes handed to apply: severity, rule, edits, ...
  todo,       \* fixes the first loop has not looked at yet
  accepted,   \* accepted_edits
  conflicts,  \* conflicts_out
  unspliced,  \* accepted edits the second loop has not reached yet
  out,        \* the rewritten copy
  phase       \* "idle", "accept", "splice" or "done"

rewriterVars == <<source, fixes, todo, accepted, conflicts, unspliced, out, phase>>

-----------------------------------------------------------------------------
(* Edits, the order on fixes and the overlap of edits *)

Severity == {"Error", "Warning", "Note"}
TextEdit == [lo : Nat, hi : Nat, replacement : Seq(Bytes)]

severity_rank == [Error |-> 2, Warning |-> 1, Note |-> 0]

\* A rule id is a number: its place in the alphabet of rule ids.
priority_greater(i, j) ==
  LET rank(k) == severity_rank[fixes[k].severity] IN
  \/ rank(i) > rank(j)
  \/ rank(i) = rank(j) /\ fixes[i].code < fixes[j].code
  \/ rank(i) = rank(j) /\ fixes[i].code = fixes[j].code /\ i < j

\* Half-open ranges: touching at an end is no overlap.
overlaps(a, b) == a.lo < b.hi /\ b.lo < a.hi

EditsOf(i) == {i} \X DOMAIN fixes[i].edits
Edit(e) == fixes[e[1]].edits[e[2]]

\* accepted_edits holds the edits of a better fix first.
PushedBefore(e, f) ==
  IF e[1] = f[1] THEN e[2] < f[2] ELSE priority_greater(e[1], f[1])

\* Compares the first edit of a fix only.
Clashes_FirstEditOnly(i) ==
  {c \in (EditsOf(i) \cap {<<i, 1>>}) \X accepted : overlaps(Edit(c[1]), Edit(c[2]))}

Clashes(i) == {c \in EditsOf(i) \X accepted : overlaps(Edit(c[1]), Edit(c[2]))}

\* Every clash, without stopping at the first.
find_overlap_Every(i) == Clashes(i)

\* The clash the two nested loops meet first.
find_overlap(i) ==
  {c \in Clashes(i) : \A d \in Clashes(i) :
     \/ c[1][2] < d[1][2]
     \/ c[1] = d[1] /\ (c[2] = d[2] \/ PushedBefore(c[2], d[2]))}

\* The FixConflict records for a dropped fix: there is one.
Conflict(i) == {[dropped |-> i, winner |-> c[2]] : c \in find_overlap(i)}

-----------------------------------------------------------------------------
(* Rewriter::apply *)

\* The driver calls apply with the fixes in which.  No fix at all returns the
\* source, as the two loops do when they have nothing to do.
Apply(text, list, which) ==
  /\ phase = "idle"
  /\ source' = text
  /\ fixes' = list
  /\ todo' = which
  /\ accepted' = {}
  /\ conflicts' = {}
  /\ unspliced' = {}
  /\ out' = text
  /\ phase' = "accept"

\* apply has returned and its caller is done with the result.
Forget ==
  /\ source' = <<>>
  /\ fixes' = <<>>
  /\ todo' = {}
  /\ accepted' = {}
  /\ conflicts' = {}
  /\ unspliced' = {}
  /\ out' = <<>>
  /\ phase' = "idle"

\* Accepts a fix piecemeal: every edit that meets no accepted one.
AcceptFix_EditByEdit ==
  /\ phase = "accept"
  /\ \E i \in todo :
       /\ \A j \in todo \ {i} : priority_greater(i, j)
       /\ todo' = todo \ {i}
       /\ LET lost == {c[1] : c \in Clashes(i)} IN
          /\ accepted' = accepted \cup (EditsOf(i) \ lost)
          /\ conflicts' = IF lost = {} THEN conflicts
                          ELSE conflicts \cup Conflict(i)
  /\ UNCHANGED <<source, fixes, unspliced, out, phase>>

\* Takes the fixes as the rules emitted them, without sorting.
AcceptFix_Unsorted ==
  /\ phase = "accept"
  /\ \E i \in todo :
       /\ \A j \in todo : i <= j
       /\ todo' = todo \ {i}
       /\ IF Clashes(i) = {}
          THEN accepted' = accepted \cup EditsOf(i) /\ UNCHANGED conflicts
          ELSE /\ conflicts' = conflicts \cup Conflict(i)
               /\ UNCHANGED accepted
  /\ UNCHANGED <<source, fixes, unspliced, out, phase>>

\* One turn of the first loop: the best fix left is accepted whole or dropped.
AcceptFix ==
  /\ phase = "accept"
  /\ \E i \in todo :
       /\ \A j \in todo \ {i} : priority_greater(i, j)
       /\ todo' = todo \ {i}
       /\ IF Clashes(i) = {}   \* also a fix without edits
          THEN accepted' = accepted \cup EditsOf(i) /\ UNCHANGED conflicts
          ELSE /\ conflicts' = conflicts \cup Conflict(i)
               /\ UNCHANGED accepted
  /\ UNCHANGED <<source, fixes, unspliced, out, phase>>

\* Splices what was dropped, too.
StartSplicing_All ==
  /\ phase = "accept"
  /\ todo = {}
  /\ unspliced' = UNION {EditsOf(i) : i \in DOMAIN fixes}
  /\ phase' = "splice"
  /\ UNCHANGED <<source, fixes, todo, accepted, conflicts, out>>

\* The accepted edits are sorted by byte_lo, last first; edits with the same
\* byte_lo come out of std::ranges::sort in either order.
StartSplicing ==
  /\ phase = "accept"
  /\ todo = {}
  /\ unspliced' = accepted
  /\ phase' = "splice"
  /\ UNCHANGED <<source, fixes, todo, accepted, conflicts, out>>

InRange(e, text) == e.lo <= Len(text) /\ e.hi <= Len(text) /\ e.lo <= e.hi

\* Takes byte_hi for the last byte that goes.
Spliced_Inclusive(e, text) ==
  IF InRange(e, text)
  THEN SubSeq(text, 1, e.lo) \o e.replacement \o SubSeq(text, e.hi + 2, Len(text))
  ELSE text

Spliced(e, text) ==
  IF InRange(e, text)
  THEN SubSeq(text, 1, e.lo) \o e.replacement \o SubSeq(text, e.hi + 1, Len(text))
  ELSE text

\* Splices from the front to the back.
SpliceEdit_Ascending ==
  /\ phase = "splice"
  /\ \E e \in unspliced :
       /\ \A f \in unspliced : Edit(e).lo <= Edit(f).lo
       /\ unspliced' = unspliced \ {e}
       /\ out' = Spliced(Edit(e), out)
  /\ UNCHANGED <<source, fixes, todo, accepted, conflicts, phase>>

SpliceEdit ==
  /\ phase = "splice"
  /\ \E e \in unspliced :
       /\ \A f \in unspliced : Edit(f).lo <= Edit(e).lo
       /\ unspliced' = unspliced \ {e}
       /\ out' = Spliced(Edit(e), out)
  /\ UNCHANGED <<source, fixes, todo, accepted, conflicts, phase>>

Return ==
  /\ phase = "splice"
  /\ unspliced = {}
  /\ phase' = "done"
  /\ UNCHANGED <<source, fixes, todo, accepted, conflicts, unspliced, out>>

RewriterStep == AcceptFix \/ StartSplicing \/ SpliceEdit \/ Return

=============================================================================
