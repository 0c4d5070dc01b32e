---------------------------- MODULE CliFixProofs ----------------------------
(***************************************************************************)
(* Proofs about CliFix, for any files, texts, command line and diagnostics. *)
(***************************************************************************)
EXTENDS CliFix, ReachabilityProofs, SequenceTheorems, TLAPS, WellFoundedInduction

-----------------------------------------------------------------------------
(* The order on fixes *)

LEMMA PriorityIsAnOrder ==
  ASSUME fixes \in Seq(Diagnostic), NEW i \in DOMAIN fixes, NEW j \in DOMAIN fixes
  PROVE  ~(priority_greater(i, j) /\ priority_greater(j, i))
<1> DEFINE r(k) == severity_rank[fixes[k].severity]
<1>1. i \in Nat /\ j \in Nat
  OBVIOUS
<1>2. fixes[i] \in Diagnostic /\ fixes[j] \in Diagnostic
  OBVIOUS
<1>3. r(i) \in Nat /\ r(j) \in Nat /\ fixes[i].code \in Nat /\ fixes[j].code \in Nat
  BY <1>2 DEF Diagnostic, Severity, severity_rank
<1> QED
  BY <1>1, <1>3 DEF priority_greater

LEMMA EditsAreTyped ==
  ASSUME fixes \in Seq(Diagnostic), NEW i \in DOMAIN fixes, NEW e \in EditsOf(i)
  PROVE  /\ e[1] = i /\ e[2] \in DOMAIN fixes[i].edits /\ e = <<e[1], e[2]>>
         /\ Edit(e) \in TextEdit
         /\ Edit(e).lo \in Nat /\ Edit(e).hi \in Nat /\ Edit(e).replacement \in Seq(Bytes)
<1>1. e[1] = i /\ e[2] \in DOMAIN fixes[i].edits /\ e = <<e[1], e[2]>>
  BY DEF EditsOf
<1>2. fixes[i] \in Diagnostic
  OBVIOUS
<1>3. fixes[i].edits \in Seq(TextEdit)
  BY <1>2 DEF Diagnostic
<1>4. Edit(e) \in TextEdit
  BY <1>1, <1>3 DEF Edit
<1> QED
  BY <1>1, <1>4 DEF TextEdit

-----------------------------------------------------------------------------
(* Type correctness *)

Idle == phase = "idle" =>
  todo = {} /\ accepted = {} /\ conflicts = {} /\ unspliced = {}

LEMMA SpliceType ==
  ASSUME NEW e \in TextEdit, NEW t \in Seq(Bytes)
  PROVE  Spliced(e, t) \in Seq(Bytes)
  BY DEF Spliced, TextEdit, InRange

LEMMA ConflictType ==
  ASSUME TypeOK, NEW i \in DOMAIN fixes
  PROVE  Conflict(i) \subseteq [dropped : DOMAIN fixes, winner : accepted]
  BY DEF Conflict, find_overlap, Clashes

LEMMA PathIsAPath ==
  ASSUME TypeOK, arg < Len(Argv)
  PROVE  Path \in Paths /\ arg + 1 \in 0..Len(Argv)
<1>1. Len(Argv) \in Nat /\ arg \in Nat /\ arg + 1 \in 1..Len(Argv)
  BY ArgvAssumption DEF TypeOK
<1> QED
  BY <1>1, ArgvAssumption DEF Path

\* Past the lint there is a file being dealt with; the rewriter runs after the
\* second read.
InFile ==
  /\ step \in {"reread", "rewrite", "write"} => arg < Len(Argv)
  /\ step \in {"lint", "reread"} => phase = "idle"

LEMMA StartType ==
  ASSUME Init PROVE TypeOK /\ Idle /\ InFile
<1>1. disk \in [Paths -> Seq(Bytes) \cup {Missing}]
  BY TextsAssumption DEF Init
<1>2. arg \in 0..Len(Argv) /\ saves \in 0..MaxSaves
  BY ArgvAssumption, SavesAssumption DEF Init
<1>3. intact \in [Paths -> BOOLEAN]
  BY DEF Init
<1>4. linted \in Seq(Bytes) /\ source \in Seq(Bytes) /\ out \in Seq(Bytes) /\ fixes \in Seq(Diagnostic)
  BY DEF Init
<1>5. /\ accepted \subseteq UNION {EditsOf(i) : i \in DOMAIN fixes} /\ todo \subseteq DOMAIN fixes
      /\ unspliced \subseteq accepted
      /\ conflicts \subseteq [dropped : DOMAIN fixes, winner : accepted]
  BY DEF Init
<1> QED
  BY <1>1, <1>2, <1>3, <1>4, <1>5 DEF Init, TypeOK, Idle, InFile, Severity

\* The rewriter's part of TypeOK.
RewriterTypeOK ==
  /\ source \in Seq(Bytes)
  /\ fixes \in Seq(Diagnostic)
  /\ todo \subseteq DOMAIN fixes
  /\ accepted \subseteq UNION {EditsOf(i) : i \in DOMAIN fixes}
  /\ unspliced \subseteq accepted
  /\ conflicts \subseteq [dropped : DOMAIN fixes, winner : accepted]
  /\ out \in Seq(Bytes)
  /\ phase \in {"idle", "accept", "splice", "done"}

LEMMA RewriterKeepsType ==
  ASSUME TypeOK, Idle, RewriterStep
  PROVE  RewriterTypeOK' /\ Idle'
<1>1. CASE AcceptFix
  <2>1. PICK i \in todo :
          /\ todo' = todo \ {i}
          /\ \/ accepted' = accepted \cup EditsOf(i) /\ conflicts' = conflicts
             \/ accepted' = accepted /\ conflicts' = conflicts \cup Conflict(i)
    BY <1>1 DEF AcceptFix
  <2>2. fixes' = fixes /\ source' = source /\ out' = out /\ unspliced' = unspliced
        /\ phase' = phase /\ phase = "accept"
    BY <1>1 DEF AcceptFix
  <2>3. i \in DOMAIN fixes
    BY <2>1 DEF TypeOK
  <2>4. (UNION {EditsOf(k) : k \in DOMAIN fixes})' = UNION {EditsOf(k) : k \in DOMAIN fixes}
    BY <2>2 DEF EditsOf
  <2>5. Conflict(i) \subseteq [dropped : DOMAIN fixes, winner : accepted]
    BY <2>3, ConflictType
  <2>6. accepted \subseteq accepted' /\ accepted' \subseteq UNION {EditsOf(k) : k \in DOMAIN fixes}
    BY <2>1, <2>3 DEF TypeOK
  <2>7. conflicts' \subseteq [dropped : DOMAIN fixes, winner : accepted']
    BY <2>1, <2>5, <2>6 DEF TypeOK
  <2> QED
    BY <2>1, <2>2, <2>4, <2>6, <2>7 DEF TypeOK, RewriterTypeOK, Idle
<1>2. CASE StartSplicing
  BY <1>2 DEF StartSplicing, TypeOK, RewriterTypeOK, Idle, EditsOf
<1>3. CASE SpliceEdit
  <2>1. PICK e \in unspliced : unspliced' = unspliced \ {e} /\ out' = Spliced(Edit(e), out)
    BY <1>3 DEF SpliceEdit
  <2>2. PICK i \in DOMAIN fixes : e \in EditsOf(i)
    BY <2>1 DEF TypeOK
  <2>3. Edit(e) \in TextEdit
    BY <2>2, EditsAreTyped DEF TypeOK
  <2>4. out' \in Seq(Bytes)
    BY <2>1, <2>3, SpliceType DEF TypeOK
  <2> QED
    BY <1>3, <2>1, <2>4 DEF SpliceEdit, TypeOK, RewriterTypeOK, Idle, EditsOf
<1>4. CASE Return
  BY <1>4 DEF Return, TypeOK, RewriterTypeOK, Idle, EditsOf
<1> QED
  BY <1>1, <1>2, <1>3, <1>4 DEF RewriterStep

LEMMA ForgetType ==
  ASSUME Forget PROVE RewriterTypeOK' /\ Idle' /\ phase' = "idle"
  BY DEF Forget, RewriterTypeOK, Idle

LEMMA NextKeepsType ==
  ASSUME TypeOK, Idle, InFile, [Next]_vars
  PROVE  TypeOK' /\ Idle' /\ InFile'
<1> DEFINE Cli == /\ disk \in [Paths -> Seq(Bytes) \cup {Missing}]
                  /\ intact \in [Paths -> BOOLEAN]
                  /\ arg \in 0..Len(Argv)
                  /\ step \in {"lint", "reread", "rewrite", "write", "exited", "killed"}
                  /\ linted \in Seq(Bytes)
                  /\ fatal \in BOOLEAN
                  /\ worst \in Severity
                  /\ exit_code \in {-1, 0, 1, 2}
                  /\ saves \in 0..MaxSaves
<1>1. TypeOK <=> Cli /\ RewriterTypeOK
  BY DEF TypeOK, RewriterTypeOK
<1>2. TypeOK' <=> Cli' /\ RewriterTypeOK'
  BY DEF TypeOK, RewriterTypeOK
<1>3. ASSUME UNCHANGED rewriterVars
      PROVE  RewriterTypeOK' /\ Idle' /\ phase' = phase
  BY <1>1, <1>3 DEF rewriterVars, RewriterTypeOK, Idle, EditsOf
<1>4. CASE RefuseFile
  <2>1. RewriterTypeOK' /\ Idle' /\ phase' = "idle"
    BY <1>4, ForgetType DEF RefuseFile, NextFile
  <2>2. Cli'
    BY <1>1, <1>4, PathIsAPath DEF RefuseFile, NextFile
  <2> QED
    BY <1>2, <1>4, <2>1, <2>2 DEF RefuseFile, NextFile, InFile
<1>5. CASE LintFile
  <2>1. PICK text \in {disk[Path], <<>>}, list \in Diagnoses :
          /\ worst' = IF severity_rank[Worst(list)] > severity_rank[worst] THEN Worst(list) ELSE worst
          /\ \/ NextFile
             \/ /\ step' = "reread" /\ linted' = text /\ fixes' = list
                /\ UNCHANGED <<arg, source, todo, accepted, conflicts, unspliced, out, phase>>
    BY <1>5 DEF LintFile
  <2>2. /\ step = "lint" /\ arg < Len(Argv) /\ disk[Path] # Missing
        /\ UNCHANGED <<disk, intact, fatal, exit_code, saves>>
    BY <1>5 DEF LintFile
  <2>3. Path \in Paths /\ arg + 1 \in 0..Len(Argv)
    BY <2>2, PathIsAPath
  <2>4. text \in Seq(Bytes)
    <3>1. disk[Path] \in Seq(Bytes)
      BY <1>1, <2>2, <2>3
    <3>2. <<>> \in Seq(Bytes)
      OBVIOUS
    <3> QED
      BY <3>1, <3>2
  <2>5. list \in Seq(Diagnostic)
    BY DiagnosesAssumption
  <2>6. worst' \in Severity
    BY <1>1, <2>1 DEF Worst, Severity
  <2>7. CASE NextFile
    BY <1>1, <1>2, <2>2, <2>3, <2>6, <2>7, ForgetType DEF NextFile, InFile
  <2>8. CASE /\ step' = "reread" /\ linted' = text /\ fixes' = list
             /\ UNCHANGED <<arg, source, todo, accepted, conflicts, unspliced, out, phase>>
    <3>1. Cli' /\ InFile'
      BY <1>1, <2>2, <2>4, <2>6, <2>8 DEF InFile
    <3>2. RewriterTypeOK' /\ Idle'
      BY <1>1, <2>2, <2>5, <2>8 DEF RewriterTypeOK, Idle, InFile
    <3> QED
      BY <1>2, <3>1, <3>2
  <2> QED
    BY <2>1, <2>7, <2>8
<1>6. CASE RereadFile
  <2>1. Path \in Paths
    BY <1>6, PathIsAPath DEF RereadFile, InFile
  <2>2. disk[Path] \in Seq(Bytes)
    BY <1>1, <1>6, <2>1 DEF RereadFile
  <2>3. RewriterTypeOK' /\ Idle'
    BY <1>1, <1>6, <2>2 DEF RereadFile, Apply, RewriterTypeOK, Idle, collect_fixes
  <2> QED
    BY <1>1, <1>2, <1>6, <2>3 DEF RereadFile, InFile
<1>7. CASE RereadFails
  BY <1>1, <1>2, <1>7, PathIsAPath, ForgetType DEF RereadFails, NextFile, InFile
<1>8. CASE RereadThrows
  BY <1>1, <1>2, <1>3, <1>8 DEF RereadThrows, InFile
<1>9. CASE RewriteText
  BY <1>1, <1>2, <1>9, RewriterKeepsType DEF RewriteText, cliVars, InFile
<1>10. CASE TruncateFile
  <2>1. Path \in Paths
    BY <1>10, PathIsAPath DEF TruncateFile, InFile
  <2>2. Cli'
    BY <1>1, <1>10, <2>1 DEF TruncateFile
  <2> QED
    BY <1>2, <1>3, <1>10, <2>2 DEF TruncateFile, InFile
<1>11. CASE OpenFails
  BY <1>1, <1>2, <1>11, PathIsAPath, ForgetType DEF OpenFails, NextFile, InFile
<1>12. CASE WriteFile
  <2>1. Path \in Paths /\ arg + 1 \in 0..Len(Argv)
    BY <1>12, PathIsAPath DEF WriteFile, InFile
  <2>2. Cli'
    BY <1>1, <1>12, <2>1 DEF WriteFile, NextFile, RewriterTypeOK
  <2> QED
    BY <1>2, <1>12, <2>2, ForgetType DEF WriteFile, NextFile, InFile
<1>13. CASE WriteFails
  <2>1. Path \in Paths /\ arg + 1 \in 0..Len(Argv)
    BY <1>13, PathIsAPath DEF WriteFails, InFile
  <2>2. PICK n \in 0..Len(out) - 1 : disk' = [disk EXCEPT ![Path] = SubSeq(out, 1, n)]
    BY <1>13 DEF WriteFails
  <2>3. SubSeq(out, 1, n) \in Seq(Bytes)
    BY <1>1, <2>2 DEF RewriterTypeOK
  <2>4. fatal' \in BOOLEAN
    <3>1. fatal' = fatal \/ fatal' = TRUE
      BY <1>13 DEF WriteFails
    <3> QED
      BY <1>1, <3>1
  <2>5. disk' \in [Paths -> Seq(Bytes) \cup {Missing}]
    BY <1>1, <2>1, <2>2, <2>3
  <2>6. Cli'
    BY <1>1, <1>13, <2>1, <2>4, <2>5 DEF WriteFails, NextFile
  <2> QED
    BY <1>2, <1>13, <2>6, ForgetType DEF WriteFails, NextFile, InFile
<1>14. CASE Exit
  BY <1>1, <1>2, <1>3, <1>14 DEF Exit, InFile
<1>15. CASE Killed
  BY <1>1, <1>2, <1>3, <1>15 DEF Killed, InFile
<1>16. CASE OtherProgramSaves
  <2>1. Path \in Paths
    BY <1>16, PathIsAPath DEF OtherProgramSaves
  <2>2. Cli'
    BY <1>1, <1>16, <2>1, TextsAssumption, SavesAssumption DEF OtherProgramSaves
  <2> QED
    BY <1>2, <1>3, <1>16, <2>2 DEF OtherProgramSaves, InFile
<1>17. CASE UNCHANGED vars
  BY <1>1, <1>2, <1>3, <1>17 DEF vars, cliVars, InFile
<1> QED
  BY <1>4, <1>5, <1>6, <1>7, <1>8, <1>9, <1>10, <1>11, <1>12, <1>13, <1>14, <1>15,
     <1>16, <1>17 DEF Next

\* Every variable keeps its type, for any command line and any diagnostics.
THEOREM TypeCorrect == Spec => []TypeOK
<1>1. Init => TypeOK /\ Idle /\ InFile
  BY StartType
<1>2. TypeOK /\ Idle /\ InFile /\ [Next]_vars => (TypeOK /\ Idle /\ InFile)'
  BY NextKeepsType
<1> QED
  BY <1>1, <1>2, PTL DEF Spec

-----------------------------------------------------------------------------
(* The first loop: which fixes are accepted *)

\* Fixes the first loop has dealt with.
Seen == collect_fixes(fixes) \ todo

\* They are better than those left; accepted edits come from them, a fix at a
\* time, and never from a fix in conflict.
FirstLoop ==
  /\ todo \subseteq collect_fixes(fixes)
  /\ phase \in {"splice", "done"} => todo = {}
  /\ \A i \in Seen, j \in todo : priority_greater(i, j)
  /\ \A e \in accepted : e[1] \in Seen /\ EditsOf(e[1]) \subseteq accepted
  /\ \A c \in conflicts : c.dropped \in Seen /\ EditsOf(c.dropped) \cap accepted = {}

Acceptance == FirstLoop /\ AcceptedAreDisjoint /\ AcceptedByPriority

LEMMA AcceptedFacts ==
  ASSUME TypeOK, NEW e \in accepted
  PROVE  /\ e[1] \in DOMAIN fixes /\ e \in EditsOf(e[1])
         /\ Edit(e).lo \in Nat /\ Edit(e).hi \in Nat /\ Edit(e) \in TextEdit
<1>1. PICK i \in DOMAIN fixes : e \in EditsOf(i)
  BY DEF TypeOK
<1>2. fixes \in Seq(Diagnostic)
  BY DEF TypeOK
<1> QED
  BY <1>1, <1>2, EditsAreTyped

LEMMA OverlapsIsSymmetric ==
  ASSUME NEW a, NEW b, overlaps(a, b)
  PROVE  overlaps(b, a)
  BY DEF overlaps

\* An accepted fix joins those it meets none of.
LEMMA AcceptKeepsAcceptance ==
  ASSUME TypeOK, Acceptance, phase = "accept",
         NEW i \in todo,
         \A j \in todo \ {i} : priority_greater(i, j),
         todo' = todo \ {i}, fixes' = fixes, phase' = phase, conflicts' = conflicts,
         Clashes(i) = {}, accepted' = accepted \cup EditsOf(i)
  PROVE  Acceptance'
<1> DEFINE G == collect_fixes(fixes)
<1>1. /\ \A k : EditsOf(k)' = EditsOf(k)
      /\ \A e : Edit(e)' = Edit(e)
      /\ \A k, l : priority_greater(k, l)' <=> priority_greater(k, l)
      /\ \A k, l : Meet(k, l)' <=> Meet(k, l)
      /\ collect_fixes(fixes)' = G
  BY DEF EditsOf, Edit, priority_greater, Meet, collect_fixes
<1>2. i \in G /\ i \notin Seen /\ Seen' = Seen \cup {i} /\ i \in DOMAIN fixes /\ G \subseteq DOMAIN fixes
  BY <1>1 DEF Acceptance, FirstLoop, Seen, TypeOK, collect_fixes
<1>3. \A e \in EditsOf(i) : e[1] = i
  BY DEF EditsOf
<1>4. \A e \in EditsOf(i), f \in accepted : ~overlaps(Edit(e), Edit(f))
  <2> SUFFICES ASSUME NEW e \in EditsOf(i), NEW f \in accepted, overlaps(Edit(e), Edit(f))
               PROVE  <<e, f>> \in Clashes(i)
    OBVIOUS
  <2> QED
    BY DEF Clashes
<1>5. FirstLoop'
  <2>1. todo' \subseteq collect_fixes(fixes)' /\ (phase \in {"splice", "done"} => todo = {})'
    BY <1>1 DEF Acceptance, FirstLoop
  <2>2. \A k \in Seen', j \in todo' : priority_greater(k, j)'
    BY <1>1, <1>2 DEF Acceptance, FirstLoop
  <2>3. \A e \in accepted' : e[1] \in Seen' /\ EditsOf(e[1])' \subseteq accepted'
    BY <1>1, <1>2, <1>3 DEF Acceptance, FirstLoop
  <2>4. \A c \in conflicts' : c.dropped \in Seen' /\ EditsOf(c.dropped)' \cap accepted' = {}
    <3>1. \A c \in conflicts : c.dropped \in Seen /\ EditsOf(c.dropped) \cap accepted = {} /\ c.dropped # i
      BY <1>2 DEF Acceptance, FirstLoop
    <3>2. \A k : k # i => EditsOf(k) \cap EditsOf(i) = {}
      BY DEF EditsOf
    <3> QED
      BY <1>1, <1>2, <3>1, <3>2
  <2> QED
    BY <2>1, <2>2, <2>3, <2>4 DEF FirstLoop
<1>6. AcceptedAreDisjoint'
  <2> SUFFICES ASSUME NEW e \in accepted', NEW f \in accepted', e[1] # f[1]
               PROVE  ~overlaps(Edit(e), Edit(f))
    BY <1>1 DEF AcceptedAreDisjoint
  <2>1. CASE e \in accepted /\ f \in accepted
    BY <2>1 DEF Acceptance, AcceptedAreDisjoint
  <2>2. CASE e \in EditsOf(i) /\ f \in accepted
    BY <2>2, <1>4
  <2>3. CASE e \in accepted /\ f \in EditsOf(i)
    BY <2>3, <1>4, OverlapsIsSymmetric
  <2> QED
    BY <2>1, <2>2, <2>3, <1>3
<1>7. AcceptedByPriority'
  <2>1. \A k : k # i => (Kept(k)' <=> Kept(k))
    <3>1. \A k : k # i => EditsOf(k) \cap EditsOf(i) = {}
      BY DEF EditsOf
    <3> QED
      BY <1>1, <3>1 DEF Kept
  <2>2. Kept(i)' <=> EditsOf(i) # {}
    BY <1>1 DEF Kept
  <2>3. \A j \in Seen : Kept(j) => ~Meet(i, j)
    BY <1>4 DEF Kept, Meet
  <2>4. \A k \in Seen : priority_greater(k, i)
    BY DEF Acceptance, FirstLoop
  <2>5. \A k \in Seen : Kept(k) <=> /\ EditsOf(k) # {}
                                    /\ \A j \in Seen : Kept(j) /\ Meet(k, j) => j = k \/ priority_greater(k, j)
    BY DEF Acceptance, AcceptedByPriority, Seen
  <2>6. \A k \in Seen' : Kept(k)' <=> /\ EditsOf(k) # {}
                                      /\ \A j \in Seen' : Kept(j)' /\ Meet(k, j) => j = k \/ priority_greater(k, j)
    <3>1. ASSUME NEW k \in Seen
          PROVE  Kept(k)' <=> /\ EditsOf(k) # {}
                              /\ \A j \in Seen' : Kept(j)' /\ Meet(k, j) => j = k \/ priority_greater(k, j)
      BY <3>1, <1>2, <2>1, <2>4, <2>5
    <3>2. Kept(i)' <=> /\ EditsOf(i) # {}
                       /\ \A j \in Seen' : Kept(j)' /\ Meet(i, j) => j = i \/ priority_greater(i, j)
      BY <1>2, <2>1, <2>2, <2>3
    <3> QED
      BY <1>2, <3>1, <3>2
  <2> QED
    BY <1>1, <2>6 DEF AcceptedByPriority, Seen
<1> QED
  BY <1>5, <1>6, <1>7 DEF Acceptance

\* A dropped fix meets an accepted one that is better.
LEMMA DropKeepsAcceptance ==
  ASSUME TypeOK, Acceptance, phase = "accept",
         NEW i \in todo,
         \A j \in todo \ {i} : priority_greater(i, j),
         todo' = todo \ {i}, fixes' = fixes, phase' = phase, accepted' = accepted,
         Clashes(i) # {}, conflicts' = conflicts \cup Conflict(i)
  PROVE  Acceptance'
<1> DEFINE G == collect_fixes(fixes)
<1>1. /\ \A k : EditsOf(k)' = EditsOf(k)
      /\ \A e : Edit(e)' = Edit(e)
      /\ \A k, l : priority_greater(k, l)' <=> priority_greater(k, l)
      /\ \A k, l : Meet(k, l)' <=> Meet(k, l)
      /\ collect_fixes(fixes)' = G
      /\ \A k : Kept(k)' <=> Kept(k)
  BY DEF EditsOf, Edit, priority_greater, Meet, collect_fixes, Kept
<1>2. i \in G /\ i \notin Seen /\ Seen' = Seen \cup {i} /\ i \in DOMAIN fixes /\ G \subseteq DOMAIN fixes
  BY <1>1 DEF Acceptance, FirstLoop, Seen, TypeOK, collect_fixes
<1>3. EditsOf(i) \cap accepted = {}
  BY <1>2 DEF Acceptance, FirstLoop, EditsOf
<1>4. \A c \in Conflict(i) : c.dropped = i
  BY DEF Conflict
<1>5. FirstLoop'
  <2>1. todo' \subseteq collect_fixes(fixes)' /\ (phase \in {"splice", "done"} => todo = {})'
    BY <1>1 DEF Acceptance, FirstLoop
  <2>2. \A k \in Seen', j \in todo' : priority_greater(k, j)'
    BY <1>1, <1>2 DEF Acceptance, FirstLoop
  <2>3. \A e \in accepted' : e[1] \in Seen' /\ EditsOf(e[1])' \subseteq accepted'
    BY <1>1, <1>2 DEF Acceptance, FirstLoop
  <2>4. \A c \in conflicts' : c.dropped \in Seen' /\ EditsOf(c.dropped)' \cap accepted' = {}
    BY <1>1, <1>2, <1>3, <1>4 DEF Acceptance, FirstLoop
  <2> QED
    BY <2>1, <2>2, <2>3, <2>4 DEF FirstLoop
<1>6. AcceptedAreDisjoint'
  BY <1>1 DEF Acceptance, AcceptedAreDisjoint
<1>7. ~Kept(i)
  BY <1>3 DEF Kept
<1>8. PICK j \in Seen : Kept(j) /\ Meet(i, j)
  <2>1. PICK e \in EditsOf(i), f \in accepted : overlaps(Edit(e), Edit(f))
    BY DEF Clashes
  <2>2. f \in EditsOf(f[1]) /\ f[1] \in Seen /\ EditsOf(f[1]) \subseteq accepted
    BY AcceptedFacts DEF Acceptance, FirstLoop
  <2>3. Kept(f[1]) /\ Meet(i, f[1])
    BY <2>1, <2>2 DEF Kept, Meet
  <2> QED
    BY <2>2, <2>3
<1>9. j # i /\ ~priority_greater(i, j)
  <2>1. priority_greater(j, i) /\ j # i
    BY <1>2, <1>8 DEF Acceptance, FirstLoop
  <2>2. j \in DOMAIN fixes /\ fixes \in Seq(Diagnostic)
    BY <1>2, <1>8 DEF Seen, TypeOK
  <2> QED
    BY <1>2, <2>1, <2>2, PriorityIsAnOrder
<1>10. AcceptedByPriority'
  <2>1. \A k \in Seen : Kept(k) <=> /\ EditsOf(k) # {}
                                    /\ \A l \in Seen : Kept(l) /\ Meet(k, l) => l = k \/ priority_greater(k, l)
    BY DEF Acceptance, AcceptedByPriority, Seen
  <2>2. \A k \in Seen \cup {i} :
          Kept(k) <=> /\ EditsOf(k) # {}
                      /\ \A l \in Seen \cup {i} : Kept(l) /\ Meet(k, l) => l = k \/ priority_greater(k, l)
    BY <1>7, <1>8, <1>9, <2>1
  <2> QED
    BY <1>1, <1>2, <2>2 DEF AcceptedByPriority, Seen
<1> QED
  BY <1>5, <1>6, <1>10 DEF Acceptance

LEMMA NextKeepsAcceptance ==
  ASSUME TypeOK, Idle, InFile, Acceptance, [Next]_vars
  PROVE  Acceptance'
<1>1. ASSUME Forget PROVE Acceptance'
  BY <1>1 DEF Forget, Acceptance, FirstLoop, AcceptedAreDisjoint, AcceptedByPriority
<1>2. ASSUME UNCHANGED rewriterVars PROVE Acceptance'
  <2>1. /\ \A k : EditsOf(k)' = EditsOf(k)
        /\ \A e : Edit(e)' = Edit(e)
        /\ \A k, l : priority_greater(k, l)' <=> priority_greater(k, l)
        /\ \A k, l : Meet(k, l)' <=> Meet(k, l)
        /\ \A k : Kept(k)' <=> Kept(k)
        /\ Seen' = Seen /\ collect_fixes(fixes)' = collect_fixes(fixes)
    BY <1>2 DEF rewriterVars, EditsOf, Edit, priority_greater, Meet, collect_fixes, Kept, Seen
  <2>2. FirstLoop'
    BY <1>2, <2>1 DEF rewriterVars, Acceptance, FirstLoop
  <2>3. AcceptedAreDisjoint'
    BY <1>2, <2>1 DEF rewriterVars, Acceptance, AcceptedAreDisjoint
  <2>4. AcceptedByPriority'
    BY <1>2, <2>1 DEF rewriterVars, Acceptance, AcceptedByPriority
  <2> QED
    BY <2>2, <2>3, <2>4 DEF Acceptance
<1>3. ASSUME UNCHANGED <<fixes, todo, accepted, conflicts>>,
             phase # "idle", phase' = "idle" \/ phase' = phase \/ todo = {}
      PROVE Acceptance'
  <2>1. /\ \A k : EditsOf(k)' = EditsOf(k)
        /\ \A e : Edit(e)' = Edit(e)
        /\ \A k, l : priority_greater(k, l)' <=> priority_greater(k, l)
        /\ \A k, l : Meet(k, l)' <=> Meet(k, l)
        /\ \A k : Kept(k)' <=> Kept(k)
        /\ Seen' = Seen /\ collect_fixes(fixes)' = collect_fixes(fixes)
    BY <1>3 DEF EditsOf, Edit, priority_greater, Meet, collect_fixes, Kept, Seen
  <2>2. FirstLoop'
    BY <1>3, <2>1 DEF Acceptance, FirstLoop
  <2>3. AcceptedAreDisjoint'
    BY <1>3, <2>1 DEF Acceptance, AcceptedAreDisjoint
  <2>4. AcceptedByPriority'
    BY <1>3, <2>1 DEF Acceptance, AcceptedByPriority
  <2> QED
    BY <2>2, <2>3, <2>4 DEF Acceptance
<1>4. CASE LintFile
  <2>1. CASE NextFile
    BY <1>1, <2>1 DEF NextFile
  <2>2. CASE UNCHANGED <<todo, accepted, conflicts, phase>>
    BY <1>4, <2>2 DEF LintFile, Idle, InFile, Acceptance, FirstLoop, AcceptedAreDisjoint, AcceptedByPriority
  <2> QED
    BY <1>4, <2>1, <2>2 DEF LintFile
<1>5. CASE RereadFile
  BY <1>5 DEF RereadFile, Apply, Acceptance, FirstLoop, AcceptedAreDisjoint, AcceptedByPriority, Seen
<1>6. CASE RewriteText
  <2>1. CASE AcceptFix
    <3>1. PICK i \in todo :
            /\ \A j \in todo \ {i} : priority_greater(i, j)
            /\ todo' = todo \ {i}
            /\ IF Clashes(i) = {}
               THEN accepted' = accepted \cup EditsOf(i) /\ conflicts' = conflicts
               ELSE conflicts' = conflicts \cup Conflict(i) /\ accepted' = accepted
      BY <2>1 DEF AcceptFix
    <3>2. phase = "accept" /\ phase' = phase /\ fixes' = fixes
      BY <2>1 DEF AcceptFix
    <3> QED
      BY <3>1, <3>2, AcceptKeepsAcceptance, DropKeepsAcceptance
  <2>2. CASE StartSplicing
    BY <2>2, <1>3 DEF StartSplicing
  <2>3. CASE SpliceEdit
    BY <2>3, <1>3 DEF SpliceEdit
  <2>4. CASE Return
    BY <2>4, <1>3 DEF Return, Acceptance, FirstLoop
  <2> QED
    BY <1>6, <2>1, <2>2, <2>3, <2>4 DEF RewriteText, RewriterStep
<1>7. CASE RefuseFile \/ RereadFails \/ OpenFails \/ WriteFile \/ WriteFails
  BY <1>1, <1>7 DEF RefuseFile, RereadFails, OpenFails, WriteFile, WriteFails, NextFile
<1>8. CASE RereadThrows \/ TruncateFile \/ Exit \/ Killed \/ OtherProgramSaves \/ UNCHANGED vars
  BY <1>2, <1>8 DEF RereadThrows, TruncateFile, Exit, Killed, OtherProgramSaves, vars
<1> QED
  BY <1>4, <1>5, <1>6, <1>7, <1>8 DEF Next

\* The whole invariant of the first loop, from which the theorems below follow.
LEMMA AcceptanceAlways == Spec => [](TypeOK /\ Idle /\ InFile /\ Acceptance)
<1>1. Init => TypeOK /\ Idle /\ InFile /\ Acceptance
  BY StartType DEF Init, Acceptance, FirstLoop, AcceptedAreDisjoint, AcceptedByPriority
<1>2. TypeOK /\ Idle /\ InFile /\ Acceptance /\ [Next]_vars => (TypeOK /\ Idle /\ InFile /\ Acceptance)'
  BY NextKeepsType, NextKeepsAcceptance
<1> QED
  BY <1>1, <1>2, PTL DEF Spec

\* Edits accepted from two fixes never overlap, for any list of diagnostics.
THEOREM NoTwoFixesOverlap == Spec => []AcceptedAreDisjoint
<1>1. Acceptance => AcceptedAreDisjoint
  BY DEF Acceptance
<1> QED
  BY <1>1, AcceptanceAlways, PTL

\* A fix is accepted exactly when it meets no accepted fix of higher priority.
THEOREM TheBetterFixWins == Spec => []AcceptedByPriority
<1>1. Acceptance => AcceptedByPriority
  BY DEF Acceptance
<1> QED
  BY <1>1, AcceptanceAlways, PTL

-----------------------------------------------------------------------------
(* What is told of the fixes that lost *)

\* The naturals are well-founded: something has the smallest key.
LEMMA SmallestKey ==
  ASSUME NEW S, S # {}, NEW key \in [S -> Nat]
  PROVE  \E c \in S : \A d \in S : key[c] <= key[d]
<1> DEFINE T == {key[c] : c \in S}
<1>1. T \subseteq Nat /\ T # {}
  OBVIOUS
<1>2. PICK x \in T : \A y \in T : <<y, x>> \notin OpToRel(<, Nat)
  BY <1>1, NatLessThanWellFounded, WFMin
<1>3. \A y \in T : ~(y < x)
  BY <1>1, <1>2 DEF OpToRel
<1>4. PICK c \in S : x = key[c]
  OBVIOUS
<1>5. ASSUME NEW d \in S PROVE key[c] <= key[d]
  <2>1. key[d] \in T /\ key[c] \in Nat /\ key[d] \in Nat
    OBVIOUS
  <2>2. ~(key[d] < key[c])
    BY <1>3, <1>4, <2>1
  <2> QED
    BY <2>1, <2>2
<1> QED
  BY <1>5

\* The clash the two loops meet first exists and is the only one: edits of the
\* dropped fix come in their order, accepted ones in that of priorities.
LEMMA OneOverlap ==
  ASSUME TypeOK, NEW i \in DOMAIN fixes, Clashes(i) # {}
  PROVE  \E c \in Clashes(i) : find_overlap(i) = {c}
<1> DEFINE S == Clashes(i)
           rank(k) == severity_rank[fixes[k].severity]
<1>1. \A c \in S :
        /\ c = <<c[1], c[2]>> /\ c[1] \in EditsOf(i) /\ c[2] \in accepted
        /\ c[1] = <<i, c[1][2]>> /\ c[1][2] \in Nat
        /\ c[2] = <<c[2][1], c[2][2]>> /\ c[2][1] \in DOMAIN fixes
        /\ c[2][1] \in Nat /\ c[2][2] \in Nat
  <2> SUFFICES ASSUME NEW c \in S
               PROVE  /\ c = <<c[1], c[2]>> /\ c[1] \in EditsOf(i) /\ c[2] \in accepted
                      /\ c[1] = <<i, c[1][2]>> /\ c[1][2] \in Nat
                      /\ c[2] = <<c[2][1], c[2][2]>> /\ c[2][1] \in DOMAIN fixes
                      /\ c[2][1] \in Nat /\ c[2][2] \in Nat
    OBVIOUS
  <2>1. c = <<c[1], c[2]>> /\ c[1] \in EditsOf(i) /\ c[2] \in accepted
    BY DEF Clashes
  <2>2. ASSUME NEW k \in DOMAIN fixes PROVE DOMAIN fixes[k].edits \subseteq Nat
    <3>1. fixes[k] \in Diagnostic
      BY <2>2 DEF TypeOK
    <3> QED
      BY <3>1 DEF Diagnostic
  <2>3. c[1] = <<i, c[1][2]>> /\ c[1][2] \in Nat
    BY <2>1, <2>2 DEF EditsOf
  <2>4. c[2] = <<c[2][1], c[2][2]>> /\ c[2][1] \in DOMAIN fixes /\ c[2][2] \in Nat
    BY <2>1, <2>2 DEF TypeOK, EditsOf
  <2> QED
    BY <2>1, <2>3, <2>4 DEF TypeOK
<1>2. \A k \in DOMAIN fixes : rank(k) \in 0..2 /\ fixes[k].code \in Nat
  <2> SUFFICES ASSUME NEW k \in DOMAIN fixes PROVE rank(k) \in 0..2 /\ fixes[k].code \in Nat
    OBVIOUS
  <2>1. fixes[k] \in Diagnostic
    BY DEF TypeOK
  <2> QED
    BY <2>1 DEF Diagnostic, Severity, severity_rank
<1> DEFINE k1 == [c \in S |-> c[1][2]]
           k2 == [c \in S |-> 2 - rank(c[2][1])]
           k3 == [c \in S |-> fixes[c[2][1]].code]
           k4 == [c \in S |-> c[2][1]]
           k5 == [c \in S |-> c[2][2]]
<1>3. /\ k1 \in [S -> Nat] /\ k2 \in [S -> Nat] /\ k3 \in [S -> Nat]
      /\ k4 \in [S -> Nat] /\ k5 \in [S -> Nat]
  <2>1. \A c \in S : 2 - rank(c[2][1]) \in Nat /\ fixes[c[2][1]].code \in Nat
    BY <1>1, <1>2
  <2> QED
    BY <1>1, <2>1
<1>4. \A c \in S : /\ k1[c] = c[1][2] /\ k2[c] = 2 - rank(c[2][1])
                   /\ k3[c] = fixes[c[2][1]].code
                   /\ k4[c] = c[2][1] /\ k5[c] = c[2][2]
  OBVIOUS
<1> DEFINE Ahead(c, d) ==
             \/ k1[c] < k1[d]
             \/ k1[c] = k1[d] /\ k2[c] < k2[d]
             \/ k1[c] = k1[d] /\ k2[c] = k2[d] /\ k3[c] < k3[d]
             \/ k1[c] = k1[d] /\ k2[c] = k2[d] /\ k3[c] = k3[d] /\ k4[c] < k4[d]
             \/ k1[c] = k1[d] /\ k2[c] = k2[d] /\ k3[c] = k3[d] /\ k4[c] = k4[d]
                /\ k5[c] < k5[d]
<1>5. \A c, d \in S :
        (\/ c[1][2] < d[1][2]
         \/ c[1] = d[1] /\ (c[2] = d[2] \/ PushedBefore(c[2], d[2])))
        <=> c = d \/ Ahead(c, d)
  <2> SUFFICES ASSUME NEW c \in S, NEW d \in S
               PROVE (\/ c[1][2] < d[1][2]
                      \/ c[1] = d[1] /\ (c[2] = d[2] \/ PushedBefore(c[2], d[2])))
                     <=> c = d \/ Ahead(c, d)
    OBVIOUS
  <2>1. c[1] = d[1] <=> k1[c] = k1[d]
    BY <1>1, <1>4
  <2>2. c = d <=> c[1] = d[1] /\ c[2] = d[2]
    BY <1>1
  <2>3. c[2] = d[2] <=> k4[c] = k4[d] /\ k5[c] = k5[d]
    BY <1>1, <1>4
  <2>4. k4[c] = k4[d] => k2[c] = k2[d] /\ k3[c] = k3[d]
    BY <1>4
  <2>5. rank(c[2][1]) \in Int /\ rank(d[2][1]) \in Int
    BY <1>1, <1>2
  <2>6. priority_greater(c[2][1], d[2][1]) <=>
          \/ k2[c] < k2[d]
          \/ k2[c] = k2[d] /\ k3[c] < k3[d]
          \/ k2[c] = k2[d] /\ k3[c] = k3[d] /\ k4[c] < k4[d]
    <3>1. /\ rank(c[2][1]) > rank(d[2][1]) <=> k2[c] < k2[d]
          /\ rank(c[2][1]) = rank(d[2][1]) <=> k2[c] = k2[d]
      BY <1>4, <2>5
    <3> QED
      BY <3>1, <1>4 DEF priority_greater
  <2>7. PushedBefore(c[2], d[2]) <=>
          IF k4[c] = k4[d] THEN k5[c] < k5[d]
          ELSE \/ k2[c] < k2[d]
               \/ k2[c] = k2[d] /\ k3[c] < k3[d]
               \/ k2[c] = k2[d] /\ k3[c] = k3[d] /\ k4[c] < k4[d]
    BY <1>4, <2>6 DEF PushedBefore
  <2>8. /\ k1[c] \in Nat /\ k2[c] \in Nat /\ k3[c] \in Nat /\ k4[c] \in Nat /\ k5[c] \in Nat
        /\ k1[d] \in Nat /\ k2[d] \in Nat /\ k3[d] \in Nat /\ k4[d] \in Nat /\ k5[d] \in Nat
    BY <1>3
  <2>9. k1[c] = c[1][2] /\ k1[d] = d[1][2]
    BY <1>4
  <2> HIDE DEF k1, k2, k3, k4, k5, rank
  <2> QED
    BY <2>1, <2>2, <2>3, <2>4, <2>7, <2>8, <2>9
<1> HIDE DEF k1, k2, k3, k4, k5, rank, S
<1>6. \E c \in S : \A d \in S : c = d \/ Ahead(c, d)
  <2>1. S # {}
    BY DEF S
  <2>2. PICK c1 \in S : \A d \in S : k1[c1] <= k1[d]
    BY <1>3, <2>1, SmallestKey
  <2>3. PICK c2 \in S : k1[c2] = k1[c1] /\ \A d \in S : k1[d] = k1[c1] => k2[c2] <= k2[d]
    <3> DEFINE D == {d \in S : k1[d] = k1[c1]}
               g == [d \in D |-> k2[d]]
    <3>1. D # {} /\ g \in [D -> Nat]
      BY <1>3, <2>2
    <3>2. \E c \in D : \A d \in D : g[c] <= g[d]
      BY <3>1, SmallestKey
    <3> QED
      BY <3>2
  <2>4. PICK c3 \in S : /\ k1[c3] = k1[c1] /\ k2[c3] = k2[c2]
                        /\ \A d \in S : k1[d] = k1[c1] /\ k2[d] = k2[c2] => k3[c3] <= k3[d]
    <3> DEFINE D == {d \in S : k1[d] = k1[c1] /\ k2[d] = k2[c2]}
               g == [d \in D |-> k3[d]]
    <3>1. D # {} /\ g \in [D -> Nat]
      BY <1>3, <2>3
    <3>2. \E c \in D : \A d \in D : g[c] <= g[d]
      BY <3>1, SmallestKey
    <3> QED
      BY <3>2
  <2>5. PICK c4 \in S :
          /\ k1[c4] = k1[c1] /\ k2[c4] = k2[c2] /\ k3[c4] = k3[c3]
          /\ \A d \in S : k1[d] = k1[c1] /\ k2[d] = k2[c2] /\ k3[d] = k3[c3]
               => k4[c4] <= k4[d]
    <3> DEFINE D == {d \in S : k1[d] = k1[c1] /\ k2[d] = k2[c2] /\ k3[d] = k3[c3]}
               g == [d \in D |-> k4[d]]
    <3>1. D # {} /\ g \in [D -> Nat]
      BY <1>3, <2>4
    <3>2. \E c \in D : \A d \in D : g[c] <= g[d]
      BY <3>1, SmallestKey
    <3> QED
      BY <3>2
  <2>6. PICK c5 \in S :
          /\ k1[c5] = k1[c1] /\ k2[c5] = k2[c2] /\ k3[c5] = k3[c3] /\ k4[c5] = k4[c4]
          /\ \A d \in S :
               k1[d] = k1[c1] /\ k2[d] = k2[c2] /\ k3[d] = k3[c3] /\ k4[d] = k4[c4]
               => k5[c5] <= k5[d]
    <3> DEFINE D == {d \in S : /\ k1[d] = k1[c1] /\ k2[d] = k2[c2]
                               /\ k3[d] = k3[c3] /\ k4[d] = k4[c4]}
               g == [d \in D |-> k5[d]]
    <3>1. D # {} /\ g \in [D -> Nat]
      BY <1>3, <2>5
    <3>2. \E c \in D : \A d \in D : g[c] <= g[d]
      BY <3>1, SmallestKey
    <3> QED
      BY <3>2
  <2>7. \A c, d \in S : k1[c] = k1[d] /\ k4[c] = k4[d] /\ k5[c] = k5[d] => c = d
    BY <1>1, <1>4
  <2>8. ASSUME NEW d \in S PROVE c5 = d \/ Ahead(c5, d)
    <3>1. /\ k1[c5] \in Nat /\ k2[c5] \in Nat /\ k3[c5] \in Nat /\ k4[c5] \in Nat
          /\ k5[c5] \in Nat /\ k1[d] \in Nat /\ k2[d] \in Nat /\ k3[d] \in Nat
          /\ k4[d] \in Nat /\ k5[d] \in Nat
      BY <1>3, <2>8
    <3> QED
      BY <2>2, <2>3, <2>4, <2>5, <2>6, <2>7, <2>8, <3>1
  <2> QED
    BY <2>8
<1>7. \A c, d \in S : ~(Ahead(c, d) /\ (c = d \/ Ahead(d, c)))
  <2> SUFFICES ASSUME NEW c \in S, NEW d \in S
               PROVE  ~(Ahead(c, d) /\ (c = d \/ Ahead(d, c)))
    OBVIOUS
  <2>1. /\ k1[c] \in Nat /\ k2[c] \in Nat /\ k3[c] \in Nat /\ k4[c] \in Nat /\ k5[c] \in Nat
        /\ k1[d] \in Nat /\ k2[d] \in Nat /\ k3[d] \in Nat /\ k4[d] \in Nat /\ k5[d] \in Nat
    BY <1>3
  <2> QED
    BY <2>1
<1>8. find_overlap(i) = {c \in S : \A d \in S : c = d \/ Ahead(c, d)}
  BY <1>5 DEF find_overlap, S
<1> HIDE DEF Ahead
<1> QED
  BY <1>6, <1>7, <1>8 DEF S

\* A fix that is dropped is told with the first accepted edit it ran into; what
\* was told of the others stays true as more is accepted.
LEMMA DropIsTold ==
  ASSUME TypeOK, Acceptance, ConflictsNameTheWinner, phase = "accept",
         NEW i \in todo,
         todo' = todo \ {i}, fixes' = fixes, phase' = phase, accepted' = accepted,
         Clashes(i) # {}, conflicts' = conflicts \cup Conflict(i)
  PROVE  ConflictsNameTheWinner'
<1>1. /\ \A k : EditsOf(k)' = EditsOf(k)
      /\ \A e : Edit(e)' = Edit(e)
      /\ \A k, l : priority_greater(k, l)' <=> priority_greater(k, l)
      /\ collect_fixes(fixes)' = collect_fixes(fixes)
  BY DEF EditsOf, Edit, priority_greater, collect_fixes
<1>2. i \in collect_fixes(fixes) /\ i \notin Seen /\ Seen' = Seen \cup {i} /\ i \in DOMAIN fixes
  BY <1>1 DEF Acceptance, FirstLoop, Seen, TypeOK
<1>3. PICK c \in Clashes(i) : find_overlap(i) = {c}
  BY <1>2, OneOverlap
<1>4. Conflict(i) = {[dropped |-> i, winner |-> c[2]]}
  BY <1>3 DEF Conflict
<1>5. /\ c[1] \in EditsOf(i) /\ c[2] \in accepted /\ overlaps(Edit(c[1]), Edit(c[2]))
      /\ priority_greater(c[2][1], i)
  BY DEF Clashes, Acceptance, FirstLoop
<1>6. ~(EditsOf(i) \subseteq accepted)
  BY <1>2, <1>5 DEF Acceptance, FirstLoop, EditsOf
<1>7. {d \in conflicts' : d.dropped = i} = {[dropped |-> i, winner |-> c[2]]}
  <2>1. \A d \in conflicts : d.dropped # i
    BY <1>2 DEF Acceptance, FirstLoop
  <2> QED
    BY <1>4, <2>1
<1>8. \A k \in Seen : {d \in conflicts' : d.dropped = k} = {d \in conflicts : d.dropped = k}
  BY <1>2, <1>4
<1>9. \A k \in Seen :
        IF EditsOf(k) \subseteq accepted
        THEN {d \in conflicts : d.dropped = k} = {}
        ELSE \E w \in accepted :
               /\ {d \in conflicts : d.dropped = k} = {[dropped |-> k, winner |-> w]}
               /\ priority_greater(w[1], k)
               /\ \E e \in EditsOf(k) : overlaps(Edit(e), Edit(w))
  BY DEF ConflictsNameTheWinner, Seen
<1>10. \A k \in Seen' :
        IF EditsOf(k) \subseteq accepted
        THEN {d \in conflicts' : d.dropped = k} = {}
        ELSE \E w \in accepted :
               /\ {d \in conflicts' : d.dropped = k} = {[dropped |-> k, winner |-> w]}
               /\ priority_greater(w[1], k)
               /\ \E e \in EditsOf(k) : overlaps(Edit(e), Edit(w))
  <2>1. ASSUME NEW k \in Seen
        PROVE  IF EditsOf(k) \subseteq accepted
               THEN {d \in conflicts' : d.dropped = k} = {}
               ELSE \E w \in accepted :
                      /\ {d \in conflicts' : d.dropped = k} = {[dropped |-> k, winner |-> w]}
                      /\ priority_greater(w[1], k)
                      /\ \E e \in EditsOf(k) : overlaps(Edit(e), Edit(w))
    BY <1>8, <1>9
  <2> QED
    BY <1>2, <1>5, <1>6, <1>7, <2>1
<1> QED
  BY <1>1, <1>10 DEF ConflictsNameTheWinner, Seen

LEMMA AcceptIsQuiet ==
  ASSUME TypeOK, Acceptance, ConflictsNameTheWinner, phase = "accept",
         NEW i \in todo,
         todo' = todo \ {i}, fixes' = fixes, phase' = phase, conflicts' = conflicts,
         accepted' = accepted \cup EditsOf(i)
  PROVE  ConflictsNameTheWinner'
<1>1. /\ \A k : EditsOf(k)' = EditsOf(k)
      /\ \A e : Edit(e)' = Edit(e)
      /\ \A k, l : priority_greater(k, l)' <=> priority_greater(k, l)
      /\ collect_fixes(fixes)' = collect_fixes(fixes)
  BY DEF EditsOf, Edit, priority_greater, collect_fixes
<1>2. i \in collect_fixes(fixes) /\ i \notin Seen /\ Seen' = Seen \cup {i}
  BY <1>1 DEF Acceptance, FirstLoop, Seen, TypeOK
<1>3. {d \in conflicts : d.dropped = i} = {}
  BY <1>2 DEF Acceptance, FirstLoop
<1>4. ASSUME NEW k \in Seen
      PROVE  IF EditsOf(k) \subseteq accepted'
             THEN {d \in conflicts : d.dropped = k} = {}
             ELSE \E w \in accepted' :
                    /\ {d \in conflicts : d.dropped = k} = {[dropped |-> k, winner |-> w]}
                    /\ priority_greater(w[1], k)
                    /\ \E e \in EditsOf(k) : overlaps(Edit(e), Edit(w))
  <2>1. EditsOf(k) \cap EditsOf(i) = {}
    BY <1>2, <1>4 DEF EditsOf
  <2>2. EditsOf(k) \subseteq accepted' <=> EditsOf(k) \subseteq accepted
    BY <2>1
  <2>3. IF EditsOf(k) \subseteq accepted
        THEN {d \in conflicts : d.dropped = k} = {}
        ELSE \E w \in accepted :
               /\ {d \in conflicts : d.dropped = k} = {[dropped |-> k, winner |-> w]}
               /\ priority_greater(w[1], k)
               /\ \E e \in EditsOf(k) : overlaps(Edit(e), Edit(w))
    BY <1>4 DEF ConflictsNameTheWinner, Seen
  <2> QED
    BY <2>2, <2>3
<1> QED
  BY <1>1, <1>2, <1>3, <1>4 DEF ConflictsNameTheWinner, Seen

LEMMA NextKeepsTold ==
  ASSUME TypeOK, Idle, InFile, Acceptance, ConflictsNameTheWinner, [Next]_vars
  PROVE  ConflictsNameTheWinner'
<1>1. ASSUME Forget PROVE ConflictsNameTheWinner'
  BY <1>1 DEF Forget, ConflictsNameTheWinner
<1>2. ASSUME UNCHANGED <<fixes, todo, accepted, conflicts>>,
             (phase' = "idle") <=> (phase = "idle")
      PROVE  ConflictsNameTheWinner'
  <2>1. CASE phase = "idle"
    BY <1>2, <2>1 DEF Idle, ConflictsNameTheWinner
  <2>2. CASE phase # "idle"
    <3>1. /\ \A k : EditsOf(k)' = EditsOf(k)
          /\ \A e : Edit(e)' = Edit(e)
          /\ \A k, l : priority_greater(k, l)' <=> priority_greater(k, l)
          /\ collect_fixes(fixes)' = collect_fixes(fixes)
      BY <1>2 DEF EditsOf, Edit, priority_greater, collect_fixes
    <3>2. phase' # "idle"
      BY <1>2, <2>2
    <3> QED
      BY <1>2, <2>2, <3>1, <3>2 DEF ConflictsNameTheWinner
  <2> QED
    BY <2>1, <2>2
<1>3. CASE LintFile
  <2>1. CASE NextFile
    BY <1>1, <2>1 DEF NextFile
  <2>2. CASE UNCHANGED <<todo, accepted, conflicts, phase>>
    BY <1>3, <2>2 DEF LintFile, Idle, InFile, ConflictsNameTheWinner
  <2> QED
    BY <1>3, <2>1, <2>2 DEF LintFile
<1>4. CASE RereadFile
  BY <1>4 DEF RereadFile, Apply, ConflictsNameTheWinner
<1>5. CASE RewriteText
  <2>1. CASE AcceptFix
    BY <2>1, AcceptIsQuiet, DropIsTold DEF AcceptFix
  <2>2. CASE StartSplicing \/ SpliceEdit \/ Return
    BY <2>2, <1>2 DEF StartSplicing, SpliceEdit, Return
  <2> QED
    BY <1>5, <2>1, <2>2 DEF RewriteText, RewriterStep
<1>6. CASE RefuseFile \/ RereadFails \/ OpenFails \/ WriteFile \/ WriteFails
  BY <1>1, <1>6 DEF RefuseFile, RereadFails, OpenFails, WriteFile, WriteFails, NextFile
<1>7. CASE RereadThrows \/ TruncateFile \/ Exit \/ Killed \/ OtherProgramSaves \/ UNCHANGED vars
  BY <1>2, <1>7 DEF RereadThrows, TruncateFile, Exit, Killed, OtherProgramSaves, vars, rewriterVars
<1> QED
  BY <1>3, <1>4, <1>5, <1>6, <1>7 DEF Next

\* Whoever loses is told, once, of a better fix that it meets.
THEOREM LosersAreTold == Spec => []ConflictsNameTheWinner
<1>1. Init => ConflictsNameTheWinner
  BY DEF Init, ConflictsNameTheWinner
<1>2. TypeOK /\ Idle /\ InFile /\ Acceptance /\ ConflictsNameTheWinner /\ [Next]_vars
        => ConflictsNameTheWinner'
  BY NextKeepsTold
<1> QED
  BY <1>1, <1>2, AcceptanceAlways, PTL DEF Spec

-----------------------------------------------------------------------------
(* The second loop: what the splices replace *)

SecondLoop ==
  /\ phase = "accept" => out = source
  /\ phase # "idle" \/ step = "reread" => MadeFor(fixes, linted)
  /\ EditsReplaceWhatTheRuleSaw

LEMMA MadeForFacts ==
  ASSUME TypeOK, MadeFor(fixes, linted), NEW e \in accepted, NEW f \in accepted
  PROVE  /\ Edit(e).lo <= Edit(e).hi /\ Edit(e).hi <= Len(linted)
         /\ e[1] = f[1] /\ e # f => ~overlaps(Edit(e), Edit(f))
         /\ Edit(e).lo = Edit(f).lo /\ Edit(e).hi = Edit(e).lo => Edit(f).hi = Edit(f).lo
<1>1. fixes \in Seq(Diagnostic)
  BY DEF TypeOK
<1>2. /\ e[1] \in DOMAIN fixes /\ e[2] \in DOMAIN fixes[e[1]].edits /\ e = <<e[1], e[2]>>
      /\ f[1] \in DOMAIN fixes /\ f[2] \in DOMAIN fixes[f[1]].edits /\ f = <<f[1], f[2]>>
  BY <1>1, AcceptedFacts, EditsAreTyped
<1> QED
  BY <1>2 DEF MadeFor, Edit

\* An edit that starts no later than another one ends before it starts.
LEMMA EarlierEditsEndEarlier ==
  ASSUME TypeOK, AcceptedAreDisjoint, MadeFor(fixes, linted),
         NEW e \in accepted, NEW f \in accepted, e # f, Edit(f).lo <= Edit(e).lo
  PROVE  Edit(f).hi <= Edit(e).lo
<1>1. ~overlaps(Edit(e), Edit(f))
  <2>1. CASE e[1] = f[1]
    BY <2>1, MadeForFacts
  <2>2. CASE e[1] # f[1]
    BY <2>2 DEF AcceptedAreDisjoint
  <2> QED
    BY <2>1, <2>2
<1>2. /\ Edit(e).lo <= Edit(e).hi
      /\ Edit(e).lo = Edit(f).lo /\ Edit(e).hi = Edit(e).lo => Edit(f).hi = Edit(f).lo
  BY MadeForFacts
<1>3. Edit(e).lo \in Nat /\ Edit(e).hi \in Nat /\ Edit(f).lo \in Nat /\ Edit(f).hi \in Nat
  BY AcceptedFacts
<1> QED
  BY <1>1, <1>2, <1>3 DEF overlaps

LEMMA SpliceKeepsThePrefix ==
  ASSUME NEW t \in Seq(Bytes), NEW e \in TextEdit, e.lo <= e.hi, e.hi <= Len(t)
  PROVE  e.lo <= Len(Spliced(e, t)) /\ \A k \in 1..e.lo : Spliced(e, t)[k] = t[k]
<1> DEFINE u == SubSeq(t, 1, e.lo)
           v == SubSeq(t, e.hi + 1, Len(t))
<1>1. e.lo \in Nat /\ e.hi \in Nat /\ e.replacement \in Seq(Bytes) /\ Len(t) \in Nat
  BY DEF TextEdit
<1>2. u \in Seq(Bytes) /\ Len(u) = e.lo /\ \A k \in 1..e.lo : u[k] = t[k]
  BY <1>1
<1>3. v \in Seq(Bytes)
  BY <1>1
<1>4. Spliced(e, t) = (u \o e.replacement) \o v
  <2>1. InRange(e, t)
    BY <1>1 DEF InRange
  <2> QED
    BY <2>1 DEF Spliced
<1> HIDE DEF u, v
<1>5. ASSUME NEW w \in Seq(Bytes), NEW x \in Seq(Bytes)
      PROVE  /\ w \o x \in Seq(Bytes) /\ Len(w \o x) \in Nat /\ Len(w) \in Nat /\ Len(w) <= Len(w \o x)
             /\ \A k \in 1..Len(w) : (w \o x)[k] = w[k]
  OBVIOUS
<1> DEFINE y == u \o e.replacement
<1>6. y \in Seq(Bytes) /\ Len(y) \in Nat /\ e.lo <= Len(y) /\ \A k \in 1..e.lo : y[k] = t[k]
  BY <1>1, <1>2, <1>5
<1> HIDE DEF y
<1>7. Len(y) <= Len(y \o v) /\ Len(y \o v) \in Nat /\ \A k \in 1..Len(y) : (y \o v)[k] = y[k]
  BY <1>3, <1>5, <1>6
<1>8. Spliced(e, t) = y \o v
  BY <1>4 DEF y
<1> QED
  BY <1>1, <1>6, <1>7, <1>8

LEMMA SpliceKeepsSecondLoop ==
  ASSUME TypeOK, Acceptance, SecondLoop, SpliceEdit, step' = step, linted' = linted
  PROVE  SecondLoop'
<1>1. PICK e \in unspliced :
        /\ \A f \in unspliced : Edit(f).lo <= Edit(e).lo
        /\ unspliced' = unspliced \ {e}
        /\ out' = Spliced(Edit(e), out)
  BY DEF SpliceEdit
<1>2. phase = "splice" /\ phase' = phase /\ source' = source /\ fixes' = fixes
  BY DEF SpliceEdit
<1>3. \A f : Edit(f)' = Edit(f)
  BY <1>2 DEF Edit
<1>4. MadeFor(fixes, linted) /\ MadeFor(fixes, linted)'
  BY <1>2 DEF SecondLoop, MadeFor
<1>5. ASSUME source = linted, NEW f \in unspliced'
      PROVE  Edit(f).hi <= Len(out') /\ \A k \in 1..Edit(f).hi : out'[k] = source[k]
  <2>1. f \in unspliced /\ e # f /\ e \in accepted /\ f \in accepted
    BY <1>1, <1>5 DEF TypeOK
  <2>2. Edit(f).hi <= Edit(e).lo
    BY <1>1, <1>4, <2>1, EarlierEditsEndEarlier DEF Acceptance
  <2>3. Edit(e).hi <= Len(out) /\ \A k \in 1..Edit(e).hi : out[k] = source[k]
    BY <1>2, <1>5 DEF SecondLoop, EditsReplaceWhatTheRuleSaw
  <2>4. /\ Edit(e) \in TextEdit /\ Edit(e).lo \in Nat /\ Edit(e).hi \in Nat /\ Edit(f).hi \in Nat
        /\ Edit(e).lo <= Edit(e).hi
    BY <1>4, <2>1, AcceptedFacts, MadeForFacts
  <2>5. Edit(e).lo <= Len(out') /\ \A k \in 1..Edit(e).lo : out'[k] = out[k]
    BY <1>1, <2>3, <2>4, SpliceKeepsThePrefix DEF TypeOK
  <2>6. Len(out') \in Nat
    <3>1. out' \in Seq(Bytes)
      BY <1>1, <2>4, SpliceType DEF TypeOK
    <3> QED
      BY <3>1
  <2> QED
    BY <2>2, <2>3, <2>4, <2>5, <2>6
<1>6. EditsReplaceWhatTheRuleSaw'
  BY <1>2, <1>3, <1>5 DEF EditsReplaceWhatTheRuleSaw
<1> QED
  BY <1>2, <1>4, <1>6 DEF SecondLoop

LEMMA NextKeepsSecondLoop ==
  ASSUME TypeOK, Idle, InFile, Acceptance, SecondLoop, [Next]_vars
  PROVE  SecondLoop'
<1>1. ASSUME Forget, step' = "lint" PROVE SecondLoop'
  BY <1>1 DEF Forget, SecondLoop, EditsReplaceWhatTheRuleSaw
<1>2. ASSUME UNCHANGED <<rewriterVars, linted>>, step' # "reread" \/ step' = step
      PROVE  SecondLoop'
  BY <1>2 DEF rewriterVars, SecondLoop, EditsReplaceWhatTheRuleSaw, MadeFor, Edit
<1>3. CASE LintFile
  <2>1. PICK text, list :
          /\ MadeFor(list, text)
          /\ \/ NextFile
             \/ /\ step' = "reread" /\ linted' = text /\ fixes' = list
                /\ UNCHANGED phase
    BY <1>3 DEF LintFile
  <2>2. step = "lint"
    BY <1>3 DEF LintFile
  <2>3. CASE NextFile
    BY <1>1, <2>3 DEF NextFile
  <2>4. CASE step' = "reread" /\ linted' = text /\ fixes' = list /\ UNCHANGED phase
    <3>1. MadeFor(fixes, linted)'
      BY <2>1, <2>4 DEF MadeFor
    <3>2. phase' = "idle"
      BY <2>2, <2>4 DEF InFile
    <3> QED
      BY <3>1, <3>2 DEF SecondLoop, EditsReplaceWhatTheRuleSaw
  <2> QED
    BY <2>1, <2>3, <2>4
<1>4. CASE RereadFile
  <2>1. fixes' = fixes /\ linted' = linted /\ out' = source' /\ phase' = "accept" /\ step' = "rewrite"
    BY <1>4 DEF RereadFile, Apply
  <2>2. MadeFor(fixes, linted)'
    BY <1>4, <2>1 DEF RereadFile, SecondLoop, MadeFor
  <2> QED
    BY <2>1, <2>2 DEF SecondLoop, EditsReplaceWhatTheRuleSaw
<1>5. CASE RewriteText
  <2>1. step' = step /\ linted' = linted
    BY <1>5 DEF RewriteText, cliVars
  <2>2. CASE AcceptFix
    BY <2>1, <2>2 DEF AcceptFix, SecondLoop, EditsReplaceWhatTheRuleSaw, MadeFor
  <2>3. CASE StartSplicing
    <3>1. out' = source' /\ phase' = "splice" /\ fixes' = fixes /\ unspliced' = accepted
          /\ source' = source /\ phase = "accept"
      BY <2>3 DEF StartSplicing, SecondLoop
    <3>2. MadeFor(fixes, linted) /\ MadeFor(fixes, linted)'
      BY <2>1, <3>1 DEF SecondLoop, MadeFor
    <3>3. \A f \in accepted : Edit(f)' = Edit(f) /\ Edit(f).hi <= Len(linted)
      BY <3>1, <3>2, MadeForFacts DEF Edit
    <3>4. EditsReplaceWhatTheRuleSaw'
      BY <2>1, <3>1, <3>3 DEF EditsReplaceWhatTheRuleSaw
    <3> QED
      BY <3>1, <3>2, <3>4 DEF SecondLoop
  <2>4. CASE SpliceEdit
    BY <2>1, <2>4, SpliceKeepsSecondLoop
  <2>5. CASE Return
    BY <2>1, <2>5 DEF Return, SecondLoop, EditsReplaceWhatTheRuleSaw, MadeFor
  <2> QED
    BY <1>5, <2>2, <2>3, <2>4, <2>5 DEF RewriteText, RewriterStep
<1>6. CASE RefuseFile \/ RereadFails \/ OpenFails \/ WriteFile \/ WriteFails
  BY <1>1, <1>6 DEF RefuseFile, RereadFails, OpenFails, WriteFile, WriteFails, NextFile
<1>7. CASE RereadThrows \/ TruncateFile \/ Exit \/ Killed \/ OtherProgramSaves \/ UNCHANGED vars
  BY <1>2, <1>7 DEF RereadThrows, TruncateFile, Exit, Killed, OtherProgramSaves, vars, cliVars
<1> QED
  BY <1>3, <1>4, <1>5, <1>6, <1>7 DEF Next

\* When the text has not changed since the lint, every splice replaces the very
\* bytes the rule saw, for any diagnostics whose edits are made for that text.
THEOREM SplicesHitTheirText == Spec => []EditsReplaceWhatTheRuleSaw
<1> DEFINE I == TypeOK /\ Idle /\ InFile /\ Acceptance
<1>1. Init => SecondLoop
  BY DEF Init, SecondLoop, EditsReplaceWhatTheRuleSaw
<1>2. I /\ SecondLoop /\ [Next]_vars => SecondLoop'
  BY NextKeepsSecondLoop
<1>3. SecondLoop => EditsReplaceWhatTheRuleSaw
  BY DEF SecondLoop
<1>4. Spec => []I
  BY AcceptanceAlways
<1> HIDE DEF I
<1> QED
  BY <1>1, <1>2, <1>3, <1>4, PTL DEF Spec

-----------------------------------------------------------------------------
(* What FlattenSeq returns.  The recursive function in it exists, by the least counterexample, *)
(* so its equation may be used.                                                                *)

\* One concatenation after another may be done in either order.
Joins == \A x, y, z \in Seq(Bytes) : x \o (y \o z) = (x \o y) \o z

LEMMA JoinedTwice ==
  Joins
BY ConcatAssociative DEF Joins

\* f[i] is what the first i sequences of s give.
Flattens(f, s, n) == f = [i \in 1 .. n |-> IF i = 1 THEN s[i] ELSE f[i - 1] \o s[i]]

LEMMA FlattenExists ==
  ASSUME NEW n \in Nat, NEW s
  PROVE  \E f : Flattens(f, s, n)
<1> DEFINE T == {k \in Nat : ~\E f : Flattens(f, s, k)}
<1>1. \A k \in T : k # 0 /\ k - 1 \in T
  <2> TAKE k \in T
  <2>0. k \in Nat
    OBVIOUS
  <2>1. k # 0
    <3>1. Flattens([i \in 1 .. 0 |-> s[i]], s, 0)
      BY DEF Flattens
    <3> QED
      BY <3>1
  <2>2. SUFFICES ASSUME k - 1 \notin T PROVE FALSE
    BY <2>1
  <2>3. PICK g : Flattens(g, s, k - 1)
    BY <2>1, <2>2
  <2> DEFINE h == [i \in 1 .. k |-> IF i < k THEN g[i] ELSE IF i = 1 THEN s[i] ELSE g[i - 1] \o s[i]]
  <2>4. \A i \in 1 .. k - 1 : g[i] = IF i = 1 THEN s[i] ELSE g[i - 1] \o s[i]
    BY <2>3 DEF Flattens
  <2>5. ASSUME NEW i \in 1 .. k PROVE h[i] = IF i = 1 THEN s[i] ELSE h[i - 1] \o s[i]
    <3>1. CASE i = 1
      BY <2>1, <2>4, <3>1
    <3>2. CASE i # 1
      <4>1. i - 1 \in 1 .. k - 1 /\ h[i - 1] = g[i - 1]
        BY <2>1, <3>2
      <4>2. h[i] = g[i - 1] \o s[i]
        <5>1. CASE i < k
          <6>1. i \in 1 .. k - 1
            BY <5>1
          <6> QED
            BY <2>4, <3>2, <5>1, <6>1
        <5>2. CASE ~(i < k)
          <6>1. i = k
            BY <2>0, <5>2
          <6>2. h[i] = IF i = 1 THEN s[i] ELSE g[i - 1] \o s[i]
            BY <5>2
          <6> QED
            BY <3>2, <6>1, <6>2
        <5> QED
          BY <5>1, <5>2
      <4> QED
        BY <3>2, <4>1, <4>2
    <3> QED
      BY <3>1, <3>2
  <2>6. Flattens(h, s, k)
    BY <2>5 DEF Flattens
  <2> QED
    BY <2>6
<1>2. T = {}
  <2>1. T \subseteq Nat
    OBVIOUS
  <2> HIDE DEF T
  <2> QED
    BY <1>1, <2>1, NoFirst
<1> QED
  BY <1>2

\* F[k] is the first k sequences of s in one.
Builds(F, s, n) ==
  /\ F[0] = <<>>
  /\ \A k \in 1 .. n : F[k] = F[k - 1] \o s[k]

LEMMA FlattenSeqIs ==
  ASSUME NEW n \in Nat, NEW s \in [1 .. n -> Seq(Bytes)]
  PROVE  \E F \in [0 .. n -> Seq(Bytes)] : Builds(F, s, n) /\ FlattenSeq(s) = F[n]
<1>0. Len(s) = n /\ s \in Seq(Seq(Bytes))
  OBVIOUS
<1>1. CASE n = 0
  <2>1. FlattenSeq(s) = <<>>
    BY <1>0, <1>1 DEF FlattenSeq
  <2> DEFINE F == [k \in 0 .. n |-> <<>>]
  <2>2. F \in [0 .. n -> Seq(Bytes)] /\ F[0] = <<>> /\ F[n] = <<>>
    OBVIOUS
  <2>3. 1 .. n = {}
    BY <1>1
  <2> HIDE DEF F
  <2> QED
    BY <2>1, <2>2, <2>3 DEF Builds
<1>2. CASE n # 0
  <2> DEFINE f == CHOOSE f : Flattens(f, s, n)
  <2>1. Flattens(f, s, n)
    BY FlattenExists
  <2>2. FlattenSeq(s) = f[n]
    BY <1>0, <1>2, Zenon DEF FlattenSeq, Flattens
  <2> HIDE DEF f
  <2>3. \A i \in 1 .. n : f[i] = IF i = 1 THEN s[i] ELSE f[i - 1] \o s[i]
    BY <2>1 DEF Flattens
  <2> DEFINE F == [k \in 0 .. n |-> IF k = 0 THEN <<>> ELSE f[k]]
             T == {k \in 1 .. n : f[k] \notin Seq(Bytes)}
  <2>4. \A k \in T : k # 0 /\ k - 1 \in T
    <3> TAKE k \in T
    <3>0. k \in 1 .. n /\ f[k] \notin Seq(Bytes) /\ s[k] \in Seq(Bytes)
      OBVIOUS
    <3>1. k # 1
      BY <2>3, <3>0
    <3>2. f[k] = f[k - 1] \o s[k]
      BY <2>3, <3>0, <3>1
    <3>3. k - 1 \in 1 .. n /\ k # 0
      BY <3>0, <3>1
    <3>4. f[k - 1] \in Seq(Bytes) => f[k] \in Seq(Bytes)
      BY <3>0, <3>2
    <3> QED
      BY <3>0, <3>3, <3>4
  <2>5. T = {}
    <3>1. T \subseteq Nat
      OBVIOUS
    <3> HIDE DEF T
    <3> QED
      BY <2>4, <3>1, NoFirst
  <2>6. F \in [0 .. n -> Seq(Bytes)] /\ FlattenSeq(s) = F[n]
    BY <1>2, <2>2, <2>5
  <2>7. ASSUME NEW k \in 1 .. n PROVE F[k] = F[k - 1] \o s[k]
    <3>1. CASE k = 1
      <4>1. F[k] = s[k] /\ F[k - 1] = <<>> /\ s[k] \in Seq(Bytes)
        BY <2>3, <3>1
      <4> QED
        BY <4>1
    <3>2. CASE k # 1
      <4>1. k - 1 \in 1 .. n /\ k - 1 # 0 /\ k # 0 /\ k \in 0 .. n /\ k - 1 \in 0 .. n
        BY <3>2
      <4>2. f[k] = f[k - 1] \o s[k]
        BY <2>3, <3>2
      <4> QED
        BY <4>1, <4>2
    <3> QED
      BY <3>1, <3>2
  <2>8. F[0] = <<>>
    BY <1>2
  <2> HIDE DEF F
  <2> QED
    BY <2>6, <2>7, <2>8 DEF Builds
<1> QED
  BY <1>1, <1>2

\* F is determined by s: what satisfies the equations is what FlattenSeq goes through.
LEMMA PrefixesAreOne ==
  ASSUME NEW n \in Nat, NEW s, NEW F, NEW G, Builds(F, s, n), Builds(G, s, n)
  PROVE  \A k \in 0 .. n : F[k] = G[k]
<1> DEFINE T == {k \in 0 .. n : F[k] # G[k]}
<1>1. \A k \in T : k # 0 /\ k - 1 \in T
  <2> TAKE k \in T
  <2>1. k \in 0 .. n /\ F[k] # G[k]
    OBVIOUS
  <2>2. k # 0
    BY <2>1 DEF Builds
  <2>3. k \in 1 .. n /\ k - 1 \in 0 .. n
    BY <2>1, <2>2
  <2>4. F[k] = F[k - 1] \o s[k] /\ G[k] = G[k - 1] \o s[k]
    BY <2>3 DEF Builds
  <2>5. F[k - 1] # G[k - 1]
    BY <2>1, <2>4
  <2> QED
    BY <2>2, <2>3, <2>5
<1>2. T = {}
  <2>1. T \subseteq Nat
    OBVIOUS
  <2> HIDE DEF T
  <2> QED
    BY <1>1, <2>1, NoFirst
<1> QED
  BY <1>2

LEMMA FlattenIs ==
  ASSUME NEW n \in Nat, NEW s \in [1 .. n -> Seq(Bytes)], NEW F, Builds(F, s, n)
  PROVE  FlattenSeq(s) = F[n] /\ \A k \in 0 .. n : F[k] \in Seq(Bytes)
<1>1. PICK G \in [0 .. n -> Seq(Bytes)] : Builds(G, s, n) /\ FlattenSeq(s) = G[n]
  BY FlattenSeqIs
<1>2. \A k \in 0 .. n : F[k] = G[k]
  BY <1>1, PrefixesAreOne
<1>3. n \in 0 .. n
  OBVIOUS
<1> QED
  BY <1>1, <1>2, <1>3

LEMMA FlattenType ==
  ASSUME NEW n \in Nat, NEW s \in [1 .. n -> Seq(Bytes)]
  PROVE  FlattenSeq(s) \in Seq(Bytes)
<1>1. PICK G \in [0 .. n -> Seq(Bytes)] : Builds(G, s, n) /\ FlattenSeq(s) = G[n]
  BY FlattenSeqIs
<1> QED
  BY <1>1

\* t is s with x in front.
Leads(t, x, s, n) == t[1] = x /\ \A k \in 1 .. n : t[k + 1] = s[k]

LEMMA FlattenCons ==
  ASSUME NEW n \in Nat, NEW s \in [1 .. n -> Seq(Bytes)], NEW t \in [1 .. n + 1 -> Seq(Bytes)],
         NEW x \in Seq(Bytes), Leads(t, x, s, n)
  PROVE  FlattenSeq(t) = x \o FlattenSeq(s)
<1>0. Joins
  BY JoinedTwice
<1>1. PICK F \in [0 .. n -> Seq(Bytes)] : Builds(F, s, n) /\ FlattenSeq(s) = F[n]
  BY FlattenSeqIs
<1>2. F[0] = <<>> /\ \A k \in 1 .. n : F[k] = F[k - 1] \o s[k]
  BY <1>1 DEF Builds
<1>3. n + 1 \in Nat /\ x \in Seq(Bytes)
  OBVIOUS
<1> DEFINE G == [k \in 0 .. n + 1 |-> IF k = 0 THEN <<>> ELSE x \o F[k - 1]]
<1>4. G[0] = <<>> /\ G[n + 1] = x \o F[n]
  <2>1. n + 1 \in 0 .. n + 1 /\ n + 1 # 0 /\ (n + 1) - 1 = n
    OBVIOUS
  <2> QED
    BY <2>1
<1>5. ASSUME NEW k \in 1 .. n + 1 PROVE G[k] = G[k - 1] \o t[k]
  <2>0. G[k] = x \o F[k - 1]
    <3>1. k \in 0 .. n + 1 /\ k # 0
      OBVIOUS
    <3> QED
      BY <3>1
  <2>1. CASE k = 1
    <3>1. G[k] = x /\ G[k - 1] = <<>> /\ t[k] = x
      BY <1>2, <2>0, <2>1 DEF Leads
    <3> QED
      BY <1>3, <2>1, <3>1
  <2>2. CASE k # 1
    <3>1. k - 1 \in 1 .. n /\ k - 2 \in 0 .. n /\ k - 1 \in 0 .. n + 1 /\ k - 1 # 0
          /\ (k - 1) - 1 = k - 2 /\ (k - 1) + 1 = k
      BY <2>2
    <3>2. F[k - 1] = F[k - 2] \o t[k]
      <4>1. t[(k - 1) + 1] = s[k - 1]
        BY <3>1 DEF Leads
      <4>2. F[k - 1] = F[(k - 1) - 1] \o s[k - 1]
        BY <1>2, <3>1
      <4> QED
        BY <3>1, <4>1, <4>2
    <3>3. G[k - 1] = x \o F[k - 2]
      BY <3>1
    <3>4. F[k - 2] \in Seq(Bytes) /\ t[k] \in Seq(Bytes)
      BY <3>1
    <3>5. x \o (F[k - 2] \o t[k]) = (x \o F[k - 2]) \o t[k]
      BY <1>0, <1>3, <3>4, Zenon DEF Joins
    <3> QED
      BY <2>0, <3>2, <3>3, <3>5
  <2> QED
    BY <2>1, <2>2
<1> HIDE DEF G
<1>6. Builds(G, t, n + 1)
  BY <1>4, <1>5 DEF Builds
<1>7. FlattenSeq(t) = G[n + 1]
  <2> DEFINE m == n + 1
  <2>1. m \in Nat /\ t \in [1 .. m -> Seq(Bytes)] /\ Builds(G, t, m)
    BY <1>3, <1>6
  <2> HIDE DEF m
  <2>2. FlattenSeq(t) = G[m]
    BY <2>1, FlattenIs
  <2> QED
    BY <2>2 DEF m
<1> QED
  BY <1>1, <1>4, <1>7

\* Only empty sequences.
LEMMA FlattenNothing ==
  ASSUME NEW n \in Nat, NEW s \in [1 .. n -> Seq(Bytes)],
         \A k \in 1 .. n : s[k] = <<>>
  PROVE  FlattenSeq(s) = <<>>
<1> DEFINE F == [k \in 0 .. n |-> <<>>]
<1>1. Builds(F, s, n)
  <2>1. ASSUME NEW k \in 1 .. n PROVE F[k] = F[k - 1] \o s[k]
    <3>1. F[k] = <<>> /\ F[k - 1] = <<>> /\ s[k] = <<>>
      OBVIOUS
    <3> QED
      BY <3>1
  <2>2. F[0] = <<>>
    OBVIOUS
  <2> QED
    BY <2>1, <2>2 DEF Builds
<1>2. F[n] = <<>>
  OBVIOUS
<1> QED
  BY <1>1, <1>2, FlattenIs

-----------------------------------------------------------------------------
(* Splicing into the back of a flattened text *)

\* Two sequences of chunks for the offsets of text: in d, unlike in c, the bytes from lo to hi
\* are gone and new is there.
Splits(c, d, n, text, lo, hi, new) ==
  /\ n = Len(text) + 1 /\ c \in [1 .. n -> Seq(Bytes)] /\ d \in [1 .. n -> Seq(Bytes)]
  /\ \A k \in 1 .. hi : c[k] = <<text[k]>>
  /\ \A k \in 1 .. lo : d[k] = <<text[k]>>
  /\ d[lo + 1] = IF lo = hi THEN new \o c[lo + 1] ELSE new
  /\ \A k \in lo + 2 .. hi : d[k] = <<>>
  /\ \A k \in hi + 1 .. Len(text) + 1 : k # lo + 1 => d[k] = c[k]

\* The first m sequences are the bytes of text.
Shows(c, text, m) == \A k \in 1 .. m : c[k] = <<text[k]>>
Copies(F, text, m) == \A k \in 0 .. m : F[k] = SubSeq(text, 1, k)

\* Bytes by themselves give the text they are of.
LEMMA BytesFlatten ==
  ASSUME NEW text \in Seq(Bytes), NEW m \in Nat, m <= Len(text), NEW n \in Nat, m <= n,
         NEW c \in [1 .. n -> Seq(Bytes)], NEW F, Builds(F, c, n),
         Shows(c, text, m)
  PROVE  Copies(F, text, m)
<1> DEFINE T == {k \in 0 .. m : F[k] # SubSeq(text, 1, k)}
<1>0. Len(text) \in Nat /\ m \in Nat
  OBVIOUS
<1>1. \A k \in T : k # 0 /\ k - 1 \in T
  <2> TAKE k \in T
  <2>1. k \in 0 .. m /\ F[k] # SubSeq(text, 1, k)
    OBVIOUS
  <2>2. k # 0
    <3>1. SubSeq(text, 1, 0) = <<>>
      OBVIOUS
    <3>2. F[0] = <<>>
      BY DEF Builds
    <3> QED
      BY <2>1, <3>1, <3>2
  <2>3. k \in 1 .. n /\ k \in 1 .. m /\ k - 1 \in 0 .. m /\ k \in 1 .. Len(text)
    BY <1>0, <2>1, <2>2
  <2>4. F[k] = F[k - 1] \o <<text[k]>>
    BY <2>3 DEF Builds, Shows
  <2>5. SubSeq(text, 1, k - 1) \o <<text[k]>> = SubSeq(text, 1, k)
    BY <2>3, SMTT(30)
  <2> QED
    BY <2>1, <2>2, <2>3, <2>4, <2>5
<1>2. T = {}
  <2>1. T \subseteq Nat
    OBVIOUS
  <2> HIDE DEF T
  <2> QED
    BY <1>1, <2>1, NoFirst
<1> QED
  BY <1>2 DEF Copies

\* What is before and after the cut of a text whose first part is u.
Cuts(u, g) ==
  /\ Len(u) <= Len(u \o g)
  /\ \A m \in 0 .. Len(u) : SubSeq(u \o g, 1, m) = SubSeq(u, 1, m)
  /\ SubSeq(u \o g, Len(u) + 1, Len(u \o g)) = g

LEMMA CutBehind ==
  ASSUME NEW u \in Seq(Bytes), NEW g \in Seq(Bytes)
  PROVE  Cuts(u, g)
<1>1. /\ u \o g \in Seq(Bytes) /\ Len(u) \in Nat /\ Len(g) \in Nat /\ Len(u \o g) = Len(u) + Len(g)
      /\ \A k \in 1 .. Len(u) : (u \o g)[k] = u[k]
      /\ \A k \in 1 .. Len(g) : (u \o g)[Len(u) + k] = g[k]
  OBVIOUS
<1>2. ASSUME NEW m \in 0 .. Len(u) PROVE SubSeq(u \o g, 1, m) = SubSeq(u, 1, m)
  BY <1>1
<1>3. SubSeq(u \o g, Len(u) + 1, Len(u \o g)) = g
  BY <1>1
<1> QED
  BY <1>1, <1>2, <1>3 DEF Cuts

\* What d gives is what c gives with new spliced in from lo to hi.
Replaces(c, d, lo, hi, new) ==
  /\ hi <= Len(FlattenSeq(c))
  /\ FlattenSeq(d) = SubSeq(FlattenSeq(c), 1, lo) \o new
                       \o SubSeq(FlattenSeq(c), hi + 1, Len(FlattenSeq(c)))

\* Behind hi both go on alike, whatever is there.
LEMMA SplicedFlatten ==
  ASSUME NEW text \in Seq(Bytes), NEW lo \in Nat, NEW hi \in Nat, lo <= hi, hi <= Len(text),
         NEW new \in Seq(Bytes), NEW n, NEW c, NEW d, Splits(c, d, n, text, lo, hi, new)
  PROVE  Replaces(c, d, lo, hi, new)
<1> DEFINE u == SubSeq(text, 1, hi)
           v == SubSeq(text, 1, lo) \o new
<1>0. Joins
  BY JoinedTwice
<1>14. /\ n \in Nat /\ n = Len(text) + 1
       /\ c \in [1 .. n -> Seq(Bytes)] /\ d \in [1 .. n -> Seq(Bytes)]
  BY DEF Splits
<1>1. PICK C \in [0 .. n -> Seq(Bytes)] : Builds(C, c, n) /\ FlattenSeq(c) = C[n]
  BY <1>14, FlattenSeqIs
<1>2. PICK D \in [0 .. n -> Seq(Bytes)] : Builds(D, d, n) /\ FlattenSeq(d) = D[n]
  BY <1>14, FlattenSeqIs
<1>3. Len(text) \in Nat /\ hi \in 0 .. Len(text) /\ lo \in 0 .. Len(text) /\ hi <= n /\ lo <= n /\ lo <= Len(text)
  BY <1>14
<1>4. C[hi] = u
  <2>1. Shows(c, text, hi)
    BY DEF Splits, Shows
  <2>2. Copies(C, text, hi)
    BY <1>1, <1>3, <1>14, <2>1, BytesFlatten
  <2> QED
    BY <2>2 DEF Copies
<1>5. D[lo] = SubSeq(text, 1, lo)
  <2>1. Shows(d, text, lo)
    BY DEF Splits, Shows
  <2>2. Copies(D, text, lo)
    BY <1>2, <1>3, <1>14, <2>1, BytesFlatten
  <2> QED
    BY <2>2 DEF Copies
<1>6. /\ u \in Seq(Bytes) /\ Len(u) = hi /\ v \in Seq(Bytes)
      /\ SubSeq(text, 1, lo) \in Seq(Bytes) /\ SubSeq(u, 1, lo) = SubSeq(text, 1, lo)
  <2>1. u \in Seq(Bytes) /\ Len(u) = hi /\ SubSeq(text, 1, lo) \in Seq(Bytes)
    BY <1>3
  <2>2. SubSeq(u, 1, lo) = SubSeq(text, 1, lo)
    BY <1>3, SMTT(30)
  <2> QED
    BY <2>1, <2>2
<1> HIDE DEF u, v
<1>7. \A k \in 1 .. n : C[k] = C[k - 1] \o c[k] /\ D[k] = D[k - 1] \o d[k]
  BY <1>1, <1>2 DEF Builds
<1> DEFINE Met(k, g) == C[k] = u \o g /\ D[k] = v \o g
<1>8. ASSUME lo < hi PROVE D[hi] = v
  <2> DEFINE T == {k \in lo + 1 .. hi : D[k] # v}
  <2>1. \A k \in T : k # 0 /\ k - 1 \in T
    <3> TAKE k \in T
    <3>1. k \in lo + 1 .. hi /\ D[k] # v /\ k \in 1 .. n
      BY <1>3, <1>14
    <3>2. D[k] = D[k - 1] \o d[k]
      BY <1>7, <3>1
    <3>3. k # lo + 1
      <4>1. CASE k = lo + 1
        <5>1. d[k] = new
          BY <1>8, <4>1 DEF Splits
        <5>2. D[k - 1] = D[lo]
          BY <4>1
        <5>3. D[k] = D[lo] \o new
          BY <3>2, <5>1, <5>2
        <5> QED
          BY <1>5, <3>1, <5>3 DEF v
      <4> QED
        BY <4>1
    <3>4. k \in lo + 2 .. hi /\ k - 1 \in lo + 1 .. hi /\ k - 1 \in 0 .. n /\ k # 0
      BY <1>3, <1>14, <3>1, <3>3
    <3>5. d[k] = <<>>
      BY <3>4 DEF Splits
    <3>6. D[k] = D[k - 1]
      BY <3>2, <3>4, <3>5
    <3> QED
      BY <3>1, <3>4, <3>6
  <2>2. T = {}
    <3>1. T \subseteq Nat
      OBVIOUS
    <3> HIDE DEF T
    <3> QED
      BY <2>1, <3>1, NoFirst
  <2>3. hi \in lo + 1 .. hi
    BY <1>8
  <2> QED
    BY <2>2, <2>3
<1>9. \E g \in Seq(Bytes) : Met(hi + 1, g)
  <2>0. hi + 1 \in 1 .. n /\ (hi + 1) - 1 = hi
    BY <1>3, <1>14
  <2>1. hi + 1 \in 1 .. n /\ (hi + 1) - 1 = hi /\ c[hi + 1] \in Seq(Bytes)
    BY <1>14, <2>0
  <2>2. C[hi + 1] = u \o c[hi + 1]
    BY <1>4, <1>7, <2>1
  <2>3. D[hi + 1] = v \o c[hi + 1]
    <3>1. CASE lo < hi
      <4>1. d[hi + 1] = c[hi + 1]
        BY <2>1, <3>1 DEF Splits
      <4>2. D[hi + 1] = D[hi] \o d[hi + 1]
        BY <1>7, <2>1
      <4> QED
        BY <1>8, <3>1, <4>1, <4>2
    <3>2. CASE lo = hi
      <4>1. d[hi + 1] = new \o c[hi + 1]
        BY <3>2 DEF Splits
      <4>2. D[hi + 1] = D[hi] \o d[hi + 1]
        BY <1>7, <2>1
      <4>3. D[hi + 1] = SubSeq(text, 1, lo) \o (new \o c[hi + 1])
        BY <1>5, <3>2, <4>1, <4>2
      <4> HIDE DEF Met
      <4>4. SubSeq(text, 1, lo) \o (new \o c[hi + 1]) = (SubSeq(text, 1, lo) \o new) \o c[hi + 1]
        BY <1>0, <1>6, <2>1, Zenon DEF Joins
      <4> QED
        BY <4>3, <4>4 DEF v
    <3> QED
      BY <3>1, <3>2
  <2> QED
    BY <2>1, <2>2, <2>3
<1>10. ASSUME NEW k \in hi + 2 .. n, \E g \in Seq(Bytes) : Met(k - 1, g)
       PROVE  \E g \in Seq(Bytes) : Met(k, g)
  <2>1. PICK g \in Seq(Bytes) : Met(k - 1, g)
    BY <1>10
  <2>0. k \in 1 .. n /\ k \in hi + 1 .. n /\ k # lo + 1
    BY <1>3, <1>14
  <2>2. k \in 1 .. n /\ k \in hi + 1 .. n /\ k # lo + 1 /\ c[k] \in Seq(Bytes)
    BY <1>14, <2>0
  <2>3. d[k] = c[k]
    BY <2>2 DEF Splits
  <2>4. C[k] = (u \o g) \o c[k] /\ D[k] = (v \o g) \o c[k]
    BY <1>7, <2>1, <2>2, <2>3
  <2> HIDE DEF Met
  <2>5. ASSUME NEW x \in Seq(Bytes) PROVE x \o (g \o c[k]) = (x \o g) \o c[k]
    BY <1>0, <2>2, Zenon DEF Joins
  <2>6. u \o (g \o c[k]) = (u \o g) \o c[k] /\ v \o (g \o c[k]) = (v \o g) \o c[k]
    BY <1>6, <2>5, Zenon
  <2>7. g \o c[k] \in Seq(Bytes)
    BY <2>2
  <2>8. C[k] = u \o (g \o c[k]) /\ D[k] = v \o (g \o c[k])
    BY <2>4, <2>6, Zenon
  <2> QED
    BY <2>7, <2>8 DEF Met
<1>11. \E g \in Seq(Bytes) : Met(n, g)
  <2> DEFINE T == {k \in hi + 1 .. n : ~\E g \in Seq(Bytes) : Met(k, g)}
  <2> HIDE DEF Met
  <2>1. \A k \in T : k # 0 /\ k - 1 \in T
    <3> TAKE k \in T
    <3>1. k \in hi + 1 .. n /\ ~\E g \in Seq(Bytes) : Met(k, g)
      OBVIOUS
    <3>2. k # hi + 1
      BY <1>9, <3>1
    <3>3. k \in hi + 2 .. n /\ k - 1 \in hi + 1 .. n /\ k # 0
      BY <1>14, <3>1, <3>2
    <3>4. ~\E g \in Seq(Bytes) : Met(k - 1, g)
      BY <1>10, <3>1, <3>3
    <3> QED
      BY <3>3, <3>4
  <2>2. T = {}
    <3>1. T \subseteq Nat
      OBVIOUS
    <3> HIDE DEF T
    <3> QED
      BY <2>1, <3>1, NoFirst
  <2>3. n \in hi + 1 .. n
    BY <1>3, <1>14
  <2> QED
    BY <2>2, <2>3
<1>12. PICK g \in Seq(Bytes) : FlattenSeq(c) = u \o g /\ FlattenSeq(d) = v \o g
  BY <1>1, <1>2, <1>11
<1>13. /\ hi <= Len(u \o g) /\ SubSeq(u \o g, 1, lo) = SubSeq(text, 1, lo)
       /\ SubSeq(u \o g, hi + 1, Len(u \o g)) = g
  <2>1. lo \in 0 .. Len(u)
    BY <1>3, <1>6
  <2>2. Cuts(u, g)
    BY <1>6, CutBehind
  <2>3. /\ Len(u) <= Len(u \o g) /\ SubSeq(u \o g, 1, lo) = SubSeq(u, 1, lo)
        /\ SubSeq(u \o g, Len(u) + 1, Len(u \o g)) = g
    BY <2>1, <2>2, Zenon DEF Cuts
  <2> QED
    BY <1>6, <2>3
<1> QED
  BY <1>12, <1>13 DEF v, Replaces

-----------------------------------------------------------------------------
(* The merge, one edit at a time *)

\* The parts of Merge: what is put in at an offset, whether the byte there stays.
PutAt(p, order) ==
  FlattenSeq([k \in DOMAIN order |->
    IF Edit(order[k]).lo = p THEN Edit(order[k]).replacement ELSE <<>>])
Covered(edits, p) == \E e \in edits : Edit(e).lo <= p /\ p < Edit(e).hi
ByteAt(text, edits, p) == IF p = Len(text) \/ Covered(edits, p) THEN <<>> ELSE <<text[p + 1]>>
Chunks(text, edits, order) ==
  [k \in 1 .. Len(text) + 1 |-> PutAt(k - 1, order) \o ByteAt(text, edits, k - 1)]

LEMMA MergeIs ==
  ASSUME NEW text, NEW edits
  PROVE  Merge(text, edits) = {FlattenSeq(Chunks(text, edits, order)) : order \in SetToSeqs(edits)}
BY DEF Merge, Chunks, PutAt, ByteAt, Covered

\* An order of edits, as SetToSeqs lists them.
Order(order, edits) ==
  /\ order \in [1 .. Cardinality(edits) -> edits]
  /\ \A i, j \in 1 .. Cardinality(edits) : i # j => order[i] # order[j]

LEMMA OrdersAre ==
  ASSUME NEW edits, NEW order
  PROVE  order \in SetToSeqs(edits) <=> Order(order, edits)
BY DEF SetToSeqs, Order

\* The texts that are put in at one offset.
Pieces(p, order, n) ==
  [k \in 1 .. n |-> IF Edit(order[k]).lo = p THEN Edit(order[k]).replacement ELSE <<>>]

Typed(edits) == \A e \in edits : Edit(e) \in TextEdit

LEMMA PiecesFlatten ==
  ASSUME NEW edits, Typed(edits), IsFiniteSet(edits),
         NEW order, Order(order, edits), NEW p
  PROVE  /\ Cardinality(edits) \in Nat
         /\ Pieces(p, order, Cardinality(edits)) \in [1 .. Cardinality(edits) -> Seq(Bytes)]
         /\ PutAt(p, order) = FlattenSeq(Pieces(p, order, Cardinality(edits)))
         /\ PutAt(p, order) \in Seq(Bytes)
         /\ (\A e \in edits : Edit(e).lo # p) => PutAt(p, order) = <<>>
<1> DEFINE n == Cardinality(edits)
<1>1. n \in Nat
  BY FS_CardinalityType
<1>2. order \in [1 .. n -> edits]
  BY DEF Order
<1> HIDE DEF n
<1>3. \A k \in 1 .. n : order[k] \in edits /\ Edit(order[k]).replacement \in Seq(Bytes)
  BY <1>2 DEF TextEdit, Typed
<1>4. Pieces(p, order, n) \in [1 .. n -> Seq(Bytes)]
  BY <1>3 DEF Pieces
<1>5. PutAt(p, order) = FlattenSeq(Pieces(p, order, n))
  <2>1. DOMAIN order = 1 .. n
    BY <1>2
  <2> QED
    BY <2>1 DEF PutAt, Pieces
<1>6. FlattenSeq(Pieces(p, order, n)) \in Seq(Bytes)
  BY <1>1, <1>4, FlattenType
<1>7. ASSUME \A e \in edits : Edit(e).lo # p PROVE PutAt(p, order) = <<>>
  <2>1. \A k \in 1 .. n : Pieces(p, order, n)[k] = <<>>
    BY <1>3, <1>7 DEF Pieces
  <2> QED
    BY <1>1, <1>4, <1>5, <2>1, FlattenNothing
<1> QED
  BY <1>1, <1>4, <1>5, <1>6, <1>7 DEF n

LEMMA ByteFacts ==
  ASSUME NEW text \in Seq(Bytes), NEW edits, NEW p \in 0 .. Len(text)
  PROVE  /\ ByteAt(text, edits, p) \in Seq(Bytes)
         /\ p < Len(text) /\ ~Covered(edits, p) => ByteAt(text, edits, p) = <<text[p + 1]>>
         /\ Covered(edits, p) => ByteAt(text, edits, p) = <<>>
<1>1. ASSUME p # Len(text) PROVE p + 1 \in 1 .. Len(text) /\ text[p + 1] \in Bytes
  BY <1>1
<1> QED
  BY <1>1 DEF ByteAt

\* c holds the chunk of every offset.
Fills(c, n, text, edits, order) ==
  /\ c \in [1 .. n -> Seq(Bytes)]
  /\ \A k \in 1 .. n : c[k] = PutAt(k - 1, order) \o ByteAt(text, edits, k - 1)

LEMMA ChunksAre ==
  ASSUME NEW text \in Seq(Bytes), NEW n \in Nat, n = Len(text) + 1,
         NEW edits, Typed(edits), IsFiniteSet(edits), NEW order, Order(order, edits)
  PROVE  Fills(Chunks(text, edits, order), n, text, edits, order)
<1>1. ASSUME NEW k \in 1 .. n PROVE PutAt(k - 1, order) \o ByteAt(text, edits, k - 1) \in Seq(Bytes)
  <2>1. k - 1 \in 0 .. Len(text)
    OBVIOUS
  <2>2. PutAt(k - 1, order) \in Seq(Bytes)
    BY PiecesFlatten
  <2>3. ByteAt(text, edits, k - 1) \in Seq(Bytes)
    BY <2>1, ByteFacts
  <2> QED
    BY <2>2, <2>3
<1> QED
  BY <1>1 DEF Chunks, Fills

\* Without edits the merge is the text.
LEMMA MergeOfNone ==
  ASSUME NEW text \in Seq(Bytes)
  PROVE  text \in Merge(text, {})
<1> DEFINE n == Len(text) + 1
           order == [k \in 1 .. Cardinality({}) |-> 0]
           c == Chunks(text, {}, order)
<1>1. IsFiniteSet({}) /\ Cardinality({}) = 0
  BY FS_EmptySet
<1>2. Order(order, {})
  <2>1. 1 .. Cardinality({}) = {}
    BY <1>1
  <2> QED
    BY <2>1 DEF Order
<1>3. n \in Nat /\ Len(text) \in Nat /\ n = Len(text) + 1
  OBVIOUS
<1> HIDE DEF order, n
<1>12. Typed({})
  BY DEF Typed
<1>4. /\ c \in [1 .. n -> Seq(Bytes)]
      /\ \A k \in 1 .. n : c[k] = PutAt(k - 1, order) \o ByteAt(text, {}, k - 1)
  <2>1. Fills(c, n, text, {}, order)
    BY <1>1, <1>2, <1>3, <1>12, ChunksAre
  <2> QED
    BY <2>1 DEF Fills
<1> HIDE DEF c
<1>5. \A p : PutAt(p, order) = <<>>
  BY <1>1, <1>2, <1>12, PiecesFlatten
<1>6. Shows(c, text, Len(text))
  <2>1. ASSUME NEW k \in 1 .. Len(text) PROVE c[k] = <<text[k]>>
    <3>1. k \in 1 .. n /\ k - 1 \in 0 .. Len(text) /\ k - 1 < Len(text) /\ (k - 1) + 1 = k
      BY <1>3
    <3>2. ByteAt(text, {}, k - 1) = <<text[k]>>
      <4>1. ~Covered({}, k - 1)
        BY DEF Covered
      <4> QED
        BY <3>1, <4>1, ByteFacts
    <3>3. c[k] = <<>> \o <<text[k]>>
      BY <1>4, <1>5, <3>1, <3>2
    <3>4. <<text[k]>> \in Seq(Bytes)
      OBVIOUS
    <3> QED
      BY <3>3, <3>4
  <2> QED
    BY <2>1 DEF Shows
<1>7. c[n] = <<>>
  <2>1. n \in 1 .. n /\ n - 1 = Len(text)
    BY <1>3
  <2>2. ByteAt(text, {}, n - 1) = <<>>
    BY <2>1 DEF ByteAt
  <2> QED
    BY <1>4, <1>5, <2>1, <2>2
<1>8. PICK C \in [0 .. n -> Seq(Bytes)] : Builds(C, c, n) /\ FlattenSeq(c) = C[n]
  BY <1>3, <1>4, FlattenSeqIs
<1>9. Copies(C, text, Len(text))
  <2> DEFINE m == Len(text)
  <2>1. m \in Nat /\ m <= Len(text) /\ m <= n /\ Shows(c, text, m)
    BY <1>3, <1>6
  <2> HIDE DEF m
  <2>2. Copies(C, text, m)
    BY <1>3, <1>4, <1>8, <2>1, BytesFlatten
  <2> QED
    BY <2>2 DEF m
<1>10. C[Len(text)] = text
  <2>1. C[Len(text)] = SubSeq(text, 1, Len(text))
    BY <1>3, <1>9 DEF Copies
  <2> QED
    BY <2>1
<1>11. FlattenSeq(c) = text
  <2>1. n \in 1 .. n /\ n - 1 = Len(text)
    BY <1>3
  <2>2. C[n] = C[Len(text)] \o <<>>
    BY <1>7, <1>8, <2>1 DEF Builds
  <2> QED
    BY <1>8, <1>10, <2>2
<1> QED
  BY <1>2, <1>11, MergeIs, OrdersAre DEF c

\* One more edit, in front of the others.
Adds(more, order, e) ==
  \A p : PutAt(p, more) = (IF Edit(e).lo = p THEN Edit(e).replacement ELSE <<>>) \o PutAt(p, order)

LEMMA PutOneMore ==
  ASSUME NEW edits, IsFiniteSet(edits), NEW e, e \notin edits,
         Typed(edits), Edit(e) \in TextEdit, NEW order, Order(order, edits)
  PROVE  \E more :
           IsFiniteSet(edits \cup {e}) /\ Order(more, edits \cup {e}) /\ Adds(more, order, e)
<1> DEFINE n == Cardinality(edits)
           more == [i \in 1 .. n + 1 |-> IF i = 1 THEN e ELSE order[i - 1]]
<1>1. n \in Nat
  BY FS_CardinalityType
<1>2. IsFiniteSet(edits \cup {e}) /\ Cardinality(edits \cup {e}) = n + 1
  BY FS_AddElement
<1>3. order \in [1 .. n -> edits] /\ \A i, j \in 1 .. n : i # j => order[i] # order[j]
  BY DEF Order
<1> HIDE DEF n
<1>4. more[1] = e /\ \A i \in 2 .. n + 1 : i - 1 \in 1 .. n /\ more[i] = order[i - 1]
  BY <1>1
<1>5. \A i \in 2 .. n + 1 : more[i] \in edits /\ more[i] # e
  BY <1>3, <1>4
<1>6. more \in [1 .. n + 1 -> edits \cup {e}]
  <2>1. \A i \in 1 .. n + 1 : i = 1 \/ i \in 2 .. n + 1
    BY <1>1
  <2>2. \A i \in 1 .. n + 1 : more[i] \in edits \cup {e}
    BY <1>4, <1>5, <2>1
  <2> QED
    BY <2>2
<1> HIDE DEF more
<1>7. \A i, j \in 1 .. n + 1 : i # j => more[i] # more[j]
  <2> SUFFICES ASSUME NEW i \in 1 .. n + 1, NEW j \in 1 .. n + 1, i # j PROVE more[i] # more[j]
    OBVIOUS
  <2>1. (i = 1 \/ i \in 2 .. n + 1) /\ (j = 1 \/ j \in 2 .. n + 1)
    BY <1>1
  <2>2. CASE i = 1 \/ j = 1
    BY <1>4, <1>5, <2>1, <2>2
  <2>3. CASE i \in 2 .. n + 1 /\ j \in 2 .. n + 1
    <3>1. i - 1 \in 1 .. n /\ j - 1 \in 1 .. n /\ i - 1 # j - 1
      BY <1>1, <2>3
    <3> QED
      BY <1>3, <1>4, <2>3, <3>1
  <2> QED
    BY <2>1, <2>2, <2>3
<1>8. Order(more, edits \cup {e})
  BY <1>2, <1>6, <1>7 DEF Order
<1>9. ASSUME NEW p
      PROVE  PutAt(p, more) = (IF Edit(e).lo = p THEN Edit(e).replacement ELSE <<>>) \o PutAt(p, order)
  <2> DEFINE s == Pieces(p, order, n)
             t == Pieces(p, more, n + 1)
             x == IF Edit(e).lo = p THEN Edit(e).replacement ELSE <<>>
  <2>1. s \in [1 .. n -> Seq(Bytes)] /\ PutAt(p, order) = FlattenSeq(s)
    BY PiecesFlatten DEF n
  <2>2. t \in [1 .. n + 1 -> Seq(Bytes)] /\ PutAt(p, more) = FlattenSeq(t)
    <3> DEFINE all == edits \cup {e}
    <3>1. IsFiniteSet(all) /\ Cardinality(all) = n + 1 /\ Order(more, all)
          /\ Typed(all)
      BY <1>2, <1>8 DEF Typed
    <3> HIDE DEF all
    <3>2. /\ Pieces(p, more, Cardinality(all)) \in [1 .. Cardinality(all) -> Seq(Bytes)]
          /\ PutAt(p, more) = FlattenSeq(Pieces(p, more, Cardinality(all)))
      BY <3>1, PiecesFlatten
    <3> QED
      BY <3>1, <3>2
  <2>3. x \in Seq(Bytes)
    BY DEF TextEdit
  <2>4. Leads(t, x, s, n)
    <3>1. t[1] = x
      BY <1>1, <1>4 DEF Pieces
    <3>2. ASSUME NEW k \in 1 .. n PROVE t[k + 1] = s[k]
      <4>1. k + 1 \in 1 .. n + 1 /\ k + 1 \in 2 .. n + 1 /\ (k + 1) - 1 = k
        BY <1>1
      <4>2. more[k + 1] = order[k]
        BY <1>4, <4>1
      <4> QED
        BY <4>1, <4>2 DEF Pieces
    <3> QED
      BY <3>1, <3>2 DEF Leads
  <2> HIDE DEF s, t, x
  <2>5. FlattenSeq(t) = x \o FlattenSeq(s)
    BY <1>1, <2>1, <2>2, <2>3, <2>4, FlattenCons, Zenon
  <2> QED
    BY <2>1, <2>2, <2>5 DEF x
<1> QED
  BY <1>2, <1>8, <1>9 DEF Adds

\* A splice in front of all the edits in a merge gives a merge with this edit, too.
LEMMA MergeOfOneMore ==
  ASSUME NEW text \in Seq(Bytes), NEW edits, IsFiniteSet(edits), NEW e, e \notin edits,
         Typed(edits), Edit(e) \in TextEdit, Edit(e).lo <= Edit(e).hi, Edit(e).hi <= Len(text),
         \A f \in edits : Edit(e).hi <= Edit(f).lo,
         NEW t \in Merge(text, edits)
  PROVE  Spliced(Edit(e), t) \in Merge(text, edits \cup {e})
<1> DEFINE lo == Edit(e).lo
           hi == Edit(e).hi
           new == Edit(e).replacement
           n == Len(text) + 1
           all == edits \cup {e}
<1>1. PICK order : Order(order, edits) /\ t = FlattenSeq(Chunks(text, edits, order))
  BY MergeIs, OrdersAre
<1>2. PICK more : IsFiniteSet(all) /\ Order(more, all) /\ Adds(more, order, e)
  BY <1>1, PutOneMore
<1>12. \A p : PutAt(p, more) = (IF lo = p THEN new ELSE <<>>) \o PutAt(p, order)
  BY <1>2 DEF Adds
<1> DEFINE c == Chunks(text, edits, order)
           d == Chunks(text, all, more)
<1>3. /\ n \in Nat /\ Len(text) \in Nat /\ n = Len(text) + 1 /\ lo \in Nat /\ hi \in Nat
      /\ lo <= hi /\ hi <= Len(text) /\ new \in Seq(Bytes)
  BY DEF TextEdit
<1>4. Typed(all) /\ \A f \in edits : Edit(f).lo \in Nat /\ hi <= Edit(f).lo
  BY DEF TextEdit, Typed
<1>5. \A p : Covered(all, p) <=> Covered(edits, p) \/ (lo <= p /\ p < hi)
  BY DEF Covered
<1> HIDE DEF lo, hi, new, n, all
<1>6. \A p \in Nat : p < hi => ~Covered(edits, p)
  BY <1>3, <1>4 DEF Covered
<1>7. /\ c \in [1 .. n -> Seq(Bytes)] /\ d \in [1 .. n -> Seq(Bytes)]
      /\ \A k \in 1 .. n : c[k] = PutAt(k - 1, order) \o ByteAt(text, edits, k - 1)
      /\ \A k \in 1 .. n : d[k] = PutAt(k - 1, more) \o ByteAt(text, all, k - 1)
  <2>1. Fills(c, n, text, edits, order)
    BY <1>1, <1>3, ChunksAre
  <2>2. Fills(d, n, text, all, more)
    BY <1>2, <1>3, <1>4, ChunksAre
  <2> QED
    BY <2>1, <2>2 DEF Fills
<1> HIDE DEF c, d
<1>8. /\ \A p : PutAt(p, order) \in Seq(Bytes) /\ PutAt(p, more) \in Seq(Bytes)
      /\ \A p \in Nat : p < hi => PutAt(p, order) = <<>>
  <2>1. \A p : PutAt(p, order) \in Seq(Bytes)
    BY <1>1, <1>4, PiecesFlatten
  <2>2. \A p : PutAt(p, more) \in Seq(Bytes)
    BY <1>2, <1>4, PiecesFlatten
  <2>3. ASSUME NEW p \in Nat, p < hi PROVE PutAt(p, order) = <<>>
    <3>1. \A f \in edits : Edit(f).lo # p
      BY <1>3, <1>4, <2>3
    <3> QED
      BY <1>1, <1>4, <3>1, PiecesFlatten
  <2> QED
    BY <2>1, <2>2, <2>3
<1>9. Splits(c, d, n, text, lo, hi, new)
  <2>0. ASSUME NEW k \in 1 .. n
        PROVE  /\ k - 1 \in Nat /\ k - 1 \in 0 .. Len(text) /\ (k - 1) + 1 = k
               /\ ByteAt(text, edits, k - 1) \in Seq(Bytes) /\ ByteAt(text, all, k - 1) \in Seq(Bytes)
               /\ c[k] = PutAt(k - 1, order) \o ByteAt(text, edits, k - 1)
               /\ d[k] = PutAt(k - 1, more) \o ByteAt(text, all, k - 1)
    <3>1. k - 1 \in Nat /\ k - 1 \in 0 .. Len(text) /\ (k - 1) + 1 = k
      BY <1>3
    <3>2. ByteAt(text, edits, k - 1) \in Seq(Bytes) /\ ByteAt(text, all, k - 1) \in Seq(Bytes)
      BY <3>1, ByteFacts
    <3> QED
      BY <1>7, <3>1, <3>2
  <2>1. ASSUME NEW k \in 1 .. hi PROVE c[k] = <<text[k]>>
    <3>1. k \in 1 .. n /\ k - 1 < hi /\ k - 1 < Len(text)
      BY <1>3
    <3>2. ByteAt(text, edits, k - 1) = <<text[k]>>
      <4>1. ~Covered(edits, k - 1)
        BY <1>6, <2>0, <3>1
      <4> QED
        BY <2>0, <3>1, <4>1, ByteFacts
    <3>3. c[k] = <<>> \o ByteAt(text, edits, k - 1)
      BY <1>8, <2>0, <3>1
    <3> QED
      BY <2>0, <3>1, <3>2, <3>3
  <2>2. ASSUME NEW k \in 1 .. lo PROVE d[k] = <<text[k]>>
    <3>1. k \in 1 .. n /\ k - 1 < lo /\ k - 1 < hi /\ k - 1 < Len(text) /\ lo # k - 1 /\ ~(lo <= k - 1)
      BY <1>3
    <3>2. ByteAt(text, all, k - 1) = <<text[k]>>
      <4>1. ~Covered(all, k - 1)
        BY <1>5, <1>6, <2>0, <3>1
      <4> QED
        BY <2>0, <3>1, <4>1, ByteFacts
    <3>3. PutAt(k - 1, more) = <<>>
      <4>1. PutAt(k - 1, more) = <<>> \o <<>>
        BY <1>8, <1>12, <2>0, <3>1
      <4> QED
        BY <4>1
    <3>4. ByteAt(text, all, k - 1) \in Seq(Bytes) /\ d[k] = <<>> \o ByteAt(text, all, k - 1)
      BY <2>0, <3>1, <3>3
    <3>5. d[k] = ByteAt(text, all, k - 1)
      BY <3>4
    <3> QED
      BY <3>2, <3>5
  <2>6. lo + 1 \in 1 .. n /\ (lo + 1) - 1 = lo /\ lo \in Nat /\ lo \in 0 .. Len(text)
    BY <1>3
  <2>7. /\ d[lo + 1] = (new \o PutAt(lo, order)) \o ByteAt(text, all, lo)
        /\ c[lo + 1] = PutAt(lo, order) \o ByteAt(text, edits, lo)
        /\ ByteAt(text, edits, lo) \in Seq(Bytes)
    BY <1>12, <2>0, <2>6
  <2>3. d[lo + 1] = IF lo = hi THEN new \o c[lo + 1] ELSE new
    <3>1. CASE lo = hi
      <4>1. Covered(all, lo) <=> Covered(edits, lo)
        BY <1>3, <1>5, <3>1
      <4>2. ByteAt(text, all, lo) = ByteAt(text, edits, lo)
        BY <4>1 DEF ByteAt
      <4>3. new \o (PutAt(lo, order) \o ByteAt(text, edits, lo))
              = (new \o PutAt(lo, order)) \o ByteAt(text, edits, lo)
        <5>1. Joins
          BY JoinedTwice
        <5> QED
          <6>1. new \in Seq(Bytes) /\ PutAt(lo, order) \in Seq(Bytes)
            BY <1>3, <1>8
          <6> QED
            BY <2>7, <5>1, <6>1, Zenon DEF Joins
      <4> QED
        BY <2>7, <3>1, <4>2, <4>3
    <3>2. CASE lo # hi
      <4>1. lo < hi
        BY <1>3, <3>2
      <4>2. Covered(all, lo)
        BY <1>3, <1>5, <4>1
      <4>3. ByteAt(text, all, lo) = <<>>
        BY <2>6, <4>2, ByteFacts
      <4>4. PutAt(lo, order) = <<>>
        BY <1>8, <2>6, <4>1
      <4>5. d[lo + 1] = (new \o <<>>) \o <<>>
        BY <2>7, <4>3, <4>4
      <4> QED
        BY <1>3, <3>2, <4>5
    <3> QED
      BY <3>1, <3>2
  <2>4. ASSUME NEW k \in lo + 2 .. hi PROVE d[k] = <<>>
    <3>1. k \in 1 .. n /\ k - 1 < hi /\ lo <= k - 1 /\ lo # k - 1
      BY <1>3
    <3>2. Covered(all, k - 1)
      BY <1>5, <3>1
    <3>3. ByteAt(text, all, k - 1) = <<>>
      BY <2>0, <3>1, <3>2, ByteFacts
    <3>4. PutAt(k - 1, more) = <<>> \o <<>>
      BY <1>8, <1>12, <2>0, <3>1
    <3> QED
      BY <2>0, <3>1, <3>3, <3>4
  <2>5. ASSUME NEW k \in hi + 1 .. Len(text) + 1, k # lo + 1 PROVE d[k] = c[k]
    <3>1. k \in 1 .. n /\ ~(k - 1 < hi) /\ lo # k - 1
      BY <1>3, <2>5
    <3>2. Covered(all, k - 1) <=> Covered(edits, k - 1)
      BY <1>5, <3>1
    <3>3. ByteAt(text, all, k - 1) = ByteAt(text, edits, k - 1)
      BY <3>2 DEF ByteAt
    <3>4. PutAt(k - 1, more) = <<>> \o PutAt(k - 1, order)
      BY <1>12, <3>1
    <3>5. PutAt(k - 1, more) = PutAt(k - 1, order)
      BY <1>8, <3>4
    <3> QED
      BY <2>0, <3>1, <3>3, <3>5
  <2> QED
    BY <1>3, <1>7, <2>1, <2>2, <2>3, <2>4, <2>5 DEF Splits
<1>10. /\ hi <= Len(t)
       /\ FlattenSeq(d) = SubSeq(t, 1, lo) \o new \o SubSeq(t, hi + 1, Len(t))
  <2>1. t = FlattenSeq(c)
    BY <1>1 DEF c
  <2>2. Replaces(c, d, lo, hi, new)
    BY <1>3, <1>9, SplicedFlatten
  <2> QED
    BY <2>1, <2>2 DEF Replaces
<1>11. Spliced(Edit(e), t) = FlattenSeq(d)
  <2>1. FlattenSeq(c) \in Seq(Bytes) /\ t = FlattenSeq(c)
    BY <1>1, <1>3, <1>7, FlattenType DEF c
  <2>2. Len(t) \in Nat
    BY <2>1
  <2>3. InRange(Edit(e), t)
    BY <1>3, <1>10, <2>2 DEF InRange, lo, hi
  <2> QED
    BY <1>10, <2>3 DEF Spliced, lo, hi, new
<1> QED
  BY <1>2, <1>11, MergeIs, OrdersAre DEF d, all

-----------------------------------------------------------------------------
(* The second loop: what it returns *)

\* Merge, with the list of fixes as a parameter: it is the same list all along.
MergeBy(list, text, edits) ==
  LET At(e) == list[e[1]].edits[e[2]]
      PutIn(p, order) ==
        FlattenSeq([k \in DOMAIN order |->
          IF At(order[k]).lo = p THEN At(order[k]).replacement ELSE <<>>])
      Byte(p) ==
        IF p = Len(text) \/ \E e \in edits : At(e).lo <= p /\ p < At(e).hi
        THEN <<>> ELSE <<text[p + 1]>>
  IN {FlattenSeq([k \in 1..Len(text) + 1 |-> PutIn(k - 1, order) \o Byte(k - 1)]) :
        order \in SetToSeqs(edits)}

LEMMA MergeByIs ==
  ASSUME NEW text, NEW edits
  PROVE  MergeBy(fixes, text, edits) = Merge(text, edits)
BY DEF MergeBy, Merge, Edit

\* The copy is the merge of the source with what was spliced so far, and none of
\* that starts in front of what is left.
Woven ==
  /\ phase = "done" => unspliced = {}
  /\ phase \in {"splice", "done"} /\ source = linted =>
       /\ IsFiniteSet(accepted \ unspliced)
       /\ \A e \in unspliced, f \in accepted \ unspliced : Edit(e).lo <= Edit(f).lo
       /\ out \in MergeBy(fixes, source, accepted \ unspliced)

LEMMA SpliceKeepsWoven ==
  ASSUME TypeOK, Acceptance, SecondLoop, Woven, SpliceEdit, linted' = linted
  PROVE  Woven'
<1>1. PICK e \in unspliced :
        /\ \A f \in unspliced : Edit(f).lo <= Edit(e).lo
        /\ unspliced' = unspliced \ {e}
        /\ out' = Spliced(Edit(e), out)
  BY DEF SpliceEdit
<1>2. /\ phase = "splice" /\ phase' = phase /\ source' = source /\ fixes' = fixes
      /\ accepted' = accepted
  BY DEF SpliceEdit
<1>3. \A f : Edit(f)' = Edit(f)
  BY <1>2 DEF Edit
<1> SUFFICES ASSUME source = linted
             PROVE  /\ IsFiniteSet(accepted' \ unspliced')
                    /\ \A g \in unspliced', f \in accepted' \ unspliced' : Edit(g).lo <= Edit(f).lo
                    /\ out' \in MergeBy(fixes', source', accepted' \ unspliced')
  BY <1>2, <1>3 DEF Woven
<1> DEFINE S == accepted \ unspliced
<1>4. /\ IsFiniteSet(S) /\ out \in Merge(source, S)
      /\ \A g \in unspliced, f \in S : Edit(g).lo <= Edit(f).lo
  BY <1>2, MergeByIs DEF Woven
<1>5. e \in accepted /\ e \notin S /\ accepted' \ unspliced' = S \cup {e} /\ source \in Seq(Bytes)
  BY <1>1, <1>2 DEF TypeOK
<1>6. \A f \in S : f \in accepted /\ f # e
  BY <1>5
<1> HIDE DEF S
<1>7. Typed(S) /\ Edit(e) \in TextEdit
  BY <1>5, <1>6, AcceptedFacts DEF Typed
<1>8. MadeFor(fixes, linted)
  BY <1>2 DEF SecondLoop
<1>9. Edit(e).lo <= Edit(e).hi /\ Edit(e).hi <= Len(source)
  BY <1>5, <1>8, MadeForFacts
<1>10. \A f \in S : Edit(e).hi <= Edit(f).lo
  BY <1>1, <1>4, <1>5, <1>6, <1>8, EarlierEditsEndEarlier DEF Acceptance
<1>11. Spliced(Edit(e), out) \in Merge(source, S \cup {e})
  BY <1>4, <1>5, <1>7, <1>9, <1>10, MergeOfOneMore
<1>12. out' \in MergeBy(fixes', source', accepted' \ unspliced')
  BY <1>1, <1>2, <1>5, <1>11, MergeByIs
<1>13. IsFiniteSet(S \cup {e})
  BY <1>4, FS_AddElement
<1>14. ASSUME NEW g \in unspliced', NEW f \in S \cup {e} PROVE Edit(g).lo <= Edit(f).lo
  BY <1>1, <1>4
<1> QED
  BY <1>5, <1>12, <1>13, <1>14

LEMMA NextKeepsWoven ==
  ASSUME TypeOK, Idle, InFile, Acceptance, SecondLoop, Woven, [Next]_vars
  PROVE  Woven'
<1>1. ASSUME phase' \in {"idle", "accept"} PROVE Woven'
  BY <1>1 DEF Woven
<1>2. ASSUME UNCHANGED <<rewriterVars, linted>> PROVE Woven'
  <2>1. \A f : Edit(f)' = Edit(f)
    BY <1>2 DEF Edit, rewriterVars
  <2> QED
    BY <1>2, <2>1 DEF rewriterVars, Woven
<1>3. CASE LintFile
  <2>1. phase = "idle" /\ (NextFile \/ phase' = phase)
    BY <1>3 DEF LintFile, InFile
  <2> QED
    BY <1>1, <2>1 DEF NextFile, Forget
<1>4. CASE RereadFile
  BY <1>1, <1>4 DEF RereadFile, Apply
<1>5. CASE RewriteText
  <2>1. linted' = linted
    BY <1>5 DEF RewriteText, cliVars
  <2>2. CASE AcceptFix
    BY <1>1, <2>2 DEF AcceptFix
  <2>3. CASE StartSplicing
    <3>1. /\ out' = source /\ phase' = "splice" /\ fixes' = fixes /\ source' = source
          /\ accepted' \ unspliced' = {}
      BY <2>3 DEF StartSplicing, SecondLoop
    <3>2. out' \in MergeBy(fixes', source', {})
      <4>1. source \in Seq(Bytes)
        BY DEF TypeOK
      <4> QED
        BY <3>1, <4>1, MergeOfNone, MergeByIs
    <3> QED
      BY <3>1, <3>2, FS_EmptySet DEF Woven
  <2>4. CASE SpliceEdit
    BY <2>1, <2>4, SpliceKeepsWoven
  <2>5. CASE Return
    <3>1. phase = "splice" /\ unspliced = {}
          /\ UNCHANGED <<source, fixes, todo, accepted, conflicts, unspliced, out>>
      BY <2>5 DEF Return
    <3>2. \A f : Edit(f)' = Edit(f)
      BY <3>1 DEF Edit
    <3> QED
      BY <2>1, <3>1, <3>2 DEF Woven
  <2> QED
    BY <1>5, <2>2, <2>3, <2>4, <2>5 DEF RewriteText, RewriterStep
<1>6. CASE RefuseFile \/ RereadFails \/ OpenFails \/ WriteFile \/ WriteFails
  BY <1>1, <1>6 DEF RefuseFile, RereadFails, OpenFails, WriteFile, WriteFails, NextFile, Forget
<1>7. CASE RereadThrows \/ TruncateFile \/ Exit \/ Killed \/ OtherProgramSaves \/ UNCHANGED vars
  BY <1>2, <1>7 DEF RereadThrows, TruncateFile, Exit, Killed, OtherProgramSaves, vars, cliVars
<1> QED
  BY <1>3, <1>4, <1>5, <1>6, <1>7 DEF Next

\* The text that apply returns is the merge of the source with the accepted edits, at
\* whatever offsets they are and in whatever order those at one offset were spliced
\* (rewriter.cpp:131-152): for texts and fixes of any length, as long as the file did not
\* change since the lint.
THEOREM RewriteMerges == Spec => []RewriteIsTheMerge
<1> DEFINE I == TypeOK /\ Idle /\ InFile /\ Acceptance
<1>1. Init => SecondLoop /\ Woven
  BY DEF Init, SecondLoop, EditsReplaceWhatTheRuleSaw, Woven
<1>2. I /\ SecondLoop /\ Woven /\ [Next]_vars => (SecondLoop /\ Woven)'
  BY NextKeepsSecondLoop, NextKeepsWoven
<1>3. Woven => RewriteIsTheMerge
  <2> SUFFICES ASSUME Woven, phase = "done", source = linted
               PROVE  out \in Merge(source, accepted)
    BY DEF RewriteIsTheMerge
  <2>1. accepted \ unspliced = accepted
    BY DEF Woven
  <2> QED
    BY <2>1, MergeByIs DEF Woven
<1>4. Spec => []I
  BY AcceptanceAlways
<1> HIDE DEF I
<1> QED
  BY <1>1, <1>2, <1>3, <1>4, PTL DEF Spec

-----------------------------------------------------------------------------
(* Atomic fixes *)

\* No fix is accepted in part, whatever its edits run into.
THEOREM NoFixIsSplit == Spec => []FixesAreAtomic
<1>1. Acceptance => FixesAreAtomic
  <2> SUFFICES ASSUME Acceptance, NEW i \in DOMAIN fixes, NEW e \in EditsOf(i) \cap accepted
               PROVE  EditsOf(i) \subseteq accepted
    BY DEF FixesAreAtomic
  <2>1. e[1] = i
    BY DEF EditsOf
  <2> QED
    BY <2>1 DEF Acceptance, FirstLoop
<1> QED
  BY <1>1, AcceptanceAlways, PTL

=============================================================================
