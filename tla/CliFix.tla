------------------------------- MODULE CliFix -------------------------------
(***************************************************************************)
(* `shader-clippy lint [--fix] file...` (cli/src/main.cpp): the loop of     *)
(* run_lint over the files, and for each one run_lint_one: lint it, read it *)
(* again, rewrite it, and write it back in place.  Another program may save *)
(* a file meanwhile, a read or a write may fail, and the process may be     *)
(* killed between any two steps.                                            *)
(*                                                                          *)
(* What the rules find in a text is a choice among Diagnoses: any list      *)
(* whose edits lie inside the text.                                         *)
(***************************************************************************)
EXTENDS Rewriter, SequencesExt

CONSTANTS
  Paths,      \* files
  Argv,       \* opts.paths: the files named on the command line
  Texts,      \* what other programs save
  Disks,      \* what the files can hold before the run
  Diagnoses,  \* lists of diagnostics, each with its fix
  MaxSaves,   \* bound: saves by other programs during the run
  Missing     \* there is no such file

ASSUME ArgvAssumption == Argv \in Seq(Paths)
ASSUME TextsAssumption ==
  /\ Texts \subseteq Seq(Bytes)
  /\ Missing \notin Seq(Bytes)
  /\ Disks \subseteq [Paths -> Seq(Bytes) \cup {Missing}]
ASSUME SavesAssumption == MaxSaves \in Nat

\* A diagnostic with its fix: every rule attaches at most one.
Diagnostic ==
  [severity : Severity, code : Nat, machine_applicable : BOOLEAN, edits : Seq(TextEdit)]

ASSUME DiagnosesAssumption == Diagnoses \subseteq Seq(Diagnostic)

VARIABLES
  disk,       \* what each file holds
  intact,     \* history: the file holds a whole text somebody wrote
  arg,        \* files of Argv already dealt with
  step,       \* where run_lint_one is
  linted,     \* the text the SourceManager read and the rules saw
  fatal,      \* any_fatal
  worst,      \* the worst severity seen: any_error, any_warning
  exit_code,
  saves       \* saves by other programs so far

cliVars == <<disk, intact, arg, step, linted, fatal, worst, exit_code, saves>>
vars == <<rewriterVars, cliVars>>

-----------------------------------------------------------------------------
(* What the rules can report on a text *)

\* The parse tree they walk is the tree of this text, so every span lies in it;
\* a rule keeps the edits of one fix apart; and no rule inserts text where
\* another replaces some (the one that inserts does so in front of a function).
MadeFor(list, text) ==
  \A i, k \in DOMAIN list : \A j \in DOMAIN list[i].edits, l \in DOMAIN list[k].edits :
    LET e == list[i].edits[j]  f == list[k].edits[l] IN
    /\ e.lo <= e.hi /\ e.hi <= Len(text)
    /\ i = k /\ j # l => ~overlaps(e, f)
    /\ e.lo = f.lo /\ e.hi = e.lo => f.hi = f.lo

\* The fixes Rewriter::apply is given: suggestions stay behind.
collect_fixes(list) == {i \in DOMAIN list : list[i].machine_applicable}

Worst(list) ==
  IF \E i \in DOMAIN list : list[i].severity = "Error" THEN "Error"
  ELSE IF \E i \in DOMAIN list : list[i].severity = "Warning" THEN "Warning"
  ELSE "Note"

-----------------------------------------------------------------------------
Init ==
  /\ disk \in Disks
  /\ intact = [p \in Paths |-> TRUE]
  /\ arg = 0
  /\ step = "lint"
  /\ linted = <<>>
  /\ fatal = FALSE
  /\ worst = "Note"
  /\ exit_code = -1
  /\ saves = 0
  /\ source = <<>> /\ fixes = <<>> /\ todo = {} /\ accepted = {} /\ conflicts = {}
  /\ unspliced = {} /\ out = <<>> /\ phase = "idle"

Path == Argv[arg + 1]

\* run_lint_one returns and the loop takes the next file.
NextFile == arg' = arg + 1 /\ step' = "lint" /\ linted' = <<>> /\ Forget

\* No such file, one too large to read, or a configuration that does not load.
RefuseFile ==
  /\ step = "lint" /\ arg < Len(Argv)
  /\ fatal' = TRUE
  /\ NextFile
  /\ UNCHANGED <<disk, intact, worst, exit_code, saves>>

\* Lints the file and reports.  A file that cannot be opened reads as empty.
LintFile ==
  /\ step = "lint" /\ arg < Len(Argv)
  /\ disk[Path] # Missing
  /\ \E text \in {disk[Path], <<>>} : \E list \in {d \in Diagnoses : MadeFor(d, text)} :
       /\ worst' = IF severity_rank[Worst(list)] > severity_rank[worst] THEN Worst(list) ELSE worst
       /\ IF collect_fixes(list) = {}
          THEN NextFile
          ELSE /\ step' = "reread"
               /\ linted' = text
               /\ fixes' = list
               /\ UNCHANGED <<arg, source, todo, accepted, conflicts, unspliced, out, phase>>
  /\ UNCHANGED <<disk, intact, fatal, exit_code, saves>>

\* Reads the file a second time, for the rewriter.
RereadFile ==
  /\ step = "reread"
  /\ disk[Path] # Missing
  /\ Apply(disk[Path], fixes, collect_fixes(fixes))
  /\ step' = "rewrite"
  /\ UNCHANGED <<disk, intact, arg, linted, fatal, worst, exit_code, saves>>

\* The second read fails; a file that holds something can be told from an empty one.
RereadFails ==
  /\ step = "reread"
  /\ disk[Path] \notin {Missing, <<>>}
  /\ fatal' = TRUE
  /\ NextFile
  /\ UNCHANGED <<disk, intact, worst, exit_code, saves>>

\* The file is gone: is_empty throws, and main returns 2 without the files left.
RereadThrows ==
  /\ step = "reread"
  /\ disk[Path] = Missing
  /\ step' = "exited"
  /\ exit_code' = 2
  /\ UNCHANGED <<rewriterVars, disk, intact, arg, linted, fatal, worst, saves>>

RewriteText ==
  /\ step = "rewrite"
  /\ RewriterStep
  /\ UNCHANGED cliVars

\* write_file opens the file with ios::trunc.
TruncateFile ==
  /\ step = "rewrite" /\ phase = "done"
  /\ disk' = [disk EXCEPT ![Path] = <<>>]
  /\ intact' = [intact EXCEPT ![Path] = FALSE]
  /\ step' = "write"
  /\ UNCHANGED <<rewriterVars, arg, linted, fatal, worst, exit_code, saves>>

OpenFails ==
  /\ step = "rewrite" /\ phase = "done"
  /\ fatal' = TRUE
  /\ NextFile
  /\ UNCHANGED <<disk, intact, worst, exit_code, saves>>

WriteFile ==
  /\ step = "write"
  /\ disk' = [disk EXCEPT ![Path] = out]
  /\ intact' = [intact EXCEPT ![Path] = TRUE]
  /\ NextFile
  /\ UNCHANGED <<fatal, worst, exit_code, saves>>

\* The disk is full: part of the text arrives.  write_file asks good() before the
\* stream is closed, so what fails when its buffer is flushed goes unnoticed.
WriteFails ==
  /\ step = "write"
  /\ \E n \in 0..Len(out) - 1 : disk' = [disk EXCEPT ![Path] = SubSeq(out, 1, n)]
  /\ fatal' \in {fatal, TRUE}
  /\ NextFile
  /\ UNCHANGED <<intact, worst, exit_code, saves>>

Exit ==
  /\ step = "lint" /\ arg = Len(Argv)
  /\ step' = "exited"
  /\ exit_code' = IF fatal \/ worst = "Error" THEN 2 ELSE IF worst = "Warning" THEN 1 ELSE 0
  /\ UNCHANGED <<rewriterVars, disk, intact, arg, linted, fatal, worst, saves>>

Running == step \notin {"exited", "killed"}

Killed ==
  /\ Running
  /\ step' = "killed"
  /\ UNCHANGED <<rewriterVars, disk, intact, arg, linted, fatal, worst, exit_code, saves>>

\* Another program saves or removes the file being fixed.  It does not do so
\* between the truncation and the write, where the two writers' bytes would mix.
OtherProgramSaves ==
  /\ Running /\ step # "write" /\ arg < Len(Argv)
  /\ saves < MaxSaves
  /\ saves' = saves + 1
  /\ disk' \in {[disk EXCEPT ![Path] = text] : text \in Texts \cup {Missing}}
  /\ intact' = [intact EXCEPT ![Path] = TRUE]
  /\ UNCHANGED <<rewriterVars, arg, step, linted, fatal, worst, exit_code>>

Next ==
  \/ RefuseFile \/ LintFile \/ RereadFile \/ RereadFails \/ RereadThrows
  \/ RewriteText \/ TruncateFile \/ OpenFails \/ WriteFile \/ WriteFails
  \/ Exit \/ Killed \/ OtherProgramSaves

Spec == Init /\ [][Next]_vars

-----------------------------------------------------------------------------
(* Properties *)

TypeOK ==
  /\ disk \in [Paths -> Seq(Bytes) \cup {Missing}]
  /\ intact \in [Paths -> BOOLEAN]
  /\ arg \in 0..Len(Argv)
  /\ step \in {"lint", "reread", "rewrite", "write", "exited", "killed"}
  /\ linted \in Seq(Bytes)
  /\ fatal \in BOOLEAN
  /\ worst \in Severity
  /\ exit_code \in {-1, 0, 1, 2}
  /\ saves \in 0..MaxSaves
  /\ source \in Seq(Bytes)
  /\ fixes \in Seq(Diagnostic)
  /\ todo \subseteq DOMAIN fixes
  /\ accepted \subseteq UNION {EditsOf(i) : i \in DOMAIN fixes}
  /\ unspliced \subseteq accepted
  /\ conflicts \subseteq [dropped : DOMAIN fixes, winner : accepted]
  /\ out \in Seq(Bytes)
  /\ phase \in {"idle", "accept", "splice", "done"}

\* "Multi-edit fixes are atomic" (rewriter.hpp): no fix is ever accepted in part.
FixesAreAtomic ==
  \A i \in DOMAIN fixes : EditsOf(i) \subseteq accepted \/ EditsOf(i) \cap accepted = {}

Kept(i) == EditsOf(i) # {} /\ EditsOf(i) \subseteq accepted
Meet(i, j) == \E e \in EditsOf(i), f \in EditsOf(j) : overlaps(Edit(e), Edit(f))

\* The accepted fixes are those that meet no accepted fix of higher priority:
\* nothing better is lost to something worse, and nothing is lost without cause.
AcceptedByPriority ==
  phase # "idle" =>
    \A i \in collect_fixes(fixes) \ todo :
      Kept(i) <=> /\ EditsOf(i) # {}
                  /\ \A j \in collect_fixes(fixes) \ todo :
                       Kept(j) /\ Meet(i, j) => j = i \/ priority_greater(i, j)

\* The user is told of every fix that was dropped, once, and which better fix it
\* lost to: a conflict names an accepted edit the dropped fix runs into.
ConflictsNameTheWinner ==
  \A i \in collect_fixes(fixes) \ todo :
    LET told == {c \in conflicts : c.dropped = i} IN
    IF phase = "idle" \/ EditsOf(i) \subseteq accepted
    THEN told = {}
    ELSE \E w \in accepted :
           /\ told = {[dropped |-> i, winner |-> w]}
           /\ priority_greater(w[1], i)
           /\ \E e \in EditsOf(i) : overlaps(Edit(e), Edit(w))

\* Whatever fixes a driver hands in, edits accepted from two of them never overlap.
AcceptedAreDisjoint ==
  \A e, f \in accepted : e[1] # f[1] => ~overlaps(Edit(e), Edit(f))

\* An edit replaces the bytes its rule saw: when its turn comes, the copy still
\* agrees with the source up to its end, whatever the splices before it did.
EditsReplaceWhatTheRuleSaw ==
  phase = "splice" /\ source = linted =>
    \A e \in unspliced :
      Edit(e).hi <= Len(out) /\ \A k \in 1..Edit(e).hi : out[k] = source[k]

\* The rewritten text, said without an order of splicing: at every offset the
\* texts put in there, then the byte itself unless an edit covers it.
Merge(text, edits) ==
  LET PutIn(p, order) ==
        FlattenSeq([k \in DOMAIN order |->
          IF Edit(order[k]).lo = p THEN Edit(order[k]).replacement ELSE <<>>])
      Byte(p) ==
        IF p = Len(text) \/ \E e \in edits : Edit(e).lo <= p /\ p < Edit(e).hi
        THEN <<>> ELSE <<text[p + 1]>>
  IN {FlattenSeq([k \in 1..Len(text) + 1 |-> PutIn(k - 1, order) \o Byte(k - 1)]) :
        order \in SetToSeqs(edits)}

RewriteIsTheMerge ==
  phase = "done" /\ source = linted => out \in Merge(source, accepted)

\* "2: ... the linter itself failed" (docs/ci.md, Exit codes): with 0 or 1, no file
\* the run rewrote was left truncated or half-written.
GoodExitMeansWholeFiles ==
  exit_code \in {0, 1} => \A p \in Paths : intact[p]

\* "writes the result back to disk via atomic rename" (docs/decisions/0008,
\* section 3): a process killed at any moment leaves a whole text behind.
KilledLeavesWholeFiles ==
  step = "killed" => \A p \in Paths : intact[p]

=============================================================================
