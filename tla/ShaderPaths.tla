----------------------------- MODULE ShaderPaths -----------------------------
(***************************************************************************)
(* The reference the graph is compared with: which statement may run right *)
(* after which, read off the tree by the meaning of if, loops and switch,  *)
(* with no block in sight.  A statement is known by its first byte.        *)
(*                                                                         *)
(* Flow(n) is [null, first, last, next]: whether n can be passed without   *)
(* running a statement, the statements that can run first and last in it,  *)
(* and the pairs that can run one after the other.                         *)
(***************************************************************************)
EXTENDS CfgBuilder

Skip == [null |-> TRUE, first |-> {}, last |-> {}, next |-> {}]

Then(a, b) ==
  [null  |-> a.null /\ b.null,
   first |-> a.first \cup (IF a.null THEN b.first ELSE {}),
   last  |-> b.last \cup (IF b.null THEN a.last ELSE {}),
   next  |-> a.next \cup b.next \cup (a.last \X b.first)]

Either(a, b) ==
  [null  |-> a.null \/ b.null,
   first |-> a.first \cup b.first,
   last  |-> a.last \cup b.last,
   next  |-> a.next \cup b.next]

\* a, then back to its start any number of times.
Again(a) == [a EXCEPT !.next = @ \cup (a.last \X a.first)]

\* One statement; nothing follows a return.
Step(n) ==
  [null |-> FALSE, first |-> {n.lo},
   last |-> IF n.k = "return" THEN {} ELSE {n.lo}, next |-> {}]

RECURSIVE Flow(_)

InOrder(kids) == FoldLeft(LAMBDA acc, kid : Then(acc, Flow(kid)), Skip, kids)
AnyOf(kids) == FoldLeft(LAMBDA acc, kid : Either(acc, Flow(kid)), Skip, kids)
Test(n) == InOrder(SelectSeq(n.kids, LAMBDA kid : kid.k = "test"))

CasesOf(n) == IF Arms(n)[1].k = "block" THEN Arms(n)[1].kids ELSE Arms(n)

Flow(n) ==
  CASE n.k \in Leaves  -> Step(n)
    [] n.k = "if"      -> Then(Test(n), IF Len(Arms(n)) = 1 THEN AnyOf(Arms(n))
                                        ELSE Either(Flow(Arms(n)[1]), Flow(Arms(n)[2])))
    [] n.k = "switch"  -> Then(Test(n), AnyOf(CasesOf(n)))
    [] n.k = "loop"    -> LET turn == Then(Test(n), Flow(Arms(n)[1]))
                          IN Either(Test(n), Then(Again(turn), Test(n)))
    [] n.k = "do"      -> Again(InOrder(n.kids))
    [] n.k = "error"   -> Skip
    [] OTHER           -> InOrder(n.kids)

-----------------------------------------------------------------------------
(* Questions about a function whose flow is f.                             *)

\* What can run after the statements of `from`, not looking past `closed`.
After(f, from, closed) ==
  LET open(S) == {p[2] : p \in {q \in f.next : q[1] \in S \ closed}}
      more[n \in Nat, S \in SUBSET Nat] ==
        IF n = 0 THEN S ELSE more[n - 1, S \cup open(S)]
  IN more[Cardinality(f.next), open(from)]

Later(f, s) == After(f, {s.lo}, {})

\* The statements that can run at all, before any of `closed` has finished.
RunsBefore(f, closed) == f.first \cup After(f, f.first, closed)
Runs(f, s) == s.lo \in RunsBefore(f, {})

\* s can run twice in one call.
Repeats(f, s) == Runs(f, s) /\ s.lo \in Later(f, s)

\* x can be read before anything is assigned to it.
Reads == {"use", "return", "test"}
ReadFirst(f, leaves) ==
  \E s \in leaves :
    s.k \in Reads /\ s.lo \in RunsBefore(f, {w.lo : w \in {l \in leaves : l.k = "def"}})
=============================================================================
