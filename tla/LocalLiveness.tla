---------------------------- MODULE LocalLiveness ----------------------------
(***************************************************************************)
(* The first phase of compute_liveness (rules/util/liveness.cpp): one walk *)
(* of the tree gives the blocks that read the local x before assigning it  *)
(* and the blocks that assign it, for the sweeps of LivenessSweep.         *)
(***************************************************************************)
EXTENDS CfgQueries, CfgBuilder

NoBlock == 0

\* find_nth_block_with_exact_span: the nth block, from 0, with n's own span.
nth_block(n, nth) ==
  LET same == {b \in Blocks : Block(b).lo = n.lo /\ Block(b).hi = n.hi}
      hit(b) == Cardinality({c \in same : c < b}) = nth
  IN IF \E b \in same : hit(b) THEN CHOOSE b \in same : hit(b) ELSE NoBlock

OrElse(b, other) == IF b # NoBlock THEN b ELSE other

record_def(t, b) == [t EXCEPT !.def = @ \cup {b}]

\* A block that already assigned x does not read the caller's value.
record_use(t, b) == IF b \in t.def THEN t ELSE [t EXCEPT !.use = @ \cup {b}]

\* A bug to catch: conditions are not searched.
Mentions_NoConditions == {"use", "def", "return"}

\* Every mention of x below n, an assignment's too, counts as a read.
Mentions == {"use", "def", "return", "test"}
walk_subexpr(n, t, b) == IF n.has \cap Mentions # {} THEN record_use(t, b) ELSE t

RECURSIVE walk(_, _, _)

\* The children of n, those of the kinds `own` by `into`, others as
\* expressions of block b.
WalkKids(n, t, b, own, into(_)) ==
  FoldLeft(LAMBDA acc, kid : IF kid.k \in own THEN walk(kid, acc, into(kid))
                             ELSE walk_subexpr(kid, acc, b),
           t, n.kids)

Compounds == {"block", "if", "switch", "loop", "do"}

walk(n, t, b) ==
  CASE n.k = "def"  -> record_def(t, b)
    [] n.k = "loop" ->
         LET header == OrElse(nth_block(n, 0), b)
             body   == OrElse(nth_block(n, 1), header)
         IN WalkKids(n, t, header, {"block"}, LAMBDA kid : body)
    [] n.k = "do" ->
         LET body == OrElse(nth_block(n, 0), b)
             cond == OrElse(nth_block(n, 1), body)
         IN WalkKids(n, t, cond, {"block"}, LAMBDA kid : body)
    [] n.k \in {"if", "switch"} ->
         WalkKids(n, t, b, Compounds \cup {"case"}, locate_block)
    [] n.k = "block" ->
         FoldLeft(LAMBDA acc, kid :
                    walk(kid, acc, IF kid.k \in Compounds \cup {"return"}
                                   THEN locate_block(kid) ELSE b),
                  t, n.kids)
    [] OTHER -> walk_subexpr(n, t, b)

\* walk_function_body; x is no parameter.
Extract(fn) ==
  LET body == fn.kids[1]
  IN walk(body, [use |-> {}, def |-> {}], locate_block(body))

=============================================================================
