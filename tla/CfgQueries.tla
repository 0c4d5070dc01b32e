------------------------------ MODULE CfgQueries ------------------------------
(***************************************************************************)
(* The questions rules ask of a built graph: rules/util/cfg_query.cpp and  *)
(* the graph walks of control_flow/cfg_storage.cpp behind them.  A rule    *)
(* asks about a span of the source, and the span is first turned into the  *)
(* smallest block that encloses it.                                        *)
(***************************************************************************)
EXTENDS Dominators

Size(s) == s.hi - s.lo
contains(outer, inner) == outer.lo <= inner.lo /\ outer.hi >= inner.hi

\* locate_block, and find_enclosing_block of the liveness walker: among the
\* enclosing blocks of the smallest size, the one recorded first.
Block(b) == cfg.blocks[b]
locate_block(n) ==
  LET enclosing == {b \in Blocks : contains(Block(b), n)}
      before(a, b) == \/ Size(Block(a)) < Size(Block(b))
                      \/ Size(Block(a)) = Size(Block(b)) /\ a <= b
  IN CHOOSE b \in enclosing : \A c \in enclosing : before(b, c)

\* A search forward from `from` that neither enters nor leaves blocks of
\* `closed`; the start itself is exempt.
Forward(from, closed) == Reach([b \in Blocks |-> ToSet(Succ(b)) \ closed], {from})

reachable(from, to) == to \in Forward(from, {})

Barriers == {b \in Blocks : Block(b).contains_barrier}

\* The graph walk of CfgInfo::barrier_between.
barrier_between(from, to) ==
  /\ from # to
  /\ reachable(from, to)
  /\ \/ Block(to).contains_barrier
     \/ to \notin Forward(from, Barriers)

barrier_separates(m, n) == barrier_between(locate_block(m), locate_block(n))

\* any_reachable_discard from the span's block.
reachable_with_discard(n) ==
  /\ ~cfg.error
  /\ \E b \in Forward(locate_block(n), {}) : Block(b).contains_discard

\* An edge to a block that dominates its source is a back edge; the span is
\* in a loop when the head of one dominates the span's block.
inside_loop(n) ==
  /\ ~cfg.error
  /\ \E t \in Blocks : \E h \in ToSet(Succ(t)) :
       dominates(h, t) /\ dominates(h, locate_block(n))
=============================================================================
