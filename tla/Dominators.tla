------------------------------ MODULE Dominators ------------------------------
(***************************************************************************)
(* compute_dominators of core/src/control_flow/dominators.cpp: a           *)
(* depth-first search orders the blocks, then the immediate dominators are *)
(* improved block by block, in reverse postorder, until a whole sweep      *)
(* changes nothing.  One action is one turn of one of the code's loops.    *)
(*                                                                         *)
(* Blocks are 1 .. n with the entry at 1; 0 is the code's k_undefined.     *)
(***************************************************************************)
EXTENDS Naturals, Sequences, SequencesExt, FiniteSets, Reachability

VARIABLES
  cfg,      \* the CfgFunction: [blocks |-> <<block, ...>>, error |-> BOOLEAN]
  pc,       \* the loop that runs: "dfs", "sweep", then what the caller does
  stack,    \* the search's stack of [block, next]: the successor to try next
  seen,     \* blocks the search has pushed
  order,    \* blocks in the order the search finished them
  idom,     \* immediate dominators
  at,       \* position of the sweep
  changed   \* whether this sweep changed idom

domVars == <<stack, seen, order, idom>>

Undefined == 0
Entry == 1

Blocks == DOMAIN cfg.blocks
Succ(b) == cfg.blocks[b].succ
Frame(b) == [block |-> b, next |-> 1]

rpo == Reverse(order)

\* Higher is closer to the entry; a block never reached keeps number 0.
postorder_num ==
  [b \in Blocks |-> IF \E k \in DOMAIN order : order[k] = b
                    THEN (CHOOSE k \in DOMAIN order : order[k] = b) - 1 ELSE 0]

preds(b) == {p \in Blocks : b \in ToSet(Succ(p))}

\* The code climbs one side at a time; the entry is its own parent and is
\* never climbed past.
intersect(b1, b2) ==
  LET num == postorder_num
      meet[p \in Blocks \X Blocks] ==
        IF p[1] = p[2] THEN p[1]
        ELSE IF num[p[1]] < num[p[2]]
          THEN IF idom[p[1]] = Undefined THEN Undefined ELSE meet[<<idom[p[1]], p[2]>>]
        ELSE IF num[p[2]] < num[p[1]]
          THEN IF idom[p[2]] = Undefined THEN Undefined ELSE meet[<<p[1], idom[p[2]]>>]
        ELSE Undefined
  IN meet[<<b1, b2>>]

\* A bug to catch: the first predecessor stands for all.
NewIdom_First(b) ==
  LET ready == {p \in preds(b) : idom[p] # Undefined}
  IN IF ready = {} THEN Undefined ELSE CHOOSE p \in ready : \A q \in ready : p <= q

\* The candidate after predecessor p, of those in the order of their numbers.
\* Predecessors without a parent yet do not take part.
Joined(best, p) ==
  CASE idom[p] = Undefined -> best
    [] idom[p] # Undefined /\ best = Undefined -> p
    [] OTHER -> LET met == intersect(p, best) IN IF met = Undefined THEN best ELSE met

NewIdom(b) ==
  LET from[w \in (1 .. Len(cfg.blocks) + 1) \X (Blocks \cup {Undefined})] ==
        IF w[1] \notin Blocks THEN w[2]
        ELSE from[<<w[1] + 1, IF w[1] \in preds(b) THEN Joined(w[2], w[1]) ELSE w[2]>>]
  IN from[<<1, Undefined>>]

-----------------------------------------------------------------------------
DomInit ==
  /\ stack = IF cfg.error THEN <<>> ELSE <<Frame(Entry)>>
  /\ seen = {Entry}
  /\ order = <<>>
  /\ idom = [b \in Blocks |-> IF b = Entry THEN Entry ELSE Undefined]

\* A function skipped for a syntax error keeps its one block, its own parent.
DomSkip ==
  /\ pc = "dfs" /\ cfg.error
  /\ pc' = "dominated"
  /\ UNCHANGED <<cfg, stack, seen, order, idom, at, changed>>

DfsTry ==
  LET top  == Last(stack)
      next == Succ(top.block)[top.next]
      rest == Append(Front(stack), [top EXCEPT !.next = @ + 1])
  IN /\ pc = "dfs" /\ stack # <<>>
     /\ top.next <= Len(Succ(top.block))
     /\ stack' = IF next \in seen THEN rest ELSE Append(rest, Frame(next))
     /\ seen' = seen \cup {next}
     /\ UNCHANGED <<cfg, pc, order, idom, at, changed>>

DfsFinish ==
  LET top == Last(stack)
  IN /\ pc = "dfs" /\ stack # <<>>
     /\ top.next > Len(Succ(top.block))
     /\ order' = Append(order, top.block)
     /\ stack' = Front(stack)
     /\ UNCHANGED <<cfg, pc, seen, idom, at, changed>>

DfsEnd ==
  /\ pc = "dfs" /\ stack = <<>> /\ ~cfg.error
  /\ pc' = "sweep" /\ at' = 2 /\ changed' = FALSE
  /\ UNCHANGED <<cfg, stack, seen, order, idom>>

SweepBlock ==
  LET b == rpo[at]
      n == NewIdom(b)
  IN /\ pc = "sweep" /\ at <= Len(rpo)
     /\ idom' = IF n = Undefined THEN idom ELSE [idom EXCEPT ![b] = n]
     /\ changed' = (changed \/ idom' # idom)
     /\ at' = at + 1
     /\ UNCHANGED <<cfg, pc, stack, seen, order>>

SweepAgain ==
  /\ pc = "sweep" /\ at > Len(rpo) /\ changed
  /\ at' = 2 /\ changed' = FALSE
  /\ UNCHANGED <<cfg, pc, stack, seen, order, idom>>

\* A bug to catch: unreachable blocks stay without a parent.
SweepEnd_NoFallback ==
  /\ pc = "sweep" /\ at > Len(rpo) /\ ~changed
  /\ pc' = "dominated" /\ at' = 0
  /\ UNCHANGED <<cfg, stack, seen, order, idom, changed>>

\* Unreachable blocks fall back to the entry.  `at` and `changed` are the
\* locals of this loop; the caller's next loop brings its own.
SweepEnd ==
  /\ pc = "sweep" /\ at > Len(rpo) /\ ~changed
  /\ idom' = [b \in Blocks |-> IF idom[b] = Undefined THEN Entry ELSE idom[b]]
  /\ pc' = "dominated" /\ at' = 0
  /\ UNCHANGED <<cfg, stack, seen, order, changed>>

DomNext == DomSkip \/ DfsTry \/ DfsFinish \/ DfsEnd \/ SweepBlock \/ SweepAgain \/ SweepEnd

-----------------------------------------------------------------------------
\* What the graph answers once the pass is over: b and the parents above it.
Chain(b) == Reach([a \in Blocks |-> {idom[a]}], {b})

\* dominates_query
dominates(a, b) == a \in Chain(b)

\* The graphs the builder hands over: every edge leads to a block, and a
\* function skipped for a syntax error is one block without edges.
GraphOK ==
  /\ cfg \in [blocks : Seq([lo : Nat, hi : Nat, succ : Seq(Blocks), exit : BOOLEAN,
                            contains_barrier : BOOLEAN, contains_discard : BOOLEAN]),
              error : BOOLEAN]
  /\ cfg.blocks # <<>>
  /\ cfg.error => Len(cfg.blocks) = 1 /\ Succ(Entry) = <<>>

DomTypeOK ==
  /\ stack \in Seq([block : Blocks, next : Nat \ {0}])
  /\ seen \subseteq Blocks
  /\ order \in Seq(Blocks)
  /\ idom \in [Blocks -> Blocks \cup {Undefined}]
=============================================================================
