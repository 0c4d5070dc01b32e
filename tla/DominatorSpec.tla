---------------------------- MODULE DominatorSpec ----------------------------
(***************************************************************************)
(* What the dominator pass promises (CfgInfo::dominates in                 *)
(* core/include/shader_clippy/control_flow.hpp): "a dominates b" means     *)
(* that every path from the entry to b goes through a.  The answer is      *)
(* given once, for the whole graph, and is stated over paths: nothing here *)
(* knows of parents, orders or sweeps.                                     *)
(***************************************************************************)
EXTENDS Naturals, Sequences, Reachability

CONSTANT None

VARIABLES
  succ,   \* block -> its successors, the entry being block 1
  doms    \* block -> the blocks that dominate it, None before the answer

\* The blocks reached from the entry without passing through `avoid`.
Reached(avoid) ==
  Reach([b \in DOMAIN succ |-> {succ[b][i] : i \in DOMAIN succ[b]} \ {avoid}], {1} \ {avoid})

\* A block no path reaches is dominated by itself and, by convention, the
\* entry.
DominatorsOf(b) ==
  IF b \in Reached(0) THEN {a \in DOMAIN succ : a = b \/ b \notin Reached(a)}
  ELSE {1, b}

Init == doms = None

Answer ==
  /\ doms = None
  /\ doms' = [b \in DOMAIN succ |-> DominatorsOf(b)]
  /\ UNCHANGED succ

\* What may be answered, and that it is.
Safety == Init /\ [][Answer]_<<succ, doms>>
Spec == Safety /\ WF_<<succ, doms>>(Answer)
=============================================================================
