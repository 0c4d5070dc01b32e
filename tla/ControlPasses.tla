---------------------------- MODULE ControlPasses ----------------------------
(***************************************************************************)
(* The passes over the graph of one function: the dominators, then the     *)
(* liveness of a local.  They run one after the other on one thread, so    *)
(* the program counter is the call order of control_flow/engine.cpp and of *)
(* the rules that call compute_liveness.  Which graph it is, and which     *)
(* blocks the walk of the tree finds, is for ControlFlow to say.           *)
(***************************************************************************)
EXTENDS LivenessSweep

CONSTANT None  \* "no answer yet" of the abstract specification

passVars == <<cfg, pc, domVars, at, changed, liveVars>>

PassInit ==
  /\ pc = "dfs"
  /\ at = 0 /\ changed = FALSE
  /\ DomInit /\ LiveInit

\* One step, on a function whose walk gives the tables t.
PassNext(t) ==
  \/ DomNext /\ UNCHANGED liveVars
  \/ LiveStart(t) \/ LiveBlock \/ LiveSweepEnd

\* Any graph the builder can hand over, and any tables.
PassSpec == GraphOK /\ PassInit /\ [][\E t \in Tables : PassNext(t)]_passVars

Done == pc = "done"

-----------------------------------------------------------------------------
\* The type invariant; past the dominator pass every block has a parent
\* (dominators.cpp:170-179), which the climbs of the queries rely on.
TypeOK ==
  /\ pc \in {"dfs", "sweep", "dominated", "live", "done"}
  /\ at \in 0 .. Len(cfg.blocks) + 2 /\ changed \in BOOLEAN
  /\ GraphOK /\ DomTypeOK
  /\ pc \in {"dfs", "sweep"} \/ \A b \in Blocks : idom[b] # Undefined
  /\ tables \in Tables
  /\ live_in \subseteq Blocks /\ live_out \subseteq Blocks
  /\ iter \in 0 .. max_iters

\* The dominator pass gives the answer that DominatorSpec defines over paths:
\* the parents that dominators.cpp:112-180 leaves behind, climbed as
\* cfg_storage.cpp:87-114 climbs them, are exactly the dominators, and the
\* pass ends.
Promise == INSTANCE DominatorSpec WITH
  succ <- [b \in Blocks |-> Succ(b)],
  doms <- IF pc \in {"dfs", "sweep"} THEN None ELSE [b \in Blocks |-> Chain(b)]
DominatorsAsSpecified == Promise!Spec

\* The blocks that a path from b comes to before x is assigned on it.
Carried(b) ==
  Reach([a \in Blocks |-> IF a \in tables.def THEN {} ELSE ToSet(Succ(a))], {b})

\* The sweeps of compute_liveness end at the answer over paths (liveness.cpp:818-886): x is
\* live into a block when some path from it comes to a block that reads x before one that
\* assigns it.
LivenessIsPathwise ==
  Done /\ ~cfg.error => live_in = {b \in Blocks : Carried(b) \cap tables.use # {}}
=============================================================================
