----------------------------- MODULE ControlFlow -----------------------------
(***************************************************************************)
(* The control-flow stage of one function: build its graph, compute the    *)
(* dominators, extract and sweep the liveness of a local, then answer what *)
(* rules ask.  The passes run one after the other on one thread, so the    *)
(* program counter is the call order of control_flow/engine.cpp and of the *)
(* rules that call compute_liveness.                                       *)
(***************************************************************************)
EXTENDS ControlPasses, LocalLiveness, ShaderPaths

CONSTANT Functions  \* the placed trees of the functions considered

VARIABLE fn   \* the tree of the function under analysis

vars == <<fn, passVars>>

Init ==
  /\ fn \in Functions
  /\ cfg = build_function(fn)
  /\ PassInit

Next == PassNext(Extract(fn)) /\ UNCHANGED fn

Spec == Init /\ [][Next]_vars /\ WF_vars(Next)

-----------------------------------------------------------------------------
\* Every pass ends, the last sweep because it changed nothing and not because
\* max_iters cut it off (liveness.cpp:822-825).
AnalysisFinishes == <>(Done /\ (cfg.error \/ (~changed /\ iter < max_iters)))

\* barrier_separates is true when a barrier sits between two statements on
\* every path (tests/unit/test_cfg_util.cpp:9-10, cfg_query.hpp:47-51): n runs
\* after m, and no longer once the statements with a barrier let nothing past.
\* The builder makes one block of a statement that holds a barrier, the body
\* of the function included (cfg_builder.cpp:195-200).
BarrierBetweenSeparates ==
  LET flow     == Flow(fn)
      barriers == {b.lo : b \in {l \in LeavesOf(fn) : l.k = "barrier"}}
  IN Done /\ ~cfg.error => \A m, n \in LeavesOf(fn) :
       /\ Runs(flow, m) /\ m.lo \notin barriers
       /\ n.lo \in Later(flow, m) \ After(flow, {m.lo}, barriers)
       => barrier_separates(m, n)

RECURSIVE NodesOf(_)
NodesOf(n) == {n} \cup UNION {NodesOf(n.kids[i]) : i \in DOMAIN n.kids}

\* The statements below a node of fn that satisfies P.
Below(P(_)) == UNION {LeavesOf(n) : n \in {m \in NodesOf(fn) : P(m)}}

IsLoop(n) == n.k \in {"loop", "do"}
BracedSwitch(n) == n.k = "switch" /\ Arms(n)[1].k = "block"

\* The functions the builder can follow to their end: a syntax error or a
\* barrier makes one block of them, and it leaves a switch in braces without
\* a way out.
Followed == ~cfg.error /\ ~detect_barrier(fn) /\ ~\E n \in NodesOf(fn) : BracedSwitch(n)

\* It does not look below an else clause or a case.
Unseen(n) == n.k \in {"else", "case"}

\* inside_loop (cfg_query.cpp:144-212) says yes only for a statement that
\* stands in a loop, and it says yes for one that can run twice.
LoopQueryIsBetween ==
  LET flow == Flow(fn)
  IN Done => \A s \in LeavesOf(fn) :
       /\ inside_loop(s) => s \in Below(IsLoop)
       /\ (Followed /\ s \notin Below(Unseen) /\ Repeats(flow, s)) => inside_loop(s)

\* reachable_with_discard (cfg_query.cpp:119-133) reports a discard that can
\* run after the statement s.  A condition is no statement: it is looked up
\* in the block of the first arm.
DiscardIsNotMissed ==
  LET flow     == Flow(fn)
      discards == {d.lo : d \in {l \in LeavesOf(fn) : l.k = "discard"}}
  IN Done /\ Followed => \A s \in LeavesOf(fn) :
       (s.k # "test" /\ Runs(flow, s) /\ Later(flow, s) \cap discards # {})
         => reachable_with_discard(s)

\* When a call can read x before it has assigned it, the extraction and the
\* sweeps of liveness.cpp find x live into the entry, unless the read may be
\* a return's, which they count in the dead code after it.
ReadFirstIsLive ==
  (Done /\ Followed /\ "return" \notin fn.has /\ ReadFirst(Flow(fn), LeavesOf(fn)))
    => Entry \in live_in
=============================================================================
