---------------------------- MODULE MCLintCaches ----------------------------
(***************************************************************************)
(* Instances of LintCaches.  A session belongs to one of the threads or to  *)
(* the pool, so Threads + PoolSize sessions never run short.                *)
(***************************************************************************)
EXTENDS LintCaches, TLC

\* All stages, the IR stage alone (it calls reflect() itself), control flow alone.
MCStageSets == {{"reflection", "cfg", "ir"}, {"ir"}, {"cfg"}}

Symmetry == Permutations(Threads) \cup Permutations(Sessions)

=============================================================================
