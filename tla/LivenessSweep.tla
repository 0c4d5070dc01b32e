---------------------------- MODULE LivenessSweep ----------------------------
(***************************************************************************)
(* The second phase of compute_liveness (rules/util/liveness.cpp): from    *)
(* the blocks that read the local x before assigning it and the blocks     *)
(* that assign it, a backward sweep over the blocks repeats until nothing  *)
(* changes or its bound of turns is used up.                               *)
(*                                                                         *)
(* The code keeps a set of names per block and treats every name alone, so *)
(* one local stands for all; the sets are sets of blocks here.             *)
(***************************************************************************)
EXTENDS Dominators

VARIABLES
  tables,    \* [use |-> blocks, def |-> blocks] of the walk
  live_in,   \* blocks x is live into
  live_out,  \* blocks x is live out of
  iter       \* sweeps made

liveVars == <<tables, live_in, live_out, iter>>

Tables == [use : SUBSET Blocks, def : SUBSET Blocks]

\* A bug to catch: a bound that one more sweep would have needed.
max_iters_One == 1

max_iters == Len(cfg.blocks) * 8 + 16

LiveInit == tables = [use |-> {}, def |-> {}] /\ live_in = {} /\ live_out = {} /\ iter = 0

\* The walk found the tables t; then comes the first sweep.  An error_skipped
\* function has no sweep.
LiveStart(t) ==
  /\ pc = "dominated"
  /\ tables' = t
  /\ pc' = IF cfg.error THEN "done" ELSE "live"
  /\ at' = Len(cfg.blocks) /\ changed' = FALSE
  /\ UNCHANGED <<cfg, domVars, live_in, live_out, iter>>

Has(set, b, yes) == IF yes THEN set \cup {b} ELSE set \ {b}

\* A bug to catch: an assignment does not end the earlier value.
LiveBlock_NoKill ==
  LET out == \E s \in ToSet(Succ(at)) : s \in live_in
      in  == at \in tables.use \/ out
  IN /\ pc = "live" /\ at > 0
     /\ live_out' = Has(live_out, at, out)
     /\ live_in' = Has(live_in, at, in)
     /\ changed' = (changed \/ live_in' # live_in \/ live_out' # live_out)
     /\ at' = at - 1
     /\ UNCHANGED <<cfg, pc, domVars, tables, iter>>

\* One block of a sweep, from the last block down to the entry.
LiveBlock ==
  LET b   == at
      out == \E s \in ToSet(Succ(b)) : s \in live_in
      in  == b \in tables.use \/ (out /\ b \notin tables.def)
  IN /\ pc = "live" /\ at > 0
     /\ live_out' = Has(live_out, b, out)
     /\ live_in' = Has(live_in, b, in)
     /\ changed' = (changed \/ live_in' # live_in \/ live_out' # live_out)
     /\ at' = at - 1
     /\ UNCHANGED <<cfg, pc, domVars, tables, iter>>

LiveSweepEnd ==
  /\ pc = "live" /\ at = 0
  /\ iter' = iter + 1
  /\ IF changed /\ iter' < max_iters
     THEN at' = Len(cfg.blocks) /\ changed' = FALSE /\ UNCHANGED pc
     ELSE pc' = "done" /\ UNCHANGED <<at, changed>>
  /\ UNCHANGED <<cfg, domVars, tables, live_in, live_out>>
=============================================================================
