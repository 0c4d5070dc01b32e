----------------------------- MODULE Reachability -----------------------------
(***************************************************************************)
(* What a walk along the edges of a finite graph comes to.  A graph is a   *)
(* function from nodes to the sets of nodes one edge away.                 *)
(***************************************************************************)
EXTENDS Naturals, FiniteSets

\* A walk is [steps left, nodes come to].
Reach(next, S) ==
  LET more[w \in (0 .. Cardinality(DOMAIN next)) \X SUBSET DOMAIN next] ==
        IF w[1] = 0 THEN w[2]
        ELSE more[<<w[1] - 1, w[2] \cup UNION {next[a] : a \in w[2]}>>]
  IN more[<<Cardinality(DOMAIN next), S>>]
=============================================================================
