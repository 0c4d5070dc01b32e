---------------------------- MODULE MCLspSession ----------------------------
(* Small instances of LspSession for TLC. *)
EXTENDS LspSession, TLC

CONSTANTS u1, u2, cfg1, opt1

ExactOnly  == {"exact"}
AllFits    == Fit

\* Documents are interchangeable.
UriSymmetry == Permutations({u1, u2})
=============================================================================
