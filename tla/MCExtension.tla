---------------------------- MODULE MCExtension ----------------------------
(***************************************************************************)
(* One window, opened twice: two handlers that download at once meet in    *)
(* the cached file as two windows would.                                   *)
(***************************************************************************)
EXTENDS Extension

MCRestart == {"restart1", "restart2"}
=============================================================================
