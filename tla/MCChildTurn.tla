---------------------------- MODULE MCChildTurn -----------------------------
(***************************************************************************)
(* ChildTurn for TLC.                                                      *)
(***************************************************************************)
EXTENDS ChildTurn

=============================================================================
