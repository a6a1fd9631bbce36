----------------------------- MODULE MCSession -----------------------------
(***************************************************************************)
(* Session for TLC: the bounds are in the configurations.                  *)
(***************************************************************************)
EXTENDS Session

=============================================================================
