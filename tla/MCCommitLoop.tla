---------------------------- MODULE MCCommitLoop ----------------------------
(***************************************************************************)
(* CommitLoop for TLC.                                                     *)
(***************************************************************************)
EXTENDS CommitLoop

CONSTANTS w1, w2, r1

=============================================================================
