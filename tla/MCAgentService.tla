-------------------------- MODULE MCAgentService --------------------------
(***************************************************************************)
(* AgentService for TLC: a batch of two events and a queue of one, so that *)
(* a snapshot is cut and a queue overflows twice within the stream's bound.*)
(***************************************************************************)
EXTENDS AgentService, TLC

CONSTANTS k1, b1, b2, c1

Swap == Permutations({b1, b2})

=============================================================================
