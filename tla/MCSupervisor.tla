---------------------------- MODULE MCSupervisor ----------------------------
(***************************************************************************)
(* Supervisor for TLC: every start asks for the subagent slot and the      *)
(* provider's, as run_child does, and both limits are as large as the      *)
(* turn's allowance, as the code ties MAX_CONCURRENT_CHILDREN to           *)
(* MAX_CHILDREN.                                                           *)
(***************************************************************************)
EXTENDS Supervisor, TLC

CONSTANTS c1, c2, shared

MCChild == {c1, c2}
MCKeys == {"subagent", "provider"}
MCAsked == <<"subagent", "provider">>
MCLimit == [k \in MCKeys |-> 2]
MCKinds == {"reader", "writer"}
MCReaders == {"reader"}
MCViews == MCChild \cup {shared}
MCNone == {}
Swap == Permutations(MCChild)

=============================================================================
