---------------------------- MODULE MCTaskBudget ----------------------------
(***************************************************************************)
(* TaskBudget for TLC: a root task and two children it may be given, one   *)
(* depending on the other.                                                 *)
(***************************************************************************)
EXTENDS TaskBudget

CONSTANTS root, c1, c2

ChildrenOfRoot == [t \in Tasks |-> IF t = root THEN None ELSE root]
SecondAfterFirst == [t \in Tasks |-> IF t = c2 THEN c1 ELSE None]

Starts == [t \in Tasks |-> IF t = c1 THEN 2 ELSE 1]

=============================================================================
