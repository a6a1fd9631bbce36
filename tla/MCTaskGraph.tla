---------------------------- MODULE MCTaskGraph ----------------------------
(* Small instances of TaskGraph for TLC. *)
EXTENDS TaskGraph, TLC

\* Ordinary tasks are interchangeable, and so are plan tasks, notes and views
\* with the same roles.
TaskSymmetry == Permutations(Tasks \ PlanTasks)
PlanSymmetry == Permutations(PlanTasks) \cup Permutations(Notes)
ViewSymmetry == Permutations(Starters \cap Retriers \cap Closers \cap Recoverers)
Symmetry == TaskSymmetry \cup ViewSymmetry \cup Permutations(Notes)

=============================================================================
