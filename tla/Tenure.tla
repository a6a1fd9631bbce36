------------------------------- MODULE Tenure -------------------------------
(***************************************************************************)
(* What the leases of the task graph promise: work on a task is a sequence *)
(* of tenures, numbered in the order they begin and never overlapping.  A  *)
(* tenure ends with its holder's report or is revoked without one, and     *)
(* what was reported, and by whom, stays.  TaskGraph shows how attempts,   *)
(* lease epochs and the fence of finish_attempt keep the promise while     *)
(* holders, operators, retries and recoveries act on it at once.           *)
(*                                                                         *)
(* One thing breaks it: the task of a tenure under way is closed by a      *)
(* command that takes it to have no holder.  From then on, and only then,  *)
(* another tenure of the task may begin beside the one under way.          *)
(***************************************************************************)
EXTENDS Naturals

CONSTANT Tasks

VARIABLES
  newest,   \* [Tasks -> Nat], the number of the last tenure
  holder,   \* [Tasks -> Nat], the tenure that is under way, 0 if none is
  reported, \* [Tasks -> SUBSET Nat], the tenures that ended with a report
  intruded  \* the tasks closed while a tenure was under way

Init ==
  /\ newest = [t \in Tasks |-> 0]
  /\ holder = [t \in Tasks |-> 0]
  /\ reported = [t \in Tasks |-> {}]
  /\ intruded = {}

Begin(t) ==
  /\ holder[t] = 0 \/ t \in intruded
  /\ newest' = [newest EXCEPT ![t] = @ + 1]
  /\ holder' = [holder EXCEPT ![t] = newest[t] + 1]
  /\ UNCHANGED <<reported, intruded>>

Report(t) ==
  /\ holder[t] # 0
  /\ reported' = [reported EXCEPT ![t] = @ \cup {holder[t]}]
  /\ holder' = [holder EXCEPT ![t] = 0]
  /\ UNCHANGED <<newest, intruded>>

Revoke(t) ==
  /\ holder[t] # 0
  /\ holder' = [holder EXCEPT ![t] = 0]
  /\ UNCHANGED <<newest, reported, intruded>>

Intrude(t) ==
  /\ holder[t] # 0
  /\ intruded' = intruded \cup {t}
  /\ UNCHANGED <<newest, holder, reported>>

Next == \E t \in Tasks : Begin(t) \/ Report(t) \/ Revoke(t) \/ Intrude(t)

Spec == Init /\ [][Next]_<<newest, holder, reported, intruded>>

=============================================================================
