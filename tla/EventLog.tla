------------------------------ MODULE EventLog ------------------------------
(***************************************************************************)
(* What a session's event stream promises the commands that write to it:   *)
(* one append-only history, every event of which was decided on exactly    *)
(* the events before it.  Blocking the dependents of a stopped task is the *)
(* decision every view takes for itself: the history holds it once.        *)
(* CommitLoop shows how TaskGraph::commit_if keeps the promise without a   *)
(* lock around the decision.                                               *)
(***************************************************************************)
EXTENDS Naturals, Sequences

CONSTANTS
  Writers,  \* views that append
  Roots,    \* tasks that can stop with a dependent behind them
  None      \* the root of an ordinary event

VARIABLE log  \* the stream

Event(w, n, k, r) == [by |-> w, basis |-> n, kind |-> k, root |-> r]

Has(n, k, r) == \E i \in 1 .. n : log[i].kind = k /\ log[i].root = r

\* The roots whose dependent the first n events leave to be blocked.
Open(n) == {r \in Roots : Has(n, "stop", r) /\ ~Has(n, "block", r)}

Init == log = <<>>

\* What a command may decide on the first n events.
Decidable(n, k, r) ==
  \/ k = "plain" /\ r = None
  \/ k = "stop" /\ r \in Roots /\ ~Has(n, "stop", r)
  \/ k = "block" /\ r \in Open(n)

\* A command decides on the whole history and extends it, in one step.
Commit(w, k, r) ==
  /\ Decidable(Len(log), k, r)
  /\ log' = Append(log, Event(w, Len(log), k, r))

Next == \E w \in Writers, k \in {"plain", "stop", "block"}, r \in Roots \cup {None} :
          Commit(w, k, r)

Spec == Init /\ [][Next]_log

=============================================================================
