----------------------------- MODULE TaskBudget -----------------------------
(***************************************************************************)
(* What a task may spend (orchestration.rs: Budget, add_child, consume,    *)
(* settle).  A child's whole allowance is reserved on its parent when it   *)
(* is created and returned, less what was spent, when the child settles.   *)
(*                                                                         *)
(* The commands are the ones of TaskGraph, reduced to what they do to the  *)
(* accounting; each step is one commit, rechecked on the caught-up         *)
(* projection as its closure does and no more.  Any number of views is at  *)
(* work: whatever a view once decided on may be committed at any later     *)
(* time.  The three u64 counters of a Budget are one natural number here.  *)
(***************************************************************************)
EXTENDS Naturals, FiniteSetsExt

CONSTANTS
  Tasks,
  None,         \* no parent, no dependency
  Parent,       \* [Tasks -> Tasks \cup {None}], runtime.parent, fixed at creation
  After,        \* [Tasks -> Tasks \cup {None}], the dependency, fixed at creation
  Metered,      \* tasks consume is called on: the turn's own node (run.rs)
  Amounts,      \* allowances and usages that occur
  MaxAttempts,  \* RetryPolicy.max_attempts, checked by retry only
  MaxStarts     \* [Tasks -> Nat], bound of the model: attempts of a task

ASSUME TaskBudgetAssumption ==
  /\ None \notin Tasks
  /\ Parent \in [Tasks -> Tasks \cup {None}]
  /\ After \in [Tasks -> Tasks \cup {None}]
  /\ \A t \in Tasks : Parent[t] # t /\ After[t] # t
  /\ IsFiniteSet(Tasks)
  \* resumable_task: a turn runs on a node that has no parent.
  /\ \A t \in Metered : t \in Tasks /\ Parent[t] = None
  /\ Amounts \subseteq Nat
  /\ MaxAttempts \in Nat /\ MaxStarts \in [Tasks -> Nat]

VARIABLES
  phase,     \* [Tasks -> Phases], TaskState; Verified counts as completed
  holder,    \* [Tasks -> Holders], the newest attempt and current_attempt
  budget,    \* [Tasks -> Nat], the allowance
  used,      \* [Tasks -> Nat], runtime.used
  reserved,  \* [Tasks -> Nat], runtime.reserved
  settled,   \* [Tasks -> BOOLEAN], runtime.settled
  attempts,  \* [Tasks -> Nat], runtime.attempts.len()
  retryable, \* [Tasks -> BOOLEAN], the newest attempt's classification
  retrying,  \* the tasks some view has passed retry's checks for
  own,       \* [Tasks -> Nat], history: what the task's own holders reported
  late,      \* [Tasks -> Nat], history: what was added to used once settled
  over       \* history: a holder reported more than it had available

money == <<used, reserved, settled, own, late>>
work == <<phase, holder, attempts, retryable>>
vars == <<work, budget, money, retrying, over>>

Phases == {"absent", "pending", "ready", "running", "blocked",
           "completed", "failed", "cancelled"}

\* No live attempt; one that is the current attempt; one that lost its place
\* to a stale supersede and can no longer report.
Holders == {"none", "current", "lost"}

TypeOK ==
  /\ phase \in [Tasks -> Phases]
  /\ holder \in [Tasks -> Holders]
  /\ budget \in [Tasks -> Nat] /\ used \in [Tasks -> Nat]
  /\ reserved \in [Tasks -> Nat]
  /\ own \in [Tasks -> Nat] /\ late \in [Tasks -> Nat]
  /\ settled \in [Tasks -> BOOLEAN]
  /\ attempts \in [Tasks -> Nat] /\ \A t \in Tasks : attempts[t] <= MaxStarts[t]
  /\ retryable \in [Tasks -> BOOLEAN]
  /\ retrying \subseteq Tasks
  /\ over \in BOOLEAN
  \* a reservation has a parent to be held by
  /\ \A t \in Tasks : phase[t] # "absent" /\ Parent[t] # None => phase[Parent[t]] # "absent"

-----------------------------------------------------------------------------
\* saturating_sub: a budget is a bound, it never wraps.
Monus(a, b) == IF a > b THEN a - b ELSE 0

\* Mutant: capacity promised to children still counts as available.
AvailableUnreserved(t) == Monus(budget[t], used[t])

Available(t) == Monus(Monus(budget[t], used[t]), reserved[t])

Children(p) == {c \in Tasks : Parent[c] = p}

Total(f, S) == MapThenSumSet(LAMBDA c : f[c], S)

Stopped(t) ==
  \/ phase[t] \in {"cancelled", "blocked"}
  \/ phase[t] = "failed" /\ (attempts[t] > 0 => ~retryable[t])

\* What the end of task t adds to the use of task c that c's parent is not
\* charged with, because c has settled.
Late(c, t, u) ==
  CASE c = t /\ settled[t] -> u
    [] c = Parent[t] /\ ~settled[t] /\ settled[c] -> used[t] + u
    [] OTHER -> 0

Book(t, u) ==
  /\ settled' = [settled EXCEPT ![t] = TRUE]
  /\ own' = [own EXCEPT ![t] = @ + u]
  /\ late' = [c \in Tasks |-> late[c] + Late(c, t, u)]

\* Mutant: settling is not guarded by runtime.settled.
SettledTwice(t, u) ==
  LET p == Parent[t] IN
  /\ Book(t, u)
  /\ IF p = None
       THEN /\ used' = [used EXCEPT ![t] = @ + u]
            /\ UNCHANGED reserved
       ELSE /\ used' = [used EXCEPT ![t] = @ + u, ![p] = @ + used[t] + u]
            /\ reserved' = [reserved EXCEPT ![p] = Monus(@, budget[t])]

\* Mutant: an overrun is cut off at the child's allowance.
SettleCapped(t, u) ==
  LET p == Parent[t]
      charge == IF used[t] + u > budget[t] THEN budget[t] ELSE used[t] + u IN
  /\ Book(t, u)
  /\ IF settled[t] \/ p = None
       THEN /\ used' = [used EXCEPT ![t] = @ + u]
            /\ UNCHANGED reserved
       ELSE /\ used' = [used EXCEPT ![t] = @ + u, ![p] = @ + charge]
            /\ reserved' = [reserved EXCEPT ![p] = Monus(@, budget[t])]

\* Mutant: what the child spent is not charged to the parent.
SettleUncharged(t, u) ==
  LET p == Parent[t] IN
  /\ Book(t, u)
  /\ used' = [used EXCEPT ![t] = @ + u]
  /\ reserved' = IF settled[t] \/ p = None
                   THEN reserved
                   ELSE [reserved EXCEPT ![p] = Monus(@, budget[t])]

\* The event that ends task t adds what its holder reports and, the first
\* time only, gives the parent back what was not spent.
Settle(t, u) ==
  LET p == Parent[t] IN
  /\ Book(t, u)
  /\ IF settled[t] \/ p = None
       THEN /\ used' = [used EXCEPT ![t] = @ + u]
            /\ UNCHANGED reserved
       ELSE /\ used' = [used EXCEPT ![t] = @ + u, ![p] = @ + used[t] + u]
            /\ reserved' = [reserved EXCEPT ![p] = Monus(@, budget[t])]

-----------------------------------------------------------------------------
\* Mutant: the commit rechecks nothing of the parent.
AddChildUnchecked(t, b) ==
  LET p == Parent[t] IN
  /\ phase[t] = "absent"
  /\ phase' = [phase EXCEPT ![t] = "pending"]
  /\ budget' = [budget EXCEPT ![t] = b]
  /\ reserved' = IF p = None THEN reserved ELSE [reserved EXCEPT ![p] = @ + b]
  /\ UNCHANGED <<holder, attempts, retryable, used, settled, own, late, retrying, over>>

\* Whatever state the parent is in, the child must fit what it has left.
AddChild(t, b) ==
  LET p == Parent[t] IN
  /\ phase[t] = "absent"
  /\ p # None => phase[p] # "absent" /\ b <= Available(p)
  /\ phase' = [phase EXCEPT ![t] = "pending"]
  /\ budget' = [budget EXCEPT ![t] = b]
  /\ reserved' = IF p = None THEN reserved ELSE [reserved EXCEPT ![p] = @ + b]
  /\ UNCHANGED <<holder, attempts, retryable, used, settled, own, late, retrying, over>>

DependencyCompleted(t) == After[t] # None => phase[After[t]] = "completed"

Queue(t) ==
  /\ phase[t] = "pending"
  /\ DependencyCompleted(t)
  /\ phase' = [phase EXCEPT ![t] = "ready"]
  /\ UNCHANGED <<holder, attempts, retryable, budget, money, retrying, over>>

\* reconcile_blocked transitions the task; the event settles nothing.
Block(t) ==
  /\ phase[t] \in {"pending", "ready"}
  /\ After[t] # None /\ Stopped(After[t])
  /\ phase' = [phase EXCEPT ![t] = "blocked"]
  /\ UNCHANGED <<holder, attempts, retryable, budget, money, retrying, over>>

\* The new attempt takes the place of a holder the task may still have.
Start(t) ==
  /\ phase[t] = "ready"
  /\ DependencyCompleted(t)
  /\ attempts[t] < MaxStarts[t]
  /\ phase' = [phase EXCEPT ![t] = "running"]
  /\ holder' = [holder EXCEPT ![t] = "current"]
  /\ attempts' = [attempts EXCEPT ![t] = @ + 1]
  /\ retryable' = [retryable EXCEPT ![t] = FALSE]
  /\ UNCHANGED <<budget, money, retrying, over>>

\* consume looks at the allowance, not at the task's state.
Consume(t, u) ==
  /\ t \in Metered
  /\ phase[t] # "absent"
  /\ u <= Available(t)
  /\ used' = [used EXCEPT ![t] = @ + u]
  /\ own' = [own EXCEPT ![t] = @ + u]
  /\ UNCHANGED <<work, budget, reserved, settled, late, retrying, over>>

\* finish_attempt records whatever the holder reports and looks at the
\* attempt only: the task may have been closed under its holder.
Finish(t, u, outcome, again) ==
  /\ holder[t] = "current"
  /\ over' = (over \/ u > Available(t))
  /\ again => outcome = "failed"
  /\ phase' = [phase EXCEPT ![t] = outcome]
  /\ holder' = [holder EXCEPT ![t] = "none"]
  /\ retryable' = [retryable EXCEPT ![t] = again]
  /\ Settle(t, u)
  /\ UNCHANGED <<budget, attempts, retrying>>

\* transition: the end of a task that its closer took to have no holder, as
\* any view can that looked before the first attempt.  With a holder in view
\* close is a Finish of nothing.
Close(t, target) ==
  /\ \/ phase[t] \in {"pending", "ready"} /\ target \in {"failed", "cancelled"}
     \/ phase[t] = "running" /\ target \in {"completed", "failed", "cancelled"}
  /\ phase' = [phase EXCEPT ![t] = target]
  /\ Settle(t, 0)
  /\ UNCHANGED <<holder, attempts, retryable, budget, retrying, over>>

\* What the holder spent is not on record and is charged to nobody.
Expire(t) ==
  /\ phase[t] = "running"
  /\ phase' = [phase EXCEPT ![t] = "ready"]
  /\ holder' = [holder EXCEPT ![t] = IF @ = "current" THEN "none" ELSE @]
  /\ UNCHANGED <<attempts, retryable, budget, money, retrying, over>>

\* retry's checks on its view.
RetryBegin(t) ==
  /\ t \notin retrying
  /\ holder[t] = "none" /\ retryable[t]
  /\ attempts[t] \in 1 .. MaxAttempts - 1
  /\ Available(t) # 0
  /\ retrying' = retrying \cup {t}
  /\ UNCHANGED <<work, budget, money, over>>

\* Superseding the failed attempt takes away the current one, if another
\* view started it since.
Supersede(t) ==
  /\ t \in retrying
  /\ holder[t] = "current"
  /\ holder' = [holder EXCEPT ![t] = "lost"]
  /\ UNCHANGED <<phase, attempts, retryable, budget, money, retrying, over>>

\* Back in the queue, and still settled.
Requeue(t) ==
  /\ t \in retrying
  /\ phase[t] = "failed"
  /\ phase' = [phase EXCEPT ![t] = "ready"]
  /\ UNCHANGED <<holder, attempts, retryable, budget, money, retrying, over>>

-----------------------------------------------------------------------------
Init ==
  /\ phase = [t \in Tasks |-> "absent"]
  /\ holder = [t \in Tasks |-> "none"]
  /\ budget = [t \in Tasks |-> 0]
  /\ used = [t \in Tasks |-> 0]
  /\ reserved = [t \in Tasks |-> 0]
  /\ settled = [t \in Tasks |-> FALSE]
  /\ attempts = [t \in Tasks |-> 0]
  /\ retryable = [t \in Tasks |-> FALSE]
  /\ retrying = {}
  /\ own = [t \in Tasks |-> 0]
  /\ late = [t \in Tasks |-> 0]
  /\ over = FALSE

Next ==
  \E t \in Tasks :
    \/ \E b \in Amounts : AddChild(t, b)
    \/ Queue(t)
    \/ Block(t)
    \/ Start(t)
    \/ \E u \in Amounts : Consume(t, u)
    \/ \E u \in Amounts \cup {0}, outcome \in {"completed", "failed", "cancelled"}, again \in BOOLEAN :
         Finish(t, u, outcome, again)
    \/ \E target \in {"completed", "failed", "cancelled"} : Close(t, target)
    \/ Expire(t)
    \/ RetryBegin(t)
    \/ Supersede(t)
    \/ Requeue(t)

Spec == Init /\ [][Next]_vars

-----------------------------------------------------------------------------
(* Properties.                                                             *)

Unsettled(p) == {c \in Children(p) : ~settled[c]}
Held(p) == Total(budget, Unsettled(p))

\* runtime.reserved is exactly what the children that have not settled were
\* promised: nothing is released twice and nothing is forgotten.
ReservationsBalance == \A p \in Tasks : reserved[p] = Held(p)

\* While holders stay within their allowance: what was spent and what is
\* promised never exceed it, through settlements and retries in any order.
WithinAllowance == ~over => \A t \in Tasks : used[t] + reserved[t] <= budget[t]

Settlers(p) == {c \in Children(p) : settled[c]}

\* settle charges a parent, once and in full, with everything its settled
\* children were reported to have spent, an overrun included; what is left
\* out is what was reported on a child after it had settled.
ParentIsCharged ==
  \A p \in Tasks :
    used[p] + Total(late, Settlers(p)) = own[p] + Total(used, Settlers(p))

SpentUnder(r) == own[r] + Total(used, Children(r))

\* With holders that stay within their allowance, what is reported as spent
\* under a grant exceeds it by no more than was reported after settlement: on
\* a child that was retried, or closed under its holder.
OverspendIsLate ==
  ~over => \A r \in Tasks : SpentUnder(r) <= budget[r] + Total(late, Children(r))

\* The doc of TaskNode.budget: "The whole allowance this task may spend, on
\* itself and its children."
SpendWithinGrant == ~over => \A r \in Tasks : SpentUnder(r) <= budget[r]

\* A task that can never run again has returned what it was promised.
EndedTasksSettle ==
  \A t \in Tasks : phase[t] \in {"blocked", "completed", "cancelled"} => settled[t]

=============================================================================
