----------------------------- MODULE TaskGraph -----------------------------
(***************************************************************************)
(* The durable task graph of arsy-kernel (orchestration.rs): tasks, the    *)
(* attempts made at them, the lease each attempt holds, plan approval, and *)
(* the propagation of a dead branch to its dependents.                     *)
(*                                                                         *)
(* The variables are the projection of the session's event stream.  Every  *)
(* TaskGraph value of the program - the scheduler's, a worker's fork, an   *)
(* operator's, another process's - is a View: it holds an older prefix of  *)
(* the same stream.  A command is a closure that commit_if rebuilds on the *)
(* caught-up projection and appends at the version it read (CommitLoop     *)
(* models that loop), so a single-commit command is one atomic action.     *)
(* What a command reads BEFORE its commit closure is stale; those commands *)
(* (retry, close, expire) are split into a reading step, which leaves what *)
(* was read in inflight[v], and one step per commit.                       *)
(*                                                                         *)
(* commit_if also drains reconcile_blocked before it builds.  A drain may  *)
(* leave a task that it should block (Frontier models it), so Block is a   *)
(* step that may come at any time, and no command waits for it.            *)
(*                                                                         *)
(* An attempt of task t is named by its lease epoch: start_attempt gives   *)
(* the n-th attempt of a task the epoch n, and runtime.attempts.last() is  *)
(* attempt epoch[t].                                                       *)
(***************************************************************************)
EXTENDS Naturals

CONSTANTS
  Tasks,        \* task ids
  PlanTasks,    \* tasks created with a plan link (runtime.plan is some)
  Notes,        \* operator constraints an approval may carry
  NotApproved,  \* no approval recorded
  Views,        \* TaskGraph values over the one stream
  Starters,     \* views that call start_attempt
  Retriers,     \* views that call retry
  Closers,      \* views that call complete, fail or cancel
  Recoverers,   \* views that call recover_expired or reclaim_running
  Steered,      \* tasks whose holders report and whose attempts are steered
  MaxAttempts,  \* RetryPolicy.max_attempts, the bound retry enforces
  MaxEpoch      \* bound of the model: attempts per task

ASSUME TaskGraphAssumption ==
  /\ PlanTasks \subseteq Tasks
  /\ Steered \subseteq Tasks
  /\ NotApproved \notin Notes
  /\ Starters \cup Retriers \cup Closers \cup Recoverers \subseteq Views
  /\ MaxAttempts \in Nat
  /\ MaxEpoch \in Nat

VARIABLES
  state,     \* [Tasks -> TaskState], "Absent" before task.created
  deps,      \* [Tasks -> SUBSET Tasks], TaskNode.dependencies
  epoch,     \* [Tasks -> Nat], runtime.lease_epoch = number of attempts
  current,   \* [Tasks -> Nat], epoch of runtime.current_attempt, 0 for None
  lease,     \* [Tasks -> Leases], lease_expires_at_ms against the clock
  attempt,   \* [Tasks -> [Epochs -> AttemptState]], "none" before it starts
  class,     \* [Tasks -> [Epochs -> Retryability]]
  paused,    \* [Tasks -> SUBSET Epochs]
  approved,  \* [Tasks -> Notes \cup {NotApproved}]
  inflight,  \* [Views -> Commands], what a multi-step command read
  overtaken  \* [Tasks -> SUBSET Overtakings], history: the commits made to
             \* a task on what another command had meanwhile changed

taskVars == <<state, deps, epoch, current, lease>>
attemptVars == <<attempt, class, paused>>
vars == <<state, deps, epoch, current, lease, attempt, class, paused,
          approved, inflight, overtaken>>

Epochs == 1 .. MaxEpoch

TaskStates == {"Absent", "Pending", "Ready", "Blocked", "Running",
               "Completed", "Verified", "Failed", "Cancelled"}
Live == {"Starting", "Running", "Waiting", "Cancelling"}
Terminal == {"Completed", "Failed", "Cancelled", "Expired", "Superseded"}
AttemptStates == {"none"} \cup Live \cup Terminal
Retryability == {"Retryable", "NotRetryable", "UnknownOutcome"}
Leases == {"none", "valid", "lapsed"}
Outcomes == {"Completed", "Failed", "Cancelled"}

\* supersede and close: a task got a holder after the command read that it
\* had none; requeue: a newer attempt failed than the one retry looked at.
Overtakings == {"supersede", "requeue", "close"}

Idle == [op |-> "idle"]
RetrySteps == {"supersede", "requeue", "restart"}
Commands ==
  {Idle}
    \cup [op : RetrySteps, task : Tasks, epoch : Epochs]
    \cup [op : {"close"}, task : Tasks, epoch : {0} \cup Epochs, target : Outcomes]
    \cup [op : {"recover", "reclaim"}, tasks : SUBSET Tasks]

TypeOK ==
  /\ state \in [Tasks -> TaskStates]
  /\ deps \in [Tasks -> SUBSET Tasks]
  /\ epoch \in [Tasks -> {0} \cup Epochs]
  /\ current \in [Tasks -> {0} \cup Epochs]
  /\ lease \in [Tasks -> Leases]
  /\ attempt \in [Tasks -> [Epochs -> AttemptStates]]
  /\ class \in [Tasks -> [Epochs -> Retryability]]
  /\ paused \in [Tasks -> SUBSET Epochs]
  /\ approved \in [Tasks -> Notes \cup {NotApproved}]
  /\ inflight \in [Views -> Commands]
  /\ overtaken \in [Tasks -> SUBSET Overtakings]

-----------------------------------------------------------------------------
(* Reading the projection.                                                 *)

IsLive(t, n) == n \in Epochs /\ attempt[t][n] \in Live

Finished(t) == state[t] \in {"Completed", "Verified"}

DependenciesCompleted(t) == \A d \in deps[t] : Finished(d)

PlanCleared(t) == t \in PlanTasks => approved[t] # NotApproved

IsReady(t) ==
  /\ state[t] = "Pending"
  /\ PlanCleared(t)
  /\ DependenciesCompleted(t)

\* Mutant: any failure counts as final.
PermanentlyStoppedOnAnyFailure(t) == state[t] \in {"Cancelled", "Blocked", "Failed"}

\* The last attempt's own classification decides whether a failure is final.
PermanentlyStopped(t) ==
  \/ state[t] \in {"Cancelled", "Blocked"}
  \/ /\ state[t] = "Failed"
     /\ epoch[t] \in Epochs => class[t][epoch[t]] # "Retryable"

HasFailedDependency(t) == \E d \in deps[t] : PermanentlyStopped(d)

Blockable(t) == state[t] \in {"Pending", "Ready"} /\ HasFailedDependency(t)

DependencyClosed(S) == \A t \in S : deps[t] \subseteq S

\* Mutant: the walk starts at the edges on record, not at the new ones.
WouldCycleOnRecord(t, D) ==
  \A S \in SUBSET Tasks : (deps[t] \subseteq S /\ DependencyClosed(S)) => t \in S

\* would_cycle's walk visits exactly what is in every closed superset.
WouldCycle(t, D) ==
  \A S \in SUBSET Tasks : (D \subseteq S /\ DependencyClosed(S)) => t \in S

\* Mutant: a retry may requeue a cancelled task.
TransitionAllowedFromCancelled(from, to) ==
  \/ from = "Pending" /\ to \in {"Ready", "Failed", "Blocked", "Cancelled"}
  \/ from = "Ready" /\ to \in {"Running", "Failed", "Blocked", "Cancelled"}
  \/ from = "Running" /\ to \in {"Completed", "Failed", "Cancelled"}
  \/ from = "Completed" /\ to = "Verified"
  \/ from \in {"Failed", "Cancelled"} /\ to = "Ready"

TransitionAllowed(from, to) ==
  \/ from = "Pending" /\ to \in {"Ready", "Failed", "Blocked", "Cancelled"}
  \/ from = "Ready" /\ to \in {"Running", "Failed", "Blocked", "Cancelled"}
  \/ from = "Running" /\ to \in {"Completed", "Failed", "Cancelled"}
  \/ from = "Completed" /\ to = "Verified"
  \/ from = "Failed" /\ to = "Ready"

-----------------------------------------------------------------------------
(* What one event does to the projection.                                  *)

Settled(v) == inflight' = [inflight EXCEPT ![v] = Idle]

\* History: the commit is remembered if what it was decided on is gone.
OvertakenWhen(stale, t, how) ==
  overtaken' = IF stale THEN [overtaken EXCEPT ![t] = @ \cup {how}] ELSE overtaken

ReplayTransitioned(t, to) ==
  /\ state' = [state EXCEPT ![t] = to]
  /\ UNCHANGED <<deps, epoch, current, lease, attempt, class, paused, approved>>

ReplayAttemptStarted(t) ==
  LET n == epoch[t] + 1 IN
  /\ state' = [state EXCEPT ![t] = "Running"]
  /\ epoch' = [epoch EXCEPT ![t] = n]
  /\ current' = [current EXCEPT ![t] = n]
  /\ lease' = [lease EXCEPT ![t] = "valid"]
  /\ attempt' = [attempt EXCEPT ![t][n] = "Starting"]
  /\ UNCHANGED <<deps, class, paused, approved>>

\* Mutant: the attempt that ended stays the current one.
ReplayAttemptFinishedKeepsCurrent(t, n, outcome, c) ==
  /\ attempt' = [attempt EXCEPT ![t][n] = outcome]
  /\ class' = [class EXCEPT ![t][n] = c]
  /\ state' = [state EXCEPT ![t] = outcome]
  /\ lease' = [lease EXCEPT ![t] = "none"]
  /\ UNCHANGED <<deps, epoch, current, paused, approved>>

ReplayAttemptFinished(t, n, outcome, c) ==
  /\ attempt' = [attempt EXCEPT ![t][n] = outcome]
  /\ class' = [class EXCEPT ![t][n] = c]
  /\ state' = [state EXCEPT ![t] = outcome]
  /\ current' = [current EXCEPT ![t] = 0]
  /\ lease' = [lease EXCEPT ![t] = "none"]
  /\ UNCHANGED <<deps, epoch, paused, approved>>

\* Mutant: current_attempt keeps pointing at the expired attempt.
ReplayAttemptExpiredKeepsCurrent(t) ==
  /\ attempt' = IF current[t] \in Epochs
                  THEN [attempt EXCEPT ![t][current[t]] = "Expired"]
                  ELSE attempt
  /\ state' = [state EXCEPT ![t] = "Ready"]
  /\ lease' = [lease EXCEPT ![t] = "none"]
  /\ UNCHANGED <<deps, epoch, current, class, paused, approved>>

ReplayAttemptExpired(t) ==
  /\ attempt' = IF current[t] \in Epochs
                  THEN [attempt EXCEPT ![t][current[t]] = "Expired"]
                  ELSE attempt
  /\ state' = [state EXCEPT ![t] = "Ready"]
  /\ current' = [current EXCEPT ![t] = 0]
  /\ lease' = [lease EXCEPT ![t] = "none"]
  /\ UNCHANGED <<deps, epoch, class, paused, approved>>

ReplayAttemptSuperseded(t, n) ==
  /\ attempt' = [attempt EXCEPT ![t][n] = "Superseded"]
  /\ current' = [current EXCEPT ![t] = 0]
  /\ lease' = [lease EXCEPT ![t] = "none"]
  /\ UNCHANGED <<state, deps, epoch, class, paused, approved>>

-----------------------------------------------------------------------------
(* Commands of one commit: atomic, whichever view appends them.            *)

AddTask(t, D) ==
  /\ state[t] = "Absent"
  /\ t \notin D /\ ~WouldCycle(t, D)
  /\ state' = [state EXCEPT ![t] = "Pending"]
  /\ deps' = [deps EXCEPT ![t] = D]
  /\ UNCHANGED <<epoch, current, lease, attempt, class, paused, approved, inflight, overtaken>>

\* Mutant: a second approval overwrites the recorded note.
ApprovePlanOverwrites(S, note) ==
  /\ S # {}
  /\ \A t \in S : t \in PlanTasks /\ state[t] # "Absent"
  /\ approved' = [t \in Tasks |-> IF t \in S THEN note ELSE approved[t]]
  /\ UNCHANGED <<taskVars, attemptVars, inflight, overtaken>>

\* One batch is approved or refused as a whole: a task already approved with
\* another note refuses it, one already approved with this note is skipped.
ApprovePlan(S, note) ==
  LET fresh == {t \in S : approved[t] = NotApproved} IN
  /\ \A t \in S : t \in PlanTasks /\ state[t] # "Absent"
  /\ \A t \in S \ fresh : approved[t] = note
  /\ fresh # {}
  /\ approved' = [t \in Tasks |-> IF t \in fresh THEN note ELSE approved[t]]
  /\ UNCHANGED <<taskVars, attemptVars, inflight, overtaken>>

\* One candidate of ready(): rechecked inside its own commit.
Ready(t) ==
  /\ IsReady(t)
  /\ ReplayTransitioned(t, "Ready")
  /\ UNCHANGED <<inflight, overtaken>>

\* One commit of reconcile_blocked.
Block(t) ==
  /\ Blockable(t)
  /\ ReplayTransitioned(t, "Blocked")
  /\ UNCHANGED <<inflight, overtaken>>

\* Mutant: a task that is already running may be started again.
CanStartRunning(t) ==
  /\ state[t] \in {"Ready", "Running"}
  /\ DependenciesCompleted(t)
  /\ PlanCleared(t)
  /\ epoch[t] < MaxEpoch

CanStart(t) ==
  /\ state[t] = "Ready"
  /\ DependenciesCompleted(t)
  /\ PlanCleared(t)
  /\ epoch[t] < MaxEpoch

StartAttempt(v, t) ==
  /\ inflight[v] = Idle
  /\ CanStart(t)
  /\ ReplayAttemptStarted(t)
  /\ UNCHANGED <<inflight, overtaken>>

\* Mutant: cancellation is not one-way.
AdvanceAttemptUncancels(t, n, target) ==
  /\ IsLive(t, n)
  /\ PlanCleared(t)
  /\ attempt' = [attempt EXCEPT ![t][n] = target]
  /\ UNCHANGED <<taskVars, class, paused, approved, inflight, overtaken>>

\* A holder asked to stop does not go back to running.
AdvanceAttempt(t, n, target) ==
  /\ IsLive(t, n)
  /\ PlanCleared(t)
  /\ attempt[t][n] = "Cancelling" => target = "Cancelling"
  /\ attempt' = [attempt EXCEPT ![t][n] = target]
  /\ UNCHANGED <<taskVars, class, paused, approved, inflight, overtaken>>

RequestCancel(t, n) ==
  /\ IsLive(t, n)
  /\ attempt' = [attempt EXCEPT ![t][n] = "Cancelling"]
  /\ UNCHANGED <<taskVars, class, paused, approved, inflight, overtaken>>

RequestPause(t, n) ==
  /\ IsLive(t, n) /\ attempt[t][n] # "Cancelling"
  /\ paused' = [paused EXCEPT ![t] = @ \cup {n}]
  /\ UNCHANGED <<taskVars, attempt, class, approved, inflight, overtaken>>

Resume(t, n) ==
  /\ IsLive(t, n) /\ n \in paused[t]
  /\ PlanCleared(t)
  /\ paused' = [paused EXCEPT ![t] = @ \ {n}]
  /\ UNCHANGED <<taskVars, attempt, class, approved, inflight, overtaken>>

\* Mutant: the fence looks only at the attempt itself.
MayFinishUnfenced(t, n) == IsLive(t, n)

\* The fence: the attempt is live, is the task's current one, and holds the
\* task's latest lease epoch.
MayFinish(t, n) ==
  /\ IsLive(t, n)
  /\ current[t] = n
  /\ epoch[t] = n

\* A holder classifies its own failure; the other outcomes are NotRetryable.
FinishAttempt(t, n, outcome, c) ==
  /\ MayFinish(t, n)
  /\ outcome # "Failed" => c = "NotRetryable"
  /\ ReplayAttemptFinished(t, n, outcome, c)
  /\ UNCHANGED <<inflight, overtaken>>

Verify(t) ==
  /\ TransitionAllowed(state[t], "Verified")
  /\ ReplayTransitioned(t, "Verified")
  /\ UNCHANGED <<inflight, overtaken>>

\* The clock passes lease_expires_at_ms.
LeaseLapse(t) ==
  /\ lease[t] = "valid"
  /\ lease' = [lease EXCEPT ![t] = "lapsed"]
  /\ UNCHANGED <<state, deps, epoch, current, attemptVars, approved, inflight, overtaken>>

-----------------------------------------------------------------------------
(* retry: checks on the view, then three commits.                          *)

\* Mutant: a task that was never attempted is not refused.
RetryBeginNothing(v, t) ==
  LET n == epoch[t] IN
  /\ inflight[v] = Idle
  /\ PlanCleared(t)
  /\ n < MaxAttempts
  /\ n \in Epochs => attempt[t][n] \notin Live /\ class[t][n] = "Retryable"
  /\ inflight' = [inflight EXCEPT ![v] = [op |-> "supersede", task |-> t, epoch |-> n]]
  /\ UNCHANGED <<taskVars, attemptVars, approved, overtaken>>

\* Mutant: the holder's classification is not consulted.
RetryBeginUnclassified(v, t) ==
  LET n == epoch[t] IN
  /\ inflight[v] = Idle
  /\ PlanCleared(t)
  /\ n \in Epochs /\ n < MaxAttempts
  /\ attempt[t][n] \notin Live
  /\ inflight' = [inflight EXCEPT ![v] = [op |-> "supersede", task |-> t, epoch |-> n]]
  /\ UNCHANGED <<taskVars, attemptVars, approved, overtaken>>

RetryBegin(v, t) ==
  LET n == epoch[t] IN
  /\ inflight[v] = Idle
  /\ PlanCleared(t)
  /\ n \in Epochs /\ n < MaxAttempts
  /\ attempt[t][n] \notin Live
  /\ class[t][n] = "Retryable"
  /\ inflight' = [inflight EXCEPT ![v] = [op |-> "supersede", task |-> t, epoch |-> n]]
  /\ UNCHANGED <<taskVars, attemptVars, approved, overtaken>>

RetrySupersede(v) ==
  LET c == inflight[v] IN
  /\ c.op = "supersede"
  /\ ReplayAttemptSuperseded(c.task, c.epoch)
  /\ OvertakenWhen(current[c.task] # 0, c.task, "supersede")
  /\ inflight' = [inflight EXCEPT ![v].op = "requeue"]

\* transition(id, Ready): a task already Ready is not an error.
RetryRequeue(v) ==
  LET c == inflight[v] IN
  /\ c.op = "requeue"
  /\ \/ /\ state[c.task] = "Ready"
        /\ UNCHANGED <<taskVars, attemptVars, approved, overtaken>>
     \/ /\ TransitionAllowed(state[c.task], "Ready")
        /\ state[c.task] = "Pending" => IsReady(c.task)
        /\ ReplayTransitioned(c.task, "Ready")
        /\ OvertakenWhen(epoch[c.task] # c.epoch, c.task, "requeue")
  /\ inflight' = [inflight EXCEPT ![v].op = "restart"]

RetryRestart(v) ==
  LET c == inflight[v] IN
  /\ c.op = "restart"
  /\ CanStart(c.task)
  /\ ReplayAttemptStarted(c.task)
  /\ Settled(v)
  /\ UNCHANGED overtaken

-----------------------------------------------------------------------------
(* close (complete, fail, cancel): refresh, read the current attempt, then *)
(* finish that attempt or, when there was none, move the task itself.      *)

CloseBegin(v, t, target) ==
  /\ inflight[v] = Idle
  /\ state[t] \notin {"Absent", target}
  /\ inflight' = [inflight EXCEPT
       ![v] = [op |-> "close", task |-> t, epoch |-> current[t], target |-> target]]
  /\ UNCHANGED <<taskVars, attemptVars, approved, overtaken>>

CloseAttempt(v) ==
  LET c == inflight[v] IN
  /\ c.op = "close"
  /\ c.epoch # 0
  /\ MayFinish(c.task, c.epoch)
  /\ ReplayAttemptFinished(c.task, c.epoch, c.target, "NotRetryable")
  /\ Settled(v)
  /\ UNCHANGED overtaken

CloseTask(v) ==
  LET c == inflight[v] IN
  /\ c.op = "close"
  /\ c.epoch = 0
  /\ TransitionAllowed(state[c.task], c.target)
  /\ ReplayTransitioned(c.task, c.target)
  /\ OvertakenWhen(current[c.task] # 0, c.task, "close")
  /\ Settled(v)

-----------------------------------------------------------------------------
(* expire: the candidates are read from the view, then committed one by    *)
(* one; the closure rechecks only that the task is still Running.          *)

RecoverBegin(v) ==
  LET held == {t \in Tasks : state[t] = "Running" /\ lease[t] = "lapsed"} IN
  /\ inflight[v] = Idle
  /\ held # {}
  /\ inflight' = [inflight EXCEPT ![v] = [op |-> "recover", tasks |-> held]]
  /\ UNCHANGED <<taskVars, attemptVars, approved, overtaken>>

ReclaimBegin(v) ==
  LET held == {t \in Tasks : state[t] = "Running"} IN
  /\ inflight[v] = Idle
  /\ held # {}
  /\ inflight' = [inflight EXCEPT ![v] = [op |-> "reclaim", tasks |-> held]]
  /\ UNCHANGED <<taskVars, attemptVars, approved, overtaken>>

\* Mutant: the closure does not recheck that the task is still running.
ExpireUnchecked(v, t) ==
  LET c == inflight[v] IN
  /\ c.op \in {"recover", "reclaim"}
  /\ t \in c.tasks
  /\ ReplayAttemptExpired(t)
  /\ inflight' = [inflight EXCEPT
       ![v] = IF c.tasks = {t} THEN Idle ELSE [c EXCEPT !.tasks = @ \ {t}]]
  /\ UNCHANGED overtaken

Expire(v, t) ==
  LET c == inflight[v] IN
  /\ c.op \in {"recover", "reclaim"}
  /\ t \in c.tasks
  /\ state[t] = "Running"
  /\ ReplayAttemptExpired(t)
  /\ inflight' = [inflight EXCEPT
       ![v] = IF c.tasks = {t} THEN Idle ELSE [c EXCEPT !.tasks = @ \ {t}]]
  /\ UNCHANGED overtaken

\* A command whose closure refuses, whose commits keep losing the race for
\* the version (COMMIT_ATTEMPTS), or whose process died: what it committed
\* stays, the rest never happens.
Abandon(v) ==
  /\ inflight[v] # Idle
  /\ Settled(v)
  /\ UNCHANGED <<taskVars, attemptVars, approved, overtaken>>

-----------------------------------------------------------------------------
Init ==
  /\ state = [t \in Tasks |-> "Absent"]
  /\ deps = [t \in Tasks |-> {}]
  /\ epoch = [t \in Tasks |-> 0]
  /\ current = [t \in Tasks |-> 0]
  /\ lease = [t \in Tasks |-> "none"]
  /\ attempt = [t \in Tasks |-> [n \in Epochs |-> "none"]]
  /\ class = [t \in Tasks |-> [n \in Epochs |-> "NotRetryable"]]
  /\ paused = [t \in Tasks |-> {}]
  /\ approved = [t \in Tasks |-> NotApproved]
  /\ inflight = [v \in Views |-> Idle]
  /\ overtaken = [t \in Tasks |-> {}]

TaskStep(t) ==
  \/ \E D \in SUBSET Tasks : AddTask(t, D)
  \/ Ready(t)
  \/ Block(t)
  \/ \E v \in Starters : StartAttempt(v, t)
  \/ Verify(t)
  \/ LeaseLapse(t)

SteeringStep(t, n) ==
  \/ \E target \in Live : AdvanceAttempt(t, n, target)
  \/ RequestCancel(t, n)
  \/ RequestPause(t, n)
  \/ Resume(t, n)

AttemptStep(t, n) ==
  \/ t \in Steered /\ SteeringStep(t, n)
  \/ \E outcome \in Outcomes, c \in Retryability : FinishAttempt(t, n, outcome, c)

RetryStep(v) ==
  \/ \E t \in Tasks : RetryBegin(v, t)
  \/ RetrySupersede(v)
  \/ RetryRequeue(v)
  \/ RetryRestart(v)

CloseStep(v) ==
  \/ \E t \in Tasks, target \in Outcomes : CloseBegin(v, t, target)
  \/ CloseAttempt(v)
  \/ CloseTask(v)

RecoverStep(v) ==
  \/ RecoverBegin(v)
  \/ ReclaimBegin(v)
  \/ \E t \in Tasks : Expire(v, t)

Next ==
  \/ \E t \in Tasks : TaskStep(t)
  \/ \E t \in Tasks, n \in Epochs : AttemptStep(t, n)
  \/ \E S \in SUBSET PlanTasks, note \in Notes : ApprovePlan(S, note)
  \/ \E v \in Retriers : RetryStep(v)
  \/ \E v \in Closers : CloseStep(v)
  \/ \E v \in Recoverers : RecoverStep(v)
  \/ \E v \in Views : Abandon(v)

Spec == Init /\ [][Next]_vars

-----------------------------------------------------------------------------
(* Properties.                                                             *)

\* An attempt a task points at is the one it started last and is still live:
\* start, finish, expire and supersede (replay_attempt_*) always move the
\* pointer and the attempt's state together, from whichever view.
CurrentIsLiveAndNewest ==
  \A t \in Tasks : current[t] # 0 =>
    /\ current[t] = epoch[t]
    /\ IsLive(t, current[t])

\* An attempt never revives: a cancelling one only ends, an ended one keeps
\* its outcome unless retry supersedes a failure classified Retryable.
AttemptNeverRevives ==
  [][\A t \in Tasks, n \in Epochs :
       /\ attempt[t][n] = "Cancelling" =>
            attempt'[t][n] \in {"Cancelling"} \cup Terminal
       /\ attempt[t][n] \in Terminal =>
            \/ attempt'[t][n] = attempt[t][n]
            \/ attempt'[t][n] = "Superseded" /\ class[t][n] = "Retryable"]_vars

\* add refuses every edge that closes a cycle, so any set of tasks has one
\* that waits for none of the others: dependencies cannot deadlock.
NoDependencyCycle ==
  \A S \in SUBSET Tasks : S # {} => \E t \in S : deps[t] \cap S = {}

\* approve_plan and the gates of ready, start_attempt, advance_attempt and
\* resume: a recorded approval and its note never change, and no attempt of a
\* plan task ever starts, works or resumes without one.
PlanApprovalGate ==
  [][\A t \in Tasks :
       /\ approved[t] # NotApproved => approved'[t] = approved[t]
       /\ (t \in PlanTasks /\ approved[t] = NotApproved) =>
            state'[t] # "Ready" /\ UNCHANGED <<epoch[t], attempt[t]>>]_vars

\* No commit of these kinds was made to the task on what was gone by then.
Undisturbed(t, how) == \A h \in how : h \notin overtaken[t]

\* Start, finish, expire, retry and close, from any views: a task is running
\* exactly while it has a holder that may finish it.  Only a supersede that
\* retires the wrong attempt and a close of the task itself under a new holder
\* part the two.
RunningHasHolder ==
  \A t \in Tasks :
    /\ state[t] = "Running" /\ Undisturbed(t, {"supersede"}) => current[t] # 0
    /\ current[t] # 0 /\ Undisturbed(t, {"close"}) => state[t] = "Running"

\* A finished dependency, or one closed under its holder, which may still report.
DependenciesStand(t) == \A d \in deps[t] : Finished(d) \/ "close" \in overtaken[d]

\* Work stands only on completed dependencies, also after retries, recoveries
\* and stale closes put a task back in the queue; a dependency is taken back
\* only where its holder reported after it was closed under it.
WorkStandsOnCompletedDependencies ==
  \A t \in Tasks :
    state[t] \in {"Ready", "Running", "Completed", "Verified"} => DependenciesStand(t)

\* A task that is not coming back, or that a stale command brought back.
Dead(t) == PermanentlyStopped(t) \/ ~ Undisturbed(t, {"requeue", "close"})

\* TaskState::Blocked: some dependency ended without completing and is not
\* coming back, unless a stale command brought it back itself.
BlockedBehindStoppedDependency ==
  \A t \in Tasks : state[t] = "Blocked" => \E d \in deps[t] : Dead(d)

\* The attempt before the next one was taken back by recovery, or failed in a
\* way its holder classified Retryable.
LastMayBeReplaced(t) ==
  \/ attempt[t][epoch[t]] = "Expired"
  \/ attempt[t][epoch[t]] = "Superseded" /\ class[t][epoch[t]] = "Retryable"

\* retry's checks survive everything that happens between its commits, but for
\* a stale retry that requeues the failure of, or retires, a newer attempt.
RestartOnlyAfterRetryable ==
  [][\A t \in Tasks :
       (epoch'[t] # epoch[t] /\ epoch[t] \in Epochs) =>
         LastMayBeReplaced(t) \/ ~ Undisturbed(t, {"supersede", "requeue"})]_vars

\* retry's promise: it refuses a failure that its holder did not classify
\* Retryable, so a further attempt never follows one.
NewAttemptOnlyAfterRetryable ==
  [][\A t \in Tasks :
       (epoch'[t] # epoch[t] /\ epoch[t] \in Epochs) => LastMayBeReplaced(t)]_vars

\* The attempts whose holder reported an outcome; retry supersedes some of
\* them later, and only them.
Reported ==
  [t \in Tasks |-> {n \in Epochs : attempt[t][n] \in Outcomes \cup {"Superseded"}}]

\* The tasks that were closed as if they had no holder, while they had one.
Intruded == {t \in Tasks : "close" \in overtaken[t]}

Ten == INSTANCE Tenure WITH
  newest <- epoch, holder <- current, reported <- Reported, intruded <- Intruded

\* start_attempt, finish_attempt's fence, expire and retry together, from any
\* views: a task's attempts never overlap unless it was closed under one of
\* them, each ends with its own holder's report or is taken back without one,
\* and no later attempt touches what was reported.
ImplementsTenure == Ten!Spec

\* cancel's promise: a task that was cancelled stays cancelled.
CancelledIsFinal ==
  [][\A t \in Tasks : state[t] = "Cancelled" => state'[t] = "Cancelled"]_vars

\* request_cancel's promise: an attempt that was told to end is not resumed,
\* its task does not go back to the queue when the holder is found gone.
CancelOutlivesHolder ==
  [][\A t \in Tasks, n \in Epochs :
       attempt[t][n] = "Cancelling" /\ attempt'[t][n] = "Expired"
         => state'[t] # "Ready"]_vars

-----------------------------------------------------------------------------
(* The strengthening the proofs induct on.                                 *)

\* Nothing is recorded of an attempt that has not started.
UnstartedUntouched ==
  \A t \in Tasks, n \in Epochs :
    n > epoch[t] => attempt[t][n] = "none" /\ class[t][n] = "NotRetryable"

\* Only an attempt that ended carries the classification retry looks for.
RetryableHasEnded ==
  \A t \in Tasks, n \in Epochs :
    class[t][n] = "Retryable" => attempt[t][n] \in Terminal

\* A task that is queued, running or was ever started is cleared by its plan.
ClearedBeforeWork ==
  \A t \in Tasks :
    (state[t] \in {"Ready", "Running"} \/ epoch[t] # 0) => PlanCleared(t)

\* A retry in flight: what its stale checks established still holds.
RetryInFlight ==
  \A v \in Views : inflight[v].op \in RetrySteps =>
    /\ PlanCleared(inflight[v].task)
    /\ class[inflight[v].task][inflight[v].epoch] = "Retryable"

IInv ==
  /\ TypeOK
  /\ CurrentIsLiveAndNewest
  /\ UnstartedUntouched
  /\ RetryableHasEnded
  /\ ClearedBeforeWork
  /\ RetryInFlight

=============================================================================
