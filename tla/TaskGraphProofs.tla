-------------------------- MODULE TaskGraphProofs --------------------------
(***************************************************************************)
(* Proofs about TaskGraph, for any set of tasks, views and any roles of    *)
(* the views: no assumption limits who starts, retries, closes, recovers.  *)
(***************************************************************************)
EXTENDS TaskGraph, TLAPS

\* A command's fields are those its op announces.
LEMMA CommandShape ==
  ASSUME NEW c \in Commands
  PROVE  /\ c.op \in RetrySteps => c.task \in Tasks /\ c.epoch \in Epochs
         /\ c.op = "close" => /\ c.task \in Tasks
                              /\ c.epoch \in {0} \cup Epochs
                              /\ c.target \in Outcomes
         /\ c.op \in {"recover", "reclaim"} => c.tasks \in SUBSET Tasks
  BY DEF Commands, Idle, RetrySteps, Outcomes

\* Ending a command leaves every view with a command.
LEMMA SettledType ==
  ASSUME TypeOK, NEW v \in Views, Settled(v)
  PROVE  inflight' \in [Views -> Commands]
  BY DEF TypeOK, Settled, Commands

\* What remembering a stale commit does to the history of overtaken commits.
LEMMA OvertakenGrows ==
  ASSUME TypeOK, NEW t \in Tasks, NEW how \in Overtakings, NEW stale \in BOOLEAN,
         OvertakenWhen(stale, t, how)
  PROVE  /\ overtaken' \in [Tasks -> SUBSET Overtakings]
         /\ \A u \in Tasks \ {t} : overtaken'[u] = overtaken[u]
         /\ overtaken[t] \subseteq overtaken'[t]
         /\ \A h \in overtaken'[t] : h \in overtaken[t] \/ h = how
         /\ stale => how \in overtaken'[t]
         /\ ~stale => overtaken' = overtaken
  BY DEF TypeOK, OvertakenWhen

-----------------------------------------------------------------------------
(* Folding one event keeps every variable in its type.                     *)

LEMMA TransitionedType ==
  ASSUME TypeOK, NEW t \in Tasks, NEW to \in TaskStates,
         ReplayTransitioned(t, to), inflight' \in [Views -> Commands],
         overtaken' \in [Tasks -> SUBSET Overtakings]
  PROVE  TypeOK'
  BY DEF TypeOK, ReplayTransitioned

LEMMA StartedType ==
  ASSUME TypeOK, NEW t \in Tasks, epoch[t] < MaxEpoch,
         ReplayAttemptStarted(t), inflight' \in [Views -> Commands],
         overtaken' \in [Tasks -> SUBSET Overtakings]
  PROVE  TypeOK'
<1>1. epoch[t] \in {0} \cup Epochs
  BY DEF TypeOK
<1>2. epoch[t] + 1 \in Epochs
  BY <1>1, TaskGraphAssumption DEF Epochs
<1>3. QED
  BY <1>2 DEF TypeOK, ReplayAttemptStarted, TaskStates, Leases, AttemptStates, Live

LEMMA FinishedType ==
  ASSUME TypeOK, NEW t \in Tasks, NEW n \in Epochs, NEW o \in Outcomes,
         NEW c \in Retryability,
         ReplayAttemptFinished(t, n, o, c), inflight' \in [Views -> Commands],
         overtaken' \in [Tasks -> SUBSET Overtakings]
  PROVE  TypeOK'
  BY DEF TypeOK, ReplayAttemptFinished, TaskStates, Leases, AttemptStates, Terminal, Outcomes

LEMMA ExpiredType ==
  ASSUME TypeOK, NEW t \in Tasks,
         ReplayAttemptExpired(t), inflight' \in [Views -> Commands],
         overtaken' \in [Tasks -> SUBSET Overtakings]
  PROVE  TypeOK'
  BY DEF TypeOK, ReplayAttemptExpired, TaskStates, Leases, AttemptStates, Terminal

LEMMA SupersededType ==
  ASSUME TypeOK, NEW t \in Tasks, NEW n \in Epochs,
         ReplayAttemptSuperseded(t, n), inflight' \in [Views -> Commands],
         overtaken' \in [Tasks -> SUBSET Overtakings]
  PROVE  TypeOK'
  BY DEF TypeOK, ReplayAttemptSuperseded, Leases, AttemptStates, Terminal

-----------------------------------------------------------------------------
(* Each group of actions keeps the types.                                  *)

LEMMA TaskStepType ==
  ASSUME TypeOK, NEW t \in Tasks, TaskStep(t)
  PROVE  TypeOK'
<1>1. ASSUME NEW D \in SUBSET Tasks, AddTask(t, D) PROVE TypeOK'
  BY <1>1 DEF TypeOK, AddTask, TaskStates
<1>2. CASE Ready(t)
  BY <1>2, TransitionedType DEF Ready, TypeOK, TaskStates
<1>3. CASE Block(t)
  BY <1>3, TransitionedType DEF Block, TypeOK, TaskStates
<1>4. ASSUME NEW v \in Starters, StartAttempt(v, t) PROVE TypeOK'
  BY <1>4, StartedType DEF StartAttempt, CanStart, TypeOK
<1>5. CASE Verify(t)
  BY <1>5, TransitionedType DEF Verify, TypeOK, TaskStates
<1>6. CASE LeaseLapse(t)
  BY <1>6 DEF TypeOK, LeaseLapse, Leases, attemptVars
<1>7. QED
  BY <1>1, <1>2, <1>3, <1>4, <1>5, <1>6 DEF TaskStep

LEMMA AttemptStepType ==
  ASSUME TypeOK, NEW t \in Tasks, NEW n \in Epochs, AttemptStep(t, n)
  PROVE  TypeOK'
<1>1. ASSUME NEW target \in Live, AdvanceAttempt(t, n, target) PROVE TypeOK'
  BY <1>1 DEF TypeOK, AdvanceAttempt, AttemptStates, taskVars
<1>2. CASE RequestCancel(t, n)
  BY <1>2 DEF TypeOK, RequestCancel, AttemptStates, Live, taskVars
<1>3. CASE RequestPause(t, n)
  BY <1>3 DEF TypeOK, RequestPause, taskVars
<1>4. CASE Resume(t, n)
  BY <1>4 DEF TypeOK, Resume, taskVars
<1>5. ASSUME NEW o \in Outcomes, NEW c \in Retryability, FinishAttempt(t, n, o, c)
      PROVE  TypeOK'
  BY <1>5, FinishedType DEF FinishAttempt, TypeOK
<1>6. QED
  BY <1>1, <1>2, <1>3, <1>4, <1>5 DEF AttemptStep, SteeringStep

LEMMA RetryStepType ==
  ASSUME TypeOK, NEW v \in Views, RetryStep(v)
  PROVE  TypeOK'
<1>1. inflight[v] \in Commands
  BY DEF TypeOK
<1>2. ASSUME NEW t \in Tasks, RetryBegin(v, t) PROVE TypeOK'
  <2>1. [op |-> "supersede", task |-> t, epoch |-> epoch[t]] \in Commands
    BY <1>2 DEF RetryBegin, Commands, RetrySteps
  <2>2. QED
    BY <1>2, <2>1 DEF TypeOK, RetryBegin, taskVars, attemptVars
<1>3. ASSUME inflight[v].op \in RetrySteps, NEW step \in RetrySteps,
             inflight' = [inflight EXCEPT ![v].op = step]
      PROVE  inflight' \in [Views -> Commands]
  <2>1. inflight[v] \in [op : RetrySteps, task : Tasks, epoch : Epochs]
    BY <1>1, <1>3 DEF Commands, Idle, RetrySteps
  <2>2. [inflight[v] EXCEPT !.op = step] \in Commands
    BY <2>1 DEF Commands
  <2>3. QED
    BY <1>3, <2>2 DEF TypeOK
<1>4. CASE RetrySupersede(v)
  <2>1. inflight' \in [Views -> Commands]
    BY <1>3, <1>4 DEF RetrySupersede, RetrySteps
  <2>2. inflight[v].task \in Tasks /\ inflight[v].epoch \in Epochs
    BY <1>1, <1>4, CommandShape DEF RetrySupersede, RetrySteps
  <2>3. overtaken' \in [Tasks -> SUBSET Overtakings]
    BY <1>4, <2>2, OvertakenGrows DEF RetrySupersede, Overtakings
  <2>4. QED
    BY <1>4, <2>1, <2>2, <2>3, SupersededType DEF RetrySupersede
<1>5. CASE RetryRequeue(v)
  <2>1. inflight' \in [Views -> Commands]
    BY <1>3, <1>5 DEF RetryRequeue, RetrySteps
  <2>2. inflight[v].task \in Tasks
    BY <1>1, <1>5, CommandShape DEF RetryRequeue, RetrySteps
  <2>3. ASSUME ReplayTransitioned(inflight[v].task, "Ready"),
               OvertakenWhen(epoch[inflight[v].task] # inflight[v].epoch,
                             inflight[v].task, "requeue")
        PROVE  TypeOK'
    <3>1. overtaken' \in [Tasks -> SUBSET Overtakings]
      BY <2>2, <2>3, OvertakenGrows DEF Overtakings
    <3>2. QED
      BY <2>1, <2>2, <2>3, <3>1, TransitionedType DEF TaskStates
  <2>4. CASE UNCHANGED <<taskVars, attemptVars, approved, overtaken>>
    BY <2>1, <2>4 DEF TypeOK, taskVars, attemptVars
  <2>5. QED
    BY <1>5, <2>3, <2>4 DEF RetryRequeue
<1>6. CASE RetryRestart(v)
  <2>1. inflight[v].task \in Tasks
    BY <1>1, <1>6, CommandShape DEF RetryRestart, RetrySteps
  <2>2. QED
    BY <1>6, <2>1, SettledType, StartedType DEF RetryRestart, CanStart, TypeOK
<1>7. QED
  BY <1>2, <1>4, <1>5, <1>6 DEF RetryStep

LEMMA CloseStepType ==
  ASSUME TypeOK, NEW v \in Views, CloseStep(v)
  PROVE  TypeOK'
<1>1. inflight[v] \in Commands
  BY DEF TypeOK
<1>2. ASSUME NEW t \in Tasks, NEW o \in Outcomes, CloseBegin(v, t, o) PROVE TypeOK'
  <2>1. [op |-> "close", task |-> t, epoch |-> current[t], target |-> o] \in Commands
    BY DEF TypeOK, Commands
  <2>2. QED
    BY <1>2, <2>1 DEF TypeOK, CloseBegin, taskVars, attemptVars
<1>3. CASE CloseAttempt(v)
  <2>1. /\ inflight[v].task \in Tasks
        /\ inflight[v].epoch \in Epochs
        /\ inflight[v].target \in Outcomes
    BY <1>1, <1>3, CommandShape DEF CloseAttempt
  <2>2. "NotRetryable" \in Retryability
    BY DEF Retryability
  <2>3. QED
    BY <1>3, <2>1, <2>2, SettledType, FinishedType DEF CloseAttempt, TypeOK
<1>4. CASE CloseTask(v)
  <2>1. inflight[v].task \in Tasks /\ inflight[v].target \in TaskStates
    BY <1>1, <1>4, CommandShape DEF CloseTask, Outcomes, TaskStates
  <2>2. overtaken' \in [Tasks -> SUBSET Overtakings]
    BY <1>4, <2>1, OvertakenGrows DEF CloseTask, Overtakings
  <2>3. QED
    BY <1>4, <2>1, <2>2, SettledType, TransitionedType DEF CloseTask
<1>5. QED
  BY <1>2, <1>3, <1>4 DEF CloseStep

LEMMA RecoverStepType ==
  ASSUME TypeOK, NEW v \in Views, RecoverStep(v)
  PROVE  TypeOK'
<1>1. inflight[v] \in Commands
  BY DEF TypeOK
<1>2. ASSUME NEW held \in SUBSET Tasks, NEW o \in {"recover", "reclaim"},
             inflight' = [inflight EXCEPT ![v] = [op |-> o, tasks |-> held]]
      PROVE  inflight' \in [Views -> Commands]
  <2>1. [op |-> o, tasks |-> held] \in Commands
    BY DEF Commands
  <2>2. QED
    BY <1>2, <2>1 DEF TypeOK
<1>3. CASE RecoverBegin(v)
  BY <1>2, <1>3 DEF TypeOK, RecoverBegin, taskVars, attemptVars
<1>4. CASE ReclaimBegin(v)
  BY <1>2, <1>4 DEF TypeOK, ReclaimBegin, taskVars, attemptVars
<1>5. ASSUME NEW t \in Tasks, Expire(v, t) PROVE TypeOK'
  <2>1. inflight[v] \in [op : {"recover", "reclaim"}, tasks : SUBSET Tasks]
    BY <1>1, <1>5 DEF Expire, Commands, Idle, RetrySteps
  <2>2. [inflight[v] EXCEPT !.tasks = @ \ {t}] \in Commands /\ Idle \in Commands
    BY <2>1 DEF Commands
  <2>3. inflight' \in [Views -> Commands]
    BY <1>5, <2>2 DEF Expire, TypeOK
  <2>4. QED
    BY <1>5, <2>3, ExpiredType DEF Expire, TypeOK
<1>6. QED
  BY <1>3, <1>4, <1>5 DEF RecoverStep

LEMMA InitType == Init => TypeOK
  BY DEF Init, TypeOK, TaskStates, Leases, AttemptStates, Retryability, Commands

LEMMA StepType == TypeOK /\ [Next]_vars => TypeOK'
<1> SUFFICES ASSUME TypeOK, [Next]_vars PROVE TypeOK'
  OBVIOUS
<1>1. ASSUME NEW S \in SUBSET PlanTasks, NEW note \in Notes, ApprovePlan(S, note)
      PROVE  TypeOK'
  BY <1>1, TaskGraphAssumption DEF TypeOK, ApprovePlan, taskVars, attemptVars
<1>2. ASSUME NEW v \in Views, Abandon(v) PROVE TypeOK'
  BY <1>2, SettledType DEF TypeOK, Abandon, taskVars, attemptVars
<1>3. CASE UNCHANGED vars
  BY <1>3 DEF TypeOK, vars
<1>4. QED
  BY <1>1, <1>2, <1>3, TaskGraphAssumption, TaskStepType, AttemptStepType,
     RetryStepType, CloseStepType, RecoverStepType DEF Next

\* Every reachable projection is well typed, and every view's command names
\* tasks and epochs that exist.
THEOREM TypeCorrect == Spec => []TypeOK
  BY InitType, StepType, PTL DEF Spec

-----------------------------------------------------------------------------
(* The inductive invariant.  Rest is what IInv adds to the types.          *)

Rest ==
  /\ CurrentIsLiveAndNewest
  /\ UnstartedUntouched
  /\ RetryableHasEnded
  /\ ClearedBeforeWork
  /\ RetryInFlight

\* A step that leaves the retries in flight alone: those in flight after it
\* were in flight before it.
NoNewRetry ==
  \A v \in Views : inflight'[v].op \in RetrySteps =>
    /\ inflight[v].op \in RetrySteps
    /\ inflight'[v].task = inflight[v].task
    /\ inflight'[v].epoch = inflight[v].epoch

LEMMA TransitionedRest ==
  ASSUME TypeOK, Rest, NEW t \in Tasks, NEW to,
         to \in {"Ready", "Running"} => PlanCleared(t),
         ReplayTransitioned(t, to), NoNewRetry
  PROVE  Rest'
<1>1. CurrentIsLiveAndNewest'
  BY DEF Rest, ReplayTransitioned, CurrentIsLiveAndNewest, IsLive
<1>2. UnstartedUntouched'
  BY DEF Rest, ReplayTransitioned, UnstartedUntouched
<1>3. RetryableHasEnded'
  BY DEF Rest, ReplayTransitioned, RetryableHasEnded
<1>4. ClearedBeforeWork'
  BY DEF Rest, TypeOK, ReplayTransitioned, ClearedBeforeWork, PlanCleared
<1>5. RetryInFlight'
  BY DEF Rest, ReplayTransitioned, NoNewRetry, RetryInFlight, PlanCleared
<1>6. QED
  BY <1>1, <1>2, <1>3, <1>4, <1>5 DEF Rest

LEMMA StartedRest ==
  ASSUME TypeOK, Rest, NEW t \in Tasks, epoch[t] < MaxEpoch, PlanCleared(t),
         ReplayAttemptStarted(t), NoNewRetry
  PROVE  Rest'
<1>1. epoch[t] \in {0} \cup Epochs
  BY DEF TypeOK
<1>2. epoch[t] + 1 \in Epochs /\ epoch[t] + 1 > epoch[t] /\ epoch[t] + 1 # 0
  BY <1>1, TaskGraphAssumption DEF Epochs
<1>3. attempt[t][epoch[t] + 1] = "none" /\ class[t][epoch[t] + 1] = "NotRetryable"
  BY <1>2 DEF Rest, UnstartedUntouched
<1>4. CurrentIsLiveAndNewest'
  BY <1>2 DEF Rest, TypeOK, ReplayAttemptStarted, CurrentIsLiveAndNewest, IsLive, Live
<1>5. UnstartedUntouched'
  <2> SUFFICES ASSUME NEW u \in Tasks, NEW n \in Epochs, n > epoch'[u]
               PROVE  attempt'[u][n] = "none" /\ class'[u][n] = "NotRetryable"
    BY DEF UnstartedUntouched
  <2>1. n > epoch[u] /\ (u = t => n # epoch[t] + 1)
    BY <1>1, <1>2 DEF ReplayAttemptStarted, TypeOK, Epochs
  <2>2. QED
    BY <2>1, <1>2 DEF Rest, TypeOK, UnstartedUntouched, ReplayAttemptStarted
<1>6. RetryableHasEnded'
  BY <1>2, <1>3 DEF Rest, TypeOK, ReplayAttemptStarted, RetryableHasEnded
<1>7. ClearedBeforeWork'
  BY DEF Rest, TypeOK, ReplayAttemptStarted, ClearedBeforeWork, PlanCleared
<1>8. RetryInFlight'
  BY CommandShape DEF Rest, TypeOK, ReplayAttemptStarted, NoNewRetry, RetryInFlight, PlanCleared
<1>9. QED
  BY <1>4, <1>5, <1>6, <1>7, <1>8 DEF Rest

LEMMA FinishedRest ==
  ASSUME TypeOK, Rest, NEW t \in Tasks, NEW n \in Epochs, NEW o \in Outcomes,
         NEW c \in Retryability, MayFinish(t, n),
         ReplayAttemptFinished(t, n, o, c), NoNewRetry
  PROVE  Rest'
<1>1. n = epoch[t] /\ attempt[t][n] \in Live /\ ~(n > epoch[t])
  BY DEF MayFinish, IsLive, Epochs
<1>2. class[t][n] # "Retryable"
  BY <1>1 DEF Rest, RetryableHasEnded, Live, Terminal
<1>3. CurrentIsLiveAndNewest'
  BY <1>1 DEF Rest, TypeOK, ReplayAttemptFinished, CurrentIsLiveAndNewest, IsLive
<1>4. UnstartedUntouched'
  BY <1>1 DEF Rest, TypeOK, ReplayAttemptFinished, UnstartedUntouched
<1>5. RetryableHasEnded'
  BY <1>1 DEF Rest, TypeOK, ReplayAttemptFinished, RetryableHasEnded, Outcomes, Terminal
<1>6. ClearedBeforeWork'
  BY <1>1 DEF Rest, TypeOK, ReplayAttemptFinished, ClearedBeforeWork, PlanCleared, Outcomes
<1>7. RetryInFlight'
  <2> SUFFICES ASSUME NEW v \in Views, inflight'[v].op \in RetrySteps
               PROVE  /\ PlanCleared(inflight[v].task)'
                      /\ class'[inflight'[v].task][inflight'[v].epoch] = "Retryable"
    BY DEF RetryInFlight
  <2>1. inflight[v].task \in Tasks /\ inflight[v].epoch \in Epochs
    BY CommandShape DEF NoNewRetry, TypeOK
  <2>2. /\ PlanCleared(inflight[v].task)
        /\ class[inflight[v].task][inflight[v].epoch] = "Retryable"
    BY DEF NoNewRetry, Rest, RetryInFlight
  <2>3. class'[inflight[v].task][inflight[v].epoch] = "Retryable"
    BY <1>2, <2>1, <2>2 DEF TypeOK, ReplayAttemptFinished
  <2>4. QED
    BY <2>2, <2>3 DEF NoNewRetry, ReplayAttemptFinished, PlanCleared
<1>8. QED
  BY <1>3, <1>4, <1>5, <1>6, <1>7 DEF Rest

LEMMA ExpiredRest ==
  ASSUME TypeOK, Rest, NEW t \in Tasks, state[t] = "Running",
         ReplayAttemptExpired(t), NoNewRetry
  PROVE  Rest'
<1>1. current[t] \in Epochs => current[t] = epoch[t] /\ ~(current[t] > epoch[t])
  BY DEF Rest, CurrentIsLiveAndNewest, Epochs
<1>2. CurrentIsLiveAndNewest'
  BY DEF Rest, TypeOK, ReplayAttemptExpired, CurrentIsLiveAndNewest, IsLive
<1>3. UnstartedUntouched'
  BY <1>1 DEF Rest, TypeOK, ReplayAttemptExpired, UnstartedUntouched
<1>4. RetryableHasEnded'
  BY DEF Rest, TypeOK, ReplayAttemptExpired, RetryableHasEnded, Terminal
<1>5. ClearedBeforeWork'
  BY DEF Rest, TypeOK, ReplayAttemptExpired, ClearedBeforeWork, PlanCleared
<1>6. RetryInFlight'
  BY CommandShape DEF Rest, TypeOK, ReplayAttemptExpired, NoNewRetry, RetryInFlight, PlanCleared
<1>7. QED
  BY <1>2, <1>3, <1>4, <1>5, <1>6 DEF Rest

LEMMA SupersededRest ==
  ASSUME TypeOK, Rest, NEW t \in Tasks, NEW n \in Epochs,
         class[t][n] = "Retryable",
         ReplayAttemptSuperseded(t, n), NoNewRetry
  PROVE  Rest'
<1>1. ~(n > epoch[t])
  BY DEF Rest, UnstartedUntouched
<1>2. CurrentIsLiveAndNewest'
  <2>1. attempt[t][n] \notin Live
    BY DEF Rest, RetryableHasEnded, Live, Terminal
  <2>2. QED
    BY <2>1 DEF Rest, TypeOK, ReplayAttemptSuperseded, CurrentIsLiveAndNewest, IsLive
<1>3. UnstartedUntouched'
  BY <1>1 DEF Rest, TypeOK, ReplayAttemptSuperseded, UnstartedUntouched
<1>4. RetryableHasEnded'
  BY DEF Rest, TypeOK, ReplayAttemptSuperseded, RetryableHasEnded, Terminal
<1>5. ClearedBeforeWork'
  BY DEF Rest, TypeOK, ReplayAttemptSuperseded, ClearedBeforeWork, PlanCleared
<1>6. RetryInFlight'
  BY CommandShape DEF Rest, TypeOK, ReplayAttemptSuperseded, NoNewRetry, RetryInFlight, PlanCleared
<1>7. QED
  BY <1>2, <1>3, <1>4, <1>5, <1>6 DEF Rest

-----------------------------------------------------------------------------
(* Each group of actions keeps Rest.                                       *)

LEMMA TaskStepRest ==
  ASSUME TypeOK, Rest, NEW t \in Tasks, TaskStep(t)
  PROVE  Rest'
<1>1. inflight' = inflight => NoNewRetry
  BY DEF NoNewRetry
<1>2. ASSUME NEW D \in SUBSET Tasks, AddTask(t, D) PROVE Rest'
  BY <1>2 DEF AddTask, Rest, TypeOK, CurrentIsLiveAndNewest, IsLive,
     UnstartedUntouched, RetryableHasEnded, ClearedBeforeWork, RetryInFlight, PlanCleared
<1>3. CASE Ready(t)
  BY <1>1, <1>3, TransitionedRest DEF Ready, IsReady
<1>4. CASE Block(t)
  BY <1>1, <1>4, TransitionedRest DEF Block
<1>5. ASSUME NEW v \in Starters, StartAttempt(v, t) PROVE Rest'
  BY <1>1, <1>5, StartedRest DEF StartAttempt, CanStart
<1>6. CASE Verify(t)
  BY <1>1, <1>6, TransitionedRest DEF Verify
<1>7. CASE LeaseLapse(t)
  BY <1>7 DEF LeaseLapse, attemptVars, Rest, CurrentIsLiveAndNewest, IsLive,
     UnstartedUntouched, RetryableHasEnded, ClearedBeforeWork, RetryInFlight, PlanCleared
<1>8. QED
  BY <1>2, <1>3, <1>4, <1>5, <1>6, <1>7 DEF TaskStep

\* Moving a live attempt to a live state disturbs nothing Rest says.
LEMMA AttemptMovedRest ==
  ASSUME TypeOK, Rest, NEW t \in Tasks, NEW n \in Epochs, NEW s \in Live, IsLive(t, n),
         attempt' = [attempt EXCEPT ![t][n] = s],
         UNCHANGED <<taskVars, class, paused, approved, inflight>>
  PROVE  Rest'
<1>1. attempt[t][n] \in Live /\ attempt[t][n] \notin Terminal /\ ~(n > epoch[t])
  BY DEF IsLive, Live, Terminal, Rest, UnstartedUntouched
<1>2. CurrentIsLiveAndNewest'
  BY DEF Rest, TypeOK, taskVars, CurrentIsLiveAndNewest, IsLive
<1>3. UnstartedUntouched'
  BY <1>1 DEF Rest, TypeOK, taskVars, UnstartedUntouched
<1>4. RetryableHasEnded'
  BY <1>1 DEF Rest, TypeOK, RetryableHasEnded
<1>5. ClearedBeforeWork' /\ RetryInFlight'
  BY DEF Rest, taskVars, ClearedBeforeWork, RetryInFlight, PlanCleared
<1>6. QED
  BY <1>2, <1>3, <1>4, <1>5 DEF Rest

LEMMA PausedRest ==
  ASSUME Rest, UNCHANGED <<taskVars, attempt, class, approved, inflight>>
  PROVE  Rest'
  BY DEF Rest, taskVars, CurrentIsLiveAndNewest, IsLive, UnstartedUntouched,
     RetryableHasEnded, ClearedBeforeWork, RetryInFlight, PlanCleared

LEMMA AttemptStepRest ==
  ASSUME TypeOK, Rest, NEW t \in Tasks, NEW n \in Epochs, AttemptStep(t, n)
  PROVE  Rest'
<1>1. ASSUME NEW target \in Live, AdvanceAttempt(t, n, target) PROVE Rest'
  BY <1>1, AttemptMovedRest DEF AdvanceAttempt
<1>2. CASE RequestCancel(t, n)
  BY <1>2, AttemptMovedRest DEF RequestCancel, Live
<1>3. CASE RequestPause(t, n)
  BY <1>3, PausedRest DEF RequestPause
<1>4. CASE Resume(t, n)
  BY <1>4, PausedRest DEF Resume
<1>5. ASSUME NEW o \in Outcomes, NEW c \in Retryability, FinishAttempt(t, n, o, c)
      PROVE  Rest'
  BY <1>5, FinishedRest DEF FinishAttempt, NoNewRetry
<1>6. QED
  BY <1>1, <1>2, <1>3, <1>4, <1>5 DEF AttemptStep, SteeringStep

LEMMA RetryStepRest ==
  ASSUME TypeOK, Rest, NEW v \in Views, RetryStep(v)
  PROVE  Rest'
<1>1. inflight[v] \in Commands
  BY DEF TypeOK
<1>2. ASSUME NEW t \in Tasks, RetryBegin(v, t) PROVE Rest'
  <2>1. RetryInFlight'
    BY <1>2 DEF RetryBegin, Rest, TypeOK, RetryInFlight, PlanCleared, taskVars, attemptVars
  <2>2. QED
    BY <1>2, <2>1 DEF RetryBegin, Rest, taskVars, attemptVars, CurrentIsLiveAndNewest,
       IsLive, UnstartedUntouched, RetryableHasEnded, ClearedBeforeWork, PlanCleared
<1>3. ASSUME inflight[v].op \in RetrySteps, NEW step \in RetrySteps,
             inflight' = [inflight EXCEPT ![v].op = step]
      PROVE  NoNewRetry
  <2>1. inflight[v] \in [op : RetrySteps, task : Tasks, epoch : Epochs]
    BY <1>1, <1>3 DEF Commands, Idle, RetrySteps
  <2>2. QED
    BY <1>3, <2>1 DEF TypeOK, NoNewRetry
<1>4. inflight[v].op \in RetrySteps =>
        /\ inflight[v].task \in Tasks
        /\ inflight[v].epoch \in Epochs
        /\ PlanCleared(inflight[v].task)
        /\ class[inflight[v].task][inflight[v].epoch] = "Retryable"
  BY <1>1, CommandShape DEF Rest, RetryInFlight
<1>5. CASE RetrySupersede(v)
  <2>1. NoNewRetry
    BY <1>3, <1>5 DEF RetrySupersede, RetrySteps
  <2>2. QED
    BY <1>4, <1>5, <2>1, SupersededRest DEF RetrySupersede, RetrySteps
<1>6. CASE RetryRequeue(v)
  <2>1. NoNewRetry
    BY <1>3, <1>6 DEF RetryRequeue, RetrySteps
  <2>2. inflight[v].task \in Tasks /\ PlanCleared(inflight[v].task)
    BY <1>4, <1>6 DEF RetryRequeue, RetrySteps
  <2>3. CASE ReplayTransitioned(inflight[v].task, "Ready")
    BY <2>1, <2>2, <2>3, TransitionedRest
  <2>4. CASE UNCHANGED <<taskVars, attemptVars, approved>>
    <3>1. RetryInFlight'
      BY <2>1, <2>4 DEF NoNewRetry, Rest, RetryInFlight, PlanCleared, attemptVars
    <3>2. QED
      BY <2>4, <3>1 DEF Rest, taskVars, attemptVars, CurrentIsLiveAndNewest,
         IsLive, UnstartedUntouched, RetryableHasEnded, ClearedBeforeWork, PlanCleared
  <2>5. QED
    BY <1>6, <2>3, <2>4 DEF RetryRequeue
<1>7. CASE RetryRestart(v)
  <2>1. NoNewRetry
    BY <1>7 DEF RetryRestart, Settled, NoNewRetry, TypeOK, Idle, RetrySteps
  <2>2. QED
    BY <1>4, <1>7, <2>1, StartedRest DEF RetryRestart, CanStart, RetrySteps
<1>8. QED
  BY <1>2, <1>5, <1>6, <1>7 DEF RetryStep

\* A step that only starts or ends a command which is not a retry.
LEMMA OtherCommandRest ==
  ASSUME Rest, NoNewRetry, UNCHANGED <<taskVars, attemptVars, approved>>
  PROVE  Rest'
<1>1. RetryInFlight'
  BY DEF NoNewRetry, Rest, RetryInFlight, PlanCleared, attemptVars
<1>2. QED
  BY <1>1 DEF Rest, taskVars, attemptVars, CurrentIsLiveAndNewest,
     IsLive, UnstartedUntouched, RetryableHasEnded, ClearedBeforeWork, PlanCleared

LEMMA CloseStepRest ==
  ASSUME TypeOK, Rest, NEW v \in Views, CloseStep(v)
  PROVE  Rest'
<1>1. inflight[v] \in Commands
  BY DEF TypeOK
<1>2. Settled(v) => NoNewRetry
  BY DEF Settled, NoNewRetry, TypeOK, Idle, RetrySteps
<1>3. ASSUME NEW t \in Tasks, NEW o \in Outcomes, CloseBegin(v, t, o) PROVE Rest'
  <2>1. NoNewRetry
    BY <1>3 DEF CloseBegin, NoNewRetry, TypeOK, RetrySteps
  <2>2. QED
    BY <1>3, <2>1, OtherCommandRest DEF CloseBegin
<1>4. CASE CloseAttempt(v)
  <2>1. /\ inflight[v].task \in Tasks
        /\ inflight[v].epoch \in Epochs
        /\ inflight[v].target \in Outcomes
    BY <1>1, <1>4, CommandShape DEF CloseAttempt
  <2>2. "NotRetryable" \in Retryability
    BY DEF Retryability
  <2>3. QED
    BY <1>2, <1>4, <2>1, <2>2, FinishedRest DEF CloseAttempt
<1>5. CASE CloseTask(v)
  <2>1. inflight[v].task \in Tasks /\ inflight[v].target \notin {"Ready", "Running"}
    BY <1>1, <1>5, CommandShape DEF CloseTask, Outcomes
  <2>2. QED
    BY <1>2, <1>5, <2>1, TransitionedRest DEF CloseTask
<1>6. QED
  BY <1>3, <1>4, <1>5 DEF CloseStep

LEMMA RecoverStepRest ==
  ASSUME TypeOK, Rest, NEW v \in Views, RecoverStep(v)
  PROVE  Rest'
<1>1. inflight[v] \in Commands
  BY DEF TypeOK
<1>2. ASSUME NEW held, NEW o \in {"recover", "reclaim"},
             inflight' = [inflight EXCEPT ![v] = [op |-> o, tasks |-> held]]
      PROVE  NoNewRetry
  BY <1>2 DEF NoNewRetry, TypeOK, RetrySteps
<1>3. CASE RecoverBegin(v)
  BY <1>2, <1>3, OtherCommandRest DEF RecoverBegin
<1>4. CASE ReclaimBegin(v)
  BY <1>2, <1>4, OtherCommandRest DEF ReclaimBegin
<1>5. ASSUME NEW t \in Tasks, Expire(v, t) PROVE Rest'
  <2>1. inflight[v] \in [op : {"recover", "reclaim"}, tasks : SUBSET Tasks]
    BY <1>1, <1>5 DEF Expire, Commands, Idle, RetrySteps
  <2>2. /\ [inflight[v] EXCEPT !.tasks = @ \ {t}].op \notin RetrySteps
        /\ Idle.op \notin RetrySteps
    BY <2>1 DEF Idle, RetrySteps
  <2>3. NoNewRetry
    BY <1>5, <2>2 DEF Expire, TypeOK, NoNewRetry
  <2>4. QED
    BY <1>5, <2>3, ExpiredRest DEF Expire
<1>6. QED
  BY <1>3, <1>4, <1>5 DEF RecoverStep

LEMMA ApproveRest ==
  ASSUME TypeOK, Rest, NEW S \in SUBSET PlanTasks, NEW note \in Notes,
         ApprovePlan(S, note)
  PROVE  Rest'
<1>1. \A t \in Tasks : PlanCleared(t) => PlanCleared(t)'
  BY TaskGraphAssumption DEF ApprovePlan, PlanCleared, TypeOK
<1>2. ClearedBeforeWork'
  BY <1>1 DEF ApprovePlan, Rest, ClearedBeforeWork, taskVars
<1>3. RetryInFlight'
  <2>1. \A v \in Views : inflight[v].op \in RetrySteps => inflight[v].task \in Tasks
    BY CommandShape DEF TypeOK
  <2>2. QED
    BY <1>1, <2>1 DEF ApprovePlan, Rest, RetryInFlight, attemptVars
<1>4. QED
  BY <1>2, <1>3 DEF ApprovePlan, Rest, taskVars, attemptVars, CurrentIsLiveAndNewest,
     IsLive, UnstartedUntouched, RetryableHasEnded

LEMMA InitInvariant == Init => IInv
  BY InitType DEF Init, IInv, CurrentIsLiveAndNewest, UnstartedUntouched,
     RetryableHasEnded, ClearedBeforeWork, RetryInFlight, Idle, RetrySteps

LEMMA StepInvariant == IInv /\ [Next]_vars => IInv'
<1> SUFFICES ASSUME IInv, [Next]_vars PROVE IInv'
  OBVIOUS
<1>1. TypeOK /\ Rest /\ TypeOK'
  BY StepType DEF IInv, Rest
<1>2. ASSUME NEW v \in Views, Abandon(v) PROVE Rest'
  <2>1. NoNewRetry
    BY <1>1, <1>2 DEF Abandon, Settled, NoNewRetry, TypeOK, Idle, RetrySteps
  <2>2. QED
    BY <1>1, <1>2, <2>1, OtherCommandRest DEF Abandon
<1>3. ASSUME UNCHANGED vars PROVE Rest'
  <2>1. NoNewRetry
    BY <1>3 DEF vars, NoNewRetry
  <2>2. UNCHANGED <<taskVars, attemptVars, approved>>
    BY <1>3 DEF vars, taskVars, attemptVars
  <2>3. QED
    BY <1>1, <2>1, <2>2, OtherCommandRest
<1>4. Rest'
  <2>1. CASE \E t \in Tasks : TaskStep(t)
    BY <1>1, <2>1, TaskStepRest
  <2>2. CASE \E t \in Tasks, n \in Epochs : AttemptStep(t, n)
    BY <1>1, <2>2, AttemptStepRest
  <2>3. CASE \E S \in SUBSET PlanTasks, note \in Notes : ApprovePlan(S, note)
    BY <1>1, <2>3, ApproveRest
  <2>4. CASE \E v \in Retriers : RetryStep(v)
    BY <1>1, <2>4, TaskGraphAssumption, RetryStepRest
  <2>5. CASE \E v \in Closers : CloseStep(v)
    BY <1>1, <2>5, TaskGraphAssumption, CloseStepRest
  <2>6. CASE \E v \in Recoverers : RecoverStep(v)
    BY <1>1, <2>6, TaskGraphAssumption, RecoverStepRest
  <2>7. QED
    BY <1>2, <1>3, <2>1, <2>2, <2>3, <2>4, <2>5, <2>6 DEF Next
<1>5. QED
  BY <1>1, <1>4 DEF IInv, Rest

\* The strengthening holds in every reachable state.
THEOREM Invariant == Spec => []IInv
  BY InitInvariant, StepInvariant, PTL DEF Spec

\* Whoever starts, retries, closes or recovers: a task never points at an
\* attempt that ended or was replaced.
THEOREM CurrentCorrect == Spec => []CurrentIsLiveAndNewest
<1>1. IInv => CurrentIsLiveAndNewest
  BY DEF IInv
<1>2. QED
  BY <1>1, Invariant, PTL

-----------------------------------------------------------------------------
(* What a step may never do, from the inductive invariant.                 *)

\* Every way a step changes the state of attempt n of task t.
AttemptChange(t, n) ==
  \/ attempt'[t][n] = attempt[t][n]
  \/ attempt[t][n] = "none" /\ attempt'[t][n] = "Starting"
  \/ /\ attempt[t][n] \in Live /\ attempt'[t][n] \in Live
     /\ attempt[t][n] = "Cancelling" => attempt'[t][n] = "Cancelling"
  \/ /\ attempt[t][n] \in Live /\ attempt'[t][n] \in Outcomes
     /\ n = epoch[t] /\ n = current[t]
  \/ attempt[t][n] \in Live /\ attempt'[t][n] = "Expired"
  \/ /\ attempt[t][n] \in Terminal /\ attempt'[t][n] = "Superseded"
     /\ class[t][n] = "Retryable"

LEMMA OnlyAttemptChanges ==
  ASSUME IInv, Next, NEW t \in Tasks, NEW n \in Epochs
  PROVE  AttemptChange(t, n)
<1>1. /\ TypeOK /\ CurrentIsLiveAndNewest /\ UnstartedUntouched
      /\ RetryableHasEnded /\ RetryInFlight
  BY DEF IInv
<1>2. attempt' = attempt => AttemptChange(t, n)
  BY DEF AttemptChange
<1>3. ASSUME NEW u \in Tasks, epoch[u] < MaxEpoch, ReplayAttemptStarted(u)
      PROVE  AttemptChange(t, n)
  <2>1. epoch[u] + 1 \in Epochs /\ epoch[u] + 1 > epoch[u]
    BY <1>1, <1>3, TaskGraphAssumption DEF TypeOK, Epochs
  <2>2. attempt[u][epoch[u] + 1] = "none"
    BY <1>1, <2>1 DEF UnstartedUntouched
  <2>3. QED
    BY <1>1, <1>3, <2>1, <2>2 DEF ReplayAttemptStarted, TypeOK, AttemptChange
<1>4. ASSUME NEW u \in Tasks, NEW m \in Epochs, NEW o \in Outcomes, NEW c,
             MayFinish(u, m), ReplayAttemptFinished(u, m, o, c)
      PROVE  AttemptChange(t, n)
  BY <1>1, <1>4 DEF ReplayAttemptFinished, MayFinish, IsLive, TypeOK, AttemptChange
<1>5. ASSUME NEW u \in Tasks, TaskStep(u) PROVE AttemptChange(t, n)
  BY <1>2, <1>3, <1>5 DEF TaskStep, AddTask, Ready, Block, Verify, LeaseLapse,
     StartAttempt, CanStart, ReplayTransitioned, attemptVars
<1>6. ASSUME NEW u \in Tasks, NEW m \in Epochs, AttemptStep(u, m)
      PROVE  AttemptChange(t, n)
  <2>1. ASSUME NEW s \in Live, IsLive(u, m), attempt[u][m] = "Cancelling" => s = "Cancelling",
               attempt' = [attempt EXCEPT ![u][m] = s]
        PROVE  AttemptChange(t, n)
    BY <1>1, <2>1 DEF TypeOK, IsLive, AttemptChange
  <2>2. QED
    BY <1>2, <1>4, <1>6, <2>1 DEF AttemptStep, SteeringStep, AdvanceAttempt, RequestCancel,
       RequestPause, Resume, FinishAttempt, Live
<1>7. ASSUME NEW v \in Views, RetryStep(v) PROVE AttemptChange(t, n)
  <2>1. inflight[v] \in Commands
    BY <1>1 DEF TypeOK
  <2>2. CASE RetrySupersede(v)
    <3>1. /\ inflight[v].task \in Tasks /\ inflight[v].epoch \in Epochs
          /\ class[inflight[v].task][inflight[v].epoch] = "Retryable"
      BY <1>1, <2>1, <2>2, CommandShape DEF RetrySupersede, RetrySteps, RetryInFlight
    <3>2. attempt[inflight[v].task][inflight[v].epoch] \in Terminal
      BY <1>1, <3>1 DEF RetryableHasEnded
    <3>3. attempt' = [attempt EXCEPT ![inflight[v].task][inflight[v].epoch] = "Superseded"]
      BY <2>2 DEF RetrySupersede, ReplayAttemptSuperseded
    <3>4. QED
      BY <1>1, <3>1, <3>2, <3>3 DEF TypeOK, AttemptChange
  <2>3. CASE RetryRestart(v)
    <3>1. inflight[v].task \in Tasks
      BY <2>1, <2>3, CommandShape DEF RetryRestart, RetrySteps
    <3>2. QED
      BY <1>3, <2>3, <3>1 DEF RetryRestart, CanStart
  <2>4. QED
    BY <1>2, <1>7, <2>2, <2>3 DEF RetryStep, RetryBegin, RetryRequeue,
       ReplayTransitioned, attemptVars
<1>8. ASSUME NEW v \in Views, CloseStep(v) PROVE AttemptChange(t, n)
  <2>1. CASE CloseAttempt(v)
    <3>1. /\ inflight[v].task \in Tasks /\ inflight[v].epoch \in Epochs
          /\ inflight[v].target \in Outcomes
      BY <1>1, <2>1, CommandShape DEF CloseAttempt, TypeOK
    <3>2. QED
      BY <1>4, <2>1, <3>1 DEF CloseAttempt
  <2>2. QED
    BY <1>2, <1>8, <2>1 DEF CloseStep, CloseBegin, CloseTask, ReplayTransitioned, attemptVars
<1>9. ASSUME NEW v \in Views, RecoverStep(v) PROVE AttemptChange(t, n)
  <2>1. ASSUME NEW u \in Tasks, ReplayAttemptExpired(u) PROVE AttemptChange(t, n)
    <3>1. current[u] \in Epochs => attempt[u][current[u]] \in Live
      BY <1>1 DEF CurrentIsLiveAndNewest, IsLive, Epochs
    <3>2. QED
      BY <1>1, <2>1, <3>1 DEF ReplayAttemptExpired, TypeOK, AttemptChange
  <2>2. QED
    BY <1>2, <1>9, <2>1 DEF RecoverStep, RecoverBegin, ReclaimBegin, Expire, attemptVars
<1>10. QED
  BY <1>2, <1>5, <1>6, <1>7, <1>8, <1>9, TaskGraphAssumption
     DEF Next, ApprovePlan, Abandon, attemptVars

\* Cancelling is one-way and an outcome is permanent: the only later word on
\* an ended attempt is a retry superseding a failure classified Retryable.
THEOREM NeverRevives == Spec => AttemptNeverRevives
<1> DEFINE A == \A t \in Tasks, n \in Epochs :
                  /\ attempt[t][n] = "Cancelling" =>
                       attempt'[t][n] \in {"Cancelling"} \cup Terminal
                  /\ attempt[t][n] \in Terminal =>
                       \/ attempt'[t][n] = attempt[t][n]
                       \/ attempt'[t][n] = "Superseded" /\ class[t][n] = "Retryable"
<1>1. IInv /\ [Next]_vars => [A]_vars
  BY OnlyAttemptChanges DEF AttemptChange, Live, Outcomes, Terminal
<1>2. QED
  BY <1>1, Invariant, PTL DEF Spec, AttemptNeverRevives

-----------------------------------------------------------------------------
(* The plan gate.                                                          *)

\* Only approve_plan writes approvals, and it touches nothing else.
LEMMA OnlyApprovalApproves ==
  ASSUME Next
  PROVE  approved' = approved \/ \E S \in SUBSET PlanTasks, note \in Notes : ApprovePlan(S, note)
<1>1. ASSUME NEW t, TaskStep(t) PROVE approved' = approved
  BY <1>1 DEF TaskStep, AddTask, Ready, Block, StartAttempt, Verify, LeaseLapse,
     ReplayTransitioned, ReplayAttemptStarted
<1>2. ASSUME NEW t, NEW n, AttemptStep(t, n) PROVE approved' = approved
  BY <1>2 DEF AttemptStep, SteeringStep, AdvanceAttempt, RequestCancel, RequestPause, Resume,
     FinishAttempt, ReplayAttemptFinished
<1>3. ASSUME NEW v, RetryStep(v) PROVE approved' = approved
  BY <1>3 DEF RetryStep, RetryBegin, RetrySupersede, RetryRequeue, RetryRestart,
     ReplayAttemptSuperseded, ReplayTransitioned, ReplayAttemptStarted
<1>4. ASSUME NEW v, CloseStep(v) PROVE approved' = approved
  BY <1>4 DEF CloseStep, CloseBegin, CloseAttempt, CloseTask,
     ReplayAttemptFinished, ReplayTransitioned
<1>5. ASSUME NEW v, RecoverStep(v) PROVE approved' = approved
  BY <1>5 DEF RecoverStep, RecoverBegin, ReclaimBegin, Expire, ReplayAttemptExpired
<1>6. ASSUME NEW v, Abandon(v) PROVE approved' = approved
  BY <1>6 DEF Abandon
<1>7. QED
  BY <1>1, <1>2, <1>3, <1>4, <1>5, <1>6 DEF Next

\* An unapproved plan task is never ready and never gets an attempt, and a
\* recorded approval keeps its note.
THEOREM PlanGate == Spec => PlanApprovalGate
<1> DEFINE A == \A t \in Tasks :
       /\ approved[t] # NotApproved => approved'[t] = approved[t]
       /\ (t \in PlanTasks /\ approved[t] = NotApproved) =>
            state'[t] # "Ready" /\ UNCHANGED <<epoch[t], attempt[t]>>
<1>1. ASSUME IInv, IInv', Next PROVE A
  <2> SUFFICES ASSUME NEW t \in Tasks
               PROVE  /\ approved[t] # NotApproved => approved'[t] = approved[t]
                      /\ (t \in PlanTasks /\ approved[t] = NotApproved) =>
                           state'[t] # "Ready" /\ UNCHANGED <<epoch[t], attempt[t]>>
    OBVIOUS
  <2>1. CASE \E S \in SUBSET PlanTasks, note \in Notes : ApprovePlan(S, note)
    BY <1>1, <2>1 DEF ApprovePlan, taskVars, attemptVars, IInv, ClearedBeforeWork, PlanCleared
  <2>2. CASE approved' = approved
    <3> SUFFICES ASSUME t \in PlanTasks, approved[t] = NotApproved
                 PROVE  state'[t] # "Ready" /\ UNCHANGED <<epoch[t], attempt[t]>>
      BY <2>2
    <3>1. state'[t] # "Ready" /\ epoch[t] = 0 /\ epoch'[t] = 0
      BY <1>1, <2>2 DEF IInv, ClearedBeforeWork, PlanCleared
    <3>2. \A n \in Epochs : attempt[t][n] = "none" /\ attempt'[t][n] = "none"
      BY <1>1, <3>1 DEF IInv, UnstartedUntouched, Epochs
    <3>3. attempt[t] \in [Epochs -> AttemptStates] /\ attempt'[t] \in [Epochs -> AttemptStates]
      BY <1>1 DEF IInv, TypeOK
    <3>4. attempt'[t] = attempt[t]
      BY <3>2, <3>3
    <3>5. QED
      BY <3>1, <3>4
  <2>3. QED
    BY <1>1, <2>1, <2>2, OnlyApprovalApproves
<1>2. IInv /\ IInv' /\ [Next]_vars => [A]_vars
  BY <1>1
<1>3. QED
  BY <1>2, Invariant, PTL DEF Spec, PlanApprovalGate

-----------------------------------------------------------------------------
(* Dependencies.                                                           *)

\* Only add writes dependencies.
LEMMA DepsOnlyAdded ==
  ASSUME [Next]_vars
  PROVE  deps' = deps \/ \E t \in Tasks, D \in SUBSET Tasks : AddTask(t, D)
<1>1. ASSUME NEW t \in Tasks, TaskStep(t)
      PROVE  deps' = deps \/ \E D \in SUBSET Tasks : AddTask(t, D)
  BY <1>1 DEF TaskStep, Ready, Block, StartAttempt, Verify, LeaseLapse,
     ReplayTransitioned, ReplayAttemptStarted
<1>2. ASSUME NEW t \in Tasks, NEW n \in Epochs, AttemptStep(t, n) PROVE deps' = deps
  BY <1>2 DEF AttemptStep, SteeringStep, AdvanceAttempt, RequestCancel, RequestPause, Resume,
     FinishAttempt, ReplayAttemptFinished, taskVars
<1>3. ASSUME NEW v, RetryStep(v) PROVE deps' = deps
  BY <1>3 DEF RetryStep, RetryBegin, RetrySupersede, RetryRequeue, RetryRestart,
     ReplayAttemptSuperseded, ReplayTransitioned, ReplayAttemptStarted, taskVars
<1>4. ASSUME NEW v, CloseStep(v) PROVE deps' = deps
  BY <1>4 DEF CloseStep, CloseBegin, CloseAttempt, CloseTask,
     ReplayAttemptFinished, ReplayTransitioned, taskVars
<1>5. ASSUME NEW v, RecoverStep(v) PROVE deps' = deps
  BY <1>5 DEF RecoverStep, RecoverBegin, ReclaimBegin, Expire,
     ReplayAttemptExpired, taskVars
<1>6. ASSUME NEW S, NEW note, ApprovePlan(S, note) PROVE deps' = deps
  BY <1>6 DEF ApprovePlan, taskVars
<1>7. ASSUME NEW v, Abandon(v) PROVE deps' = deps
  BY <1>7 DEF Abandon, taskVars
<1>8. CASE UNCHANGED vars
  BY <1>8 DEF vars
<1>9. QED
  BY <1>1, <1>2, <1>3, <1>4, <1>5, <1>6, <1>7, <1>8 DEF Next

\* What would_cycle's refusal buys: a set the new task's dependencies close
\* over, without the task itself, splits any candidate cycle in two.
LEMMA AddKeepsAcyclic ==
  ASSUME TypeOK, NoDependencyCycle, NEW t \in Tasks, NEW D \in SUBSET Tasks,
         AddTask(t, D)
  PROVE  NoDependencyCycle'
<1> SUFFICES ASSUME NEW S \in SUBSET Tasks, S # {}
             PROVE  \E u \in S : deps'[u] \cap S = {}
  BY DEF NoDependencyCycle
<1>1. deps' = [deps EXCEPT ![t] = D] /\ deps \in [Tasks -> SUBSET Tasks]
  BY DEF AddTask, TypeOK
<1>2. PICK C \in SUBSET Tasks : D \subseteq C /\ DependencyClosed(C) /\ t \notin C
  BY DEF AddTask, WouldCycle
<1>3. CASE S \cap C # {}
  <2>1. PICK u \in S \cap C : deps[u] \cap (S \cap C) = {}
    BY <1>3 DEF NoDependencyCycle
  <2>2. deps[u] \subseteq C /\ u # t
    BY <1>2, <2>1 DEF DependencyClosed
  <2>3. deps'[u] \cap S = {}
    BY <1>1, <2>1, <2>2
  <2>4. QED
    BY <2>3
<1>4. CASE S \cap C = {} /\ t \in S
  BY <1>1, <1>2, <1>4
<1>5. CASE t \notin S
  <2>1. PICK u \in S : deps[u] \cap S = {}
    BY DEF NoDependencyCycle
  <2>2. QED
    BY <1>1, <1>5, <2>1
<1>6. QED
  BY <1>3, <1>4, <1>5

\* Whatever the order of creation, and with dependencies named before they
\* exist, no set of tasks waits only for itself.
THEOREM Acyclic == Spec => []NoDependencyCycle
<1>1. Init => NoDependencyCycle
  BY DEF Init, NoDependencyCycle
<1>2. TypeOK /\ NoDependencyCycle /\ [Next]_vars => NoDependencyCycle'
  BY DepsOnlyAdded, AddKeepsAcyclic DEF NoDependencyCycle
<1>3. QED
  BY <1>1, <1>2, TypeCorrect, PTL DEF Spec

-----------------------------------------------------------------------------
(* The queue of the task graph, from any views.  Retries, closes and       *)
(* recoveries race; overtaken names the commits that were made on what was *)
(* gone by then, and the invariant holds but for them.                     *)

\* Where a task is in the queue.
QueueInv(t) ==
  /\ state[t] = "Running" /\ Undisturbed(t, {"supersede"}) => current[t] # 0
  /\ current[t] # 0 /\ Undisturbed(t, {"close"}) => state[t] = "Running"
  /\ state[t] \in {"Absent", "Pending"} => epoch[t] = 0
  /\ state[t] \in {"Ready", "Running", "Completed", "Verified"} \/ epoch[t] # 0 =>
       DependenciesStand(t)
  /\ state[t] = "Blocked" => \E d \in deps[t] : Dead(d)
  /\ state[t] = "Ready" /\ epoch[t] \in Epochs =>
       LastMayBeReplaced(t) \/ ~ Undisturbed(t, {"supersede", "requeue"})

\* A retry that has superseded its attempt finds it superseded from then on.
CommandInv(v) ==
  inflight[v].op \in {"requeue", "restart"} =>
    attempt[inflight[v].task][inflight[v].epoch] = "Superseded"

Queued == \A t \in Tasks : QueueInv(t)
Commanded == \A v \in Views : CommandInv(v)
QInv == Queued /\ Commanded

\* A step that is about task t at most.
OnlyAbout(t) ==
  /\ \A u \in Tasks \ {t} : /\ state'[u] = state[u] /\ deps'[u] = deps[u]
                            /\ epoch'[u] = epoch[u] /\ current'[u] = current[u]
                            /\ attempt'[u] = attempt[u] /\ class'[u] = class[u]
                            /\ overtaken'[u] = overtaken[u]
  /\ overtaken[t] \subseteq overtaken'[t]

-----------------------------------------------------------------------------
(* What one event does to the queue.                                       *)

\* What was disturbed stays disturbed.
LEMMA DisturbedStays ==
  ASSUME NEW t \in Tasks, overtaken[t] \subseteq overtaken'[t], NEW how,
         ~ Undisturbed(t, how)
  PROVE  ~ Undisturbed(t, how)'
  BY DEF Undisturbed

\* A step on one task that takes no completion and no stop back, but those of
\* a task that a stale commit reopened, leaves the others where they are.
LEMMA OthersKept ==
  ASSUME TypeOK, Queued, NEW t \in Tasks, OnlyAbout(t),
         Finished(t) => Finished(t)' \/ "close" \in overtaken'[t],
         Dead(t) => Dead(t)',
         deps'[t] = deps[t] \/ state[t] = "Absent",
         state'[t] = "Running" /\ Undisturbed(t, {"supersede"})' => current'[t] # 0,
         current'[t] # 0 /\ Undisturbed(t, {"close"})' => state'[t] = "Running",
         state'[t] \in {"Absent", "Pending"} => epoch'[t] = 0,
         state'[t] \in {"Ready", "Running", "Completed", "Verified"} \/ epoch'[t] # 0 =>
           DependenciesStand(t) /\ deps'[t] = deps[t],
         state'[t] = "Blocked" => (\E d \in deps[t] : Dead(d)) /\ deps'[t] = deps[t],
         state'[t] = "Ready" /\ epoch'[t] \in Epochs =>
           LastMayBeReplaced(t)' \/ ~ Undisturbed(t, {"supersede", "requeue"})'
  PROVE  Queued'
<1>1. ASSUME NEW d \in Tasks
      PROVE  /\ Finished(d) \/ "close" \in overtaken[d] =>
                  Finished(d)' \/ "close" \in overtaken'[d]
             /\ Dead(d) => Dead(d)'
  <2>1. CASE d = t
    BY <2>1 DEF OnlyAbout
  <2>2. CASE d # t
    BY <2>2 DEF OnlyAbout, Finished, Dead, PermanentlyStopped, Undisturbed
  <2>3. QED
    BY <2>1, <2>2
<1>2. ASSUME NEW u \in Tasks, deps'[u] = deps[u]
      PROVE  /\ DependenciesStand(u) => DependenciesStand(u)'
             /\ (\E d \in deps[u] : Dead(d)) => (\E d \in deps[u] : Dead(d))'
  <2>1. deps[u] \subseteq Tasks
    BY DEF TypeOK
  <2>2. QED
    BY <1>1, <1>2, <2>1 DEF DependenciesStand
<1>3. ASSUME NEW u \in Tasks PROVE QueueInv(u)'
  <2>1. CASE u = t
    BY <1>2, <2>1 DEF QueueInv
  <2>2. CASE u # t
    <3>1. QueueInv(u) /\ deps'[u] = deps[u]
      BY <2>2 DEF Queued, OnlyAbout
    <3>2. /\ state'[u] = state[u] /\ epoch'[u] = epoch[u] /\ current'[u] = current[u]
          /\ LastMayBeReplaced(u)' = LastMayBeReplaced(u)
          /\ \A how : Undisturbed(u, how)' = Undisturbed(u, how)
      BY <2>2 DEF OnlyAbout, LastMayBeReplaced, Undisturbed
    <3>3. QED
      BY <1>2, <3>1, <3>2 DEF QueueInv
  <2>3. QED
    BY <2>1, <2>2
<1>4. QED
  BY <1>3 DEF Queued

\* A holder's task is running, unless it was closed under the holder.
LEMMA HeldRuns ==
  ASSUME Queued, NEW t \in Tasks, current[t] # 0, "close" \notin overtaken[t]
  PROVE  state[t] = "Running"
  BY DEF Queued, QueueInv, Undisturbed

LEMMA TransitionedQueue ==
  ASSUME TypeOK, Queued, NEW t \in Tasks, NEW to \in TaskStates,
         ReplayTransitioned(t, to), TransitionAllowed(state[t], to), to # "Running",
         \A u \in Tasks \ {t} : overtaken'[u] = overtaken[u],
         overtaken[t] \subseteq overtaken'[t],
         state[t] = "Running" /\ current[t] # 0 => "close" \in overtaken'[t],
         to = "Ready" =>
           /\ DependenciesStand(t)
           /\ PermanentlyStopped(t) => "requeue" \in overtaken'[t]
           /\ epoch[t] \in Epochs =>
                LastMayBeReplaced(t) \/ ~ Undisturbed(t, {"supersede", "requeue"})',
         to = "Blocked" => HasFailedDependency(t)
  PROVE  Queued'
<1>1. /\ state'[t] = to
      /\ UNCHANGED <<deps, epoch, current, attempt, class>>
      /\ OnlyAbout(t)
  BY DEF ReplayTransitioned, TypeOK, OnlyAbout
<1>2. QueueInv(t)
  BY DEF Queued
<1>3. Finished(t) => Finished(t)'
  BY <1>1 DEF Finished, TransitionAllowed
<1>4. Dead(t) => Dead(t)'
  <2>1. PermanentlyStopped(t) => to = "Ready"
    BY DEF PermanentlyStopped, TransitionAllowed
  <2>2. "requeue" \in overtaken'[t] => ~ Undisturbed(t, {"requeue", "close"})'
    BY DEF Undisturbed
  <2>3. QED
    BY <2>1, <2>2, DisturbedStays DEF Dead
<1>5. LastMayBeReplaced(t)' = LastMayBeReplaced(t)
  BY <1>1 DEF LastMayBeReplaced
<1>6. current[t] # 0 => "close" \in overtaken'[t]
  BY HeldRuns
<1>7. to \notin {"Absent", "Pending", "Running"}
  BY DEF TransitionAllowed
<1>8. to \in {"Completed", "Verified"} => state[t] \in {"Running", "Completed"}
  BY DEF TransitionAllowed
<1>9. "close" \in overtaken'[t] => ~ Undisturbed(t, {"close"})'
  BY DEF Undisturbed
<1>10. to = "Blocked" => \E d \in deps[t] : Dead(d)
  BY DEF HasFailedDependency, Dead
<1>11. to \in {"Ready", "Running", "Completed", "Verified"} \/ epoch[t] # 0 => DependenciesStand(t)
  BY <1>2, <1>7, <1>8 DEF QueueInv
<1>12. QED
  BY <1>1, <1>3, <1>4, <1>5, <1>6, <1>7, <1>9, <1>10, <1>11, OthersKept

LEMMA StartedQueue ==
  ASSUME TypeOK, Queued, NEW t \in Tasks, CanStart(t), ReplayAttemptStarted(t),
         UNCHANGED overtaken
  PROVE  Queued'
<1>1. epoch[t] \in Nat /\ epoch[t] + 1 \in Nat /\ epoch[t] + 1 # 0
  BY DEF TypeOK, Epochs
<1>2. state'[t] = "Running" /\ current'[t] # 0 /\ deps' = deps /\ OnlyAbout(t)
  BY <1>1 DEF ReplayAttemptStarted, TypeOK, OnlyAbout
<1>3. ~Finished(t) /\ ~PermanentlyStopped(t) /\ DependenciesStand(t)
  BY DEF CanStart, Finished, PermanentlyStopped, DependenciesCompleted, DependenciesStand
<1>4. Dead(t) => Dead(t)'
  BY <1>2, <1>3, DisturbedStays DEF Dead
<1>5. QED
  BY <1>2, <1>3, <1>4, OthersKept

LEMMA FinishedQueue ==
  ASSUME TypeOK, Queued, NEW t \in Tasks, NEW n \in Epochs, NEW o \in Outcomes,
         NEW c \in Retryability, MayFinish(t, n), ReplayAttemptFinished(t, n, o, c),
         UNCHANGED overtaken
  PROVE  Queued'
<1>1. /\ state'[t] = o /\ current'[t] = 0 /\ epoch' = epoch /\ deps' = deps
      /\ OnlyAbout(t)
  BY DEF ReplayAttemptFinished, TypeOK, OnlyAbout
<1>2. current[t] # 0 /\ epoch[t] # 0
  BY DEF MayFinish, Epochs
<1>3. DependenciesStand(t)
  BY <1>2 DEF Queued, QueueInv
<1>4. "close" \in overtaken[t] \/ (~Finished(t) /\ ~PermanentlyStopped(t))
  BY <1>2, HeldRuns DEF Finished, PermanentlyStopped
<1>5. Dead(t) => Dead(t)'
  <2>1. "close" \in overtaken[t] => ~ Undisturbed(t, {"requeue", "close"})
    BY DEF Undisturbed
  <2>2. QED
    BY <1>1, <1>4, <2>1, DisturbedStays DEF Dead, OnlyAbout
<1>6. o \notin {"Running", "Ready", "Absent", "Pending", "Blocked"}
  BY DEF Outcomes
<1>7. QED
  BY <1>1, <1>3, <1>4, <1>5, <1>6, OthersKept

LEMMA ExpiredQueue ==
  ASSUME TypeOK, Rest, Queued, NEW t \in Tasks, state[t] = "Running", ReplayAttemptExpired(t),
         UNCHANGED overtaken
  PROVE  Queued'
<1>1. /\ state'[t] = "Ready" /\ current'[t] = 0 /\ UNCHANGED <<epoch, deps, class>>
      /\ OnlyAbout(t)
  BY DEF ReplayAttemptExpired, TypeOK, OnlyAbout
<1>2. DependenciesStand(t)
  BY DEF Queued, QueueInv
<1>3. current[t] # 0 => attempt'[t][epoch'[t]] = "Expired"
  BY <1>1 DEF ReplayAttemptExpired, TypeOK, Rest, CurrentIsLiveAndNewest, IsLive
<1>4. current[t] = 0 => ~ Undisturbed(t, {"supersede", "requeue"})
  BY DEF Queued, QueueInv, Undisturbed
<1>5. ~Finished(t) /\ ~PermanentlyStopped(t)
  BY DEF Finished, PermanentlyStopped
<1>6. Dead(t) => Dead(t)'
  BY <1>1, <1>5, DisturbedStays DEF Dead, OnlyAbout
<1>7. LastMayBeReplaced(t)' \/ ~ Undisturbed(t, {"supersede", "requeue"})'
  BY <1>1, <1>3, <1>4, DisturbedStays DEF LastMayBeReplaced, OnlyAbout
<1>8. QED
  BY <1>1, <1>2, <1>5, <1>6, <1>7, OthersKept

LEMMA SupersededQueue ==
  ASSUME TypeOK, Queued, NEW t \in Tasks, NEW n \in Epochs, class[t][n] = "Retryable",
         ReplayAttemptSuperseded(t, n), OvertakenWhen(current[t] # 0, t, "supersede")
  PROVE  Queued'
<1>1. /\ \A u \in Tasks \ {t} : overtaken'[u] = overtaken[u]
      /\ overtaken[t] \subseteq overtaken'[t]
      /\ current[t] # 0 => "supersede" \in overtaken'[t]
  BY OvertakenGrows DEF Overtakings
<1>2. /\ UNCHANGED <<state, epoch, deps, class>> /\ current'[t] = 0 /\ OnlyAbout(t)
      /\ \A m \in Epochs : attempt'[t][m] = IF m = n THEN "Superseded" ELSE attempt[t][m]
  BY <1>1 DEF ReplayAttemptSuperseded, TypeOK, OnlyAbout
<1>3. QueueInv(t)
  BY DEF Queued
<1>4. Finished(t)' = Finished(t) /\ PermanentlyStopped(t)' = PermanentlyStopped(t)
  BY <1>2 DEF Finished, PermanentlyStopped
<1>5. Dead(t) => Dead(t)'
  BY <1>1, <1>4, DisturbedStays DEF Dead
<1>6. epoch[t] \in Epochs /\ LastMayBeReplaced(t) => LastMayBeReplaced(t)'
  BY <1>2 DEF LastMayBeReplaced
<1>7. state[t] = "Running" => ~ Undisturbed(t, {"supersede"})'
  BY <1>1, <1>3 DEF QueueInv, Undisturbed
<1>8. state[t] = "Ready" /\ epoch[t] \in Epochs =>
        LastMayBeReplaced(t)' \/ ~ Undisturbed(t, {"supersede", "requeue"})'
  BY <1>1, <1>3, <1>6, DisturbedStays DEF QueueInv
<1>9. QED
  BY <1>2, <1>3, <1>4, <1>5, <1>7, <1>8, OthersKept DEF QueueInv

\* A live attempt moves on.
LEMMA MovedQueue ==
  ASSUME TypeOK, Queued, NEW t \in Tasks, NEW n \in Epochs, NEW a,
         IsLive(t, n), attempt' = [attempt EXCEPT ![t][n] = a],
         UNCHANGED <<state, deps, epoch, current, class, overtaken>>
  PROVE  Queued'
<1>1. OnlyAbout(t)
  BY DEF TypeOK, OnlyAbout
<1>2. \A m \in Epochs \ {n} : attempt'[t][m] = attempt[t][m]
  BY DEF TypeOK
<1>3. QueueInv(t)
  BY DEF Queued
<1>4. epoch[t] \in Epochs /\ LastMayBeReplaced(t) => LastMayBeReplaced(t)'
  <2>1. ASSUME LastMayBeReplaced(t) PROVE epoch[t] # n
    BY <2>1 DEF LastMayBeReplaced, IsLive, Live
  <2>2. QED
    BY <1>2, <2>1 DEF LastMayBeReplaced
<1>5. /\ Finished(t)' = Finished(t) /\ Dead(t)' = Dead(t)
      /\ \A how : Undisturbed(t, how)' = Undisturbed(t, how)
  BY DEF Finished, Dead, PermanentlyStopped, Undisturbed
<1>6. QED
  BY <1>1, <1>3, <1>4, <1>5, OthersKept DEF QueueInv

LEMMA SameQueue ==
  ASSUME Queued, UNCHANGED <<state, deps, epoch, current, attempt, class, overtaken>>
  PROVE  Queued'
  BY DEF Queued, QueueInv, LastMayBeReplaced, DependenciesStand, Dead, Finished,
         PermanentlyStopped, Undisturbed


-----------------------------------------------------------------------------
(* The commands of the views.                                              *)

\* A retry past its first commit got there by superseding, and still looks at
\* the attempt it looked at.
RetryCameFrom(w) ==
  inflight'[w].op \in {"requeue", "restart"} =>
    /\ inflight[w].op \in RetrySteps
    /\ inflight'[w].task = inflight[w].task
    /\ inflight'[w].epoch = inflight[w].epoch
    /\ inflight[w].op = "supersede" => RetrySupersede(w)

LEMMA CommandsCameFrom ==
  ASSUME TypeOK, Next, NEW w \in Views
  PROVE  RetryCameFrom(w)
<1>1. inflight' = inflight /\ inflight[w].op # "supersede" => RetryCameFrom(w)
  BY DEF RetryCameFrom, RetrySteps
<1>2. inflight'[w] = inflight[w] => RetryCameFrom(w)
  BY DEF RetryCameFrom, RetrySteps
<1>3. ASSUME NEW v \in Views, Settled(v) PROVE RetryCameFrom(w)
  BY <1>2, <1>3 DEF Settled, TypeOK, RetryCameFrom, Idle
<1>4. ASSUME NEW t \in Tasks, TaskStep(t) PROVE RetryCameFrom(w)
  BY <1>2, <1>4 DEF TaskStep, AddTask, Ready, Block, StartAttempt, Verify, LeaseLapse
<1>5. ASSUME NEW t \in Tasks, NEW n \in Epochs, AttemptStep(t, n) PROVE RetryCameFrom(w)
  BY <1>2, <1>5 DEF AttemptStep, SteeringStep, AdvanceAttempt, RequestCancel, RequestPause,
     Resume, FinishAttempt
<1>6. ASSUME NEW v \in Views, RetryStep(v) PROVE RetryCameFrom(w)
  <2>1. inflight[v] \in Commands
    BY DEF TypeOK
  <2>2. ASSUME inflight[v].op \in RetrySteps, NEW step \in RetrySteps,
               inflight' = [inflight EXCEPT ![v].op = step],
               inflight[v].op = "supersede" => RetrySupersede(v)
        PROVE  RetryCameFrom(w)
    <3>1. inflight[v] \in [op : RetrySteps, task : Tasks, epoch : Epochs]
      BY <2>1, <2>2 DEF Commands, Idle, RetrySteps
    <3>2. QED
      BY <1>2, <2>2, <3>1 DEF TypeOK, RetryCameFrom
  <2>3. ASSUME NEW t \in Tasks, RetryBegin(v, t) PROVE RetryCameFrom(w)
    BY <1>2, <2>3 DEF RetryBegin, TypeOK, RetryCameFrom
  <2>4. CASE RetrySupersede(v)
    BY <2>2, <2>4 DEF RetrySupersede, RetrySteps
  <2>5. CASE RetryRequeue(v)
    BY <2>2, <2>5 DEF RetryRequeue, RetrySteps
  <2>6. CASE RetryRestart(v)
    BY <1>3, <2>6 DEF RetryRestart
  <2>7. QED
    BY <1>6, <2>3, <2>4, <2>5, <2>6 DEF RetryStep
<1>7. ASSUME NEW v \in Views, CloseStep(v) PROVE RetryCameFrom(w)
  <2>1. ASSUME NEW t \in Tasks, NEW o \in Outcomes, CloseBegin(v, t, o) PROVE RetryCameFrom(w)
    BY <1>2, <2>1 DEF CloseBegin, TypeOK, RetryCameFrom
  <2>2. QED
    BY <1>3, <1>7, <2>1 DEF CloseStep, CloseAttempt, CloseTask
<1>8. ASSUME NEW v \in Views, RecoverStep(v) PROVE RetryCameFrom(w)
  <2>1. inflight[v] \in Commands
    BY DEF TypeOK
  <2>2. CASE RecoverBegin(v) \/ ReclaimBegin(v)
    BY <1>2, <2>2 DEF RecoverBegin, ReclaimBegin, TypeOK, RetryCameFrom
  <2>3. ASSUME NEW t \in Tasks, Expire(v, t) PROVE RetryCameFrom(w)
    <3>1. inflight[v] \in [op : {"recover", "reclaim"}, tasks : SUBSET Tasks]
      BY <2>1, <2>3 DEF Expire, Commands, Idle, RetrySteps
    <3>2. QED
      BY <1>2, <2>3, <3>1 DEF Expire, TypeOK, RetryCameFrom, Idle
  <2>4. QED
    BY <1>8, <2>2, <2>3 DEF RecoverStep
<1>9. QED
  BY <1>2, <1>3, <1>4, <1>5, <1>6, <1>7, <1>8, TaskGraphAssumption
     DEF Next, ApprovePlan, Abandon

LEMMA StepCommands ==
  ASSUME IInv, Commanded, [Next]_vars
  PROVE  Commanded'
<1>1. CASE UNCHANGED vars
  BY <1>1 DEF vars, Commanded, CommandInv
<1>2. CASE Next
  <2> SUFFICES ASSUME NEW w \in Views, inflight'[w].op \in {"requeue", "restart"}
               PROVE  attempt'[inflight'[w].task][inflight'[w].epoch] = "Superseded"
    BY DEF Commanded, CommandInv
  <2>1. TypeOK /\ inflight[w] \in Commands
    BY DEF IInv, TypeOK
  <2>2. /\ inflight[w].op \in RetrySteps
        /\ inflight'[w].task = inflight[w].task
        /\ inflight'[w].epoch = inflight[w].epoch
        /\ inflight[w].op = "supersede" => RetrySupersede(w)
    BY <1>2, <2>1, CommandsCameFrom DEF RetryCameFrom
  <2>3. inflight[w].task \in Tasks /\ inflight[w].epoch \in Epochs
    BY <2>1, <2>2, CommandShape
  <2>4. CASE inflight[w].op = "supersede"
    BY <2>1, <2>2, <2>3, <2>4 DEF RetrySupersede, ReplayAttemptSuperseded, TypeOK
  <2>5. CASE inflight[w].op \in {"requeue", "restart"}
    <3>1. attempt[inflight[w].task][inflight[w].epoch] = "Superseded"
      BY <2>5 DEF Commanded, CommandInv
    <3>2. AttemptChange(inflight[w].task, inflight[w].epoch)
      BY <1>2, <2>3, OnlyAttemptChanges
    <3>3. QED
      BY <2>2, <3>1, <3>2 DEF AttemptChange, Live
  <2>6. QED
    BY <2>2, <2>4, <2>5 DEF RetrySteps
<1>3. QED
  BY <1>1, <1>2

-----------------------------------------------------------------------------
(* Each group of actions keeps the queue.                                  *)

LEMMA TaskStepQueue ==
  ASSUME TypeOK, Rest, Queued, NEW t \in Tasks, TaskStep(t)
  PROVE  Queued'
<1>1. ASSUME NEW D \in SUBSET Tasks, AddTask(t, D) PROVE Queued'
  <2>1. /\ state[t] = "Absent" /\ state'[t] = "Pending" /\ OnlyAbout(t)
        /\ UNCHANGED <<epoch, current, attempt, class, overtaken>>
    BY <1>1 DEF AddTask, TypeOK, OnlyAbout
  <2>2. epoch[t] = 0 /\ current[t] = 0
    BY <2>1 DEF Queued, QueueInv, Rest, CurrentIsLiveAndNewest, IsLive, Epochs
  <2>3. ~Finished(t) /\ ~PermanentlyStopped(t)
    BY <2>1 DEF Finished, PermanentlyStopped
  <2>4. Dead(t) => Dead(t)'
    BY <2>1, <2>3, DisturbedStays DEF Dead
  <2>5. QED
    BY <2>1, <2>2, <2>3, <2>4, OthersKept
<1>2. CASE Ready(t)
  <2>1. /\ ReplayTransitioned(t, "Ready") /\ UNCHANGED overtaken
        /\ state[t] = "Pending" /\ DependenciesStand(t)
    BY <1>2 DEF Ready, IsReady, DependenciesCompleted, DependenciesStand
  <2>2. epoch[t] \notin Epochs /\ ~PermanentlyStopped(t)
    BY <2>1 DEF Queued, QueueInv, PermanentlyStopped, Epochs
  <2>3. QED
    BY <2>1, <2>2, TransitionedQueue DEF TaskStates, TransitionAllowed
<1>3. CASE Block(t)
  <2>1. /\ ReplayTransitioned(t, "Blocked") /\ UNCHANGED overtaken
        /\ state[t] \in {"Pending", "Ready"} /\ HasFailedDependency(t)
    BY <1>3 DEF Block, Blockable
  <2>2. QED
    BY <2>1, TransitionedQueue DEF TaskStates, TransitionAllowed
<1>4. ASSUME NEW v \in Starters, StartAttempt(v, t) PROVE Queued'
  BY <1>4, StartedQueue DEF StartAttempt
<1>5. CASE Verify(t)
  <2>1. /\ ReplayTransitioned(t, "Verified") /\ UNCHANGED overtaken
        /\ TransitionAllowed(state[t], "Verified") /\ state[t] # "Running"
    BY <1>5 DEF Verify, TransitionAllowed
  <2>2. QED
    BY <2>1, TransitionedQueue DEF TaskStates
<1>6. CASE LeaseLapse(t)
  BY <1>6, SameQueue DEF LeaseLapse, attemptVars
<1>7. QED
  BY <1>1, <1>2, <1>3, <1>4, <1>5, <1>6 DEF TaskStep

LEMMA AttemptStepQueue ==
  ASSUME TypeOK, Queued, NEW t \in Tasks, NEW n \in Epochs, AttemptStep(t, n)
  PROVE  Queued'
<1>1. ASSUME NEW target \in Live, AdvanceAttempt(t, n, target) PROVE Queued'
  BY <1>1, MovedQueue DEF AdvanceAttempt, taskVars
<1>2. CASE RequestCancel(t, n)
  BY <1>2, MovedQueue DEF RequestCancel, taskVars
<1>3. CASE RequestPause(t, n) \/ Resume(t, n)
  BY <1>3, SameQueue DEF RequestPause, Resume, taskVars
<1>4. ASSUME NEW o \in Outcomes, NEW c \in Retryability, FinishAttempt(t, n, o, c)
      PROVE  Queued'
  BY <1>4, FinishedQueue DEF FinishAttempt
<1>5. QED
  BY <1>1, <1>2, <1>3, <1>4 DEF AttemptStep, SteeringStep

LEMMA RetryStepQueue ==
  ASSUME TypeOK, Rest, Queued, NEW v \in Views, CommandInv(v), RetryStep(v)
  PROVE  Queued'
<1> DEFINE c == inflight[v]
<1>1. c \in Commands
  BY DEF TypeOK
<1>2. ASSUME c.op \in RetrySteps
      PROVE  /\ c.task \in Tasks /\ c.epoch \in Epochs
             /\ class[c.task][c.epoch] = "Retryable"
             /\ epoch[c.task] # 0 /\ state[c.task] \notin {"Absent", "Pending"}
  <2>1. c.task \in Tasks /\ c.epoch \in Epochs /\ class[c.task][c.epoch] = "Retryable"
    BY <1>1, <1>2, CommandShape DEF Rest, RetryInFlight
  <2>2. epoch[c.task] # 0
    BY <2>1 DEF Rest, UnstartedUntouched, Epochs
  <2>3. QED
    BY <2>1, <2>2 DEF Queued, QueueInv
<1>3. ASSUME NEW t \in Tasks, RetryBegin(v, t) PROVE Queued'
  BY <1>3, SameQueue DEF RetryBegin, taskVars, attemptVars
<1>4. CASE RetrySupersede(v)
  BY <1>2, <1>4, SupersededQueue DEF RetrySupersede, RetrySteps
<1>5. ASSUME NEW t \in Tasks, NEW n \in Epochs, t = c.task, n = c.epoch,
             c.op = "requeue", TransitionAllowed(state[t], "Ready"),
             ReplayTransitioned(t, "Ready"),
             OvertakenWhen(epoch[t] # n, t, "requeue")
      PROVE  Queued'
  <2>1. class[t][n] = "Retryable" /\ epoch[t] # 0 /\ state[t] = "Failed"
    BY <1>2, <1>5 DEF RetrySteps, TransitionAllowed
  <2>2. /\ \A u \in Tasks \ {t} : overtaken'[u] = overtaken[u]
        /\ overtaken[t] \subseteq overtaken'[t]
        /\ epoch[t] # n => "requeue" \in overtaken'[t]
    BY <1>5, OvertakenGrows DEF Overtakings
  <2>3. DependenciesStand(t)
    BY <2>1 DEF Queued, QueueInv
  <2>4. PermanentlyStopped(t) => "requeue" \in overtaken'[t]
    BY <2>1, <2>2 DEF PermanentlyStopped
  <2>5. LastMayBeReplaced(t) \/ ~ Undisturbed(t, {"supersede", "requeue"})'
    <3>1. epoch[t] = n => LastMayBeReplaced(t)
      BY <1>5, <2>1 DEF CommandInv, LastMayBeReplaced
    <3>2. "requeue" \in overtaken'[t] => ~ Undisturbed(t, {"supersede", "requeue"})'
      BY DEF Undisturbed
    <3>3. QED
      BY <2>2, <3>1, <3>2
  <2>6. "Ready" \in TaskStates /\ state[t] # "Running"
    BY <2>1 DEF TaskStates
  <2>7. QED
    BY <1>5, <2>2, <2>3, <2>4, <2>5, <2>6, TransitionedQueue
<1>6. CASE RetryRequeue(v)
  <2>1. CASE UNCHANGED <<taskVars, attemptVars, approved, overtaken>>
    BY <2>1, SameQueue DEF taskVars, attemptVars
  <2>2. c.task \in Tasks /\ c.epoch \in Epochs
    BY <1>2, <1>6 DEF RetryRequeue, RetrySteps
  <2>3. QED
    BY <1>5, <1>6, <2>1, <2>2 DEF RetryRequeue
<1>7. CASE RetryRestart(v)
  BY <1>2, <1>7, StartedQueue DEF RetryRestart, RetrySteps
<1>8. QED
  BY <1>3, <1>4, <1>6, <1>7 DEF RetryStep

LEMMA CloseStepQueue ==
  ASSUME TypeOK, Queued, NEW v \in Views, CloseStep(v)
  PROVE  Queued'
<1> DEFINE c == inflight[v]
<1>1. c \in Commands
  BY DEF TypeOK
<1>2. ASSUME NEW t \in Tasks, NEW o \in Outcomes, CloseBegin(v, t, o) PROVE Queued'
  BY <1>2, SameQueue DEF CloseBegin, taskVars, attemptVars
<1>3. CASE CloseAttempt(v)
  <2>1. c.task \in Tasks /\ c.epoch \in Epochs /\ c.target \in Outcomes
    BY <1>1, <1>3, CommandShape DEF CloseAttempt
  <2>2. "NotRetryable" \in Retryability
    BY DEF Retryability
  <2>3. QED
    BY <1>3, <2>1, <2>2, FinishedQueue DEF CloseAttempt
<1>4. CASE CloseTask(v)
  <2>1. c.task \in Tasks /\ c.target \in Outcomes
    BY <1>1, <1>4, CommandShape DEF CloseTask
  <2>2. /\ TransitionAllowed(state[c.task], c.target) /\ ReplayTransitioned(c.task, c.target)
        /\ OvertakenWhen(current[c.task] # 0, c.task, "close")
    BY <1>4 DEF CloseTask
  <2>3. /\ \A u \in Tasks \ {c.task} : overtaken'[u] = overtaken[u]
        /\ overtaken[c.task] \subseteq overtaken'[c.task]
        /\ current[c.task] # 0 => "close" \in overtaken'[c.task]
    BY <2>1, <2>2, OvertakenGrows DEF Overtakings
  <2>4. c.target \in TaskStates /\ c.target \notin {"Running", "Ready", "Blocked"}
    BY <2>1 DEF Outcomes, TaskStates
  <2> HIDE DEF c
  <2>5. QED
    BY <2>1, <2>2, <2>3, <2>4, TransitionedQueue
<1>5. QED
  BY <1>2, <1>3, <1>4 DEF CloseStep

LEMMA RecoverStepQueue ==
  ASSUME TypeOK, Rest, Queued, NEW v \in Views, RecoverStep(v)
  PROVE  Queued'
<1>1. CASE RecoverBegin(v) \/ ReclaimBegin(v)
  BY <1>1, SameQueue DEF RecoverBegin, ReclaimBegin, taskVars, attemptVars
<1>2. ASSUME NEW t \in Tasks, Expire(v, t) PROVE Queued'
  BY <1>2, ExpiredQueue DEF Expire
<1>3. QED
  BY <1>1, <1>2 DEF RecoverStep

LEMMA StepQueue ==
  ASSUME IInv, QInv, [Next]_vars
  PROVE  QInv'
<1>1. TypeOK /\ Rest /\ Queued /\ Commanded
  BY DEF IInv, Rest, QInv
<1>2. ASSUME UNCHANGED vars PROVE Queued'
  BY <1>1, <1>2, SameQueue DEF vars
<1>3. ASSUME \E t \in Tasks : TaskStep(t) PROVE Queued'
  BY <1>1, <1>3, TaskStepQueue
<1>4. ASSUME \E t \in Tasks, n \in Epochs : AttemptStep(t, n) PROVE Queued'
  BY <1>1, <1>4, AttemptStepQueue
<1>5. ASSUME \E v \in Retriers : RetryStep(v) PROVE Queued'
  BY <1>1, <1>5, RetryStepQueue, TaskGraphAssumption DEF Commanded
<1>6. ASSUME \E v \in Closers : CloseStep(v) PROVE Queued'
  BY <1>1, <1>6, CloseStepQueue, TaskGraphAssumption
<1>7. ASSUME \E v \in Recoverers : RecoverStep(v) PROVE Queued'
  BY <1>1, <1>7, RecoverStepQueue, TaskGraphAssumption
<1>8. ASSUME \/ \E S \in SUBSET PlanTasks, note \in Notes : ApprovePlan(S, note)
             \/ \E v \in Views : Abandon(v)
      PROVE  Queued'
  BY <1>1, <1>8, SameQueue DEF ApprovePlan, Abandon, taskVars, attemptVars
<1>9. Queued'
  BY <1>2, <1>3, <1>4, <1>5, <1>6, <1>7, <1>8 DEF Next
<1>10. QED
  BY <1>1, <1>9, StepCommands DEF QInv

LEMMA InitQueue == Init => QInv
  BY DEF Init, QInv, Queued, QueueInv, Commanded, CommandInv, Idle, Epochs

\* The queue's invariant holds in every reachable state, whoever starts,
\* retries, closes, finishes, steers, expires or reclaims beside whom.
THEOREM QueueCorrect == Spec => []QInv
<1>1. IInv /\ QInv /\ [Next]_vars => QInv'
  BY StepQueue
<1>2. QED
  BY <1>1, InitQueue, Invariant, PTL DEF Spec

\* From any views: a task is running exactly while it has a holder that may
\* finish it, unless a stale supersede retired the holder or a stale close
\* moved the task under it.
THEOREM HolderOfRunning == Spec => []RunningHasHolder
<1>1. QInv => RunningHasHolder
  BY DEF QInv, Queued, QueueInv, RunningHasHolder
<1>2. QED
  BY <1>1, QueueCorrect, PTL

\* From any views: no retry, recovery or close puts a task to work whose
\* dependencies have not completed, but for a dependency that was closed under
\* its holder.
THEOREM WorkStands == Spec => []WorkStandsOnCompletedDependencies
<1>1. QInv => WorkStandsOnCompletedDependencies
  BY DEF QInv, Queued, QueueInv, WorkStandsOnCompletedDependencies
<1>2. QED
  BY <1>1, QueueCorrect, PTL

\* From any views: a blocked task keeps a dependency that stopped for good,
\* but for one that a stale requeue or close brought back itself.
THEOREM BlockedStands == Spec => []BlockedBehindStoppedDependency
<1>1. QInv => BlockedBehindStoppedDependency
  BY DEF QInv, Queued, QueueInv, BlockedBehindStoppedDependency
<1>2. QED
  BY <1>1, QueueCorrect, PTL

-----------------------------------------------------------------------------
(* A further attempt is earned.                                            *)

\* Only a queued task is given a further attempt.
LEMMA OnlyQueuedStarts ==
  ASSUME TypeOK, Next, NEW t \in Tasks, epoch'[t] # epoch[t]
  PROVE  state[t] = "Ready"
<1>1. UNCHANGED epoch => state[t] = "Ready"
  OBVIOUS
<1>2. ASSUME NEW u \in Tasks, CanStart(u), ReplayAttemptStarted(u) PROVE state[t] = "Ready"
  BY <1>2 DEF CanStart, ReplayAttemptStarted, TypeOK
<1>3. ASSUME NEW u \in Tasks, TaskStep(u) PROVE state[t] = "Ready"
  BY <1>1, <1>2, <1>3 DEF TaskStep, AddTask, Ready, Block, Verify, StartAttempt, LeaseLapse,
     ReplayTransitioned
<1>4. ASSUME NEW u \in Tasks, NEW n \in Epochs, AttemptStep(u, n) PROVE state[t] = "Ready"
  BY <1>1, <1>4 DEF AttemptStep, SteeringStep, AdvanceAttempt, RequestCancel, RequestPause,
     Resume, FinishAttempt, ReplayAttemptFinished, taskVars
<1>5. ASSUME NEW v \in Views, RetryStep(v) PROVE state[t] = "Ready"
  <2>1. CASE RetryRestart(v)
    <3>1. inflight[v].task \in Tasks
      BY <2>1, CommandShape DEF RetryRestart, RetrySteps, TypeOK
    <3>2. QED
      BY <1>2, <2>1, <3>1 DEF RetryRestart
  <2>2. QED
    BY <1>1, <1>5, <2>1 DEF RetryStep, RetryBegin, RetrySupersede, RetryRequeue,
       ReplayAttemptSuperseded, ReplayTransitioned, taskVars
<1>6. ASSUME NEW v \in Views, CloseStep(v) PROVE state[t] = "Ready"
  BY <1>1, <1>6 DEF CloseStep, CloseBegin, CloseAttempt, CloseTask, ReplayAttemptFinished,
     ReplayTransitioned, taskVars
<1>7. ASSUME NEW v \in Views, RecoverStep(v) PROVE state[t] = "Ready"
  BY <1>1, <1>7 DEF RecoverStep, RecoverBegin, ReclaimBegin, Expire, ReplayAttemptExpired, taskVars
<1>8. QED
  BY <1>1, <1>3, <1>4, <1>5, <1>6, <1>7, TaskGraphAssumption DEF Next, ApprovePlan, Abandon, taskVars

\* From any views: a task gets another attempt only after recovery took the
\* last one back or a retry superseded a failure classified Retryable, unless a
\* stale retry requeued a newer failure or retired a newer attempt.
THEOREM RestartIsEarned == Spec => RestartOnlyAfterRetryable
<1> DEFINE A == \A t \in Tasks :
                  (epoch'[t] # epoch[t] /\ epoch[t] \in Epochs) =>
                    LastMayBeReplaced(t) \/ ~ Undisturbed(t, {"supersede", "requeue"})
<1>1. TypeOK /\ QInv /\ [Next]_vars => [A]_vars
  BY OnlyQueuedStarts DEF QInv, Queued, QueueInv, vars
<1>2. QED
  BY <1>1, TypeCorrect, QueueCorrect, PTL DEF Spec, RestartOnlyAfterRetryable

-----------------------------------------------------------------------------
(* The task graph implements Tenure: each event begins, reports, revokes   *)
(* or intrudes on the tenure of one task, or is none of its business.      *)

\* Only a failure that its holder reported is classified Retryable, so that
\* nothing but a report is ever superseded.
RetryableWasReported ==
  \A t \in Tasks, n \in Epochs :
    class[t][n] = "Retryable" => attempt[t][n] \in {"Failed", "Superseded"}

TenureStep == [Ten!Next]_<<epoch, current, Reported, Intruded>>

Kept == RetryableWasReported' /\ TenureStep

\* A step that leaves holders alone and moves attempts, if at all, between
\* live states.
LEMMA QuietTenure ==
  ASSUME RetryableWasReported, UNCHANGED <<epoch, current, class>>, Intruded' = Intruded,
         \A t \in Tasks, n \in Epochs :
           \/ attempt'[t][n] = attempt[t][n]
           \/ attempt[t][n] \in Live /\ attempt'[t][n] \in Live
  PROVE  Kept
<1>1. Reported' = Reported
  BY DEF Reported, Live, Outcomes
<1>2. RetryableWasReported'
  BY DEF RetryableWasReported, Live
<1>3. QED
  BY <1>1, <1>2 DEF Kept, TenureStep

\* A stale commit of a retry intrudes on nobody.
LEMMA RetryIntrudesNot ==
  ASSUME TypeOK, NEW t \in Tasks, NEW stale \in BOOLEAN, NEW how \in {"supersede", "requeue"},
         OvertakenWhen(stale, t, how)
  PROVE  Intruded' = Intruded
<1>1. how \in Overtakings /\ how # "close"
  BY DEF Overtakings
<1>2. \A u \in Tasks : "close" \in overtaken'[u] <=> "close" \in overtaken[u]
  BY <1>1, OvertakenGrows
<1>3. QED
  BY <1>2 DEF Intruded

LEMMA StartedTenure ==
  ASSUME TypeOK, UnstartedUntouched, Queued, RetryableWasReported, NEW t \in Tasks,
         CanStart(t), ReplayAttemptStarted(t), UNCHANGED overtaken
  PROVE  Kept
<1> DEFINE m == epoch[t] + 1
<1>1. m \in Epochs /\ m > epoch[t] /\ epoch[t] \in Nat
  BY TaskGraphAssumption DEF TypeOK, Epochs, CanStart
<1>2. attempt[t][m] = "none" /\ class[t][m] = "NotRetryable" /\ class' = class
  BY <1>1 DEF UnstartedUntouched, ReplayAttemptStarted
<1>3. \A u \in Tasks, n \in Epochs :
        IF u = t /\ n = m THEN attempt'[u][n] = "Starting"
                          ELSE attempt'[u][n] = attempt[u][n]
  BY <1>1 DEF ReplayAttemptStarted, TypeOK
<1>4. Reported' = Reported /\ Intruded' = Intruded
  BY <1>2, <1>3 DEF Reported, Outcomes, Intruded
<1>5. RetryableWasReported'
  BY <1>2, <1>3 DEF RetryableWasReported
<1>6. current[t] = 0 \/ t \in Intruded
  BY HeldRuns DEF CanStart, Intruded
<1>7. Ten!Begin(t)
  BY <1>4, <1>6 DEF Ten!Begin, ReplayAttemptStarted
<1>8. QED
  BY <1>5, <1>7 DEF Kept, TenureStep, Ten!Next

LEMMA FinishedTenure ==
  ASSUME TypeOK, RetryableWasReported, NEW t \in Tasks, NEW n \in Epochs,
         NEW o \in Outcomes, NEW c \in Retryability, o # "Failed" => c = "NotRetryable",
         MayFinish(t, n), ReplayAttemptFinished(t, n, o, c), UNCHANGED overtaken
  PROVE  Kept
<1>1. current[t] = n /\ n # 0
  BY DEF MayFinish, Epochs
<1>2. \A u \in Tasks, m \in Epochs :
        IF u = t /\ m = n THEN attempt'[u][m] = o /\ class'[u][m] = c
        ELSE attempt'[u][m] = attempt[u][m] /\ class'[u][m] = class[u][m]
  BY DEF ReplayAttemptFinished, TypeOK
<1>3. Reported' = [Reported EXCEPT ![t] = @ \cup {n}]
  <2> DEFINE R == Outcomes \cup {"Superseded"}
             Q(u) == {m \in Epochs : attempt[u][m] \in R}
  <2>1. \A u \in Tasks, m \in Epochs :
          attempt'[u][m] \in R <=> attempt[u][m] \in R \/ (u = t /\ m = n)
    BY <1>2
  <2>2. \A u \in Tasks : Q(u)' = IF u = t THEN Q(u) \cup {n} ELSE Q(u)
    BY <2>1
  <2>3. Reported = [u \in Tasks |-> Q(u)] /\ Reported' = [u \in Tasks |-> Q(u)']
    BY DEF Reported
  <2> HIDE DEF Q
  <2>4. QED
    BY <2>2, <2>3
<1>4. RetryableWasReported'
  BY <1>2 DEF RetryableWasReported
<1>5. Ten!Report(t)
  BY <1>1, <1>3 DEF Ten!Report, ReplayAttemptFinished, Intruded
<1>6. QED
  BY <1>4, <1>5 DEF Kept, TenureStep, Ten!Next

\* Recovery takes a tenure back, or finds the task without one.
LEMMA ExpiredTenure ==
  ASSUME TypeOK, Rest, RetryableWasReported, NEW t \in Tasks,
         ReplayAttemptExpired(t), UNCHANGED overtaken
  PROVE  Kept
<1>1. Intruded' = Intruded /\ UNCHANGED <<class, epoch>>
  BY DEF Intruded, ReplayAttemptExpired
<1>2. CASE current[t] = 0
  <2>1. UNCHANGED <<attempt, current>>
    BY <1>2 DEF ReplayAttemptExpired, TypeOK, Epochs
  <2>2. QED
    BY <1>1, <2>1, QuietTenure
<1>3. CASE current[t] # 0
  <2>1. current[t] \in Epochs /\ attempt[t][current[t]] \in Live
    BY <1>3 DEF Rest, CurrentIsLiveAndNewest, IsLive
  <2>2. \A u \in Tasks, n \in Epochs :
          IF u = t /\ n = current[t] THEN attempt'[u][n] = "Expired"
                                    ELSE attempt'[u][n] = attempt[u][n]
    BY <2>1 DEF ReplayAttemptExpired, TypeOK
  <2>3. Reported' = Reported
    BY <2>1, <2>2 DEF Reported, Outcomes, Live
  <2>4. RetryableWasReported'
    BY <1>1, <2>1, <2>2 DEF RetryableWasReported, Live
  <2>5. Ten!Revoke(t)
    BY <1>1, <1>3, <2>3 DEF Ten!Revoke, ReplayAttemptExpired
  <2>6. QED
    BY <2>4, <2>5 DEF Kept, TenureStep, Ten!Next
<1>4. QED
  BY <1>2, <1>3

\* A stale supersede takes the tenure of a newer attempt back.
LEMMA SupersededTenure ==
  ASSUME TypeOK, RetryableWasReported, NEW t \in Tasks, NEW n \in Epochs,
         class[t][n] = "Retryable", ReplayAttemptSuperseded(t, n),
         OvertakenWhen(current[t] # 0, t, "supersede")
  PROVE  Kept
<1>1. attempt[t][n] \in {"Failed", "Superseded"}
  BY DEF RetryableWasReported
<1>2. /\ UNCHANGED <<epoch, class>> /\ current' = [current EXCEPT ![t] = 0]
      /\ \A u \in Tasks, m \in Epochs :
           IF u = t /\ m = n THEN attempt'[u][m] = "Superseded"
                             ELSE attempt'[u][m] = attempt[u][m]
  BY DEF ReplayAttemptSuperseded, TypeOK
<1>3. Reported' = Reported
  BY <1>1, <1>2 DEF Reported, Outcomes
<1>4. RetryableWasReported'
  BY <1>2 DEF RetryableWasReported
<1>5. Intruded' = Intruded
  BY RetryIntrudesNot
<1>6. CASE current[t] = 0
  <2>1. current' = current
    BY <1>2, <1>6 DEF TypeOK
  <2>2. QED
    BY <1>2, <1>3, <1>4, <1>5, <2>1 DEF Kept, TenureStep
<1>7. CASE current[t] # 0
  <2>1. Ten!Revoke(t)
    BY <1>2, <1>3, <1>5, <1>7 DEF Ten!Revoke
  <2>2. QED
    BY <1>4, <2>1 DEF Kept, TenureStep, Ten!Next
<1>8. QED
  BY <1>6, <1>7

\* A close of the task itself intrudes on the tenure it did not see.
LEMMA ClosedTenure ==
  ASSUME TypeOK, RetryableWasReported, NEW t \in Tasks, NEW to, ReplayTransitioned(t, to),
         OvertakenWhen(current[t] # 0, t, "close")
  PROVE  Kept
<1>1. UNCHANGED <<epoch, current, class, attempt>>
  BY DEF ReplayTransitioned
<1>2. CASE current[t] = 0
  <2>1. Intruded' = Intruded
    BY <1>2 DEF OvertakenWhen, Intruded
  <2>2. QED
    BY <1>1, <2>1, QuietTenure
<1>3. CASE current[t] # 0
  <2>1. \A u \in Tasks : "close" \in overtaken'[u] <=> u = t \/ "close" \in overtaken[u]
    BY <1>3 DEF OvertakenWhen, TypeOK
  <2>2. Intruded' = Intruded \cup {t}
    BY <2>1 DEF Intruded
  <2>3. Reported' = Reported /\ RetryableWasReported'
    BY <1>1 DEF Reported, RetryableWasReported
  <2>4. Ten!Intrude(t)
    BY <1>1, <1>3, <2>2, <2>3 DEF Ten!Intrude
  <2>5. QED
    BY <2>3, <2>4 DEF Kept, TenureStep, Ten!Next
<1>4. QED
  BY <1>2, <1>3

LEMMA StepTenure ==
  ASSUME IInv, QInv, RetryableWasReported, [Next]_vars
  PROVE  Kept
<1>1. TypeOK /\ Rest /\ Queued /\ UnstartedUntouched
  BY DEF IInv, Rest, QInv
<1>2. UNCHANGED <<epoch, current, class, attempt, overtaken>> => Kept
  BY QuietTenure DEF Intruded
<1>3. ASSUME NEW t \in Tasks, TaskStep(t) PROVE Kept
  BY <1>1, <1>2, <1>3, StartedTenure DEF TaskStep, AddTask, Ready, Block, Verify,
     LeaseLapse, StartAttempt, ReplayTransitioned, attemptVars
<1>4. ASSUME NEW t \in Tasks, NEW n \in Epochs, AttemptStep(t, n) PROVE Kept
  <2>1. ASSUME NEW s \in Live, IsLive(t, n), attempt' = [attempt EXCEPT ![t][n] = s],
               UNCHANGED <<epoch, current, class, overtaken>>
        PROVE  Kept
    BY <1>1, <2>1, QuietTenure DEF TypeOK, IsLive, Intruded
  <2>2. ASSUME NEW o \in Outcomes, NEW c \in Retryability, FinishAttempt(t, n, o, c)
        PROVE  Kept
    BY <1>1, <2>2, FinishedTenure DEF FinishAttempt
  <2>3. QED
    BY <1>2, <1>4, <2>1, <2>2 DEF AttemptStep, SteeringStep, AdvanceAttempt, RequestCancel,
       RequestPause, Resume, Live, taskVars
<1>5. ASSUME NEW v \in Views, RetryStep(v) PROVE Kept
  <2>1. inflight[v] \in Commands
    BY <1>1 DEF TypeOK
  <2>2. inflight[v].op \in RetrySteps =>
          /\ inflight[v].task \in Tasks /\ inflight[v].epoch \in Epochs
          /\ class[inflight[v].task][inflight[v].epoch] = "Retryable"
    BY <2>1, CommandShape DEF IInv, RetryInFlight
  <2>3. CASE RetrySupersede(v)
    BY <1>1, <2>2, <2>3, SupersededTenure DEF RetrySupersede, RetrySteps
  <2>4. CASE RetryRestart(v)
    BY <1>1, <2>2, <2>4, StartedTenure DEF RetryRestart, RetrySteps
  <2>5. CASE RetryRequeue(v)
    <3>1. ASSUME ReplayTransitioned(inflight[v].task, "Ready"),
                 OvertakenWhen(epoch[inflight[v].task] # inflight[v].epoch,
                               inflight[v].task, "requeue")
          PROVE  Kept
      <4>1. Intruded' = Intruded
        BY <1>1, <2>2, <2>5, <3>1, RetryIntrudesNot DEF RetryRequeue, RetrySteps
      <4>2. QED
        BY <3>1, <4>1, QuietTenure DEF ReplayTransitioned
    <3>2. QED
      BY <1>2, <2>5, <3>1 DEF RetryRequeue, taskVars, attemptVars
  <2>6. CASE \E t \in Tasks : RetryBegin(v, t)
    BY <1>2, <2>6 DEF RetryBegin, taskVars, attemptVars
  <2>7. QED
    BY <1>5, <2>3, <2>4, <2>5, <2>6 DEF RetryStep
<1>6. ASSUME NEW v \in Views, CloseStep(v) PROVE Kept
  <2>1. inflight[v] \in Commands
    BY <1>1 DEF TypeOK
  <2>2. CASE CloseAttempt(v)
    <3>1. /\ inflight[v].task \in Tasks /\ inflight[v].epoch \in Epochs
          /\ inflight[v].target \in Outcomes
      BY <2>1, <2>2, CommandShape DEF CloseAttempt
    <3>2. QED
      BY <1>1, <2>2, <3>1, FinishedTenure DEF CloseAttempt, Retryability
  <2>3. CASE CloseTask(v)
    BY <1>1, <2>1, <2>3, CommandShape, ClosedTenure DEF CloseTask
  <2>4. QED
    BY <1>2, <1>6, <2>2, <2>3 DEF CloseStep, CloseBegin, taskVars, attemptVars
<1>7. ASSUME NEW v \in Views, RecoverStep(v) PROVE Kept
  BY <1>1, <1>2, <1>7, ExpiredTenure DEF RecoverStep, RecoverBegin, ReclaimBegin, Expire,
     taskVars, attemptVars
<1>8. ASSUME UNCHANGED vars PROVE Kept
  BY <1>2, <1>8 DEF vars
<1>9. QED
  BY <1>2, <1>3, <1>4, <1>5, <1>6, <1>7, <1>8, TaskGraphAssumption
     DEF Next, ApprovePlan, Abandon, taskVars, attemptVars

\* From any views: the attempts of a task are tenures.  One begins only when
\* none is under way, unless the task was closed under its holder; it ends with
\* its own holder's report or is revoked without one, and reports stay.
THEOREM TenureRefinement == Spec => ImplementsTenure
<1>1. Init => Ten!Init /\ RetryableWasReported
  BY DEF Init, Ten!Init, RetryableWasReported, Reported, Outcomes, Intruded
<1>2. IInv /\ QInv /\ RetryableWasReported /\ [Next]_vars =>
        RetryableWasReported' /\ [Ten!Next]_<<epoch, current, Reported, Intruded>>
  BY StepTenure DEF Kept, TenureStep
<1>3. QED
  BY <1>1, <1>2, Invariant, QueueCorrect, PTL DEF Spec, ImplementsTenure, Ten!Spec

=============================================================================
