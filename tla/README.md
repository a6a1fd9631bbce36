# A TLA+ verification project for arsy-code

arsy-code is a coding agent: a terminal program (`arsy-cli`) that drives a model
through rounds of tool calls, gives parts of the work to subagents on threads of
their own, and records everything that matters in an append-only, versioned event
stream per session (SQLite). The stream is the only shared state. Every part of
the program that needs to know something folds it into a projection of its own,
and every decision is an event appended at the version it was decided on.

What is hard about the program follows from that: many views of one stream, each
a little behind, deciding at once; holders that outlive their lease; processes
that die between two events; operators who pause, cancel and message a child
while it works; budgets promised twice. This directory models that core, checks
it with TLC on small instances and proves part of it with TLAPS for all.

Paths below are relative to the repository (`src/`); `orchestration.rs`,
`scheduler.rs`, `service.rs`, `projection.rs` and `protocol.rs` are in
`crates/arsy-kernel/src/`, `subagent.rs`, `turn.rs`, `run.rs`, `picker/` and
`lib.rs` in `crates/arsy-cli/src/`, `workspace.rs` in `crates/arsy-code/src/`.

## 1. Inventory

### The core: session stream, task graph, subagents

| Component | State | Operations | Talks to |
|---|---|---|---|
| **Event stream** (`event.rs`, `sqlite.rs`) | the events of a session, its version | `append` at an expected version, `read` a page, `current_version` | everything below |
| **Commit loop** (`orchestration.rs: commit_if`, `reconcile_blocked`, `catch_up`) | a view: the projection, the version folded, the queue of stopped tasks whose dependents must be blocked | build on the caught-up projection, append, retry after a conflict at most `COMMIT_ATTEMPTS` times; drain the queue before, during and after | stream |
| **Task graph** (`orchestration.rs: TaskGraph`) | tasks with state, dependencies, parent, plan link, approval; attempts with state, classification, lease epoch and expiry; pauses; messages and inboxes; workspace assignments; criteria, judgments, evidence | `add`, `add_child`, `approve_plan`, `ready`, `start_attempt`, `advance_attempt`, `request_cancel`, `request_pause`, `resume`, `finish_attempt`, `retry`, `complete`/`fail`/`cancel` (`close`), `verify`, `recover_expired`, `reclaim_running` (`expire`), `consume`, `send`, `deliver`, `assign_workspace`, ... | commit loop |
| **Budgets** (`orchestration.rs: Budget, settle`) | per task: allowance, used, reserved, settled | reservation in `add_child`, charge in `consume` and `finish_attempt`, release in `settle` | task graph |
| **Scheduler** (`scheduler.rs`) | slots in use per key, slots held per attempt, cancel tokens | `start`, `running`, `finish`, `cancel`, `retryable`, `retry`, `joined` | task graph |
| **Supervisor** (`subagent.rs`) | children with thread, report, view lease, assignment | `run_child`, `reap`, `finish`, `release_views`, the `task.*` tools | scheduler, workspace |
| **Subagent's turn** (`lib.rs: child_turn`, `subagent.rs: Worker`) | round, pending tool calls, view of the graph | `boundary` before every round and tool call, `steer` (deliver), provider request, tool call, closing the attempt | task graph, mailbox |
| **Workspace views** (`arsy-code/src/workspace.rs`, assignments in `orchestration.rs`) | git worktrees and snapshots, one live writer per view | lease, discard, integrate, `assign_workspace`, `release_workspace`, `record_writer_result` | supervisor |
| **Agent service** (`service.rs`, `projection.rs`, `protocol.rs`) | turns, idempotency ledger, subscribers with bounded queues | `start_turn`, `complete_turn`, `fail_turn`, `steer`, `subscribe`, `poll`, `catch_up` | stream, frontends |
| **Session** (`turn.rs`, `run.rs`, `picker/session.rs`, `picker/prompt.rs`, `acp.rs`) | on disk: the turns' events and their tasks; in the process: the turn at hand, the conversation it remembers | `record_turn`, `persist_turn` and its variants for a stopped or failed turn, `resume_into`, `arsy resume`, `reconstruct_session_conversation`, `recover_interrupted_plan` | service, task graph |

Several `TaskGraph` values exist over one stream at the same time: the
interactive turn's, the `run` command's, the scheduler's, one fork per worker
thread, the ones an operator's `pause`/`cancel`/`retry` requests open through the
service, and those of other processes on the same session. That is why the
models have *views* and why so much below is about what a view read before it
committed.

What makes each correct:

- *Stream and commit loop*: every event was decided on exactly the events before
  it; a dependent is blocked once, after the stop that causes it, and is never out
  of every view's reach; a command returns, and is told "contended" only when
  others got through.
- *Task graph*: each attempt ends with its own holder's report or is taken back;
  an attempt does not revive; a cancellation is final and survives the process; no
  cycle; nothing of an unapproved plan step runs; work stands on completed
  dependencies; a denial is not retried. Several of these the code keeps only
  until two views meet in the wrong order; section 3 says where it stops.
- *Budgets*: reservations balance, a settlement charges the parent in full,
  spending under a grant fits the grant, an ended task returns what it did not use.
- *Subagent's turn*: each message given once and in order, none lost; a pause or
  a cancel is obeyed within one call; a cancelled child ends.
- *Scheduler and supervisor*: slots in use are the slots of held attempts, and a
  running thread has its own, whatever step of a spawn failed; an answer the
  parent is shown is the stream's; a turn that ends takes its threads with it and
  does end.
- *Workspace*: no living child loses the tree it works in.
- *Session*: a completed turn has its exchange; what an interactive session
  remembers is what a resumed one would restore; only work that was cut off is
  run again.
- *Agent service*: one turn per idempotency key; a subscriber sees each event
  once or inside exactly one gap.

### The rest

| Part | Why it is outside, or when it comes in |
|---|---|
| Capability, policy, approvals, safety review | planned: narrowing along a delegation chain, as operators checked against a reference |
| Acceptance criteria, validation, proof | planned: when a task may be called verified |
| TODO list, memory records | further projections of the same stream, after Acceptance |
| Agent Hub, context, routing, model profiles, prompts | rendering and pure selection over records |
| Artifacts, secrets, telemetry, observers, transport, migration | hashing, text, sequential I/O |
| Agent tools (`arsy-code`): files, git, hooks, web, search, syntax, MCP, LSP, DAP, processes | logic about the content of files and other programs; process sessions are a later candidate |
| CLI: pickers, TUI, storage, updater, evaluation | the records of turns, resumption and the calls into the task graph are in the models; rendering and key handling are not |
| Configuration, OAuth, providers | parsing and HTTP |
| `arsy-sandbox`, `arsy-pty`, `arsy-compat`, `arsy-ide`, `arsy-tui` | OS confinement, terminals, format conversion, rendering |

`PROJECT.json` lists every component with its status, and under `hazards` what
in this code a test would hardly reach, each with its line and the properties
that cover it. A hazard without a property says which planned module is to
bring one, or why none is due.

## 2. Modules

| Module | Models | Used by |
|---|---|---|
| `TaskGraph` | the task graph's commands and replay, from any set of views | `MCTaskGraph`, `TaskGraphProofs` |
| `Tenure` | abstract: work on a task as a sequence of tenures, and the one thing that lets two overlap | `TaskGraph` (instance) |
| `Frontier` | the drain of the blocked frontier down chains of dependencies, view by view | `MCFrontier` |
| `TaskBudget` | reservation, charge and settlement | `MCTaskBudget`, `TaskBudgetProofs` |
| `EventLog` | abstract: the stream as one atomic history | `CommitLoop` (instance) |
| `CommitLoop` | `commit_if` with catch-up, conflict, retry, frontier drain, crash | `MCCommitLoop`, `CommitLoopProofs` |
| `ChildTurn` | a subagent's turn and its mailbox against parent and operator | `MCChildTurn`, `ChildTurnProofs` |
| `Supervisor` | the turns that delegate: scheduler slots, children's threads, workspace views, other processes | `MCSupervisor`, `SupervisorProofs` |
| `Session` | the records of turns across crashes, restarts and resumptions | `MCSession`, `SessionProofs` |
| `AgentService` | keyed turns, append with catch-up, subscribers | `MCAgentService`, `AgentServiceProofs` |
| `...Proofs` | theorems and their proofs | |
| `Induction` | lemmas of induction over finite sets and naturals | `TaskBudgetProofs`, `SessionProofs` |
| `MC*` | constants and symmetry for TLC | the `.cfg` files |

The modules are tied together by one argument. `CommitLoop` shows that a
single-commit command is atomic on the stream (it implements `EventLog`: what
its closure decided, it decided on the whole history). `TaskGraph`, `TaskBudget`
and `ChildTurn` use that: each closure handed to `commit_if` is one atomic action
whose guard is evaluated on the *current* projection. What a command reads before
its closure is not protected by the loop, and there those models keep the steps
apart. One level up, `Supervisor` takes from `TaskGraph` and `ChildTurn` what a
command does to an attempt's state and where a child looks at the stream, and
from `CommitLoop` that any command may be refused, may fail, or may be recorded
and then fail; `Session` takes a turn's work as one step between its records;
`AgentService` has the other models' events as appends of others.

Definitions named `...Unfenced`, `...Unchecked`, `...Stale` and the like, each
announced by a comment starting "Mutant:", are not part of the specifications.
Each is a plausible mistake in the definition below it, and shows that the
property it is paired with in `PROJECT.json` would notice.

### TaskGraph

| In the model | In `orchestration.rs` |
|---|---|
| `state`, `deps`, `approved` | `TaskNode.state`, `.dependencies`, `plan_approvals` |
| `epoch[t]` | `runtime.lease_epoch`; attempts of a task are numbered by it, so it is also `runtime.attempts.len()` and names `attempts.last()` |
| `current[t]` | `runtime.current_attempt`, 0 for `None` |
| `lease[t]` | `lease_expires_at_ms` against the clock: none, valid, lapsed |
| `attempt`, `class`, `paused` | `TaskAttempt.state`, `.retryable`, the graph's pause set |
| `inflight[v]` | what a multi-commit command of view `v` read and has still to commit |
| `Replay...` operators | the `replay_*` folds: what one event does to the projection |
| `AddTask`, `ApprovePlan`, `Ready`, `Block`, `StartAttempt`, `AdvanceAttempt`, `RequestCancel`, `RequestPause`, `Resume`, `FinishAttempt`, `Verify` | commands of one commit |
| `RetryBegin`, `RetrySupersede`, `RetryRequeue`, `RetryRestart` | `retry`: checks on the view, then three commits |
| `CloseBegin`, then `CloseAttempt` or `CloseTask` | `close`: reads the current attempt, then finishes it or moves the task |
| `RecoverBegin` or `ReclaimBegin`, then `Expire` | `expire`: the list is read once, then committed task by task |
| `LeaseLapse`, `Abandon` | the clock; a command that is refused, contended or whose process died |

`commit_if` drains the blocked frontier before it builds, but a drain may return
and leave a task it should have blocked (`Frontier`). So `Block` is a step that may
come at any time, and no command's guard waits for it. Recursion over
dependencies (`would_cycle`) is written as reachability by closed sets, which keeps
the module free of recursive operators.

Reads on a view that is behind are covered by reading the current projection
and committing later: a view's prefix is a projection that was current at some
earlier step, and every `Begin` action can be taken then. `inflight` keeps what
was read while everything else moves.

`overtaken` is history: which commits were made to a task on what was gone by then.
There are three kinds, each the commit of a multi-step command that looks at less
than what the command decided on: a supersede or a close of the task itself when
the task has got a holder, and a requeue when a newer attempt failed than the one
`retry` looked at. The properties of the queue are stated for any views and name
the kinds that excuse them, so they say both what the code keeps and by which step
alone it can lose it.

`Tenure` is what leases and fence promise together: work on a task is a sequence of
numbered tenures, each ended by its holder's report or revoked without one. They do
not overlap unless the task was `intruded` upon: closed, while a tenure was under
way, by a command that took it to have no holder. `TaskGraph` instantiates it with
the newest lease epoch, the current attempt, the attempts that were `Reported` and
the tasks whose `overtaken` has a close.

### Frontier

`reconcile_blocked` with its queue and its `visited` set, over a chain of tasks that
are created and stopped in any order. `Caught` is what `catch_up` puts into
`block_seeds`; `Skip`, `Spread`, `Block`, `Nothing` and `Fail` are what the loop
does with the id it has taken; `Begin`, `CatchUp`, `Add`, `Stop` and `Return` are the
command around it. A commit of the drain is one step at the version it was accepted
at: `CommitLoop` is about the tries. `Fail` leaves the queue as seeds for the view's
next command, as the code does on an error. `Crash` replaces a view by one that
folds the stream from its start.

### TaskBudget

The commands of the task graph reduced to what they do to the accounting, one
commit each, from any views. The dimensions of a `Budget` are one natural number
(the code adds, compares and saturates each on its own). `holder` says whether the
task's newest attempt is live and whether it is still the current one: `Finish` asks
for nothing else, as `finish_attempt` (line 1555) does, so a task may be closed and
settled under its holder, who then reports. `retrying` are the tasks some view has
passed `retry`'s checks for; `Supersede` and `Requeue` are its commits, at any later
time. `own`, `late` and `over` are history: what a task's holders reported, what was
reported on it after it had settled, and whether a holder ever reported more than it
had available (nothing in the code stops one: `finish_attempt` records what it is
told). What a holder spent before its lease lapsed is on no record, so "spent" means
reported throughout.

### EventLog and CommitLoop

`EventLog` is the promise: one history, extended in one step by an event decided
on all of it. `CommitLoop` is `commit_if`: `Begin`, `CatchUp`, `Build` or
`BuildNothing`, then `Accepted`, `Conflict` or `GivesUp`, then `Return`. The
drain's own, nested `commit_if` is `DrainPick`, `SubBuild`, `SubNothing`,
`SubAccepted`, `SubConflict`, `SubGivesUp`; it may run at the three points where
`reconcile_blocked` is called. A command goes on when its drain has returned
(`DrainReturned`), not when nothing is left to block. Each event carries `basis`,
the version its writer had folded when it decided: ghost data, which lets the
properties say what a decision was based on. A "stop" is a task's final failure or
cancellation with a dependent behind it, a "block" is the drain's answer to it.
Other writers of the session (turn lifecycle, usage, TODOs) append through
`OutsideAppend`. `Crash` can happen anywhere; the next view folds the stream from
its start.

### ChildTurn

`FlagPasses` and `FlagStops` are the look at the `CancelToken` before each round and
tool call (`lib.rs:3728`); `BoundaryPasses`, `BoundaryStops` and `BoundaryFails` the
boundary closure behind it (`refresh`, which may fail; stop on Cancelling; poll while
paused). `DeliverNothing`, `DeliverRead` and `DeliverCommit` are `deliver` with its
read before the commit. It may return an error that `steer` drops:
`DeliverRefused` when nothing was recorded, `DeliverUnheard` when the event was
recorded and the drain behind it failed, which loses the messages. `Request`,
`Invoke` and `Denied` are the rounds and tool calls, `Finish` and `FinishLost` the
worker closing its attempt. `Send`, `RequestCancel`, `RequestPause`, `Resume` and
`SetFlag` come from the parent and the operator at any moment; `TakenAway` is another
process that expires the attempt or cancels the task. A task that was cancelled or
is back in the queue still takes messages, as `send` does. `known` is the inbox in
the child's view, which changes only where the code catches up. `due`, `errored`,
`unheard` and `late` are history.

### Supervisor

| In the model | In the code |
|---|---|
| `phase`, `at`, `mine`, `next` | the turn's thread: open, in `finish`, over; the call it is in; `Supervisor.children` and the index `finish` has reached |
| `spent` | `Allowance.started` |
| `inUse`, `held`; `Free`, `Take`, `Release` | `Admission.in_use`, `Scheduler.held`; `try_admit`, `release` |
| `known`, `disk`, `View` | the coordinator's readers map; the worktrees that exist; `lease_view` |
| `claim` | the workspace assignment in the stream |
| `attempt`, `paused` | what the stream says of the child's attempt |
| `worker`, `report`, `token` | the thread, its `Report`, its `CancelToken` |
| `SpawnRefused`, `Spawn`, then `CutView`, then `Launch` | `run_child`: allowance; `add_child`, `ready`, `Scheduler::start`; `lease_view`; `assign_workspace`, `fork` and the thread |
| `Stop`, `Reap` with `Settle` | `task.cancel`; `reap` of `task.wait`, `task.result` and `finish` |
| `EndTurn`, `FinishSkip`, `FinishCancel`, `Reap`, `ReleaseViews`, `BeginTurn` | `finish`, child by child, `release_views`, the next turn's `Supervisor::new` |
| `Start`, `Poll`, `PollFails`, `Call`, `Panic` | the worker's thread: `advance_attempt`, the boundary, a call, a panic |
| `Operator...`, `Expire`, `Prune` | another process on the same session and workspace |

Every call that may fail has its failure as an alternative, with what it leaves
behind: a start whose event was recorded and whose answer was an error gives its
slots back and leaves a live attempt; a failed launch leaves attempt, slots and
perhaps the claim, and a view that could not be leased may still have left its
directory; a cancel may be recorded without the flag or the other way
round. Calls of one turn's thread do not overlap, as in the code. There are no
clocks: other processes may expire an attempt or prune a view at any moment.

The limits of the scheduler equal the turn's allowance, in the model as in the
program (`MAX_CONCURRENT_CHILDREN`, `subagent.rs:2210`), and a spawn spends the
allowance before it asks the scheduler. The refusing branch of `try_admit` is
therefore never reached, in either; the proofs hold for any limits.

### Session

`stream`, `work` and `task` are on disk; `mode`, `step`, `on`, `turn`, `outcome`,
`memory` and `found` are the process that has the session open. A turn is
`Enqueue` or `TakeReady` (the lease), `StartTurn`, `Work` (everything the provider
and the tools do, and how it ended), `Transcript`, `EndTurn`, `EndTask`; a failed
interactive turn closes its task first (`TaskFirst`), everything else its turn
first, as the `persist_*` functions do. `ResumeInto` (interactive) and `Resume`
(scripted) open the session, `CloseFound` and `Recover` clean up after the process
before. `Restored` is `reconstruct_session_conversation`: in the order of the
stream, what the events `Giving` something say. A transcript may be `blank`: when the
first message of the exchange is larger than an event may be, `persistable`
(`transcript.rs:51`) keeps nothing, and a restore ignores the record. `Fault`
is any append that fails, `Crash` the process's death. `torn` and `cut` are history:
the turns whose own records failed or were blank under an interactive session, and
those that ended with their task's end unrecorded.

One process has the session open at a time. Nothing in the code enforces that,
and recovery relies on it (`run.rs:1465`); the hazard is listed.

### AgentService

`stream` is the session's, the service has folded the first `version` events of
it. `ledger`, `turnOf` and `known` are `RequestLedger`, `turns_by_key` and
`started_at`; `sub` holds each `Subscriber` with its bounded queue and its one
pending gap. A call holds the service's lock from `StartFresh`, `Finish` or
`Record` through `Committed`, or `Conflict`, `CatchUp` and `Committed`, or
`Fails`; `OthersAppend` falls between any two of its steps. A turn is known by
the sequence number of its `turn.started`. `got` and `answers` are what clients
saw: runs of sequence numbers (an event is a run of one, a gap a longer one) and
the admissions that were answered. `Crash` loses everything but the stream, and
`Attach` rebuilds the rest from it. One service at a time serves a session's keyed
requests, as the ledger's doc says (`protocol.rs:403`).

## 3. Runs

Bounds of the models: `MaxEpoch` (attempts per task), `MaxLog` (stream length an
ordinary event may build on), `MaxSent` and `MaxCalls` (messages, tool calls of a
round), `MaxStarts` (attempts of each task in `TaskBudget`), `Amounts` (budget and
usage values). `MaxAttempts`, `CommitAttempts`, `MaxInbox` and `MaxRounds` are
the program's own limits with small values. `MaxTurns` (turns of a conversation or a session),
`MaxFaults` and `MaxCrashes` (appends that fail, processes that die), `MaxEvents` (a
service's stream), `Kinds` and `Prunable` (views a spawn asks for, views
housekeeping may take) are bounds too; `Batch`, `Queue`, `MaxChildren` and `Limit`
are the program's limits with small values.

Deadlock checking is off everywhere: all these systems may stop (every task
ended, the bound reached, the child ended).

| Run | Question | Bounds, and why they are enough |
|---|---|---|
| `graph_races` | Two views that can each do everything to one task of a plan: can an attempt revive, can a running task lose its holder or a failure its classification, do attempts implement `Tenure`, can anything of an unapproved step run or a constraint be replaced? | 1 plan task, 2 views, 3 attempts, 2 notes. A race needs two actors and an attempt older, current and newer; three epochs give all orders. Once approved, a plan task meets no gate an ordinary one does not. Views and notes are interchangeable (symmetry). |
| `graph_queue` | Two views that each start, retry, close and recover two tasks: can a cycle be admitted, does work stand on completed dependencies, and a block behind a stop for good? | 2 tasks, 2 views, 2 attempts each, 2.3 million states. One dependency edge is enough for blocking behind a stop and for a stale requeue; longer cycles are in `MCTaskGraphAdmission.cfg` and the proof. |
| `frontier` | Can a dependent that should be blocked be forgotten by every view, or be blocked twice? | A chain of 3 tasks, 2 views, 580 thousand states: the middle link can be blocked by one view while the other is past it, and the last created behind it. |
| `budget_safety` | Do reservations balance, does a settlement charge the parent in full, and by how much can a grant be overspent, with overspending holders, retries and stale closes from any views? | A root and 2 children, one after the other; amounts 1, 2 (and reports of 0); 2 attempts of one child, 1 of the others. Two siblings compete for one remainder; the second attempt follows a settlement. |
| `commit_loop` | Does the loop implement the atomic stream, and does it return? | 2 views and outside writers, 1 root, 2 tries, stream up to 3 ordinary events. With two tries a command meets a first and a last conflict; the safety part is proved for any number. |
| `child_turn` | Message order, freshness, obedience to pause and cancel, ending. | Inbox 2, 4 messages, 3 rounds, 2 calls. The inbox fills, is emptied and fills again; a round has a first and a later call. |
| `supervisor` | Slots, answers, trees and the end of a turn, with every step of a spawn failing anywhere, two kinds of views and every interference of another process | 2 turns, 2 children, 2.7 million states. Two children share a view, fill the limit and end in either order; the second turn starts on what the first left behind. |
| `supervisor_ends` | Does a turn that is ending end? | 1 turn, 2 children, readers only, no pruning (views have no part in it). |
| `session` | Exchanges, memory and reruns, in an interactive session, a script and a resumption | 3 turns, 1 failed append, 2 crashes, 1.8 million states. Two crashes let a recovery itself die; a third turn can follow a turn that was cut off and its rerun. |
| `agent_service` | Does a key start one turn, is a client shown every event? | 1 key, 2 bodies, 1 client, batch 2, queue 1, 5 events, 3.5 million states. Subscribers do not influence each other, nor do keys; five events cut a batch, overflow the queue and overflow it again before it is drained. |
| `child_message_lost` | violated: `DeliveredWasGiven` | as `child_turn` |
| `session_resume` | violated: `ResumedSeesWhatRan` | 2 turns, 1 crash |

### What the code does otherwise than it says

Two runs expect a violation; their findings in `PROJECT.json` quote the doc they
disagree with.

1. **A message can be marked delivered and lost** (`deliver`, `orchestration.rs:1501`;
   run `child_message_lost`). The commit marks the caught-up inbox, the return
   value is the inbox read before.
2. **A resumed session forgets what a stopped turn did** (`resume_into`,
   `picker/prompt.rs:1421`; run `session_resume`). The conversation is restored
   before the turns found open are closed, and only closed turns are restored.

The following disagreements have a configuration of their own, which is not among
the runs: TLC finds its one property violated. Where a property of a passing run
holds from any views, it names the step that makes the difference.

3. **A failure that is not retryable is retried** (`retry`, `orchestration.rs:1192`;
   `MCTaskGraphRetryRace.cfg`: `NewAttemptOnlyAfterRetryable`). The doc of `retry`
   (line 1189): "Refuses unless the attempt it replaces classified itself
   retryable". None of its three commits repeats the check; two views retry one
   failure (`control_agent` opens a graph of its own, `service.rs:279`), and the
   slower one requeues what the faster one's attempt failed with.
   `RestartOnlyAfterRetryable` says that only such a stale supersede or requeue
   does it.
4. **A cancelled task is completed** (`close`, `orchestration.rs:1869`;
   `MCTaskGraphCancelRace.cfg`: `CancelledIsFinal`). The doc of `cancel` (line
   1614): "one that is running stops being anyone's to finish". `close` reads
   `current_attempt` before its commit; an attempt that starts in between keeps its
   place, and its result overwrites the cancellation. `RunningHasHolder` and
   `Tenure` name this close as the only way a holder works on a task that is not
   running, or two on one task.
5. **A cancelled attempt's task goes back to the queue** (`expire`,
   `orchestration.rs:1902`; `MCTaskGraphCancelRestart.cfg`: `CancelOutlivesHolder`).
   The doc of `request_cancel` (line 1118): a process that dies in between "must come
   back knowing the attempt was told to end, not resume it".
6. **A drain returns before its fixed point** (`reconcile_blocked`,
   `orchestration.rs:1827`; `MCFrontierFixedPoint.cfg`: `DrainReachesFixedPoint`).
   Its doc (line 1816): "Drain terminal roots to a fixed point". A task that was put
   back into the queue after the drain had been at it is dropped through `visited`.
   `NeverForgotten` shows that the view which blocked that task still owes the rest.
7. **A grant is overspent** (`settle`, `orchestration.rs:2413`;
   `MCTaskBudgetRetry.cfg`: `SpendWithinGrant`). The doc of `TaskNode.budget` (line
   302): "The whole allowance this task may spend, on itself and its children". The
   parent is charged and the reservation released once; what is reported on the
   child later is charged to nobody. `OverspendIsLate` says by how much.

Further configurations, each with one question more. The first holds; the other two
ask for what no line of the repository promises, and TLC finds it violated:

| Configuration (module) | Property | What happens |
|---|---|---|
| `MCTaskGraphAdmission.cfg` (`MCTaskGraph`) | `NoDependencyCycle`, `PlanApprovalGate` | They hold for three tasks, two of a plan: cycles that are not one edge deep, batches of approvals that clash in one member. |
| `MCTaskBudgetBlocked.cfg` (`MCTaskBudget`) | `EndedTasksSettle` | Blocked is final and is not settled (line 2136): the reservation is never given back. |
| `MCSupervisorPaused.cfg` (`MCSupervisor`) | `TurnEnds` | A paused child polls for a resume or a Cancelling attempt. When its attempt was expired in the meantime neither can be recorded any more, and `finish` joins it for ever. |

Other things met while modelling, which the models contain and no property
forbids:

- a spawn that fails after `start` leaves its attempt live and its slots taken
  for the rest of the turn; a deferred one keeps the child's reservation;
- a child cancelled before its thread started is answered as failed and
  Retryable;
- the shared reader view is never discarded, so a later turn at the same
  revision fails to cut it (`workspace.rs:260`); lease markers live 30 minutes
  and are not renewed;
- the operator's retry (`service.rs:268`) records an attempt that nobody runs;
- a crash between a turn's end and its task's end has the task run again;
- a delivery that is recorded and then fails in the drain behind its commit loses its
  messages, because `steer` drops the error (`subagent.rs:1930`); a child whose
  attempt was taken away goes on working, and polls for ever if it was paused;
- an exchange whose first message is larger than an event may be is recorded as an
  empty transcript, and is restored as the question alone or not at all;
- the ledger admits a key before the append: after a failed append every retry is
  told `LedgerDesync` until the service attaches again; `catch_up` folds other
  writers' events into everything but the ledger and the turn maps, and
  `finish_turn` does not look again, so a turn that recovery closed in between
  gets a second end;
- `subscribe` documents that anything older than a batch is reported as one gap;
  the code replays the oldest batch and reports what is newer as the gap;
- the docs of `record_transcript` and of `transcript.rs` say a stopped turn
  records nothing; `persist_turn` does record it, and resumption counts on that.

### Fairness

Three runs check liveness.

- `CommitLoop`: `WF_vars(Run(w))` for every view. `commit_if` runs to its return
  on its caller's thread without waiting for anyone; only a crash stops it, and a
  crash also ends the command. Nothing is assumed of the other writers, nor that
  commands are ever begun.
- `ChildTurn`: `WF_vars(Child)`. The child's thread runs; a provider stream and
  a tool call end because both have timeouts; a paused child polls with a sleep. A
  refresh that fails is not assumed (`BoundaryFails` is no step of `Child`), nor
  anything of the parent or the operator: in particular nobody has to resume, so
  `CancelledEnds` says a cancel also ends a paused child. Its one exception is a
  paused child whose attempt another process takes away: nothing on the stream can
  reach it any more.
- `Supervisor`: `WF_vars(Turn)` and `WF_vars(Worker(c))` for every child
  (`FairSpec`). The turn's thread goes on with the call it is in, `finish` with
  its list; workers run, and their calls return because provider and tools have
  timeouts. Nobody has to fail, panic, end the turn or touch the session.
  `UnpausedTurnEnds` has the premise that from some point on no child is paused:
  without it the property is false, as `MCSupervisorPaused.cfg` shows.

## 4. Proofs

All proofs are checked by TLAPS without assumptions other than the named ones of
the modules (`TaskGraphAssumption`, `CommitLoopAssumption` and the like), which TLC
evaluates in the runs. Every invariant and every action property of
a passing run is stated by a theorem, except those of `Frontier`; what is left to TLC
besides is liveness.

### TaskGraph, for any tasks, views, notes and attempts

`TaskGraphProofs` proves `TypeCorrect`, `CurrentCorrect`, `NeverRevives`,
`PlanGate` and `Acyclic`. Every role may be played by any number
of views at once, as in `graph_races`.

`CurrentIsLiveAndNewest` is not inductive: retry's supersede clears
`current` without looking at what it holds now, and marks an attempt that may
since have been replaced. The inductive invariant `IInv` adds

- `UnstartedUntouched`: nothing is recorded of an attempt beyond `epoch`;
- `RetryableHasEnded`: only an ended attempt is classified Retryable, so a
  supersede, however stale, never marks a live one;
- `ClearedBeforeWork`: a task that is queued, running or was ever started is
  cleared by its plan, so a retry or a recovery cannot bypass the approval;
- `RetryInFlight`: what a retry in flight established about its task and attempt
  still holds, since classifications and approvals are never taken back.

The module has one lemma per fold for types (`TransitionedType`, `StartedType`,
...) and one for the rest of the invariant (`TransitionedRest`, ...), one per
group of actions on top of those, and the temporal theorems at the end.
`NeverRevives` follows from a lemma that lists what an action
may do to an attempt (`OnlyAttemptChanges`), `PlanGate` from one that says only
`ApprovePlan` changes an approval. `Acyclic` needs no part of `IInv`: dependencies
only change when a task is created (`DepsOnlyAdded`), and the new task lies on no
cycle because the set of everything reachable from its dependencies does not
contain it (`AddKeepsAcyclic`).

### CommitLoop, for any views, roots and number of tries

`CommitLoopProofs` proves `TypeCorrect`, `WholePrefix`, `OneBlock` and
`Refinement` (`Spec => EL!Spec`: the initial state maps to the initial state and
every step is a `Commit` of `EventLog` or leaves the log alone). The inductive
invariant is `TypeOK`, the facts that every view has folded a prefix of the
stream and that a draft was decided on that prefix (`Folded`), and that every
event of the stream was decidable on the events before it (`Decided`). The key
point is that an accepted append compares the version of the draft with that of
the stream, so the prefix the draft was decided on is the whole of it.

`GivingUpIsEarned` (`GivingUpMeansOthersCommitted`) needs a count. `Met(w)` is the
set of events of others that view `w` has folded since its command began, and
`Tried` says that a view has already folded all of its own events, so that what a
refused append ran into is somebody else's, and that each try of the outer and of
the nested loop but the first has met one more of them. When a command gives up
after its last try, the event it lost to makes the number complete.

### TaskGraph's queue, from any views

The last part of `TaskGraphProofs` proves `HolderOfRunning`, `WorkStands`,
`BlockedStands`, `RestartIsEarned` and `TenureRefinement`, without a hypothesis on who
starts, retries, closes or recovers. The invariant `QInv` says where a task is in the
queue (`QueueInv`) and that a retry which has superseded its attempt finds it superseded
from then on (`CommandInv`). Each part of `QueueInv` names the overtakings that
excuse it:

- a task is running exactly with a current attempt, but after a supersede that took
  a live attempt's place away, or a close of the task under its holder;
- a task that is queued, at work or was ever started has completed dependencies, but
  for a dependency that was closed under its holder, who may report later;
- a blocked task has a dependency that stopped for good, but for one that a stale
  requeue or close brought back;
- a queued task that had an attempt had one that may be replaced, but after a stale
  supersede or requeue.

`overtaken` only grows, so an excuse once given stays (`DisturbedStays`). There is one
lemma per fold (`StartedQueue`, `FinishedQueue`, ...) and one per group of actions, as
before; `OthersKept` says what a step about one task means for those that depend on it.
That the excuses are needed is shown by `MCTaskGraphRetryRace.cfg` and
`MCTaskGraphCancelRace.cfg`.

`TenureRefinement` is `Spec => ImplementsTenure`: under the mapping of the newest
lease epoch, the current attempt, the attempts that were `Reported` and the tasks
`Intruded` upon, every step is a `Begin`, `Report`, `Revoke` or `Intrude` of `Tenure` or
leaves it alone. `Begin` needs the queue (a task that is Ready has no holder unless it
was closed under one). That `Reported` only grows needs one more invariant,
`RetryableWasReported`: a failure classified Retryable was reported by its holder, so a
supersede never makes a report out of an expired attempt.

### TaskBudget, for any tree of tasks

`TypeCorrect`, `PromisesBalance` (`ReservationsBalance`), `AllowanceHolds`
(`WithinAllowance`), `ChargesArrive` (`ParentIsCharged`) and `LateBoundsOverspend`
(`OverspendIsLate`), from the inductive invariant `BudgetInv`. Besides the three
equations it says (`LifeInv`) that a task that was not added has been promised nothing
and has no holder, that one with a parent has it on record, and that nothing is late on a
task that has not settled. The saturating subtractions of the code never saturate:
a reservation that is given back is in `Held`, so it is at most what is reserved.

`OverspendIsLate` follows without induction: the children of a task are the settled ones,
whose reports are in `used` but for what was late, and the others, whose reports are
within their budgets, which are reserved.

`Total(f, S)` is the community modules' fold. `Picked`, `SumExists` and `SumUnique`
establish that its recursion defines one function, and `TotalStep`,
`TotalWithout`, `TotalSame` and `TotalSplit` are the rules of sums that follow.
`TaskBudgetAssumption` asks that the tasks are finitely many, that none is its own
parent, and that those that may consume while running are roots: `resumable_task` refuses a
node with a parent (`run.rs:1391`).

### ChildTurn, for any messages, rounds and calls

`TypeCorrect`, `InSendingOrder`, `NothingWaits` and `OneLateCall`. The invariant
`IInv` adds that the child's copy of the inbox is the beginning of the inbox
(`ViewIsPrefix`), that messages are numbered as they were given, wait and are to
come (`InOrder`), that what waited when a round began is in the copy until it is
taken and then with the model, unless the delivery returned an error (`DueIsKnown`),
that a call that is due belongs to a round within the limit (`RoundIsOpen`), and that
nothing was late between a boundary and the call it let through (`LateOnlyAfterCall`).

### Supervisor, for any children, keys, limits and turns

`TypeCorrect`, `SlotsAreCovered`, `RecordedAnswers`, `EndedTurnIsQuiet` and
`ViewsStay`. The inductive invariant has four parts: `StepInv` (what the call in
progress has already established for its child), `WorkerInv` (a task never
recorded has no thread and no slots, a running thread has its slots, its claim and
its place in the list, a joined one has given its slots back, an ended one has a
report), `FinishInv` (what `finish` has passed is joined) and `SlotInv` (the count
of each key is what the held attempts took, and within its limit).
`AnswerIsOnRecord` is inductive with them. `SupervisorAssumption` asks that one start
names a key at most once, as `run_child` does: `try_admit` checks every key before
it takes any, and a key named twice could pass its limit.

### Session, for any number of turns, faults and crashes

`ExchangeIsKept` (`CompletedWithItsExchange`) and `OnlyCutOffWorkIsRerun`
(`RerunOnlyWhatWasCutOff`). `StreamInv` says how the records of one turn may be
ordered, `HandInv` what the turn at hand has already recorded at each step, and
`TaskInv` how a task's state follows from the ends of its turns, from `cut` and
from the step at hand.

`MemoryFollowsRecord` (`MemoryIsRecord`) and with it `TypeCorrect` rest on `MInv`.
`MemoryInv` says what an interactive session remembers at every step: what a
resume would restore now, and one exchange more while the turn at hand is `Ahead`
of the stream (`run_turn` pushes the exchange before it is recorded). `AtHandInv`
says what makes the next record give exactly that exchange: a turn about to end
that keeps its exchange has its transcript as the last event, one that does not
has none.

What is restored, `Kept`, is a filter of the stream written as a recursive
function of the position. `KeptExists` and `KeptUnique` establish that function,
`KeptNext` its step, and `BesidesKept` that leaving turns out of the result is
leaving their events out. Then each event is one of two kinds: it changes nothing
that is restored (`GivesNothing`: a turn that goes on, or one that ends with
nothing recorded), or it adds one exchange at the end (`GivesExchange`: the end
of a turn whose transcript came just before). Recovery records no transcript,
so the order of what is restored is never disturbed.

### Induction

The library's induction theorems take the property as an operator, which the
installed provers cannot instantiate. `Induction` states induction for a
*set* `Z` of the values that have the property, and derives it from the
library's theorem that the strict subsets of a finite set are well founded:
`SubsetInduction` over the subsets of a finite set and `NatSetInduction`
over the naturals, seen as intervals. The sums of `TaskBudgetProofs` and the filter
of `SessionProofs` are proved with these.

### AgentService, for any keys, clients, batch and queue

`TypeCorrect`, `OneTurnOfAKey` and `NothingIsMissed`. `KeyInv` relates ledger, turn
maps and the call in flight to the keyed starts of the stream: a key whose start
is being appended is in the ledger and not in the stream, so no second request of
it is fresh. `ClientInv` is `NothingMissed` with the bound on queue and gap, and
that only an attached service has subscribers.

### What is only model-checked

Liveness: `CommandReturns`, `CancelledEnds` and `UnpausedTurnEnds`. Liveness under
fairness and ENABLED are outside this prover's reach. `Frontier`'s two invariants:
`NeverForgotten` needs an argument over chains of dependencies and every drain in
flight, and only `CommitLoop`, one edge deep, has a proof. The properties of the
two runs that expect a violation, and of the configurations that do, are false.

## 5. Not modelled, and what the models leave out

- SQLite itself: an append is one transaction that compares the version. Errors
  other than a conflict (disk, corruption) are not modelled.
- Clocks: a lease lapses at some step after it was given; retry backoff is not
  modelled. Nothing checked depends on how long.
- Identity of events, hashes, correlation ids, timestamps and texts.
- In `TaskGraph`: criteria and judgments, evidence, traces, workspace
  assignments, authority, messages (they are in `ChildTurn`), budgets (in
  `TaskBudget`). `retry`'s refusal when no budget is left is in `TaskBudget`.
- In `ChildTurn`: what a round says and what a tool does; the supervisor's
  verdicts are one nondeterministic stop.
- In `Supervisor`: what `task.*` tools answer, a child's authority, integration
  and validation of a writer's tree, `Scheduler::retry`, `retryable` and `joined`,
  which only tests call.
- In `Session`: the model's rounds, compaction, titles, usage, plan workflows. Two
  processes that have one session open at once.
- In `AgentService`: `branch` (it writes another session's first event),
  `control_agent` (its calls are `Supervisor`'s `Operator...`), version negotiation,
  two services that serve keyed requests of one session at once.
- The components listed as not modelled in section 1.

## 6. Plan

What is left, in this order; each module with its run and its proof.

1. **Capability** (`capability.rs`, `policy.rs`, `safety.rs`): scopes as sets,
   `attenuate` and `narrow_authority` along a chain (with its grants computed
   before the commit), policy evaluation closed by default; the lemma that a
   delegated grant is never wider than its parent's.
2. **Acceptance** (`proof.rs`, `validation.rs`, criteria in `orchestration.rs`):
   when a task may be verified, and when evidence is stale; then TODO and memory.
3. **Plan workflows** (`agent/planops.rs`, `picker/prompt.rs`): the steps of an
   approved plan as turns, composed of `Session` and `TaskGraph`.
4. **Process sessions** (`procsession.rs`): output buffer, exit and kill.
5. **Two processes of one session**: what recovery does to a process that is
   alive, as a configuration of `Session` with two processes.

The number of runs is kept small on purpose: a new module gets one passing run, and
a question that a new module asks better moves to it.

## 7. Running

```
tlc -workers 2 -config MCTaskGraphRaces.cfg MCTaskGraph
tlc -workers 2 -config MCSupervisor.cfg MCSupervisor
tlc -workers 2 -config MCSupervisorPaused.cfg MCSupervisor
tlapm SessionProofs.tla
```

Every `.cfg` names its module's specification and properties; `PROJECT.json` maps
runs to modules and configurations, definitions to source lines, properties to
mutants, and theorems to the properties they establish.
