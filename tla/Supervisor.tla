----------------------------- MODULE Supervisor -----------------------------
(***************************************************************************)
(* One conversation's turns that delegate: the Supervisor of a turn        *)
(* (arsy-cli, subagent.rs), the Scheduler and Admission it owns            *)
(* (arsy-kernel, scheduler.rs), the threads its children run on, and the   *)
(* WorkspaceCoordinator that cuts their views (arsy-code, workspace.rs).   *)
(*                                                                         *)
(* The turn's thread runs one call at a time: task.spawn starts an attempt,*)
(* cuts a view and launches a thread, and each step may fail and end the   *)
(* call; task.wait and task.result reap; finish stops, joins and settles   *)
(* every child in order and then gives the views back.  Each worker is a   *)
(* thread of its own.  Beside them another process may pause, cancel,      *)
(* retry or expire an attempt in the shared stream, and may prune a view   *)
(* whose lease marker has lapsed (clocks are not modelled: it may at any   *)
(* time).                                                                  *)
(*                                                                         *)
(* What is inside a child's call is ChildTurn; what each command does to   *)
(* the stream is TaskGraph.  A command that appends may also fail on a     *)
(* contended stream, or be recorded and then fail (CommitLoop): here,      *)
(* alternatives of each step.                                              *)
(***************************************************************************)
EXTENDS Naturals, Sequences, FiniteSets, Functions

CONSTANTS
  Child,         \* tasks this model spawns, each at most once
  Shared,        \* the reader view of the one base revision
  Keys,          \* names admission counts: the subagent slot, the provider
  Asked,         \* the keys one start asks for, a sequence; run_child's differ
  Limit,         \* [Keys -> Nat], Admission.limits
  MaxChildren,   \* MAX_CHILDREN, the turn's allowance of spawns
  MaxTurns,      \* bound of the model: turns of the conversation
  Kinds,         \* bound of the model: views a spawn asks for
  Prunable       \* bound of the model: views housekeeping may remove

ASSUME SupervisorAssumption ==
  /\ IsFiniteSet(Child) /\ Shared \notin Child
  /\ Asked \in Seq(Keys) /\ \A i, j \in DOMAIN Asked : Asked[i] = Asked[j] => i = j
  /\ Limit \in [Keys -> Nat]
  /\ MaxChildren \in Nat /\ MaxTurns \in Nat \ {0}
  /\ Kinds \subseteq {"reader", "writer"}
  /\ Prunable \subseteq Child \cup {Shared}

VARIABLES
  turns,     \* turns begun so far
  phase,     \* of the current one: "open", "ending" (in finish), "over"
  at,        \* the step of the turn's thread and the child it is about
  spent,     \* Allowance.started
  mine,      \* Supervisor.children, in spawn order
  next,      \* the index finish has reached
  inUse,     \* [Keys -> Nat], Admission.in_use
  held,      \* children whose attempt is in Scheduler.held
  known,     \* the coordinator's readers map has the shared view
  kind,      \* [Child -> ...], which view the spawn asked for
  attempt,   \* [Child -> ...], the stream's record of the child's attempt
  paused,    \* children whose attempt is in TaskGraph.paused
  worker,    \* [Child -> ...], where the child's thread is
  report,    \* [Child -> ...], the answer in its Report
  token,     \* children whose CancelToken is set
  claim,     \* [Child -> ...], the workspace assignment in the stream
  disk       \* views that exist as directories

turnVars == <<turns, phase, at, spent, mine, next>>
slotVars == <<inUse, held>>
workVars == <<worker, report>>
viewVars == <<known, kind, claim, disk>>
vars == <<turns, phase, at, spent, mine, next, inUse, held, known, kind,
          attempt, paused, worker, report, token, claim, disk>>

Idle == [step |-> "idle"]
Busy == [step : {"view", "launch", "join"}, child : Child]
Live == {"starting", "running", "cancelling"}
AttemptStates == {"absent", "queued"} \cup Live
                   \cup {"completed", "failed", "failedUnknown", "cancelled",
                         "expired", "superseded"}
Alive == {"starting", "polling", "calling"}
Views == Child \cup {Shared}
Spawned == Range(mine)

View(c) == IF kind[c] = "writer" THEN c ELSE Shared

TypeOK ==
  /\ turns \in 1 .. MaxTurns /\ phase \in {"open", "ending", "over"}
  /\ at \in {Idle} \cup Busy
  /\ spent \in 0 .. MaxChildren
  /\ mine \in Seq(Child) /\ Len(mine) <= spent
  /\ next \in 1 .. Len(mine) + 1
  /\ inUse \in [Keys -> Nat] /\ held \subseteq Child
  /\ known \in BOOLEAN
  /\ kind \in [Child -> {"none", "reader", "writer"}]
  /\ attempt \in [Child -> AttemptStates]
  /\ paused \subseteq Child /\ token \subseteq Child
  /\ worker \in [Child -> {"none", "done", "joined"} \cup Alive]
  /\ report \in [Child -> {"none", "ok", "cancelled", "failed"}]
  /\ claim \in [Child -> {"none", "live", "released"}]
  /\ disk \subseteq Views

-----------------------------------------------------------------------------
(* Scheduler and Admission.                                                *)

Wanted(k) == Cardinality({i \in DOMAIN Asked : Asked[i] = k})

\* try_admit looks every key up before it takes any.
Free == \A i \in DOMAIN Asked : inUse[Asked[i]] < Limit[Asked[i]]

Take == inUse' = [k \in Keys |-> inUse[k] + Wanted(k)]

\* release gives back exactly what the start took; the count saturates at 0.
Release(c) ==
  /\ inUse' = IF c \in held
                THEN [k \in Keys |-> IF inUse[k] < Wanted(k) THEN 0 ELSE inUse[k] - Wanted(k)]
                ELSE inUse
  /\ held' = held \ {c}

\* request_cancel: recorded for a live attempt, refused for any other.
CancelRecorded(c) ==
  /\ attempt[c] \in Live
  /\ attempt' = [attempt EXCEPT ![c] = "cancelling"]

\* Scheduler::cancel sets the flag once the request is recorded without error.
Cancel(c) ==
  \/ CancelRecorded(c) /\ token' \in {token, token \cup {c}}
  \/ UNCHANGED <<attempt, token>>

-----------------------------------------------------------------------------
(* task.spawn.                                                             *)

Open == phase = "open" /\ at = Idle

\* Mutant: the bound is checked after the count.
AllowedOneMore == Open /\ spent <= MaxChildren /\ spent' = spent + 1

\* The allowance is taken before anything can go wrong.
Allowed == Open /\ spent < MaxChildren /\ spent' = spent + 1

\* No goal, an unknown role, a capability nobody delegated.
SpawnRefused ==
  /\ Allowed
  /\ UNCHANGED <<turns, phase, at, mine, next, slotVars, workVars, viewVars,
                 attempt, paused, token>>

\* Mutant: a start the graph refused keeps the slots it took.
SpawnKeepsSlots(c, k) ==
  /\ Allowed /\ attempt[c] = "absent"
  /\ kind' = [kind EXCEPT ![c] = k]
  /\ \/ /\ Free /\ Take /\ held' = held \cup {c}
        /\ attempt' = [attempt EXCEPT ![c] = "starting"]
        /\ at' = [step |-> "view", child |-> c]
     \/ /\ Free /\ Take /\ UNCHANGED <<held, at>>
        /\ \E s \in {"queued", "starting"} : attempt' = [attempt EXCEPT ![c] = s]
  /\ UNCHANGED <<turns, phase, mine, next, workVars, known, claim, disk,
                 paused, token>>

\* add_child, ready and Scheduler::start, which is deferred when a key is
\* full.  A start that fails, before or after its event is recorded, gives
\* its slots back in the same call.
Spawn(c, k) ==
  /\ Allowed /\ attempt[c] = "absent"
  /\ kind' = [kind EXCEPT ![c] = k]
  /\ \/ /\ Free /\ Take /\ held' = held \cup {c}
        /\ attempt' = [attempt EXCEPT ![c] = "starting"]
        /\ at' = [step |-> "view", child |-> c]
     \/ /\ UNCHANGED <<slotVars, at>>
        /\ \/ attempt' = [attempt EXCEPT ![c] = "queued"]
           \/ Free /\ attempt' = [attempt EXCEPT ![c] = "starting"]
  /\ UNCHANGED <<turns, phase, mine, next, workVars, known, claim, disk,
                 paused, token>>

At(step, c) == at = [step |-> step, child |-> c]

\* writer_for adds a worktree on a branch of its own.
CutWriter(c) ==
  /\ kind[c] = "writer"
  /\ disk' = disk \cup {c}
  /\ UNCHANGED known

\* reader hands the shared view out again, or cuts it; git adds no worktree
\* over a directory that exists.
ShareReader(c) ==
  /\ kind[c] = "reader"
  /\ Shared \in disk => known
  /\ known' = TRUE
  /\ disk' = disk \cup {Shared}

\* lease_view.  Its failure only asks the attempt to stop; a view whose patch
\* or permissions could not be set stays on disk, and nobody knows it.
CutView(c) ==
  /\ At("view", c)
  /\ \/ /\ CutWriter(c) \/ ShareReader(c)
        /\ at' = [step |-> "launch", child |-> c]
        /\ UNCHANGED <<attempt, token>>
     \/ /\ at' = Idle
        /\ Cancel(c)
        /\ disk' \in {disk, disk \cup {View(c)}}
        /\ UNCHANGED known
  /\ UNCHANGED <<turns, phase, spent, mine, next, slotVars, workVars, kind,
                 claim, paused>>

\* assign_workspace, fork and the thread; the first two and the last may fail
\* and leave the attempt, and the claim if it was recorded, as they are.
Launch(c) ==
  /\ At("launch", c) /\ at' = Idle
  /\ \/ /\ claim' = [claim EXCEPT ![c] = "live"]
        /\ mine' = Append(mine, c)
        /\ worker' = [worker EXCEPT ![c] = "starting"]
     \/ /\ claim' \in {claim, [claim EXCEPT ![c] = "live"]}
        /\ UNCHANGED <<mine, worker>>
  /\ UNCHANGED <<turns, phase, spent, next, slotVars, known, kind, disk,
                 report, attempt, paused, token>>

-----------------------------------------------------------------------------
(* The other calls.                                                        *)

\* task.cancel: an error is returned before the flag is set.
Stop(c) ==
  /\ Open /\ c \in Spawned
  /\ Cancel(c)
  /\ UNCHANGED <<turnVars, slotVars, workVars, viewVars, paused>>

\* What a reap, or the worker itself, gives the stream for an answer.
Outcome(r) ==
  CASE r = "ok" -> {"completed"}
    [] r = "cancelled" -> {"cancelled"}
    [] OTHER -> {"failed", "failedUnknown"}

\* A reap does not say that a failure may be retried.
Given(r) == IF r = "failed" THEN "failedUnknown" ELSE CHOOSE s \in Outcome(r) : TRUE

\* Scheduler::finish by reap: recorded; fenced, which is accepted when the
\* stream already says the same of its newest attempt; or in error.  The slots
\* go back in any case.
Settle(c, r) ==
  /\ Release(c)
  /\ \/ /\ attempt[c] \in Live
        /\ attempt' = [attempt EXCEPT ![c] = Given(r)]
        /\ report' \in {[report EXCEPT ![c] = r], [report EXCEPT ![c] = "failed"]}
     \/ /\ attempt[c] \in Outcome(r)
        /\ report' = [report EXCEPT ![c] = r]
        /\ UNCHANGED attempt
     \/ report' = [report EXCEPT ![c] = "failed"] /\ UNCHANGED attempt

\* Mutant: an ended child's view is given back as soon as it is reaped.
ReapDiscards(c) ==
  /\ worker[c] = "done"
  /\ worker' = [worker EXCEPT ![c] = "joined"]
  /\ \E r \in {report[c], "failed"} : Settle(c, r)
  /\ disk' = disk \ {View(c)}
  /\ \/ Open /\ c \in Spawned /\ UNCHANGED <<at, next>>
     \/ At("join", c) /\ at' = Idle /\ next' = next + 1
  /\ UNCHANGED <<turns, phase, spent, mine, known, kind, claim, paused, token>>

\* reap: task.wait and task.result take a thread that has ended, finish waits
\* for it to end.  A stream that cannot be read makes any answer a failure.
Reap(c) ==
  /\ worker[c] = "done"
  /\ worker' = [worker EXCEPT ![c] = "joined"]
  /\ \E r \in {report[c], "failed"} : Settle(c, r)
  /\ \/ Open /\ c \in Spawned /\ UNCHANGED <<at, next>>
     \/ At("join", c) /\ at' = Idle /\ next' = next + 1
  /\ UNCHANGED <<turns, phase, spent, mine, viewVars, paused, token>>

-----------------------------------------------------------------------------
(* finish.                                                                 *)

EndTurn ==
  /\ Open
  /\ phase' = "ending" /\ next' = 1
  /\ UNCHANGED <<turns, at, spent, mine, slotVars, workVars, viewVars, attempt,
                 paused, token>>

Ending == phase = "ending" /\ at = Idle

FinishSkip ==
  /\ Ending /\ next <= Len(mine)
  /\ worker[mine[next]] = "joined"
  /\ next' = next + 1
  /\ UNCHANGED <<turns, phase, at, spent, mine, slotVars, workVars, viewVars,
                 attempt, paused, token>>

\* Mutant: the flag follows the record, as in task.cancel.
FinishCancelRecordedOnly ==
  /\ Ending /\ next <= Len(mine)
  /\ LET c == mine[next] IN
       /\ worker[c] # "joined"
       /\ at' = [step |-> "join", child |-> c]
       /\ Cancel(c)
  /\ UNCHANGED <<turns, phase, spent, mine, next, slotVars, workVars, viewVars,
                 paused>>

\* The result of the durable cancel is ignored and the flag set in any case;
\* then the thread is joined.
FinishCancel ==
  /\ Ending /\ next <= Len(mine)
  /\ LET c == mine[next] IN
       /\ worker[c] # "joined"
       /\ at' = [step |-> "join", child |-> c]
       /\ token' = token \cup {c}
       /\ CancelRecorded(c) \/ UNCHANGED attempt
  /\ UNCHANGED <<turns, phase, spent, mine, next, slotVars, workVars, viewVars,
                 paused>>

\* Mutant: finish stops one short of the last child.
ReleaseViewsEarly(kept) ==
  /\ Ending /\ next >= Len(mine)
  /\ phase' = "over"
  /\ disk' = disk \ {c \in Spawned : kind[c] = "writer"}
  /\ claim' = [c \in Child |-> IF c \in Spawned \ kept THEN "released" ELSE claim[c]]
  /\ UNCHANGED <<turns, at, spent, mine, next, slotVars, workVars, known, kind,
                 attempt, paused, token>>

\* release_views, of the children in the list: writers' views are removed,
\* claims are released; a claim the stream would not release is kept.
ReleaseViews(kept) ==
  /\ Ending /\ next > Len(mine)
  /\ phase' = "over"
  /\ disk' = disk \ {c \in Spawned : kind[c] = "writer"}
  /\ claim' = [c \in Child |-> IF c \in Spawned \ kept THEN "released" ELSE claim[c]]
  /\ UNCHANGED <<turns, at, spent, mine, next, slotVars, workVars, known, kind,
                 attempt, paused, token>>

\* Supervisor::new: another turn starts with nothing in hand; the stream, the
\* directories and any thread are as they were.
BeginTurn ==
  /\ phase = "over" /\ turns < MaxTurns
  /\ turns' = turns + 1 /\ phase' = "open"
  /\ spent' = 0 /\ mine' = <<>> /\ next' = 1
  /\ inUse' = [k \in Keys |-> 0] /\ held' = {}
  /\ known' = FALSE
  /\ UNCHANGED <<at, workVars, kind, claim, disk, attempt, paused, token>>

-----------------------------------------------------------------------------
(* A worker.                                                               *)

\* finish_attempt with the worker's answer: recorded, recorded and then in
\* error, or refused; an error makes the answer a failure.
Answers(c, r) ==
  /\ worker' = [worker EXCEPT ![c] = "done"]
  /\ \/ /\ attempt[c] \in Live
        /\ attempt' = [attempt EXCEPT ![c] = IF r = "failed" THEN "failed" ELSE Given(r)]
        /\ report' \in {[report EXCEPT ![c] = r], [report EXCEPT ![c] = "failed"]}
     \/ report' = [report EXCEPT ![c] = "failed"] /\ UNCHANGED attempt

\* child_turn looks at the flag before it enters the boundary.
Enters(c) ==
  IF c \in token
    THEN Answers(c, "cancelled")
    ELSE worker' = [worker EXCEPT ![c] = "polling"] /\ UNCHANGED <<report, attempt>>

\* advance_attempt: refused for an attempt that is cancelling or not live.
Start(c) ==
  /\ worker[c] = "starting"
  /\ \/ /\ attempt[c] = "starting" /\ c \notin token
        /\ attempt' = [attempt EXCEPT ![c] = "running"]
        /\ worker' = [worker EXCEPT ![c] = "polling"]
        /\ UNCHANGED report
     \/ Answers(c, IF attempt[c] = "starting" /\ c \in token THEN "cancelled" ELSE "failed")
  /\ UNCHANGED <<turnVars, slotVars, viewVars, paused, token>>

\* The boundary, which a paused child polls in, looks only at the stream.
Poll(c) ==
  /\ worker[c] = "polling"
  /\ \/ attempt[c] = "cancelling" /\ Answers(c, "cancelled")
     \/ /\ attempt[c] # "cancelling" /\ c \notin paused
        /\ worker' = [worker EXCEPT ![c] = "calling"]
        /\ UNCHANGED <<report, attempt>>
  /\ UNCHANGED <<turnVars, slotVars, viewVars, paused, token>>

\* The refresh in the boundary fails.
PollFails(c) ==
  /\ worker[c] = "polling" /\ Answers(c, "cancelled")
  /\ UNCHANGED <<turnVars, slotVars, viewVars, paused, token>>

\* A model request or a tool call: another boundary, an answer or an error.
Call(c) ==
  /\ worker[c] = "calling"
  /\ Enters(c) \/ \E r \in {"ok", "failed"} : Answers(c, r)
  /\ UNCHANGED <<turnVars, slotVars, viewVars, paused, token>>

\* The thread ends without a Report.
Panic(c) ==
  /\ worker[c] = "calling"
  /\ worker' = [worker EXCEPT ![c] = "done"]
  /\ report' = [report EXCEPT ![c] = "failed"]
  /\ UNCHANGED <<turnVars, slotVars, viewVars, attempt, paused, token>>

Worker(c) == Start(c) \/ Poll(c) \/ Call(c)

-----------------------------------------------------------------------------
(* Another process on the same session and workspace.                      *)

Elsewhere(c, s) ==
  /\ attempt' = [attempt EXCEPT ![c] = s]
  /\ UNCHANGED <<turnVars, slotVars, workVars, viewVars, paused, token>>

\* The operator's cancel, without the flag.
OperatorCancel(c) == attempt[c] \in Live /\ Elsewhere(c, "cancelling")

\* The attempt's lease runs out and `arsy resume` recovers its task.
Expire(c) == attempt[c] \in Live /\ Elsewhere(c, "expired")

\* Mutant: an attempt that ended as cancelled may be retried too.
OperatorRetryCancelled(c) ==
  attempt[c] \in {"failed", "cancelled"} /\ Elsewhere(c, "superseded")

\* The operator retries what the worker failed: a newer attempt is recorded,
\* that nobody here runs.
OperatorRetry(c) == attempt[c] = "failed" /\ Elsewhere(c, "superseded")

OperatorPause(c) ==
  /\ attempt[c] \in Live \ {"cancelling"}
  /\ paused' = paused \cup {c}
  /\ UNCHANGED <<turnVars, slotVars, workVars, viewVars, attempt, token>>

\* Only a live attempt can be resumed.
OperatorResume(c) ==
  /\ attempt[c] \in Live /\ c \in paused
  /\ paused' = paused \ {c}
  /\ UNCHANGED <<turnVars, slotVars, workVars, viewVars, attempt, token>>

\* prune_views: a view whose marker has expired goes.
Prune(v) ==
  /\ v \in disk
  /\ disk' = disk \ {v}
  /\ UNCHANGED <<turnVars, slotVars, workVars, known, kind, claim, attempt,
                 paused, token>>

-----------------------------------------------------------------------------
Init ==
  /\ turns = 1 /\ phase = "open" /\ at = Idle /\ spent = 0
  /\ mine = <<>> /\ next = 1
  /\ inUse = [k \in Keys |-> 0] /\ held = {}
  /\ known = FALSE /\ disk = {}
  /\ kind = [c \in Child |-> "none"]
  /\ attempt = [c \in Child |-> "absent"]
  /\ paused = {} /\ token = {}
  /\ worker = [c \in Child |-> "none"]
  /\ report = [c \in Child |-> "none"]
  /\ claim = [c \in Child |-> "none"]

\* What the turn's thread does next by itself.
Turn ==
  \/ \E c \in Child : CutView(c) \/ Launch(c) \/ Reap(c)
  \/ FinishSkip \/ FinishCancel
  \/ \E kept \in SUBSET Spawned : ReleaseViews(kept)

\* What the model asks of it.
Asks ==
  \/ SpawnRefused
  \/ \E c \in Child, k \in Kinds : Spawn(c, k)
  \/ \E c \in Child : Stop(c)
  \/ EndTurn \/ BeginTurn

Outside ==
  \/ \E c \in Child : \/ OperatorCancel(c) \/ OperatorRetry(c) \/ Expire(c)
                      \/ OperatorPause(c) \/ OperatorResume(c)
  \/ \E v \in Prunable : Prune(v)

Next ==
  \/ Turn \/ Asks \/ Outside
  \/ \E c \in Child : Worker(c) \/ PollFails(c) \/ Panic(c)

Spec == Init /\ [][Next]_vars

\* Threads run, and a provider's stream and a tool return (both have
\* timeouts); nobody has to fail, to panic or to touch the session.
FairSpec ==
  Spec /\ WF_vars(Turn) /\ \A c \in Child : WF_vars(Worker(c))

-----------------------------------------------------------------------------
(* Properties.                                                             *)

\* Scheduler: what is in use is what the attempts in held took, no key above
\* its limit; and while a thread runs the slots it was taken for are held and
\* its workspace claim is live, whichever of start, cancel and finish failed.
SlotsCoverWorkers ==
  /\ \A k \in Keys : inUse[k] = Cardinality(held) * Wanted(k)
  /\ \A k \in Keys : inUse[k] <= Limit[k]
  /\ \A c \in Child : worker[c] \in Alive => c \in held /\ claim[c] = "live"

\* reap: an answer the parent is shown is the stream's own outcome, whatever
\* the worker, the operator and a recovery recorded in the meantime.
AnswerIsOnRecord ==
  \A c \in Child :
    worker[c] = "joined" /\ report[c] # "failed" => attempt[c] \in Outcome(report[c])

\* A child's tree is there for as long as its thread may touch it, unless
\* another process's housekeeping took it: no sibling's end and no turn's end
\* removes it.
WorkingViewStays ==
  [][\A c \in Child :
       worker[c] \in Alive /\ View(c) \in disk
         => \/ View(c) \in disk' \/ worker'[c] \notin Alive
            \/ \E v \in Views : Prune(v)]_vars

\* finish: when a turn is over no thread of it runs and none holds a slot.
EndedTurnStopsItsChildren ==
  phase = "over" =>
    \A c \in Child : worker[c] \notin Alive /\ (c \in Spawned => c \notin held)

\* finish returns: a turn that is ending is over in the end, whatever calls
\* are in flight and whatever cancels were lost, if no child stays paused.
UnpausedTurnEnds == <>[](paused = {}) => (phase = "ending" ~> phase = "over")

\* finish, as documented ("Stop and reap every child before the turn ends"):
\* a turn that is ending is over in the end.
TurnEnds == phase = "ending" ~> phase = "over"

=============================================================================
