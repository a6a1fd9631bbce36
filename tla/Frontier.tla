------------------------------ MODULE Frontier ------------------------------
(***************************************************************************)
(* How far a stop reaches: TaskGraph::reconcile_blocked over chains of     *)
(* dependencies.  Folding an event that stops a task, or that creates one  *)
(* behind a stop, leaves a root in block_seeds.  A drain takes the seeds   *)
(* as its queue, works through dependents and the dependents of those, and *)
(* visits each task once; its commits catch up, and what that folds joins  *)
(* the queue.  Every view drains for itself, before a command, after each  *)
(* catch-up and after its event.                                           *)
(*                                                                         *)
(* A commit of the drain is one step here, at the version it was accepted: *)
(* CommitLoop is about the tries of that loop.  Only stops that are final  *)
(* are modelled; TaskGraph is about which are.                             *)
(***************************************************************************)
EXTENDS Naturals, Sequences

CONSTANTS
  Tasks,  \* task ids
  Deps,   \* [Tasks -> SUBSET Tasks], the dependencies a task is created with
  Views   \* TaskGraph values over the one stream

ASSUME FrontierAssumption == Deps \in [Tasks -> SUBSET Tasks]

VARIABLES
  log,     \* the stream's task events
  seen,    \* [Views -> Nat], TaskGraph.version: the prefix a view folded
  queue,   \* [Views -> SUBSET Tasks], the drain's queue; block_seeds when idle
  visited, \* [Views -> SUBSET Tasks], what the drain has been at
  pc       \* [Views -> Places], where the view's command is

vars == <<log, seen, queue, visited, pc>>

Events == [kind : {"created", "stopped", "blocked"}, task : Tasks]
Places == {"idle", "start", "build", "after"}

TypeOK ==
  /\ log \in Seq(Events)
  \* no task is created, stopped or blocked twice
  /\ \A i, j \in DOMAIN log : log[i] = log[j] => i = j
  /\ seen \in [Views -> 0 .. Len(log)]
  /\ queue \in [Views -> SUBSET Tasks]
  /\ visited \in [Views -> SUBSET Tasks]
  /\ pc \in [Views -> Places]

-----------------------------------------------------------------------------
(* What the first n events say.                                            *)

Has(n, k, t) == \E i \in 1 .. n : log[i].kind = k /\ log[i].task = t

Exists(n, t) == Has(n, "created", t)

\* Cancelled, failed for good, or blocked.
PermanentlyStopped(n, t) == Has(n, "stopped", t) \/ Has(n, "blocked", t)

HasFailedDependency(n, t) == \E d \in Deps[t] : PermanentlyStopped(n, d)

\* Pending or ready, behind a dependency that is not coming back.
Blockable(n, t) ==
  Exists(n, t) /\ ~PermanentlyStopped(n, t) /\ HasFailedDependency(n, t)

Dependents(n, t) == {u \in Tasks : Exists(n, u) /\ t \in Deps[u]}

\* The roots the i-th event puts into block_seeds when it is folded.
SeedsOf(i) ==
  IF log[i].kind = "created"
    THEN {d \in Deps[log[i].task] : PermanentlyStopped(i, d)}
    ELSE {log[i].task}

\* The seeds view w gains by folding the stream up to its n-th event.
Caught(w, n) == UNION {SeedsOf(i) : i \in seen[w] + 1 .. n}

-----------------------------------------------------------------------------
(* The drain.                                                              *)

\* The id at the head of the queue was visited before: it is dropped, whatever
\* brought it back.
Skip(w, t) ==
  /\ t \in visited[w]
  /\ queue' = [queue EXCEPT ![w] = @ \ {t}]
  /\ UNCHANGED <<log, seen, visited, pc>>

\* A stopped task passes the stop on to its dependents.
Spread(w, t) ==
  /\ t \notin visited[w]
  /\ PermanentlyStopped(seen[w], t)
  /\ queue' = [queue EXCEPT ![w] = (@ \ {t}) \cup Dependents(seen[w], t)]
  /\ visited' = [visited EXCEPT ![w] = @ \cup {t}]
  /\ UNCHANGED <<log, seen, pc>>

\* Mutant: the block is decided before catching up.
BlockUnchecked(w, t) ==
  /\ t \notin visited[w]
  /\ ~PermanentlyStopped(seen[w], t)
  /\ Blockable(seen[w], t)
  /\ log' = Append(log, [kind |-> "blocked", task |-> t])
  /\ seen' = [seen EXCEPT ![w] = Len(log) + 1]
  /\ queue' = [queue EXCEPT ![w] = (@ \ {t}) \cup Caught(w, Len(log)) \cup Dependents(Len(log), t)]
  /\ visited' = [visited EXCEPT ![w] = @ \cup {t}]
  /\ UNCHANGED pc

\* Mutant: the drain does not go on with the dependents of what it blocked.
BlockAlone(w, t) ==
  /\ t \notin visited[w]
  /\ ~PermanentlyStopped(seen[w], t)
  /\ Blockable(Len(log), t)
  /\ log' = Append(log, [kind |-> "blocked", task |-> t])
  /\ seen' = [seen EXCEPT ![w] = Len(log) + 1]
  /\ queue' = [queue EXCEPT ![w] = (@ \ {t}) \cup Caught(w, Len(log))]
  /\ visited' = [visited EXCEPT ![w] = @ \cup {t}]
  /\ UNCHANGED pc

\* Ok(true): caught up, the task is still to be blocked, and its dependents
\* are next.
Block(w, t) ==
  /\ t \notin visited[w]
  /\ ~PermanentlyStopped(seen[w], t)
  /\ Blockable(Len(log), t)
  /\ log' = Append(log, [kind |-> "blocked", task |-> t])
  /\ seen' = [seen EXCEPT ![w] = Len(log) + 1]
  /\ queue' = [queue EXCEPT ![w] = (@ \ {t}) \cup Caught(w, Len(log)) \cup Dependents(Len(log), t)]
  /\ visited' = [visited EXCEPT ![w] = @ \cup {t}]
  /\ UNCHANGED pc

\* Ok(false): caught up, there is nothing to block; only what was folded on
\* the way joins the queue.
Nothing(w, t) ==
  /\ t \notin visited[w]
  /\ ~PermanentlyStopped(seen[w], t)
  /\ ~Blockable(Len(log), t)
  /\ seen' = [seen EXCEPT ![w] = Len(log)]
  /\ queue' = [queue EXCEPT ![w] = (@ \ {t}) \cup Caught(w, Len(log))]
  /\ visited' = [visited EXCEPT ![w] = @ \cup {t}]
  /\ UNCHANGED <<log, pc>>

\* The commit stays contended or the store fails, however far the view has
\* caught up: what is left of the queue is kept as seeds, and the error is the
\* command's.
Fail(w, t) ==
  /\ t \notin visited[w]
  /\ ~PermanentlyStopped(seen[w], t)
  /\ \E n \in seen[w] .. Len(log) :
       /\ seen' = [seen EXCEPT ![w] = n]
       /\ queue' = [queue EXCEPT ![w] = @ \cup Caught(w, n)]
  /\ visited' = [visited EXCEPT ![w] = {}]
  /\ pc' = [pc EXCEPT ![w] = "idle"]
  /\ UNCHANGED log

Drain(w, t) ==
  /\ pc[w] # "idle"
  /\ t \in queue[w]
  /\ Skip(w, t) \/ Spread(w, t) \/ Block(w, t) \/ Nothing(w, t) \/ Fail(w, t)

-----------------------------------------------------------------------------
(* The command around it.                                                  *)

\* refresh catches up and drains nothing.
Refresh(w) ==
  /\ pc[w] = "idle"
  /\ seen' = [seen EXCEPT ![w] = Len(log)]
  /\ queue' = [queue EXCEPT ![w] = @ \cup Caught(w, Len(log))]
  /\ UNCHANGED <<log, visited, pc>>

Begin(w) ==
  /\ pc[w] = "idle"
  /\ pc' = [pc EXCEPT ![w] = "start"]
  /\ UNCHANGED <<log, seen, queue, visited>>

Drained(w) == pc[w] # "idle" /\ queue[w] = {}

\* The top of the loop, and again after a conflict: catch up, then drain what
\* that folded.
CatchUp(w) ==
  /\ Drained(w)
  /\ pc[w] \in {"start", "build"}
  /\ pc[w] = "build" => seen[w] < Len(log)
  /\ seen' = [seen EXCEPT ![w] = Len(log)]
  /\ queue' = [queue EXCEPT ![w] = Caught(w, Len(log))]
  /\ visited' = [visited EXCEPT ![w] = {}]
  /\ pc' = [pc EXCEPT ![w] = "build"]
  /\ UNCHANGED log

\* The event is appended, at the version the view has drained, and folded.
Commit(w, kind, t) ==
  /\ Drained(w)
  /\ pc[w] = "build"
  /\ seen[w] = Len(log)
  /\ log' = Append(log, [kind |-> kind, task |-> t])
  /\ seen' = [seen EXCEPT ![w] = Len(log) + 1]
  /\ queue' = [queue EXCEPT ![w] =
       IF kind = "created" THEN {d \in Deps[t] : PermanentlyStopped(Len(log), d)} ELSE {t}]
  /\ visited' = [visited EXCEPT ![w] = {}]
  /\ pc' = [pc EXCEPT ![w] = "after"]

Add(w, t) ==
  /\ ~Exists(seen[w], t)
  /\ Commit(w, "created", t)

\* Cancel, or a failure for good.
Stop(w, t) ==
  /\ Exists(seen[w], t)
  /\ ~PermanentlyStopped(seen[w], t)
  /\ Commit(w, "stopped", t)

\* The command returns: its event landed, or it had none, was refused or met
\* an error of the store.
Return(w) ==
  /\ Drained(w)
  /\ pc' = [pc EXCEPT ![w] = "idle"]
  /\ visited' = [visited EXCEPT ![w] = {}]
  /\ UNCHANGED <<log, seen, queue>>

\* The process dies anywhere.  A view opened in its place has folded nothing,
\* and TaskGraph::new folds the stream from its start.
Crash(w) ==
  /\ pc[w] # "idle"
  /\ seen' = [seen EXCEPT ![w] = 0]
  /\ queue' = [queue EXCEPT ![w] = {}]
  /\ visited' = [visited EXCEPT ![w] = {}]
  /\ pc' = [pc EXCEPT ![w] = "idle"]
  /\ UNCHANGED log

-----------------------------------------------------------------------------
Init ==
  /\ log = <<>>
  /\ seen = [w \in Views |-> 0]
  /\ queue = [w \in Views |-> {}]
  /\ visited = [w \in Views |-> {}]
  /\ pc = [w \in Views |-> "idle"]

Next ==
  \E w \in Views :
    \/ Refresh(w)
    \/ Begin(w)
    \/ CatchUp(w)
    \/ Return(w)
    \/ Crash(w)
    \/ \E t \in Tasks : Drain(w, t) \/ Add(w, t) \/ Stop(w, t)

Spec == Init /\ [][Next]_vars

-----------------------------------------------------------------------------
(* Properties.                                                             *)

\* A root of t's that view w will come to: it is in the queue or yet to be
\* folded, and the drain under way has not been at it.
ReachedFrom(w, d, t) ==
  /\ d \notin visited[w]
  /\ \/ d \in queue[w]
     \/ ~PermanentlyStopped(seen[w], d)
     \/ ~Exists(seen[w], t)

\* View w still has to deal with task t.
Owes(w, t) ==
  \/ t \in queue[w] \ visited[w]
  \/ \E d \in Deps[t] : PermanentlyStopped(Len(log), d) /\ ReachedFrom(w, d, t)

\* replay's seeds, the drain's queue and its visited set, over all views: a
\* task behind a stop is blocked or still owed by some view, whichever of them
\* blocked the links of its chain, failed half way or died.
NeverForgotten ==
  \A t \in Tasks : Blockable(Len(log), t) => \E w \in Views : Owes(w, t)

\* The doc of reconcile_blocked: a drain that returns has reached a fixed
\* point, no task the view knows of is left to be blocked.
DrainReachesFixedPoint ==
  \A w \in Views : Drained(w) =>
    \A t \in Tasks : ~Blockable(seen[w], t)

=============================================================================
