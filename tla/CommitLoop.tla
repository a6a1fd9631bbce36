----------------------------- MODULE CommitLoop -----------------------------
(***************************************************************************)
(* How a command reaches the stream: TaskGraph::commit_if over an          *)
(* EventStore (event.rs, sqlite.rs).  A view drains its blocked frontier,  *)
(* catches up, drains again, builds its event on the projection, appends   *)
(* it at the version it built on and drains once more; a store that moved  *)
(* refuses, and the command is rebuilt, COMMIT_ATTEMPTS times at most.     *)
(* Every block the drain writes goes through the same loop, nested.        *)
(*                                                                         *)
(* The store's append is one transaction: the version check and the insert *)
(* cannot be separated.  Everything between two calls of the store is.     *)
(***************************************************************************)
EXTENDS Naturals, Sequences, FiniteSets

CONSTANTS
  Writers,         \* views over the stream
  Outsider,        \* the session's other writers: turns, usage, TODOs
  Roots,           \* tasks that can stop with a dependent behind them
  None,            \* no root
  CommitAttempts,  \* COMMIT_ATTEMPTS
  MaxLog           \* bound of the model: no ordinary event is built past it

ASSUME CommitLoopAssumption ==
  /\ None \notin Roots
  /\ Outsider \notin Writers
  /\ CommitAttempts \in Nat \ {0}
  /\ MaxLog \in Nat

VARIABLES
  log,     \* the stream: who appended what, and the version decided on
  seen,    \* [Writers -> Nat], TaskGraph.version: the prefix a view folded
  pc,      \* [Writers -> Places], where commit_if is
  try,     \* [Writers -> 1 .. CommitAttempts], its loop counter
  draft,   \* [Writers -> Drafts], the event it built
  sub,     \* [Writers -> SubPlaces], where the drain's own commit_if is
  subtry,  \* [Writers -> 1 .. CommitAttempts], its loop counter
  target,  \* [Writers -> Roots \cup {None}], whose dependent it blocks
  since    \* [Writers -> Nat], history: the stream's length at Begin

outer == <<pc, try, draft>>
inner == <<sub, subtry, target>>
vars == <<log, seen, outer, inner, since>>

EL == INSTANCE EventLog WITH Writers <- Writers \cup {Outsider}

Places == {"idle", "start", "check", "build", "append", "after"}
SubPlaces == {"none", "check", "append"}
Drafts == [kind : {"plain", "stop"}, root : Roots \cup {None}]
Blank == [kind |-> "plain", root |-> None]
Events == [by : Writers \cup {Outsider}, basis : Nat,
           kind : {"plain", "stop", "block"}, root : Roots \cup {None}]

TypeOK ==
  /\ log \in Seq(Events)
  /\ seen \in [Writers -> Nat]
  /\ pc \in [Writers -> Places]
  /\ try \in [Writers -> 1 .. CommitAttempts]
  /\ draft \in [Writers -> Drafts]
  /\ sub \in [Writers -> SubPlaces]
  /\ subtry \in [Writers -> 1 .. CommitAttempts]
  /\ target \in [Writers -> Roots \cup {None}]
  /\ since \in [Writers -> Nat]
  /\ \A w \in Writers : seen[w] <= Len(log)

-----------------------------------------------------------------------------
\* reconcile_blocked has returned.  It need not have blocked every dependent the
\* view knows of: Frontier shows when it leaves one behind.
DrainReturned(w) == sub[w] = "none"

\* The drain's commit is over; the drain goes on with the next root.
SubDone(w) ==
  /\ sub' = [sub EXCEPT ![w] = "none"]
  /\ subtry' = [subtry EXCEPT ![w] = 1]
  /\ target' = [target EXCEPT ![w] = None]

\* commit_if returns, with success or not.
Leave(w) ==
  /\ pc' = [pc EXCEPT ![w] = "idle"]
  /\ try' = [try EXCEPT ![w] = 1]
  /\ draft' = [draft EXCEPT ![w] = Blank]
  /\ since' = [since EXCEPT ![w] = 0]

-----------------------------------------------------------------------------
(* The drain: reconcile_blocked, called at "start", "build" and "after".   *)

DrainPick(w, r) ==
  /\ pc[w] \in {"start", "build", "after"}
  /\ sub[w] = "none"
  /\ r \in EL!Open(seen[w])
  /\ sub' = [sub EXCEPT ![w] = "check"]
  /\ target' = [target EXCEPT ![w] = r]
  /\ UNCHANGED <<log, seen, outer, subtry, since>>

\* Mutant: the block is decided before catching up.
SubBuildStale(w) ==
  /\ sub[w] = "check"
  /\ seen' = [seen EXCEPT ![w] = Len(log)]
  /\ sub' = [sub EXCEPT ![w] = "append"]
  /\ UNCHANGED <<log, outer, subtry, target, since>>

\* Caught up, the dependent is still to be blocked.
SubBuild(w) ==
  /\ sub[w] = "check"
  /\ target[w] \in EL!Open(Len(log))
  /\ seen' = [seen EXCEPT ![w] = Len(log)]
  /\ sub' = [sub EXCEPT ![w] = "append"]
  /\ UNCHANGED <<log, outer, subtry, target, since>>

\* Mutant: a root another view dealt with goes back into the queue.
SubNothingRequeues(w) ==
  /\ sub[w] = "check"
  /\ target[w] \notin EL!Open(Len(log))
  /\ UNCHANGED vars

\* Caught up, another view has blocked it: Ok(None).
SubNothing(w) ==
  /\ sub[w] = "check"
  /\ target[w] \notin EL!Open(Len(log))
  /\ seen' = [seen EXCEPT ![w] = Len(log)]
  /\ SubDone(w)
  /\ UNCHANGED <<log, outer, since>>

SubAccepted(w) ==
  /\ sub[w] = "append"
  /\ seen[w] = Len(log)
  /\ log' = Append(log, EL!Event(w, seen[w], "block", target[w]))
  /\ seen' = [seen EXCEPT ![w] = @ + 1]
  /\ SubDone(w)
  /\ UNCHANGED <<outer, since>>

SubConflict(w) ==
  /\ sub[w] = "append"
  /\ seen[w] # Len(log)
  /\ subtry[w] < CommitAttempts
  /\ seen' = [seen EXCEPT ![w] = Len(log)]
  /\ sub' = [sub EXCEPT ![w] = "check"]
  /\ subtry' = [subtry EXCEPT ![w] = @ + 1]
  /\ UNCHANGED <<log, outer, target, since>>

\* The drain's error is the command's, even when its event has landed.
SubGivesUp(w) ==
  /\ sub[w] = "append"
  /\ seen[w] # Len(log)
  /\ subtry[w] = CommitAttempts
  /\ SubDone(w)
  /\ Leave(w)
  /\ UNCHANGED <<log, seen>>

-----------------------------------------------------------------------------
(* The command.                                                            *)

Begin(w) ==
  /\ pc[w] = "idle"
  /\ pc' = [pc EXCEPT ![w] = "start"]
  /\ since' = [since EXCEPT ![w] = Len(log)]
  /\ UNCHANGED <<log, seen, try, draft, inner>>

\* The top of the loop: catch_up reads pages until one is empty.
CatchUp(w) ==
  /\ (pc[w] = "start" /\ DrainReturned(w)) \/ pc[w] = "check"
  /\ seen' = [seen EXCEPT ![w] = Len(log)]
  /\ pc' = [pc EXCEPT ![w] = "build"]
  /\ UNCHANGED <<log, try, draft, inner, since>>

\* The closure accepts, on the projection the view has caught up with.
Build(w, d) ==
  /\ pc[w] = "build" /\ DrainReturned(w)
  /\ EL!Decidable(seen[w], d.kind, d.root)
  /\ d.kind = "plain" => Len(log) < MaxLog
  /\ pc' = [pc EXCEPT ![w] = "append"]
  /\ draft' = [draft EXCEPT ![w] = d]
  /\ UNCHANGED <<log, seen, try, inner, since>>

\* The closure finds nothing to do (Ok(None)) or refuses (Err).
BuildNothing(w) ==
  /\ pc[w] = "build" /\ DrainReturned(w)
  /\ Leave(w)
  /\ UNCHANGED <<log, seen, inner>>

\* Mutant: the store compares nothing and appends.
AcceptedBlindly(w) ==
  /\ pc[w] = "append"
  /\ log' = Append(log, EL!Event(w, seen[w], draft[w].kind, draft[w].root))
  /\ seen' = [seen EXCEPT ![w] = Len(log) + 1]
  /\ pc' = [pc EXCEPT ![w] = "after"]
  /\ draft' = [draft EXCEPT ![w] = Blank]
  /\ UNCHANGED <<try, inner, since>>

\* The store's version is the expected one: the event is written and folded.
Accepted(w) ==
  /\ pc[w] = "append"
  /\ seen[w] = Len(log)
  /\ log' = Append(log, EL!Event(w, seen[w], draft[w].kind, draft[w].root))
  /\ seen' = [seen EXCEPT ![w] = @ + 1]
  /\ pc' = [pc EXCEPT ![w] = "after"]
  /\ draft' = [draft EXCEPT ![w] = Blank]
  /\ UNCHANGED <<try, inner, since>>

\* Mutant: the loop runs one time too many.
ConflictOnceMore(w) ==
  /\ pc[w] = "append"
  /\ seen[w] # Len(log)
  /\ try[w] <= CommitAttempts
  /\ seen' = [seen EXCEPT ![w] = Len(log)]
  /\ pc' = [pc EXCEPT ![w] = "check"]
  /\ try' = [try EXCEPT ![w] = @ + 1]
  /\ draft' = [draft EXCEPT ![w] = Blank]
  /\ UNCHANGED <<log, inner, since>>

\* StoreError::Conflict with tries left: catch up and go round again.
Conflict(w) ==
  /\ pc[w] = "append"
  /\ seen[w] # Len(log)
  /\ try[w] < CommitAttempts
  /\ seen' = [seen EXCEPT ![w] = Len(log)]
  /\ pc' = [pc EXCEPT ![w] = "check"]
  /\ try' = [try EXCEPT ![w] = @ + 1]
  /\ draft' = [draft EXCEPT ![w] = Blank]
  /\ UNCHANGED <<log, inner, since>>

\* Mutant: the command gives up one conflict early.
GivesUpEarly(w) ==
  /\ pc[w] = "append"
  /\ seen[w] # Len(log)
  /\ try[w] + 1 >= CommitAttempts
  /\ Leave(w)
  /\ UNCHANGED <<log, seen, inner>>

\* The last conflict is returned to the caller.
GivesUp(w) ==
  /\ pc[w] = "append"
  /\ seen[w] # Len(log)
  /\ try[w] = CommitAttempts
  /\ Leave(w)
  /\ UNCHANGED <<log, seen, inner>>

\* The event landed and the drain after it has returned.
Return(w) ==
  /\ pc[w] = "after" /\ DrainReturned(w)
  /\ Leave(w)
  /\ UNCHANGED <<log, seen, inner>>

\* The turn lifecycle, usage and TODOs share the stream; their appends pass
\* the same version check and drain no frontier.
OutsideAppend ==
  /\ Len(log) < MaxLog
  /\ log' = Append(log, EL!Event(Outsider, Len(log), "plain", None))
  /\ UNCHANGED <<seen, outer, inner, since>>

\* The process dies anywhere; the next one opens a view with TaskGraph::new,
\* which folds the stream from its start.
Crash(w) ==
  /\ pc[w] # "idle"
  /\ Leave(w)
  /\ SubDone(w)
  /\ seen' = [seen EXCEPT ![w] = Len(log)]
  /\ UNCHANGED log

-----------------------------------------------------------------------------
Init ==
  /\ log = <<>>
  /\ seen = [w \in Writers |-> 0]
  /\ pc = [w \in Writers |-> "idle"]
  /\ try = [w \in Writers |-> 1]
  /\ draft = [w \in Writers |-> Blank]
  /\ sub = [w \in Writers |-> "none"]
  /\ subtry = [w \in Writers |-> 1]
  /\ target = [w \in Writers |-> None]
  /\ since = [w \in Writers |-> 0]

\* What a view does when it runs.
Run(w) ==
  \/ \E r \in Roots : DrainPick(w, r)
  \/ SubBuild(w) \/ SubNothing(w)
  \/ SubAccepted(w) \/ SubConflict(w) \/ SubGivesUp(w)
  \/ CatchUp(w)
  \/ \E d \in Drafts : Build(w, d)
  \/ BuildNothing(w)
  \/ Accepted(w) \/ Conflict(w) \/ GivesUp(w)
  \/ Return(w)

Next ==
  \/ \E w \in Writers : Begin(w) \/ Run(w) \/ Crash(w)
  \/ OutsideAppend

Spec == Init /\ [][Next]_vars

\* commit_if is called and returns on its caller's thread: nothing but a crash
\* stops a view that runs a command.
Fairness == \A w \in Writers : WF_vars(Run(w))

FairSpec == Spec /\ Fairness

-----------------------------------------------------------------------------
(* Properties.                                                             *)

\* Every event in the stream was decided on exactly the events before it,
\* whatever conflicts, retries and crashes came between (commit_if, append); a
\* consequence of ImplementsEventLog, stated for the proofs.
DecidedOnWholePrefix == \A i \in DOMAIN log : log[i].basis = i - 1

\* However many views drain the same frontier, a dependent is blocked by one
\* durable event, and after the stop that causes it (reconcile_blocked).
BlockedOnce ==
  \A i \in DOMAIN log :
    log[i].kind = "block" =>
      /\ \E j \in 1 .. i - 1 : log[j].kind = "stop" /\ log[j].root = log[i].root
      /\ \A j \in DOMAIN log :
           log[j].kind = "block" /\ log[j].root = log[i].root => j = i

\* The loop implements the atomic, append-only stream.
ImplementsEventLog == EL!Spec

Others(w) == {i \in DOMAIN log : i > since[w] /\ log[i].by # w}

\* A command, or the drain inside it, is only told "contended" when at least
\* COMMIT_ATTEMPTS events of other writers landed while it ran.
GivingUpMeansOthersCommitted ==
  [][\A w \in Writers :
       GivesUp(w) \/ SubGivesUp(w) => Cardinality(Others(w)) >= CommitAttempts]_vars

\* Every command returns: committed, refused or contended.
CommandReturns == \A w \in Writers : pc[w] # "idle" ~> pc[w] = "idle"

=============================================================================
