----------------------------- MODULE ChildTurn ------------------------------
(***************************************************************************)
(* A subagent's turn (lib.rs: child_turn) on its own thread, and the ways  *)
(* its parent and an operator reach it through the stream: messages (send, *)
(* deliver), pause, resume and cancel (request_pause, resume,              *)
(* request_cancel; subagent.rs, service.rs).  The supervisor also sets a   *)
(* flag (CancelToken), and another process may take the attempt away.      *)
(*                                                                         *)
(* The child holds a view of its own.  It catches up at a boundary: before *)
(* every model round and before every tool call.  Between two boundaries   *)
(* it acts on what it read.  A task's inbox is the projection of the       *)
(* stream; known is the child's copy.                                      *)
(***************************************************************************)
EXTENDS Naturals, Sequences, Functions

CONSTANTS
  MaxInbox,   \* MAX_INBOX
  MaxRounds,  \* MAX_CHILD_TOOL_ROUNDS
  MaxSent,    \* bound of the model: messages sent
  MaxCalls    \* bound of the model: tool calls of one round

ASSUME ChildTurnAssumption ==
  /\ MaxInbox \in Nat \ {0} /\ MaxRounds \in Nat \ {0}
  /\ MaxSent \in Nat /\ MaxCalls \in Nat

VARIABLES
  sent,       \* messages sent so far; message ids are 1 .. sent
  inbox,      \* the task's inbox in the stream, oldest first
  known,      \* the inbox in the child's view
  taking,     \* what deliver read before its commit
  given,      \* messages handed to the child's model, oldest first
  pc,         \* where the child is
  round,      \* model rounds begun
  calls,      \* tool calls left in this round
  attempt,    \* the child's attempt in the stream
  paused,     \* the attempt is in TaskGraph.paused
  flag,       \* the CancelToken
  open,       \* the task takes messages
  due,        \* history: inbox when this round began
  errored,    \* history: this round's delivery returned an error
  unheard,    \* history: what a recorded delivery took and its error dropped
  late        \* history: calls made since a pause or a cancel was recorded

mail == <<sent, inbox, known, taking, given, due, errored, unheard>>
control == <<attempt, paused, flag, open>>
turn == <<pc, round, calls>>
vars == <<mail, control, turn, late>>

Messages == 1 .. MaxSent
Checks == {"round", "tool"}             \* before the flag is read
Boundaries == {"beforeRound", "beforeTool"}
Places == Checks \cup Boundaries
          \cup {"deliver", "commit", "request", "invoke", "done", "stopped", "ended"}

live == attempt # "over"
cancelled == attempt = "cancelling"

TypeOK ==
  /\ sent \in 0 .. MaxSent
  /\ inbox \in Seq(Messages) /\ Len(inbox) <= MaxInbox
  /\ known \in Seq(Messages) /\ taking \in Seq(Messages)
  /\ given \in Seq(Messages)
  /\ pc \in Places
  /\ round \in 0 .. MaxRounds /\ calls \in 0 .. MaxCalls
  /\ attempt \in {"running", "cancelling", "over"}
  /\ paused \in BOOLEAN /\ flag \in BOOLEAN /\ open \in BOOLEAN
  /\ due \subseteq Messages /\ errored \in BOOLEAN /\ unheard \subseteq Messages
  /\ late \in Nat

-----------------------------------------------------------------------------
(* The parent, the operator and other processes, each with its own view.   *)

\* Mutant: the inbox is not checked inside the commit.
SendUnbounded ==
  /\ open /\ sent < MaxSent
  /\ sent' = sent + 1
  /\ inbox' = Append(inbox, sent + 1)
  /\ UNCHANGED <<known, taking, given, due, errored, unheard, control, turn, late>>

\* Recorded, or refused: Ended (completed, verified or failed), InboxFull.
Send ==
  /\ open /\ sent < MaxSent
  /\ Len(inbox) < MaxInbox
  /\ sent' = sent + 1
  /\ inbox' = Append(inbox, sent + 1)
  /\ UNCHANGED <<known, taking, given, due, errored, unheard, control, turn, late>>

\* The clock of `late` starts with the first request.
RequestCancel ==
  /\ live /\ ~cancelled
  /\ attempt' = "cancelling"
  /\ late' = IF paused THEN late ELSE 0
  /\ UNCHANGED <<mail, paused, flag, open, turn>>

RequestPause ==
  /\ live /\ ~cancelled
  /\ paused' = TRUE
  /\ late' = IF paused THEN late ELSE 0
  /\ UNCHANGED <<mail, attempt, flag, open, turn>>

\* resume asks for a live, paused attempt; a cancelling one is live.
Resume ==
  /\ live /\ paused
  /\ paused' = FALSE
  /\ UNCHANGED <<mail, attempt, flag, open, turn, late>>

\* cancel sets the flag once its request is on record; finish sets it anyway.
SetFlag ==
  /\ flag' = TRUE
  /\ UNCHANGED <<mail, attempt, paused, open, turn, late>>

\* Its lease lapsed, or the task was cancelled under it: Expired or Cancelled.
\* The task takes messages in either state, and a pause stays on record.
TakenAway ==
  /\ live
  /\ attempt' = "over"
  /\ UNCHANGED <<mail, paused, flag, open, turn, late>>

-----------------------------------------------------------------------------
(* The child: the flag, then the boundary.                                 *)

FlagStops ==
  /\ pc \in Checks /\ flag
  /\ pc' = "stopped"
  /\ UNCHANGED <<mail, control, round, calls, late>>

FlagPasses ==
  /\ pc \in Checks /\ ~flag
  /\ pc' = IF pc = "round" THEN "beforeRound" ELSE "beforeTool"
  /\ UNCHANGED <<mail, control, round, calls, late>>

\* Mutant: a paused child does not look for a cancel.
BoundaryStopsUnlessPaused ==
  /\ pc \in Boundaries
  /\ cancelled /\ ~paused
  /\ pc' = "stopped"
  /\ known' = inbox
  /\ UNCHANGED <<sent, inbox, taking, given, due, errored, unheard, control,
                 round, calls, late>>

\* boundary: refresh, and stop if the attempt is Cancelling.
BoundaryStops ==
  /\ pc \in Boundaries
  /\ cancelled
  /\ pc' = "stopped"
  /\ known' = inbox
  /\ UNCHANGED <<sent, inbox, taking, given, due, errored, unheard, control,
                 round, calls, late>>

\* A refresh that fails stops the child, also out of a pause.
BoundaryFails ==
  /\ pc \in Boundaries
  /\ pc' = "stopped"
  /\ UNCHANGED <<mail, control, round, calls, late>>

\* Mutant: the boundary does not refresh the view.
BoundaryPassesStale ==
  /\ pc \in Boundaries
  /\ ~cancelled /\ ~paused
  /\ pc' = IF pc = "beforeRound" THEN "deliver" ELSE "invoke"
  /\ due' = IF pc = "beforeRound" THEN Range(inbox) ELSE due
  /\ errored' = (pc = "beforeTool" /\ errored)
  /\ UNCHANGED <<sent, inbox, known, taking, given, unheard, control,
                 round, calls, late>>

\* A paused child polls here; nothing it would do next has begun.  A child
\* whose attempt was taken away goes on.
BoundaryPasses ==
  /\ pc \in Boundaries
  /\ ~cancelled /\ ~paused
  /\ pc' = IF pc = "beforeRound" THEN "deliver" ELSE "invoke"
  /\ known' = inbox
  /\ due' = IF pc = "beforeRound" THEN Range(inbox) ELSE due
  /\ errored' = (pc = "beforeTool" /\ errored)
  /\ UNCHANGED <<sent, inbox, taking, given, unheard, control,
                 round, calls, late>>

-----------------------------------------------------------------------------
(* The child's messages.                                                   *)

DeliverNothing ==
  /\ pc = "deliver" /\ known = <<>>
  /\ pc' = "request"
  /\ UNCHANGED <<mail, control, round, calls, late>>

\* deliver reads the ids it will return on its own view ...
DeliverRead ==
  /\ pc = "deliver" /\ known # <<>>
  /\ taking' = known
  /\ pc' = "commit"
  /\ UNCHANGED <<sent, inbox, known, given, due, errored, unheard, control,
                 round, calls, late>>

\* Mutant: folding the delivery does not empty the inbox.
DeliverCommitKeeps ==
  /\ pc = "commit"
  /\ given' = given \o taking
  /\ known' = inbox /\ taking' = <<>>
  /\ pc' = "request"
  /\ UNCHANGED <<sent, inbox, due, errored, unheard, control, round, calls, late>>

\* ... and commits the ids its caught-up view holds by then.
DeliverCommit ==
  /\ pc = "commit"
  /\ given' = given \o taking
  /\ inbox' = <<>> /\ known' = <<>> /\ taking' = <<>>
  /\ pc' = "request"
  /\ UNCHANGED <<sent, due, errored, unheard, control, round, calls, late>>

\* Not recorded: a read or an append failed, or every try met a conflict.
\* steer drops the error; the messages stay for a later round.
DeliverRefused ==
  /\ pc = "commit"
  /\ known' \in {known, inbox} /\ taking' = <<>>
  /\ errored' = TRUE
  /\ pc' = "request"
  /\ UNCHANGED <<sent, inbox, given, due, unheard, control, round, calls, late>>

\* Recorded, and then the drain behind the commit failed: steer drops the
\* error, and with it the messages.
DeliverUnheard ==
  /\ pc = "commit"
  /\ inbox' = <<>> /\ known' = <<>> /\ taking' = <<>>
  /\ unheard' = unheard \cup Range(inbox)
  /\ errored' = TRUE
  /\ pc' = "request"
  /\ UNCHANGED <<sent, given, due, control, round, calls, late>>

-----------------------------------------------------------------------------
(* The child's model and its tools.                                        *)

Late == late' = IF cancelled \/ paused THEN late + 1 ELSE late

\* One model round: an answer, an error, or tool calls.
Request(n) ==
  /\ pc = "request"
  /\ calls' = n
  /\ pc' = IF n = 0 THEN "done" ELSE "tool"
  /\ Late
  /\ UNCHANGED <<mail, control, round>>

\* Mutant: only the first call of a round is preceded by a boundary.
InvokeOn ==
  /\ pc = "invoke"
  /\ calls' = calls - 1
  /\ round' = IF calls = 1 THEN round + 1 ELSE round
  /\ pc' = IF calls > 1 THEN "invoke"
           ELSE IF round + 1 < MaxRounds THEN "round" ELSE "done"
  /\ Late
  /\ UNCHANGED <<mail, control>>

\* One tool call; after the last one of the last round the child gives up.
Invoke ==
  /\ pc = "invoke"
  /\ calls' = calls - 1
  /\ round' = IF calls = 1 THEN round + 1 ELSE round
  /\ pc' = IF calls > 1 THEN "tool"
           ELSE IF round + 1 < MaxRounds THEN "round" ELSE "done"
  /\ Late
  /\ UNCHANGED <<mail, control>>

\* The supervisor denies the rest, or the call could not be recorded.
Denied ==
  /\ pc = "invoke"
  /\ pc' = "done"
  /\ Late
  /\ UNCHANGED <<mail, control, round, calls>>

\* The worker reports: a stopped child's task is Cancelled and takes messages
\* still, any other is Completed or Failed.
Finish ==
  /\ pc \in {"done", "stopped"} /\ live
  /\ pc' = "ended" /\ attempt' = "over"
  /\ open' = (open /\ pc = "stopped")
  /\ UNCHANGED <<mail, paused, flag, round, calls, late>>

\* The report is fenced, or could not be appended.
FinishLost ==
  /\ pc \in {"done", "stopped"}
  /\ pc' = "ended"
  /\ UNCHANGED <<mail, control, round, calls, late>>

-----------------------------------------------------------------------------
Init ==
  /\ sent = 0 /\ inbox = <<>> /\ known = <<>> /\ taking = <<>> /\ given = <<>>
  /\ pc = "round" /\ round = 0 /\ calls = 0
  /\ attempt = "running" /\ paused = FALSE /\ flag = FALSE /\ open = TRUE
  /\ due = {} /\ errored = FALSE /\ unheard = {} /\ late = 0

Boundary == FlagStops \/ FlagPasses \/ BoundaryStops \/ BoundaryPasses

Deliver ==
  DeliverNothing \/ DeliverRead \/ DeliverCommit \/ DeliverRefused \/ DeliverUnheard

Work ==
  (\E n \in 0 .. MaxCalls : Request(n)) \/ Invoke \/ Denied \/ Finish \/ FinishLost

Child == Boundary \/ Deliver \/ Work

Outside == Send \/ RequestCancel \/ RequestPause \/ Resume \/ SetFlag \/ TakenAway

Next == Child \/ BoundaryFails \/ Outside

Spec == Init /\ [][Next]_vars

\* The child's thread runs: a provider's stream and a tool return (both have
\* timeouts), a sleeping poll wakes up.  No refresh has to fail.
FairSpec == Spec /\ WF_vars(Child)

-----------------------------------------------------------------------------
(* Properties.                                                             *)

\* deliver: a message is handed over once, in the order it was sent, however
\* sends interleave with the child's two-step delivery.
GivenOnceInOrder ==
  \A i, j \in DOMAIN given : i < j => given[i] < given[j]

\* boundary refreshes, then deliver: what was in the stream's inbox at a
\* round's boundary has been handed to the model when that round's request is
\* made.  Only a delivery that returned an error leaves it out, and then the
\* message waits for a later round unless the delivery was recorded.
RoundSeesWhatWaited ==
  pc = "request" =>
    /\ ~errored => due \subseteq Range(given)
    /\ due \subseteq Range(given) \cup Range(inbox) \cup unheard

\* A child that is told to pause or stop makes at most the one call it had
\* already passed the boundary of.
AtMostOneLateCall == cancelled \/ paused => late <= 1

\* boundary: a child told to stop ends, even a paused one, unless another
\* process takes its attempt away while it is paused: then nothing in the
\* stream can reach it.
CancelledEnds == cancelled ~> (pc = "ended" \/ (paused /\ ~live))

\* deliver: the record says what the recipient was given, where deliver said
\* that it worked.
DeliveredWasGiven ==
  \A m \in 1 .. sent : m \notin Range(inbox) \cup unheard => m \in Range(given)

=============================================================================
