------------------------------ MODULE Session ------------------------------
(***************************************************************************)
(* The life of one session across the processes that open it in turn: the  *)
(* interactive session (arsy-cli, turn.rs and picker/), scripted runs and  *)
(* `arsy resume` (run.rs), a prompt from an editor (acp.rs).               *)
(*                                                                         *)
(* A turn is five records in one stream: the task's lease, turn.started,   *)
(* turn.transcript, the turn's end and the task's end.  A process may die  *)
(* between any two of them, and any append may fail, which ends the turn   *)
(* but not an interactive process.  The next process restores a            *)
(* conversation from the closed turns, closes what it finds open and hands *)
(* the tasks back.                                                         *)
(*                                                                         *)
(* One process has the session open at a time: nothing enforces it, and    *)
(* recovery relies on it ("A turn found open is proof its process is       *)
(* gone").  How concurrent appends meet is CommitLoop and TaskGraph.       *)
(***************************************************************************)
EXTENDS Naturals, Sequences, FiniteSets, SequencesExt

CONSTANTS
  MaxTurns,     \* bound of the model: turns, and tasks
  MaxFaults,    \* bound of the model: appends that fail
  MaxCrashes    \* bound of the model: processes that die

ASSUME SessionAssumption ==
  MaxTurns \in Nat /\ MaxFaults \in Nat /\ MaxCrashes \in Nat

VARIABLES
  \* on disk
  stream,    \* the turn events, in order
  work,      \* the task of each turn started
  task,      \* [Task -> ...], the task's state in the graph
  \* the process that has the session open
  mode,      \* "tui" or "script"
  step,      \* the next thing it does
  on,        \* the task it holds, or 0
  turn,      \* the turn it runs, or 0
  outcome,   \* how that turn went
  memory,    \* the conversation of an interactive session
  found,     \* turns it found open
  \* of the model
  torn,      \* turns left open under an interactive session's eyes, or whose
             \* transcript holds nothing
  cut,       \* turns that ended with their task's end unrecorded
  faults, crashes

diskVars == <<stream, work, task>>
procVars == <<mode, step, on, turn, outcome, memory, found>>
countVars == <<faults, crashes>>
vars == <<stream, work, task, mode, step, on, turn, outcome, memory, found,
          torn, cut, faults, crashes>>

Turns == 1 .. MaxTurns
Task == 1 .. MaxTurns
Ends == {"completed", "interrupted", "failed", "abandoned"}
\* A transcript is blank when the first message of its exchange alone is
\* larger than an event may be (MAX_TURN_BYTES).
Transcripts == {"transcript", "blank"}
Event == [kind : {"started"} \cup Transcripts \cup Ends, turn : Turns]
Outcomes == {"answered", "interrupted", "failed", "rewound"}
InTurn == {"working", "keep", "endTurn", "endTask"}

TypeOK ==
  /\ stream \in Seq(Event) /\ work \in Seq(Task) /\ Len(work) <= MaxTurns
  /\ task \in [Task -> {"absent", "ready", "running", "completed", "failed",
                        "cancelled"}]
  /\ mode \in {"tui", "script"}
  /\ step \in {"away", "prompt", "closing", "take", "leased"} \cup InTurn
  /\ on \in {0} \cup Task /\ turn \in {0} \cup Turns
  /\ step \in InTurn <=> turn # 0
  /\ step \in InTurn \cup {"leased"} <=> on # 0
  /\ outcome \in Outcomes \cup {"none"}
  /\ memory \in Seq([turn : Turns, part : {"exchange", "prompt"}])
  /\ found \subseteq Turns /\ torn \subseteq Turns /\ cut \subseteq Turns
  /\ faults \in 0 .. MaxFaults /\ crashes \in 0 .. MaxCrashes

-----------------------------------------------------------------------------
(* What the stream says.                                                   *)

Closed(s) == {s[i].turn : i \in {j \in DOMAIN s : s[j].kind \in Ends}}
Open == {t \in 1 .. Len(work) : t \notin Closed(stream)}

\* The elements of s at the indices in I, up to the k-th of s, in order.
KeptUpTo(s, I, k) ==
  LET upTo[n \in 0 .. k] == IF n = 0 THEN <<>>
                            ELSE IF n \in I THEN Append(upTo[n - 1], s[n])
                            ELSE upTo[n - 1]
  IN upTo[k]
Kept(s, I) == KeptUpTo(s, I, Len(s))

\* What each event would add to a conversation.
Says(s) == [i \in DOMAIN s |->
              [turn |-> s[i].turn,
               part |-> IF s[i].kind = "transcript" THEN "exchange" ELSE "prompt"]]

\* The events that do: a transcript of a closed turn that is not blank; or, of
\* a completed one that has none yet, the question it was asked.
Giving(s) ==
  {i \in DOMAIN s :
     \/ s[i].kind = "transcript" /\ s[i].turn \in Closed(s)
     \/ /\ s[i].kind = "completed"
        /\ ~\E j \in 1 .. i : s[j].kind = "transcript" /\ s[j].turn = s[i].turn}

Restored(s) == Kept(Says(s), Giving(s))

-----------------------------------------------------------------------------
(* Opening the session.                                                    *)

\* resume_into: the conversation is restored, then the open turns are closed.
ResumeInto ==
  /\ step \in {"away", "prompt"}
  /\ mode' = "tui" /\ step' = "closing"
  /\ memory' = Restored(stream)
  /\ found' = Open /\ torn' = Open
  /\ UNCHANGED <<diskVars, on, turn, outcome, cut, countVars>>

\* `arsy resume`.
Resume ==
  /\ step = "away"
  /\ mode' = "script" /\ step' = "closing"
  /\ found' = Open
  /\ UNCHANGED <<diskVars, on, turn, outcome, memory, torn, cut, countVars>>

\* fail_turn, of each turn found open.
CloseFound ==
  /\ step = "closing"
  /\ \E t \in found \ Closed(stream) :
       stream' = Append(stream, [kind |-> "abandoned", turn |-> t])
  /\ UNCHANGED <<work, task, procVars, torn, cut, countVars>>

Running == {t \in Task : task[t] = "running"}

\* recover_expired, and reclaim_running when a turn was found open; then a
\* scripted resume takes a task that waits, if one does.
Recover ==
  /\ step = "closing" /\ found \subseteq Closed(stream)
  /\ \E lapsed \in SUBSET Running :
       LET back == IF found = {} THEN lapsed ELSE Running
       IN task' = [t \in Task |-> IF t \in back THEN "ready" ELSE task[t]]
  /\ step' = CASE mode = "tui" -> "prompt"
               [] mode # "tui" /\ (\E t \in Task : task'[t] = "ready") -> "take"
               [] OTHER -> "away"
  /\ found' = {}
  /\ UNCHANGED <<stream, work, mode, on, turn, outcome, memory, torn, cut,
                 countVars>>

-----------------------------------------------------------------------------
(* Taking a task.                                                          *)

Lease(t) ==
  /\ task' = [task EXCEPT ![t] = "running"]
  /\ on' = t /\ step' = "leased"

\* A prompt is a task of its own; `arsy run` and an editor's prompt open the
\* session and recover nothing.
Enqueue ==
  /\ \/ step = "prompt" /\ UNCHANGED mode
     \/ step = "away" /\ mode' = "script"
  /\ \E t \in Task :
       /\ task[t] = "absent" /\ \A u \in Task : u < t => task[u] # "absent"
       /\ Lease(t)
  /\ UNCHANGED <<stream, work, turn, outcome, memory, found, torn, cut,
                 countVars>>

TakeReady ==
  /\ step = "take"
  /\ \E t \in Task : task[t] = "ready" /\ Lease(t)
  /\ UNCHANGED <<stream, work, mode, turn, outcome, memory, found, torn, cut,
                 countVars>>

\* service.start_turn.
StartTurn ==
  /\ step = "leased" /\ Len(work) < MaxTurns
  /\ turn' = Len(work) + 1
  /\ work' = Append(work, on)
  /\ stream' = Append(stream, [kind |-> "started", turn |-> turn'])
  /\ step' = "working"
  /\ UNCHANGED <<task, mode, on, outcome, memory, found, torn, cut, countVars>>

-----------------------------------------------------------------------------
(* A turn's end.                                                           *)

\* Mutant: only an answer is recorded, as record_transcript's doc says.
KeepsAnswersOnly(o) == o = "answered"

\* persist_turn: an answer, and what an interrupted or failed turn had done;
\* a turn whose own request was refused is rewound.  A scripted run keeps
\* answers.
Keeps(o) == o = "answered" \/ (mode = "tui" /\ o \in {"interrupted", "failed"})

\* persist_failed_turn closes the task first; everything else the turn first.
TaskFirst(o) == mode = "tui" /\ o \in {"failed", "rewound"}

FirstEnd(o) == IF TaskFirst(o) THEN "endTask" ELSE "endTurn"
Home == IF mode = "tui" THEN "prompt" ELSE "away"

\* The answer, the stop or the failure the provider and the tools end in.
Work(o) ==
  /\ step = "working"
  /\ mode = "script" => o \in {"answered", "failed"}
  /\ outcome' = o
  /\ step' = IF Keeps(o) THEN "keep" ELSE FirstEnd(o)
  /\ memory' = IF mode = "tui" /\ o # "rewound"
                 THEN Append(memory, [turn |-> turn, part |-> "exchange"])
                 ELSE memory
  /\ UNCHANGED <<diskVars, mode, on, turn, found, torn, cut, countVars>>

\* Mutant: an answer's turn is closed before its transcript is recorded.
TranscriptLate(kind) ==
  /\ step = "keep"
  /\ stream' = IF outcome = "answered"
                 THEN stream \o <<[kind |-> "completed", turn |-> turn],
                                  [kind |-> kind, turn |-> turn]>>
                 ELSE Append(stream, [kind |-> kind, turn |-> turn])
  /\ torn' = IF kind = "blank" THEN torn \cup {turn} ELSE torn
  /\ step' = IF outcome = "answered" THEN "endTask" ELSE FirstEnd(outcome)
  /\ UNCHANGED <<work, task, mode, on, turn, outcome, memory, found, cut, countVars>>

\* record_transcript of what persistable keeps of the exchange, maybe nothing.
Transcript(kind) ==
  /\ step = "keep"
  /\ stream' = Append(stream, [kind |-> kind, turn |-> turn])
  /\ torn' = IF kind = "blank" THEN torn \cup {turn} ELSE torn
  /\ step' = FirstEnd(outcome)
  /\ UNCHANGED <<work, task, mode, on, turn, outcome, memory, found, cut, countVars>>

\* The process lets go of the turn and is at s.
LetGo(s) == on' = 0 /\ turn' = 0 /\ outcome' = "none" /\ step' = s

\* complete_turn or fail_turn.
EndTurn ==
  /\ step = "endTurn"
  /\ stream' = Append(stream, [turn |-> turn,
                               kind |-> CASE outcome = "answered" -> "completed"
                                          [] outcome = "interrupted" -> "interrupted"
                                          [] OTHER -> "failed"])
  /\ IF TaskFirst(outcome)
       THEN LetGo(Home)
       ELSE step' = "endTask" /\ UNCHANGED <<on, turn, outcome>>
  /\ UNCHANGED <<work, task, mode, memory, found, torn, cut, countVars>>

\* Mutant: an answered task is not completed.
EndTaskForgets ==
  /\ step = "endTask"
  /\ task' = [task EXCEPT ![on] = CASE outcome = "answered" -> @
                                    [] outcome = "interrupted" -> "cancelled"
                                    [] OTHER -> "failed"]
  /\ IF TaskFirst(outcome)
       THEN step' = "endTurn" /\ UNCHANGED <<on, turn, outcome>>
       ELSE LetGo(Home)
  /\ UNCHANGED <<stream, work, mode, memory, found, torn, cut, countVars>>

\* graph.complete, cancel or fail.
EndTask ==
  /\ step = "endTask"
  /\ task' = [task EXCEPT ![on] = CASE outcome = "answered" -> "completed"
                                    [] outcome = "interrupted" -> "cancelled"
                                    [] OTHER -> "failed"]
  /\ IF TaskFirst(outcome)
       THEN step' = "endTurn" /\ UNCHANGED <<on, turn, outcome>>
       ELSE LetGo(Home)
  /\ UNCHANGED <<stream, work, mode, memory, found, torn, cut, countVars>>

-----------------------------------------------------------------------------
(* What goes wrong.                                                        *)

\* Half-closed: the turn's end is recorded, its task's is not.
HalfClosed == step = "endTask" /\ ~TaskFirst(outcome)

\* Mutant: the turn whose record failed is still the one at hand.
FaultKeepsTurn ==
  /\ faults < MaxFaults /\ faults' = faults + 1
  /\ step \in {"take", "closing", "leased"} \cup InTurn
  /\ cut' = IF HalfClosed THEN cut \cup {turn} ELSE cut
  /\ torn' = IF turn # 0 /\ turn \notin Closed(stream) THEN torn \cup {turn} ELSE torn
  /\ step' = IF mode = "tui" /\ step # "closing" THEN "prompt" ELSE "away"
  /\ UNCHANGED <<diskVars, mode, on, turn, outcome, memory, found, crashes>>

\* An append fails.  An interactive turn is reported and the session goes on,
\* whatever was recorded and with what the turn had said; recovery and a script
\* end.
Fault ==
  /\ faults < MaxFaults /\ faults' = faults + 1
  /\ step \in {"take", "closing", "leased"} \cup InTurn
  /\ cut' = IF HalfClosed THEN cut \cup {turn} ELSE cut
  /\ torn' = IF turn # 0 /\ turn \notin Closed(stream) THEN torn \cup {turn} ELSE torn
  /\ LetGo(IF mode = "tui" /\ step # "closing" THEN "prompt" ELSE "away")
  /\ memory' = CASE step' = "away" -> <<>>
                 [] step' # "away" /\ step = "working" ->
                      Append(memory, [turn |-> turn, part |-> "exchange"])
                 [] OTHER -> memory
  /\ found' = {}
  /\ UNCHANGED <<diskVars, mode, crashes>>

\* The task is recorded and cannot be leased.
EnqueueFails ==
  /\ step = "prompt" /\ faults < MaxFaults /\ faults' = faults + 1
  /\ \E t \in Task :
       /\ task[t] = "absent" /\ \A u \in Task : u < t => task[u] # "absent"
       /\ task' = [task EXCEPT ![t] = "ready"]
  /\ UNCHANGED <<stream, work, procVars, torn, cut, crashes>>

Crash ==
  /\ step # "away" /\ crashes < MaxCrashes /\ crashes' = crashes + 1
  /\ cut' = IF HalfClosed THEN cut \cup {turn} ELSE cut
  /\ LetGo("away")
  /\ memory' = <<>> /\ found' = {} /\ torn' = {}
  /\ UNCHANGED <<diskVars, mode, faults>>

\* The operator leaves.
Leave ==
  /\ step = "prompt"
  /\ step' = "away" /\ memory' = <<>> /\ torn' = {}
  /\ UNCHANGED <<diskVars, mode, on, turn, outcome, found, cut, countVars>>

-----------------------------------------------------------------------------
Init ==
  /\ stream = <<>> /\ work = <<>> /\ task = [t \in Task |-> "absent"]
  /\ mode = "tui" /\ step = "away" /\ on = 0 /\ turn = 0 /\ outcome = "none"
  /\ memory = <<>> /\ found = {} /\ torn = {} /\ cut = {}
  /\ faults = 0 /\ crashes = 0

Next ==
  \/ ResumeInto \/ Resume \/ CloseFound \/ Recover
  \/ Enqueue \/ TakeReady \/ StartTurn
  \/ \E o \in Outcomes : Work(o)
  \/ \E kind \in Transcripts : Transcript(kind)
  \/ EndTurn \/ EndTask
  \/ Fault \/ EnqueueFails \/ Crash \/ Leave

Spec == Init /\ [][Next]_vars

-----------------------------------------------------------------------------
(* Properties.                                                             *)

Records(t) == {j \in DOMAIN stream : stream[j].kind \in Transcripts /\ stream[j].turn = t}

\* A completed turn's transcript is in the stream before its end, once: whoever
\* dies or fails where, no restored history holds a turn that is over and
\* was never written down, or twice what was said once.
CompletedWithItsExchange ==
  \A i \in DOMAIN stream :
    stream[i].kind = "completed" => \E j \in 1 .. i - 1 : Records(stream[i].turn) = {j}

Besides(m, ts) == Kept(m, {i \in DOMAIN m : m[i].turn \notin ts})

\* At its prompt, an interactive session remembers what a session resumed from
\* the stream would, turn for turn and in order, through answers, stops,
\* failures and rewinds: but for the turns that were open when it looked,
\* whose own record failed, or whose exchange no event could hold.
MemoryIsRecord ==
  step = "prompt" => Besides(memory, torn) = Besides(Restored(stream), torn)

\* A task is run again only when its last run recorded no end of its own (it
\* was abandoned), or died between the two records of it.
RerunOnlyWhatWasCutOff ==
  [][\A t \in DOMAIN work :
       Len(work') > Len(work) /\ work[t] = on =>
         t \in cut \/ [kind |-> "abandoned", turn |-> t] \in Range(stream)]_vars

\* resume_into, as reconstruct_session_conversation is documented: what the
\* record holds of a stopped turn's work is before the session that resumes.
ResumedSeesWhatRan ==
  step = "prompt" =>
    {e \in Range(Restored(stream)) : e.part = "exchange"} \subseteq Range(memory)

=============================================================================
