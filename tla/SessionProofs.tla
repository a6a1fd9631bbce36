--------------------------- MODULE SessionProofs ---------------------------
(***************************************************************************)
(* The records of a session, for any number of turns, failed appends and   *)
(* crashes: first what is in the stream and the task graph, which does not *)
(* depend on the memory of a process; then what Restored makes of it, and  *)
(* that an interactive session's memory follows it.                        *)
(***************************************************************************)
EXTENDS Session, Induction

\* The types of what the proofs need: TypeOK but for memory and the bounds.
Typed ==
  /\ stream \in Seq(Event) /\ work \in Seq(Task) /\ Len(work) <= MaxTurns
  /\ task \in [Task -> {"absent", "ready", "running", "completed", "failed",
                        "cancelled"}]
  /\ mode \in {"tui", "script"}
  /\ step \in {"away", "prompt", "closing", "take", "leased"} \cup InTurn
  /\ on \in {0} \cup Task /\ turn \in {0} \cup Turns
  /\ step \in InTurn <=> turn # 0
  /\ step \in InTurn \cup {"leased"} <=> on # 0
  /\ outcome \in Outcomes \cup {"none"}

Said(t) == Records(t) # {}

\* The last run of a turn's task recorded no end of its own, or died between.
CutOff(t) == t \in cut \/ [kind |-> "abandoned", turn |-> t] \in Range(stream)

\* The stream names turns that were started, has one transcript of each at
\* most, and one before each completion.
StreamInv ==
  /\ \A i \in DOMAIN stream : stream[i].turn \in 1 .. Len(work)
  /\ \A i, j \in DOMAIN stream :
       stream[i].kind \in Transcripts /\ stream[j].kind \in Transcripts
         /\ stream[i].turn = stream[j].turn => i = j
  /\ \A i \in DOMAIN stream :
       stream[i].kind = "completed" =>
         \E j \in 1 .. i - 1 :
           stream[j].kind \in Transcripts /\ stream[j].turn = stream[i].turn

\* What the process has at hand is the newest turn, open until it is half
\* closed; what it found covers all that is open.
HandInv ==
  /\ turn # 0 => /\ turn = Len(work) /\ work[turn] = on
                 /\ HalfClosed \/ turn \notin Closed(stream)
  /\ step = "closing" => Open \subseteq found
  /\ \A t \in found : t \in 1 .. Len(work)
  /\ step \in {"working", "keep"} => ~Said(turn)
  /\ step = "endTurn" /\ outcome = "answered" => Said(turn)

\* A task that waits or runs was cut off in every turn it had, but for the one
\* at hand and one still open.
TaskInv ==
  /\ on # 0 => task[on] \notin {"absent", "ready"}
  /\ step = "endTurn" /\ TaskFirst(outcome) => task[on] = "failed"
  /\ step = "leased" => \A t \in 1 .. Len(work) : work[t] = on => CutOff(t)
  /\ \A t \in 1 .. Len(work) :
       /\ task[work[t]] # "absent"
       /\ task[work[t]] \in {"ready", "running"} =>
            CutOff(t) \/ t = turn \/ (t \in Open /\ task[work[t]] = "running")

IInv == Typed /\ StreamInv /\ HandInv /\ TaskInv

-----------------------------------------------------------------------------
(* Appending to the stream.                                                *)

LEMMA Indices ==
  ASSUME Typed
  PROVE  /\ Len(work) \in Nat /\ DOMAIN work = 1 .. Len(work)
         /\ Len(stream) \in Nat /\ DOMAIN stream = 1 .. Len(stream)
         /\ \A t \in 1 .. Len(work) : work[t] \in Task /\ t \in Turns /\ t # 0
         /\ \A i \in DOMAIN stream : stream[i] \in Event
<1>1. /\ Len(work) \in Nat /\ DOMAIN work = 1 .. Len(work) /\ Len(work) <= MaxTurns
      /\ \A t \in 1 .. Len(work) : work[t] \in Task
  BY DEF Typed
<1>2. \A t \in 1 .. Len(work) : t \in Turns /\ t # 0
  BY <1>1, SessionAssumption DEF Turns
<1>3. QED
  BY <1>1, <1>2 DEF Typed

LEMMA Appended ==
  ASSUME Typed, NEW e \in Event, stream' = Append(stream, e)
  PROVE  /\ stream' \in Seq(Event) /\ DOMAIN stream' = DOMAIN stream \cup {Len(stream) + 1}
         /\ \A i \in DOMAIN stream : stream'[i] = stream[i] /\ i < Len(stream) + 1
         /\ stream'[Len(stream) + 1] = e
         /\ Closed(stream') = Closed(stream) \cup (IF e.kind \in Ends THEN {e.turn} ELSE {})
         /\ \A x : x \in Range(stream) => x \in Range(stream')
         /\ e \in Range(stream')
<1>1. /\ stream' \in Seq(Event) /\ DOMAIN stream' = DOMAIN stream \cup {Len(stream) + 1}
      /\ \A i \in DOMAIN stream : stream'[i] = stream[i] /\ i < Len(stream) + 1
      /\ stream'[Len(stream) + 1] = e
  <2>1. Len(stream) \in Nat /\ DOMAIN stream = 1 .. Len(stream) /\ stream \in Seq(Event)
    BY Indices DEF Typed
  <2>2. Len(stream') = Len(stream) + 1 /\ DOMAIN stream' = 1 .. Len(stream) + 1
    BY <2>1
  <2>3. QED
    BY <2>1, <2>2
<1>2. Closed(stream') = Closed(stream) \cup (IF e.kind \in Ends THEN {e.turn} ELSE {})
  <2>1. ASSUME NEW t PROVE t \in Closed(stream') <=>
                             t \in Closed(stream) \/ (e.kind \in Ends /\ t = e.turn)
    BY <1>1 DEF Closed
  <2>2. QED
    BY <2>1
<1>3. (\A x : x \in Range(stream) => x \in Range(stream')) /\ e \in Range(stream')
  BY <1>1 DEF Range
<1>4. QED
  BY <1>1, <1>2, <1>3

LEMMA StreamGrows ==
  ASSUME Typed, StreamInv, NEW e \in Event, stream' = Append(stream, e),
         UNCHANGED work, e.turn \in 1 .. Len(work),
         e.kind \in Transcripts => ~Said(e.turn),
         e.kind = "completed" => Said(e.turn)
  PROVE  StreamInv'
<1> DEFINE n == Len(stream) + 1
<1>1. /\ DOMAIN stream' = DOMAIN stream \cup {n} /\ stream'[n] = e
      /\ \A i \in DOMAIN stream : stream'[i] = stream[i] /\ i < n
      /\ n \in Nat /\ DOMAIN stream = 1 .. n - 1
  BY Appended, Indices
<1>2. ASSUME NEW i \in DOMAIN stream' PROVE stream'[i].turn \in 1 .. Len(work)
  BY <1>1 DEF StreamInv
<1>3. ASSUME NEW i \in DOMAIN stream, stream[i].kind \in Transcripts, e.kind \in Transcripts,
             stream[i].turn = e.turn
      PROVE  FALSE
  BY <1>3 DEF Said, Records
<1>4. ASSUME NEW i \in DOMAIN stream', NEW j \in DOMAIN stream',
             stream'[i].kind \in Transcripts, stream'[j].kind \in Transcripts,
             stream'[i].turn = stream'[j].turn
      PROVE  i = j
  BY <1>1, <1>3, <1>4 DEF StreamInv
<1>5. ASSUME NEW i \in DOMAIN stream', stream'[i].kind = "completed"
      PROVE  \E j \in 1 .. i - 1 :
               stream'[j].kind \in Transcripts /\ stream'[j].turn = stream'[i].turn
  <2>1. CASE i \in DOMAIN stream
    <3>1. PICK j \in 1 .. i - 1 :
            stream[j].kind \in Transcripts /\ stream[j].turn = stream[i].turn
      BY <1>1, <1>5, <2>1 DEF StreamInv
    <3>2. j \in DOMAIN stream /\ stream'[j] = stream[j] /\ stream'[i] = stream[i]
      BY <1>1, <2>1
    <3>3. QED
      BY <3>1, <3>2
  <2>2. CASE i = n
    <3>1. PICK j \in DOMAIN stream : stream[j].kind \in Transcripts /\ stream[j].turn = e.turn
      BY <1>1, <1>5, <2>2 DEF Said, Records
    <3>2. QED
      BY <1>1, <2>2, <3>1
  <2>3. QED
    BY <1>1, <2>1, <2>2
<1>6. QED
  BY <1>2, <1>4, <1>5 DEF StreamInv

-----------------------------------------------------------------------------
(* Steps that leave the disk alone.                                        *)

LEMMA OpenSteps ==
  ASSUME IInv, ResumeInto \/ Resume
  PROVE  IInv'
<1>1. /\ UNCHANGED <<stream, work, task, on, turn, outcome, cut>>
      /\ step \in {"away", "prompt"} /\ step' = "closing" /\ found' = Open
      /\ mode' \in {"tui", "script"}
  BY DEF ResumeInto, Resume, diskVars
<1>2. turn = 0 /\ on = 0
  BY <1>1 DEF IInv, Typed, InTurn
<1>3. Typed'
  BY <1>1, <1>2 DEF IInv, Typed, InTurn
<1>4. StreamInv'
  BY <1>1 DEF IInv, StreamInv
<1>5. HandInv'
  BY <1>1, <1>2 DEF HandInv, Open
<1>6. TaskInv'
  BY <1>1, <1>2 DEF IInv, TaskInv, CutOff, Open
<1>7. QED
  BY <1>3, <1>4, <1>5, <1>6 DEF IInv

LEMMA WorkStep ==
  ASSUME IInv, NEW o \in Outcomes, Work(o)
  PROVE  IInv'
<1>1. /\ UNCHANGED <<stream, work, task, mode, on, turn, found, cut>>
      /\ step = "working" /\ outcome' = o
      /\ step' = IF Keeps(o) THEN "keep" ELSE FirstEnd(o)
  BY DEF Work, diskVars
<1>2. /\ step' \in {"keep", "endTurn", "endTask"}
      /\ step' = "endTask" => TaskFirst(o)
      /\ step' = "endTurn" => ~TaskFirst(o) /\ o # "answered"
      /\ TaskFirst(o)' = TaskFirst(o)
  BY <1>1 DEF FirstEnd, Keeps, TaskFirst
<1>3. turn # 0 /\ turn \notin Closed(stream) /\ ~Said(turn)
  BY <1>1 DEF IInv, Typed, InTurn, HandInv, HalfClosed
<1>4. Typed'
  BY <1>1, <1>2 DEF IInv, Typed, InTurn
<1>5. StreamInv'
  BY <1>1 DEF IInv, StreamInv
<1>6. HandInv'
  BY <1>1, <1>2, <1>3 DEF IInv, HandInv, HalfClosed, Said, Records
<1>7. TaskInv'
  <2>1. step' = "endTurn" => ~TaskFirst(outcome)'
    BY <1>1, <1>2 DEF TaskFirst
  <2>2. QED
    BY <1>1, <1>2, <2>1 DEF IInv, TaskInv, CutOff, Open
<1>8. QED
  BY <1>4, <1>5, <1>6, <1>7 DEF IInv

\* The process lets go of what it has at hand, wherever it is.
LEMMA LetGoStep ==
  ASSUME IInv, UNCHANGED <<stream, work, task, mode>>, on' = 0, turn' = 0,
         outcome' = "none", step' \in {"away", "prompt"}, found' = {},
         cut' = IF HalfClosed THEN cut \cup {turn} ELSE cut
  PROVE  IInv'
<1>1. Typed'
  BY DEF IInv, Typed, InTurn
<1>2. StreamInv'
  BY DEF IInv, StreamInv
<1>3. HandInv'
  BY DEF HandInv
<1>4. \A t \in 1 .. Len(work) : CutOff(t) => CutOff(t)'
  BY DEF CutOff
<1>5. ASSUME NEW t \in 1 .. Len(work), task[work[t]] \in {"ready", "running"}
      PROVE  CutOff(t)' \/ (t \in Open /\ task[work[t]] = "running")
  <2>1. CASE t = turn /\ HalfClosed
    BY <2>1 DEF CutOff
  <2>2. CASE t = turn /\ ~HalfClosed
    <3>1. t # 0
      BY Indices DEF IInv
    <3>2. on # 0 /\ work[t] = on /\ t \notin Closed(stream)
      BY <2>2, <3>1 DEF IInv, HandInv, Typed
    <3>3. task[on] # "ready"
      BY <3>2 DEF IInv, TaskInv
    <3>4. QED
      BY <1>5, <3>2, <3>3 DEF Open
  <2>3. CASE t # turn
    BY <1>4, <1>5, <2>3 DEF IInv, TaskInv
  <2>4. QED
    BY <2>1, <2>2, <2>3
<1>6. TaskInv'
  BY <1>5 DEF IInv, TaskInv, Open
<1>7. QED
  BY <1>1, <1>2, <1>3, <1>6 DEF IInv

LEMMA EndingSteps ==
  ASSUME IInv, Fault \/ Crash \/ Leave
  PROVE  IInv'
<1>1. CASE Fault \/ Crash
  <2>1. /\ UNCHANGED <<stream, work, task, mode>> /\ on' = 0 /\ turn' = 0 /\ outcome' = "none"
        /\ step' \in {"away", "prompt"} /\ found' = {}
        /\ cut' = IF HalfClosed THEN cut \cup {turn} ELSE cut
    BY <1>1 DEF Fault, Crash, LetGo, diskVars
  <2>2. QED
    BY <2>1, LetGoStep
<1>2. CASE Leave
  <2>1. /\ UNCHANGED <<stream, work, task, mode, on, turn, outcome, found, cut>>
        /\ step = "prompt" /\ step' = "away"
    BY <1>2 DEF Leave, diskVars
  <2>2. turn = 0 /\ on = 0
    BY <2>1 DEF IInv, Typed, InTurn
  <2>3. Typed'
    BY <2>1 DEF IInv, Typed, InTurn
  <2>4. StreamInv'
    BY <2>1 DEF IInv, StreamInv
  <2>5. HandInv'
    BY <2>1, <2>2 DEF IInv, HandInv
  <2>6. TaskInv'
    BY <2>1, <2>2 DEF IInv, TaskInv, CutOff, Open
  <2>7. QED
    BY <2>3, <2>4, <2>5, <2>6 DEF IInv
<1>3. QED
  BY <1>1, <1>2

-----------------------------------------------------------------------------
(* Steps that append.                                                      *)

\* Records are only added: what was closed or cut off stays so.
LEMMA RecordStays ==
  ASSUME Typed, NEW e \in Event, stream' = Append(stream, e), UNCHANGED <<work, cut>>
  PROVE  /\ \A t : CutOff(t) => CutOff(t)'
         /\ Open' = Open \ (IF e.kind \in Ends THEN {e.turn} ELSE {})
         /\ \A t : Said(t) => Said(t)'
         /\ \A t : Said(t)' => Said(t) \/ (e.kind \in Transcripts /\ e.turn = t)
<1>1. \A t : CutOff(t) => CutOff(t)'
  BY Appended DEF CutOff
<1>2. Open' = Open \ (IF e.kind \in Ends THEN {e.turn} ELSE {})
  BY Appended DEF Open
<1>3. \A t : /\ Said(t) => Said(t)'
             /\ Said(t)' => Said(t) \/ (e.kind \in Transcripts /\ e.turn = t)
  BY Appended DEF Said, Records
<1>4. QED
  BY <1>1, <1>2, <1>3

LEMMA CloseStep ==
  ASSUME IInv, CloseFound
  PROVE  IInv'
<1>1. /\ step = "closing"
      /\ UNCHANGED <<work, task, mode, step, on, turn, outcome, found, cut>>
  BY DEF CloseFound, procVars
<1>2. PICK t \in found \ Closed(stream) :
        stream' = Append(stream, [kind |-> "abandoned", turn |-> t])
  BY DEF CloseFound
<1> DEFINE e == [kind |-> "abandoned", turn |-> t]
<1>3. /\ t \in 1 .. Len(work) /\ e \in Event /\ e.kind \in Ends
      /\ e.kind \notin Transcripts /\ e.kind # "completed"
  BY Indices DEF IInv, HandInv, Event, Ends, Transcripts
<1>4. turn = 0 /\ on = 0
  BY <1>1 DEF IInv, Typed, InTurn
<1>5. Typed'
  BY <1>1, <1>2, <1>3, Appended DEF IInv, Typed
<1>6. StreamInv'
  BY <1>1, <1>2, <1>3, StreamGrows DEF IInv
<1>7. Open' = Open \ {t} /\ \A u : CutOff(u) => CutOff(u)'
  BY <1>1, <1>2, <1>3, RecordStays DEF IInv
<1>8. HandInv'
  BY <1>1, <1>4, <1>7 DEF IInv, HandInv
<1>9. CutOff(t)'
  BY <1>2, <1>3, Appended DEF CutOff, IInv
<1>10. TaskInv'
  BY <1>1, <1>4, <1>7, <1>9 DEF IInv, TaskInv
<1>11. QED
  BY <1>5, <1>6, <1>8, <1>10 DEF IInv

LEMMA TranscriptStep ==
  ASSUME IInv, NEW kind \in Transcripts, Transcript(kind)
  PROVE  IInv'
<1> DEFINE e == [kind |-> kind, turn |-> turn]
<1>1. /\ step = "keep" /\ stream' = Append(stream, e) /\ step' = FirstEnd(outcome)
      /\ UNCHANGED <<work, task, mode, on, turn, outcome, found, cut>>
  BY DEF Transcript
<1>2. turn # 0 /\ turn = Len(work) /\ work[turn] = on /\ turn \notin Closed(stream) /\ ~Said(turn)
  BY <1>1 DEF IInv, Typed, InTurn, HandInv, HalfClosed
<1>3. /\ turn \in 1 .. Len(work) /\ e \in Event /\ e.kind \notin Ends
      /\ e.kind \in Transcripts /\ e.kind # "completed"
  BY <1>2, Indices DEF IInv, Typed, Event, Ends, Transcripts, Turns
<1>4. /\ step' \in {"endTurn", "endTask"}
      /\ step' = "endTask" => TaskFirst(outcome)
      /\ step' = "endTurn" => ~TaskFirst(outcome)
      /\ TaskFirst(outcome)' = TaskFirst(outcome)
  BY <1>1 DEF FirstEnd, TaskFirst
<1>5. Typed'
  BY <1>1, <1>2, <1>3, <1>4, Appended DEF IInv, Typed, InTurn
<1>6. StreamInv'
  BY <1>1, <1>2, <1>3, StreamGrows DEF IInv
<1>7. Open' = Open /\ Closed(stream') = Closed(stream) /\ \A u : CutOff(u) => CutOff(u)'
  BY <1>1, <1>3, RecordStays, Appended DEF IInv
<1>8. Said(turn)'
  <2>1. stream'[Len(stream) + 1] = e /\ Len(stream) + 1 \in DOMAIN stream'
    BY <1>1, <1>3, Appended DEF IInv
  <2>2. QED
    BY <1>1, <1>3, <2>1 DEF Said, Records
<1>9. HandInv'
  <2>1. ~HalfClosed'
    BY <1>4 DEF HalfClosed
  <2>2. QED
    BY <1>1, <1>2, <1>3, <1>4, <1>7, <1>8, <2>1 DEF IInv, HandInv
<1>10. TaskInv'
  BY <1>1, <1>4, <1>7 DEF IInv, TaskInv
<1>11. QED
  BY <1>5, <1>6, <1>9, <1>10 DEF IInv

LEMMA EndTurnStep ==
  ASSUME IInv, EndTurn
  PROVE  IInv'
<1>1. PICK e \in Event :
        /\ e.turn = turn /\ e.kind \in Ends \ {"abandoned"}
        /\ e.kind = "completed" => outcome = "answered"
        /\ stream' = Append(stream, e)
  <2> DEFINE k == CASE outcome = "answered" -> "completed"
                    [] outcome = "interrupted" -> "interrupted"
                    [] OTHER -> "failed"
  <2>1. k \in Ends \ {"abandoned"} /\ (k = "completed" => outcome = "answered")
    BY DEF Ends
  <2>2. turn \in Turns
    BY DEF EndTurn, IInv, Typed, InTurn
  <2>3. [turn |-> turn, kind |-> k] \in Event
    BY <2>1, <2>2 DEF Event
  <2>4. QED
    BY <2>1, <2>3 DEF EndTurn
<1>2. /\ step = "endTurn" /\ UNCHANGED <<work, task, mode, found, cut>>
      /\ \/ TaskFirst(outcome) /\ LetGo(Home)
         \/ /\ ~TaskFirst(outcome) /\ step' = "endTask"
            /\ UNCHANGED <<on, turn, outcome>>
  BY DEF EndTurn
<1>3. /\ turn # 0 /\ turn = Len(work) /\ work[turn] = on /\ turn \notin Closed(stream)
      /\ outcome = "answered" => Said(turn)
  BY <1>2 DEF IInv, Typed, InTurn, HandInv, HalfClosed
<1>4. turn \in 1 .. Len(work)
  BY <1>3, Indices DEF IInv, Typed, Turns
<1>5. Home \in {"away", "prompt"}
  BY DEF Home
<1>6. stream' \in Seq(Event) /\ Open' = Open \ {turn} /\ \A u : CutOff(u) => CutOff(u)'
  BY <1>1, <1>2, RecordStays, Appended DEF IInv
<1>7. StreamInv'
  <2>1. e.kind \notin Transcripts
    BY <1>1 DEF Ends, Transcripts
  <2>2. QED
    BY <1>1, <1>2, <1>3, <1>4, <2>1, StreamGrows DEF IInv
<1>8. CASE TaskFirst(outcome) /\ LetGo(Home)
  <2>1. on' = 0 /\ turn' = 0 /\ outcome' = "none" /\ step' \in {"away", "prompt"}
    BY <1>5, <1>8 DEF LetGo
  <2>2. Typed'
    BY <1>2, <1>6, <2>1 DEF IInv, Typed, InTurn
  <2>3. HandInv'
    BY <1>2, <2>1 DEF IInv, HandInv
  <2>4. task[on] = "failed"
    BY <1>2, <1>8 DEF IInv, TaskInv
  <2>5. TaskInv'
    BY <1>2, <1>3, <1>6, <2>1, <2>4 DEF IInv, TaskInv
  <2>6. QED
    BY <1>7, <2>2, <2>3, <2>5 DEF IInv
<1>9. CASE ~TaskFirst(outcome) /\ step' = "endTask" /\ UNCHANGED <<on, turn, outcome>>
  <2>1. Typed'
    BY <1>2, <1>6, <1>9 DEF IInv, Typed, InTurn
  <2>2. HalfClosed'
    BY <1>2, <1>9 DEF HalfClosed, TaskFirst
  <2>3. HandInv'
    BY <1>2, <1>3, <1>9, <2>2 DEF IInv, HandInv
  <2>4. TaskInv'
    BY <1>2, <1>3, <1>6, <1>9 DEF IInv, TaskInv
  <2>5. QED
    BY <1>7, <2>1, <2>3, <2>4 DEF IInv
<1>10. QED
  BY <1>2, <1>8, <1>9

LEMMA StartTurnStep ==
  ASSUME IInv, StartTurn
  PROVE  IInv'
<1> DEFINE n == Len(work) + 1
           e == [kind |-> "started", turn |-> n]
<1>1. /\ step = "leased" /\ Len(work) < MaxTurns /\ turn' = n
      /\ work' = Append(work, on) /\ stream' = Append(stream, e) /\ step' = "working"
      /\ UNCHANGED <<task, mode, on, outcome, found, cut>>
  BY DEF StartTurn
<1>2. /\ Len(work) \in Nat /\ n \in Turns /\ n # 0 /\ work \in Seq(Task) /\ on \in Task /\ on # 0
      /\ turn = 0 /\ MaxTurns \in Nat
  BY <1>1, Indices, SessionAssumption DEF IInv, Typed, InTurn, Turns, Task
<1>3. /\ work' \in Seq(Task) /\ Len(work') = n /\ n <= MaxTurns /\ work'[n] = on
      /\ \A t \in 1 .. Len(work) : work'[t] = work[t]
      /\ \A t \in 1 .. n : t \in 1 .. Len(work) \/ t = n
      /\ n \notin 1 .. Len(work) /\ n \in 1 .. n
      /\ \A t \in 1 .. Len(work) : t \in 1 .. n /\ t # n
  BY <1>1, <1>2
<1>4. e \in Event /\ e.kind \notin Ends /\ e.kind \notin Transcripts /\ e.kind # "completed"
  BY <1>2 DEF Event, Ends, Transcripts
<1>5. /\ stream' \in Seq(Event) /\ DOMAIN stream' = DOMAIN stream \cup {Len(stream) + 1}
      /\ \A i \in DOMAIN stream : stream'[i] = stream[i] /\ i < Len(stream) + 1
      /\ stream'[Len(stream) + 1] = e
      /\ Closed(stream') = Closed(stream)
      /\ \A x : x \in Range(stream) => x \in Range(stream')
  BY <1>1, <1>4, Appended DEF IInv
<1>6. Typed'
  BY <1>1, <1>2, <1>3, <1>5 DEF IInv, Typed, InTurn
<1>7. n \notin Closed(stream) /\ ~Said(n)
  BY <1>3 DEF IInv, StreamInv, Closed, Said, Records
<1>8. StreamInv'
  <2>1. ASSUME NEW i \in DOMAIN stream' PROVE stream'[i].turn \in 1 .. Len(work')
    BY <1>3, <1>5 DEF IInv, StreamInv
  <2>2. ASSUME NEW i \in DOMAIN stream', NEW j \in DOMAIN stream',
               stream'[i].kind \in Transcripts, stream'[j].kind \in Transcripts,
               stream'[i].turn = stream'[j].turn
        PROVE  i = j
    BY <1>4, <1>5, <2>2 DEF IInv, StreamInv
  <2>3. ASSUME NEW i \in DOMAIN stream', stream'[i].kind = "completed"
        PROVE  \E j \in 1 .. i - 1 :
                 stream'[j].kind \in Transcripts /\ stream'[j].turn = stream'[i].turn
    <3>1. i \in DOMAIN stream
      BY <1>4, <1>5, <2>3
    <3>2. PICK j \in 1 .. i - 1 :
            stream[j].kind \in Transcripts /\ stream[j].turn = stream[i].turn
      BY <1>5, <2>3, <3>1 DEF IInv, StreamInv
    <3>3. j \in DOMAIN stream
      BY <3>1, Indices DEF IInv
    <3>4. QED
      BY <1>5, <3>1, <3>2, <3>3
  <2>4. QED
    BY <2>1, <2>2, <2>3 DEF StreamInv
<1>9. HandInv'
  <2>1. \A t : Said(t)' => Said(t)
    <3>1. ASSUME NEW t, NEW j \in DOMAIN stream',
                 stream'[j].kind \in Transcripts, stream'[j].turn = t
          PROVE  Said(t)
      BY <1>4, <1>5, <3>1 DEF Said, Records
    <3>2. QED
      BY <3>1 DEF Said, Records
  <2>2. ~Said(turn)'
    BY <1>1, <1>7, <2>1
  <2>3. QED
    BY <1>1, <1>2, <1>3, <1>5, <1>7, <2>2 DEF IInv, HandInv
<1>10. TaskInv'
  <2>1. \A t \in 1 .. Len(work) : CutOff(t) => CutOff(t)'
    BY <1>1, <1>5 DEF CutOff
  <2>2. ASSUME NEW t \in 1 .. n
        PROVE  /\ task[work'[t]] # "absent"
               /\ task[work'[t]] \in {"ready", "running"} =>
                    CutOff(t)' \/ t = n \/ (t \in Open' /\ task[work'[t]] = "running")
    <3>1. CASE t = n
      BY <1>2, <1>3, <3>1 DEF IInv, TaskInv
    <3>2. CASE t \in 1 .. Len(work)
      <4>1. t \in Open => t \in Open'
        BY <1>3, <1>5 DEF Open
      <4>2. t # turn
        BY <1>2, <3>2
      <4>3. QED
        BY <1>3, <2>1, <3>2, <4>1, <4>2 DEF IInv, TaskInv
    <3>3. QED
      BY <1>3, <3>1, <3>2
  <2>3. QED
    BY <1>1, <1>2, <1>3, <2>2 DEF IInv, TaskInv
<1>11. QED
  BY <1>6, <1>8, <1>9, <1>10 DEF IInv

-----------------------------------------------------------------------------
(* Steps of the task.                                                      *)

\* The stream and the turns are as they were.
LEMMA SameRecord ==
  ASSUME UNCHANGED <<stream, work, cut>>
  PROVE  Open' = Open /\ Closed(stream') = Closed(stream) /\ \A t : CutOff(t)' = CutOff(t)
  BY DEF Open, Closed, CutOff

LEMMA RecoverStep ==
  ASSUME IInv, Recover
  PROVE  IInv'
<1>1. /\ step = "closing" /\ found \subseteq Closed(stream) /\ found' = {}
      /\ UNCHANGED <<stream, work, mode, on, turn, outcome, cut>>
      /\ step' \in {"prompt", "take", "away"}
  BY DEF Recover
<1>2. PICK back \in SUBSET Running :
        task' = [t \in Task |-> IF t \in back THEN "ready" ELSE task[t]]
  BY DEF Recover
<1>3. turn = 0 /\ on = 0
  BY <1>1 DEF IInv, Typed, InTurn
<1>4. Open = {}
  BY <1>1 DEF IInv, HandInv, Open
<1>5. Typed'
  BY <1>1, <1>2, <1>3 DEF IInv, Typed, InTurn
<1>6. StreamInv'
  BY <1>1 DEF IInv, StreamInv
<1>7. HandInv'
  BY <1>1, <1>3 DEF HandInv
<1>8. TaskInv'
  <2>1. ASSUME NEW t \in 1 .. Len(work)
        PROVE  /\ task'[work[t]] # "absent"
               /\ task'[work[t]] \in {"ready", "running"} => CutOff(t)
    <3>1. work[t] \in Task /\ t # turn
      BY <1>3, Indices DEF IInv
    <3>2. task[work[t]] # "absent" /\ (task[work[t]] \in {"ready", "running"} => CutOff(t))
      BY <1>4, <3>1 DEF IInv, TaskInv
    <3>3. task'[work[t]] = task[work[t]] \/ (task'[work[t]] = "ready" /\ task[work[t]] = "running")
      BY <1>2, <3>1 DEF Running
    <3>4. QED
      BY <3>2, <3>3
  <2>2. QED
    BY <1>1, <1>3, <2>1, SameRecord DEF TaskInv
<1>9. QED
  BY <1>5, <1>6, <1>7, <1>8 DEF IInv

LEMMA LeaseSteps ==
  ASSUME IInv, Enqueue \/ TakeReady
  PROVE  IInv'
<1>1. PICK t \in Task : task[t] \in {"absent", "ready"} /\ Lease(t)
  BY DEF Enqueue, TakeReady
<1>2. /\ step \in {"prompt", "away", "take"} /\ step' = "leased" /\ on' = t
      /\ task' = [task EXCEPT ![t] = "running"] /\ mode' \in {"tui", "script"}
      /\ UNCHANGED <<stream, work, turn, outcome, found, cut>>
  BY <1>1 DEF Enqueue, TakeReady, Lease, IInv, Typed
<1>3. turn = 0 /\ t # 0
  BY <1>2 DEF IInv, Typed, InTurn, Task
<1>4. /\ task'[t] = "running" /\ \A u \in Task \ {t} : task'[u] = task[u]
      /\ task' \in [Task -> {"absent", "ready", "running", "completed", "failed", "cancelled"}]
  BY <1>2 DEF IInv, Typed
<1>5. Typed'
  BY <1>2, <1>3, <1>4 DEF IInv, Typed, InTurn
<1>6. StreamInv'
  BY <1>2 DEF IInv, StreamInv
<1>7. HandInv'
  BY <1>2, <1>3 DEF IInv, HandInv
<1>8. ASSUME NEW u \in 1 .. Len(work), work[u] = t PROVE CutOff(u)
  <2>1. u # turn
    BY <1>3, Indices DEF IInv
  <2>2. QED
    BY <1>1, <1>8, <2>1 DEF IInv, TaskInv
<1>9. TaskInv'
  <2>1. ASSUME NEW u \in 1 .. Len(work)
        PROVE  /\ task'[work[u]] # "absent"
               /\ task'[work[u]] \in {"ready", "running"} =>
                    CutOff(u) \/ u = turn \/ (u \in Open /\ task'[work[u]] = "running")
    <3>1. CASE work[u] = t
      BY <1>4, <1>8, <3>1
    <3>2. CASE work[u] # t
      BY <1>4, <3>2, Indices DEF IInv, TaskInv
    <3>3. QED
      BY <3>1, <3>2
  <2>2. QED
    BY <1>2, <1>4, <1>8, <2>1, SameRecord DEF TaskInv
<1>10. QED
  BY <1>5, <1>6, <1>7, <1>9 DEF IInv

LEMMA EnqueueFailsStep ==
  ASSUME IInv, EnqueueFails
  PROVE  IInv'
<1>1. PICK t \in Task : task[t] = "absent" /\ task' = [task EXCEPT ![t] = "ready"]
  BY DEF EnqueueFails
<1>2. step = "prompt" /\ UNCHANGED <<stream, work, mode, step, on, turn, outcome, found, cut>>
  BY DEF EnqueueFails, procVars
<1>3. turn = 0 /\ on = 0
  BY <1>2 DEF IInv, Typed, InTurn
<1>4. Typed'
  BY <1>1, <1>2 DEF IInv, Typed
<1>5. StreamInv'
  BY <1>2 DEF IInv, StreamInv
<1>6. HandInv'
  BY <1>2, <1>3 DEF IInv, HandInv
<1>7. \A u \in 1 .. Len(work) : task'[work[u]] = task[work[u]]
  BY <1>1, Indices DEF IInv, TaskInv, Typed
<1>8. TaskInv'
  BY <1>2, <1>3, <1>7, SameRecord DEF IInv, TaskInv
<1>9. QED
  BY <1>4, <1>5, <1>6, <1>8 DEF IInv

LEMMA EndTaskStep ==
  ASSUME IInv, EndTask
  PROVE  IInv'
<1>1. PICK s \in {"completed", "cancelled", "failed"} :
        /\ task' = [task EXCEPT ![on] = s]
        /\ TaskFirst(outcome) => s = "failed"
  BY DEF EndTask, TaskFirst
<1>2. /\ step = "endTask" /\ UNCHANGED <<stream, work, mode, found, cut>>
      /\ \/ TaskFirst(outcome) /\ step' = "endTurn" /\ UNCHANGED <<on, turn, outcome>>
         \/ ~TaskFirst(outcome) /\ LetGo(Home)
  BY DEF EndTask
<1>3. /\ turn # 0 /\ on \in Task /\ on # 0 /\ turn = Len(work) /\ work[turn] = on
      /\ TaskFirst(outcome) => turn \notin Closed(stream)
  BY <1>2 DEF IInv, Typed, InTurn, HandInv, HalfClosed
<1>4. /\ task'[on] = s /\ \A u \in Task \ {on} : task'[u] = task[u]
      /\ task' \in [Task -> {"absent", "ready", "running", "completed", "failed", "cancelled"}]
  BY <1>1, <1>3 DEF IInv, Typed
<1>5. StreamInv'
  BY <1>2 DEF IInv, StreamInv
<1>6. ASSUME NEW u \in 1 .. Len(work)
      PROVE  /\ task'[work[u]] # "absent"
             /\ task'[work[u]] \in {"ready", "running"} =>
                  CutOff(u) \/ (u \in Open /\ task'[work[u]] = "running")
  <2>1. CASE work[u] = on
    BY <1>4, <2>1
  <2>2. CASE work[u] # on
    BY <1>3, <1>4, <2>2, Indices DEF IInv, TaskInv
  <2>3. QED
    BY <2>1, <2>2
<1>7. CASE TaskFirst(outcome) /\ step' = "endTurn" /\ UNCHANGED <<on, turn, outcome>>
  <2>1. Typed'
    BY <1>2, <1>3, <1>4, <1>7 DEF IInv, Typed, InTurn
  <2>2. outcome # "answered"
    BY <1>7 DEF TaskFirst
  <2>3. HandInv'
    BY <1>2, <1>3, <1>7, <2>2 DEF IInv, HandInv
  <2>4. TaskInv'
    BY <1>1, <1>2, <1>4, <1>6, <1>7, SameRecord DEF TaskInv
  <2>5. QED
    BY <1>5, <2>1, <2>3, <2>4 DEF IInv
<1>8. CASE ~TaskFirst(outcome) /\ LetGo(Home)
  <2>1. on' = 0 /\ turn' = 0 /\ outcome' = "none" /\ step' \in {"away", "prompt"}
    BY <1>8 DEF LetGo, Home
  <2>2. Typed'
    BY <1>2, <1>4, <2>1 DEF IInv, Typed, InTurn
  <2>3. HandInv'
    BY <1>2, <2>1 DEF IInv, HandInv
  <2>4. TaskInv'
    BY <1>2, <1>6, <2>1, SameRecord DEF TaskInv
  <2>5. QED
    BY <1>5, <2>2, <2>3, <2>4 DEF IInv
<1>9. QED
  BY <1>2, <1>7, <1>8

-----------------------------------------------------------------------------
(* The invariant.                                                          *)

LEMMA InitHolds ==
  ASSUME Init
  PROVE  IInv
<1>1. Typed
  BY SessionAssumption DEF Init, Typed, InTurn
<1>2. StreamInv /\ HandInv /\ TaskInv
  BY DEF Init, StreamInv, HandInv, TaskInv
<1>3. QED
  BY <1>1, <1>2 DEF IInv

LEMMA NextHolds ==
  ASSUME IInv, [Next]_vars
  PROVE  IInv'
<1>1. CASE Next
  BY <1>1, OpenSteps, CloseStep, RecoverStep, LeaseSteps, StartTurnStep, WorkStep,
     TranscriptStep, EndTurnStep, EndTaskStep, EndingSteps, EnqueueFailsStep DEF Next
<1>2. CASE UNCHANGED vars
  BY <1>2 DEF vars, IInv, Typed, StreamInv, HandInv, TaskInv, HalfClosed, TaskFirst, CutOff,
              Open, Said, Records
<1>3. QED
  BY <1>1, <1>2

\* The inductive invariant of the records a session leaves.
THEOREM Inductive == Spec => []IInv
<1>1. Init => IInv
  BY InitHolds
<1>2. IInv /\ [Next]_vars => IInv'
  BY NextHolds
<1>3. QED
  BY <1>1, <1>2, PTL DEF Spec

\* complete_turn never closes a turn before its one transcript is recorded.
THEOREM ExchangeIsKept == Spec => []CompletedWithItsExchange
<1>1. ASSUME IInv, NEW i \in DOMAIN stream, stream[i].kind = "completed"
      PROVE  \E j \in 1 .. i - 1 : Records(stream[i].turn) = {j}
  <2>1. PICK j \in 1 .. i - 1 : j \in Records(stream[i].turn)
    BY <1>1, Indices DEF IInv, StreamInv, Records
  <2>2. \A k \in Records(stream[i].turn) : k = j
    BY <1>1, <2>1 DEF IInv, StreamInv, Records
  <2>3. QED
    BY <2>1, <2>2
<1>2. IInv => CompletedWithItsExchange
  BY <1>1 DEF CompletedWithItsExchange
<1>3. QED
  BY <1>2, Inductive, PTL

\* A task is leased again only after each of its turns was abandoned, or ended
\* with the process before its task did.
THEOREM OnlyCutOffWorkIsRerun == Spec => RerunOnlyWhatWasCutOff
<1> DEFINE A == \A t \in DOMAIN work :
                  Len(work') > Len(work) /\ work[t] = on =>
                    t \in cut \/ [kind |-> "abandoned", turn |-> t] \in Range(stream)
<1>1. ASSUME IInv, Next, Len(work') > Len(work) PROVE step = "leased"
  <2>1. work' # work
    BY <1>1, Indices DEF IInv
  <2>2. StartTurn
    BY <1>1, <2>1 DEF Next, ResumeInto, Resume, CloseFound, Recover, Enqueue, TakeReady, Work,
       Transcript, EndTurn, EndTask, Fault, EnqueueFails, Crash, Leave, diskVars
  <2>3. QED
    BY <2>2 DEF StartTurn
<1>2. IInv /\ [Next]_vars => [A]_vars
  BY <1>1, Indices DEF IInv, TaskInv, CutOff
<1>3. QED
  BY <1>2, Inductive, PTL DEF Spec, RerunOnlyWhatWasCutOff

-----------------------------------------------------------------------------
(* What Kept keeps.                                                        *)

KeptStep(s, I, g, n) ==
  IF n = 0 THEN <<>> ELSE IF n \in I THEN Append(g[n - 1], s[n]) ELSE g[n - 1]

\* The recursion that KeptUpTo is defined by has a solution.
LEMMA KeptExists ==
  ASSUME NEW s, NEW I, NEW k \in Nat
  PROVE  \E g : g = [n \in 0 .. k |-> KeptStep(s, I, g, n)]
<1> DEFINE Z == {m \in Nat : \E g : g = [n \in 0 .. m |-> KeptStep(s, I, g, n)]}
<1>1. 0 \in Z
  <2> DEFINE g == [n \in 0 .. 0 |-> <<>>]
  <2>1. g = [n \in 0 .. 0 |-> KeptStep(s, I, g, n)]
    BY DEF KeptStep
  <2>2. QED
    BY <2>1
<1>2. ASSUME NEW m \in Nat, m \in Z PROVE m + 1 \in Z
  <2>1. PICK g : g = [n \in 0 .. m |-> KeptStep(s, I, g, n)]
    BY <1>2
  <2> DEFINE h == [n \in 0 .. m + 1 |-> IF n = m + 1 THEN KeptStep(s, I, g, n) ELSE g[n]]
  <2>2. ASSUME NEW n \in 0 .. m + 1 PROVE h[n] = KeptStep(s, I, h, n)
    <3>1. h[n] = KeptStep(s, I, g, n)
      BY <2>1
    <3>2. n = 0 \/ (n - 1 \in 0 .. m /\ h[n - 1] = g[n - 1])
      OBVIOUS
    <3>3. QED
      BY <3>1, <3>2 DEF KeptStep
  <2>3. h = [n \in 0 .. m + 1 |-> KeptStep(s, I, h, n)]
    BY <2>2
  <2> HIDE DEF h
  <2>4. QED
    BY <2>3
<1> HIDE DEF Z
<1>3. k \in Z
  BY <1>1, <1>2, NatSetInduction
<1>4. QED
  BY <1>3 DEF Z

\* It has only one: what is kept up to n does not depend on what follows.
LEMMA KeptUnique ==
  ASSUME NEW s, NEW I, NEW k \in Nat, NEW g, NEW h,
         \A n \in 0 .. k : g[n] = KeptStep(s, I, g, n),
         \A n \in 0 .. k : h[n] = KeptStep(s, I, h, n)
  PROVE  g[k] = h[k]
<1> DEFINE Z == {n \in Nat : n \in 0 .. k => g[n] = h[n]}
<1>1. 0 \in Z
  BY DEF KeptStep
<1>2. ASSUME NEW n \in Nat, n \in Z PROVE n + 1 \in Z
  <2>1. SUFFICES ASSUME n + 1 \in 0 .. k PROVE g[n + 1] = h[n + 1]
    OBVIOUS
  <2>2. g[n] = h[n] /\ (n + 1) - 1 = n /\ n + 1 # 0
    BY <1>2, <2>1
  <2>3. QED
    BY <2>1, <2>2 DEF KeptStep
<1> HIDE DEF Z
<1>3. k \in Z
  BY <1>1, <1>2, NatSetInduction
<1>4. QED
  BY <1>3 DEF Z

\* The two equations of the recursion.
LEMMA KeptNone == ASSUME NEW s, NEW I PROVE KeptUpTo(s, I, 0) = <<>>
<1> DEFINE u == CHOOSE g : g = [n \in 0 .. 0 |-> KeptStep(s, I, g, n)]
<1>1. u = [n \in 0 .. 0 |-> KeptStep(s, I, u, n)]
  BY KeptExists
<1>2. KeptUpTo(s, I, 0) = u[0]
  BY DEF KeptUpTo, KeptStep
<1>3. QED
  BY <1>1, <1>2 DEF KeptStep

LEMMA KeptNext ==
  ASSUME NEW s, NEW I, NEW k \in Nat
  PROVE  KeptUpTo(s, I, k + 1) = IF k + 1 \in I THEN Append(KeptUpTo(s, I, k), s[k + 1])
                                 ELSE KeptUpTo(s, I, k)
<1> DEFINE u == CHOOSE g : g = [n \in 0 .. k |-> KeptStep(s, I, g, n)]
           v == CHOOSE g : g = [n \in 0 .. k + 1 |-> KeptStep(s, I, g, n)]
<1>1. u = [n \in 0 .. k |-> KeptStep(s, I, u, n)]
  BY KeptExists
<1>2. v = [n \in 0 .. k + 1 |-> KeptStep(s, I, v, n)]
  <2>1. k + 1 \in Nat
    OBVIOUS
  <2>2. QED
    BY <2>1, KeptExists
<1>3. KeptUpTo(s, I, k) = u[k] /\ KeptUpTo(s, I, k + 1) = v[k + 1]
  BY DEF KeptUpTo, KeptStep
<1> HIDE DEF u, v
<1>4. /\ \A n \in 0 .. k : u[n] = KeptStep(s, I, u, n)
      /\ \A n \in 0 .. k : v[n] = KeptStep(s, I, v, n)
      /\ v[k + 1] = KeptStep(s, I, v, k + 1)
  <2>1. \A n \in 0 .. k : u[n] = KeptStep(s, I, u, n)
    BY <1>1
  <2>2. \A n \in 0 .. k + 1 : v[n] = KeptStep(s, I, v, n)
    BY <1>2
  <2>3. QED
    BY <2>1, <2>2
<1>5. u[k] = v[k]
  BY <1>4, KeptUnique
<1>6. k + 1 # 0 /\ (k + 1) - 1 = k
  OBVIOUS
<1>7. QED
  BY <1>3, <1>4, <1>5, <1>6 DEF KeptStep

\* What is kept is made of what was there.
LEMMA KeptType ==
  ASSUME NEW S, NEW s, NEW I, NEW k \in Nat, \A i \in 1 .. k : s[i] \in S
  PROVE  KeptUpTo(s, I, k) \in Seq(S)
<1> DEFINE Z == {n \in Nat : n <= k => KeptUpTo(s, I, n) \in Seq(S)}
<1>1. 0 \in Z
  <2>1. <<>> \in Seq(S)
    OBVIOUS
  <2>2. QED
    BY <2>1, KeptNone, Zenon
<1>2. ASSUME NEW n \in Nat, n \in Z PROVE n + 1 \in Z
  <2>1. SUFFICES ASSUME n + 1 <= k PROVE KeptUpTo(s, I, n + 1) \in Seq(S)
    OBVIOUS
  <2> DEFINE u == KeptUpTo(s, I, n)
             v == KeptUpTo(s, I, n + 1)
             x == s[n + 1]
  <2>2. u \in Seq(S) /\ x \in S
    BY <1>2, <2>1
  <2>3. v = Append(u, x) \/ v = u
    BY KeptNext
  <2> HIDE DEF u, v, x
  <2>4. v \in Seq(S)
    BY <2>2, <2>3
  <2>5. QED
    BY <2>4 DEF v
<1> HIDE DEF Z
<1>3. k \in Z
  BY <1>1, <1>2, NatSetInduction
<1>4. QED
  BY <1>3 DEF Z

\* It depends on nothing after the k-th.
LEMMA KeptSame ==
  ASSUME NEW s, NEW r, NEW I, NEW J, NEW k \in Nat,
         \A i \in 1 .. k : (i \in I <=> i \in J) /\ s[i] = r[i]
  PROVE  KeptUpTo(s, I, k) = KeptUpTo(r, J, k)
<1> DEFINE Z == {n \in Nat : n <= k => KeptUpTo(s, I, n) = KeptUpTo(r, J, n)}
<1>1. 0 \in Z
  BY KeptNone
<1>2. ASSUME NEW n \in Nat, n \in Z PROVE n + 1 \in Z
  <2>1. SUFFICES ASSUME n + 1 <= k PROVE KeptUpTo(s, I, n + 1) = KeptUpTo(r, J, n + 1)
    OBVIOUS
  <2>2. KeptUpTo(s, I, n) = KeptUpTo(r, J, n) /\ n + 1 \in 1 .. k
    BY <1>2, <2>1
  <2>3. QED
    BY <2>2, KeptNext
<1> HIDE DEF Z
<1>3. k \in Z
  BY <1>1, <1>2, NatSetInduction
<1>4. QED
  BY <1>3 DEF Z

-----------------------------------------------------------------------------
(* A memory, but for some turns.                                           *)

Memory == Seq([turn : Turns, part : {"exchange", "prompt"}])

LEMMA BesidesNone == ASSUME NEW ts PROVE Besides(<<>>, ts) = <<>>
<1>1. Len(<<>>) = 0
  OBVIOUS
<1>2. QED
  BY <1>1, KeptNone DEF Besides, Kept

\* What is added is kept unless it is left out.
LEMMA BesidesAppend ==
  ASSUME NEW S, NEW m \in Seq(S), NEW x \in S, NEW ts
  PROVE  Besides(Append(m, x), ts) = IF x.turn \in ts THEN Besides(m, ts)
                                     ELSE Append(Besides(m, ts), x)
<1> DEFINE r == Append(m, x)
           n == Len(m)
           I == {i \in DOMAIN m : m[i].turn \notin ts}
           J == {i \in DOMAIN r : r[i].turn \notin ts}
<1>1. /\ n \in Nat /\ Len(r) = n + 1 /\ DOMAIN m = 1 .. n /\ DOMAIN r = 1 .. n + 1
      /\ r[n + 1] = x /\ \A i \in 1 .. n : r[i] = m[i]
  OBVIOUS
<1>2. \A i \in 1 .. n : (i \in I <=> i \in J) /\ m[i] = r[i]
  BY <1>1
<1>3. n + 1 \in J <=> x.turn \notin ts
  BY <1>1
<1>4. Besides(m, ts) = KeptUpTo(m, I, n) /\ Besides(r, ts) = KeptUpTo(r, J, n + 1)
  BY <1>1 DEF Besides, Kept
<1> HIDE DEF r, n, I, J
<1>5. KeptUpTo(m, I, n) = KeptUpTo(r, J, n)
  BY <1>1, <1>2, KeptSame
<1>6. KeptUpTo(r, J, n + 1) = IF x.turn \in ts THEN KeptUpTo(r, J, n)
                              ELSE Append(KeptUpTo(r, J, n), x)
  BY <1>1, <1>3, KeptNext
<1>7. Besides(r, ts) = IF x.turn \in ts THEN Besides(m, ts) ELSE Append(Besides(m, ts), x)
  BY <1>4, <1>5, <1>6
<1>8. QED
  BY <1>7 DEF r

\* Leaving turns out of what was kept is keeping less.
LEMMA BesidesKept ==
  ASSUME NEW S, NEW s \in Seq(S), NEW I, NEW J, NEW ts, NEW k \in Nat, k <= Len(s),
         \A i \in 1 .. k : i \in J <=> i \in I /\ s[i].turn \notin ts
  PROVE  Besides(KeptUpTo(s, I, k), ts) = KeptUpTo(s, J, k)
<1> DEFINE Z == {n \in Nat : n <= k => Besides(KeptUpTo(s, I, n), ts) = KeptUpTo(s, J, n)}
<1>1. 0 \in Z
  BY KeptNone, BesidesNone, Zenon
<1>2. ASSUME NEW n \in Nat, n \in Z PROVE n + 1 \in Z
  <2>1. SUFFICES ASSUME n + 1 <= k
                 PROVE  Besides(KeptUpTo(s, I, n + 1), ts) = KeptUpTo(s, J, n + 1)
    OBVIOUS
  <2> DEFINE u == KeptUpTo(s, I, n)
             v == KeptUpTo(s, I, n + 1)
             x == s[n + 1]
  <2>2. Besides(u, ts) = KeptUpTo(s, J, n) /\ x \in S
    BY <1>2, <2>1
  <2>3. u \in Seq(S)
    <3>1. \A i \in 1 .. n : s[i] \in S
      BY <2>1
    <3>2. QED
      BY <3>1, KeptType
  <2>4. v = IF n + 1 \in I THEN Append(u, x) ELSE u
    BY KeptNext
  <2>5. KeptUpTo(s, J, n + 1) = IF n + 1 \in J THEN Append(KeptUpTo(s, J, n), x)
                                ELSE KeptUpTo(s, J, n)
    BY KeptNext
  <2>6. n + 1 \in J <=> n + 1 \in I /\ x.turn \notin ts
    BY <2>1
  <2> HIDE DEF u, v, x
  <2>7. Besides(Append(u, x), ts) = IF x.turn \in ts THEN Besides(u, ts)
                                    ELSE Append(Besides(u, ts), x)
    BY <2>2, <2>3, BesidesAppend
  <2>8. Besides(v, ts) = KeptUpTo(s, J, n + 1)
    BY <2>2, <2>4, <2>5, <2>6, <2>7
  <2>9. QED
    BY <2>8 DEF v
<1> HIDE DEF Z
<1>3. k \in Z
  BY <1>1, <1>2, NatSetInduction
<1>4. QED
  BY <1>3 DEF Z

\* Turns are left out one set after the other.
LEMMA BesidesTwice ==
  ASSUME NEW S, NEW m \in Seq(S), NEW ts, NEW us
  PROVE  Besides(m, ts \cup us) = Besides(Besides(m, ts), us)
<1> DEFINE I == {i \in DOMAIN m : m[i].turn \notin ts}
           J == {i \in I : m[i].turn \notin us}
           k == Len(m)
<1>1. J = {i \in DOMAIN m : m[i].turn \notin ts \cup us}
  OBVIOUS
<1>2. Besides(m, ts) = KeptUpTo(m, I, k) /\ Besides(m, ts \cup us) = KeptUpTo(m, J, k)
  BY <1>1 DEF Besides, Kept
<1>3. Besides(KeptUpTo(m, I, k), us) = KeptUpTo(m, J, k)
  <2>1. k \in Nat /\ k <= Len(m) /\ \A i \in 1 .. k : i \in J <=> i \in I /\ m[i].turn \notin us
    OBVIOUS
  <2> HIDE DEF I, J, k
  <2>2. QED
    BY <2>1, BesidesKept
<1>4. QED
  BY <1>2, <1>3

-----------------------------------------------------------------------------
(* What the stream restores, but for some turns.                           *)

Heard(s, ts) == {i \in Giving(s) : s[i].turn \notin ts}

\* What is restored, as what is kept of the stream's events.
LEMMA RestoredBesides ==
  ASSUME NEW s \in Seq(Event), NEW ts
  PROVE  /\ Says(s) \in Memory /\ Len(Says(s)) = Len(s)
         /\ Restored(s) \in Memory
         /\ Besides(Restored(s), ts) = KeptUpTo(Says(s), Heard(s, ts), Len(s))
<1> DEFINE k == Len(s)
           r == Says(s)
           I == Giving(s)
           J == Heard(s, ts)
           S == [turn : Turns, part : {"exchange", "prompt"}]
<1>1. k \in Nat /\ DOMAIN s = 1 .. k /\ \A i \in 1 .. k : s[i] \in Event
  OBVIOUS
<1>2. DOMAIN r = 1 .. k /\ \A i \in 1 .. k : r[i] \in S /\ r[i].turn = s[i].turn
  BY <1>1 DEF Says, Event
<1>3. r \in [1 .. k -> S]
  BY <1>1, <1>2 DEF Says
<1>4. r \in Seq(S) /\ Len(r) = k
  <2> HIDE DEF r, k, S
  <2>1. QED
    BY <1>1, <1>3
<1>5. Restored(s) = KeptUpTo(r, I, k)
  BY <1>4 DEF Restored, Kept
<1>6. \A i \in 1 .. k : i \in J <=> i \in I /\ r[i].turn \notin ts
  BY <1>2 DEF Heard
<1> HIDE DEF k, r, I, J, S
<1>7. KeptUpTo(r, I, k) \in Seq(S)
  BY <1>1, <1>2, KeptType
<1>8. Besides(KeptUpTo(r, I, k), ts) = KeptUpTo(r, J, k)
  BY <1>1, <1>4, <1>6, BesidesKept
<1>9. QED
  BY <1>4, <1>5, <1>7, <1>8 DEF Memory, S, r, k, J

\* The indices of one more event.
LEMMA OneMore ==
  ASSUME NEW s \in Seq(Event), NEW e \in Event
  PROVE  LET r == Append(s, e) IN
         /\ r \in Seq(Event) /\ Len(s) \in Nat /\ Len(r) = Len(s) + 1
         /\ DOMAIN s = 1 .. Len(s) /\ DOMAIN r = 1 .. Len(s) + 1
         /\ r[Len(s) + 1] = e /\ \A i \in 1 .. Len(s) : r[i] = s[i]
         /\ \A i \in 1 .. Len(s) : Says(r)[i] = Says(s)[i]
         /\ Closed(r) = Closed(s) \cup (IF e.kind \in Ends THEN {e.turn} ELSE {})
<1> DEFINE r == Append(s, e)
<1>1. /\ r \in Seq(Event) /\ Len(s) \in Nat /\ Len(r) = Len(s) + 1
      /\ DOMAIN s = 1 .. Len(s) /\ DOMAIN r = 1 .. Len(s) + 1
      /\ r[Len(s) + 1] = e /\ \A i \in 1 .. Len(s) : r[i] = s[i]
  OBVIOUS
<1>2. \A i \in 1 .. Len(s) : Says(r)[i] = Says(s)[i]
  BY <1>1 DEF Says
<1>3. ASSUME NEW t PROVE t \in Closed(r) <=>
                           t \in Closed(s) \/ (e.kind \in Ends /\ t = e.turn)
  BY <1>1 DEF Closed
<1>4. QED
  BY <1>1, <1>2, <1>3

\* What an event leaves as it was restores the same.
LEMMA SameHeard ==
  ASSUME NEW s \in Seq(Event), NEW e \in Event, NEW ts, NEW r, r = Append(s, e),
         \A i \in 1 .. Len(s) : i \in Heard(s, ts) <=> i \in Heard(r, ts),
         Len(s) + 1 \notin Heard(r, ts)
  PROVE  Besides(Restored(r), ts) = Besides(Restored(s), ts)
<1> DEFINE n == Len(s)
           f == Says(s)
           g == Says(r)
           I == Heard(s, ts)
           J == Heard(r, ts)
<1>1. n \in Nat /\ Len(r) = n + 1 /\ r \in Seq(Event) /\ n + 1 \notin J
      /\ \A i \in 1 .. n : (i \in I <=> i \in J) /\ f[i] = g[i]
  BY OneMore
<1>2. Besides(Restored(s), ts) = KeptUpTo(f, I, n) /\ Besides(Restored(r), ts) = KeptUpTo(g, J, n + 1)
  BY <1>1, RestoredBesides
<1> HIDE DEF n, f, g, I, J
<1>3. KeptUpTo(g, J, n + 1) = KeptUpTo(g, J, n)
  BY <1>1, KeptNext
<1>4. KeptUpTo(f, I, n) = KeptUpTo(g, J, n)
  BY <1>1, KeptSame
<1>5. QED
  BY <1>2, <1>3, <1>4

\* An event of a turn that goes on, or the end of one that is left out or had
\* nothing recorded, gives a resumed session nothing more.
LEMMA GivesNothing ==
  ASSUME NEW s \in Seq(Event), NEW e \in Event, NEW ts, NEW r, r = Append(s, e),
         e.kind = "transcript" => e.turn \notin Closed(s),
         e.kind \in Ends =>
           \/ e.turn \in ts
           \/ /\ e.kind # "completed"
              /\ \A j \in 1 .. Len(s) : s[j] # [kind |-> "transcript", turn |-> e.turn]
  PROVE  Besides(Restored(r), ts) = Besides(Restored(s), ts)
<1> DEFINE n == Len(s)
<1>1. /\ n \in Nat /\ DOMAIN s = 1 .. n /\ DOMAIN r = 1 .. n + 1 /\ r[n + 1] = e
      /\ \A i \in 1 .. n : r[i] = s[i] /\ s[i] \in Event
      /\ Closed(r) = Closed(s) \cup (IF e.kind \in Ends THEN {e.turn} ELSE {})
  BY OneMore
<1>2. ASSUME NEW i \in 1 .. n PROVE i \in Heard(s, ts) <=> i \in Heard(r, ts)
  <2>1. (\E j \in 1 .. i : s[j].kind = "transcript" /\ s[j].turn = s[i].turn) <=>
        (\E j \in 1 .. i : r[j].kind = "transcript" /\ r[j].turn = r[i].turn)
    BY <1>1
  <2>2. s[i].kind = "transcript" /\ s[i].turn \notin ts =>
          (s[i].turn \in Closed(s) <=> r[i].turn \in Closed(r))
    BY <1>1 DEF Event
  <2>3. QED
    BY <1>1, <2>1, <2>2 DEF Heard, Giving
<1>3. n + 1 \notin Heard(r, ts)
  <2>1. e.kind = "transcript" => e.turn \notin Closed(r)
    BY <1>1 DEF Ends
  <2>2. e.kind = "completed" => e.turn \in ts
    BY DEF Ends
  <2>3. QED
    BY <1>1, <2>1, <2>2 DEF Heard, Giving
<1>4. QED
  BY <1>2, <1>3, SameHeard

\* The end of a turn whose transcript was just recorded, its only one, gives
\* the exchange, last.
LEMMA GivesExchange ==
  ASSUME NEW s \in Seq(Event), NEW e \in Event, NEW ts, NEW r, r = Append(s, e),
         e.kind \in Ends, e.turn \notin ts, e.turn \notin Closed(s), Len(s) # 0,
         s[Len(s)] = [kind |-> "transcript", turn |-> e.turn],
         \A j \in 1 .. Len(s) : s[j].kind = "transcript" /\ s[j].turn = e.turn => j = Len(s)
  PROVE  Besides(Restored(r), ts) =
           Append(Besides(Restored(s), ts), [turn |-> e.turn, part |-> "exchange"])
<1> DEFINE n == Len(s)
           m == n - 1
           f == Says(s)
           g == Says(r)
           I == Heard(s, ts)
           J == Heard(r, ts)
           x == [turn |-> e.turn, part |-> "exchange"]
<1>1. /\ n \in Nat /\ m \in Nat /\ n = m + 1 /\ Len(r) = n + 1 /\ r \in Seq(Event)
      /\ DOMAIN s = 1 .. n /\ DOMAIN r = 1 .. n + 1 /\ r[n + 1] = e
      /\ \A i \in 1 .. n : r[i] = s[i] /\ s[i] \in Event /\ f[i] = g[i]
      /\ Closed(r) = Closed(s) \cup {e.turn}
      /\ s[n] = [kind |-> "transcript", turn |-> e.turn]
      /\ \A j \in 1 .. n : s[j].kind = "transcript" /\ s[j].turn = e.turn => j = n
  BY OneMore
<1> HIDE DEF n, m
<1>2. ASSUME NEW i \in 1 .. m PROVE i \in I <=> i \in J
  <2>1. (\E j \in 1 .. i : s[j].kind = "transcript" /\ s[j].turn = s[i].turn) <=>
        (\E j \in 1 .. i : r[j].kind = "transcript" /\ r[j].turn = r[i].turn)
    BY <1>1
  <2>2. s[i].kind = "transcript" => s[i].turn # e.turn
    BY <1>1
  <2>3. QED
    BY <1>1, <2>1, <2>2 DEF Heard, Giving
<1>3. n \notin I /\ n \in J /\ n + 1 \notin J /\ g[n] = x
  <2>1. s[n].kind = "transcript" /\ s[n].turn = e.turn /\ r[n] = s[n] /\ n \in 1 .. n
    BY <1>1
  <2>2. n \notin I /\ n \in J
    BY <1>1, <2>1 DEF Heard, Giving
  <2>3. n + 1 \notin J
    BY <1>1, <2>1 DEF Heard, Giving, Ends
  <2>4. QED
    BY <1>1, <2>1, <2>2, <2>3 DEF Says
<1>4. Besides(Restored(s), ts) = KeptUpTo(f, I, n) /\ Besides(Restored(r), ts) = KeptUpTo(g, J, n + 1)
  BY <1>1, RestoredBesides DEF n
<1> HIDE DEF f, g, I, J, x
<1>5. KeptUpTo(f, I, m + 1) = KeptUpTo(f, I, m)
  BY <1>1, <1>3, KeptNext
<1>6. KeptUpTo(f, I, m) = KeptUpTo(g, J, m)
  <2>1. \A i \in 1 .. m : (i \in I <=> i \in J) /\ f[i] = g[i]
    BY <1>1, <1>2
  <2>2. QED
    BY <1>1, <2>1, KeptSame
<1>7. KeptUpTo(g, J, m + 1) = Append(KeptUpTo(g, J, m), x)
  <2>1. m + 1 \in J /\ g[m + 1] = x
    BY <1>1, <1>3
  <2>2. QED
    BY <1>1, <2>1, KeptNext
<1>8. KeptUpTo(g, J, n + 1) = KeptUpTo(g, J, n)
  BY <1>1, <1>3, KeptNext
<1>9. QED
  BY <1>1, <1>4, <1>5, <1>6, <1>7, <1>8 DEF x

-----------------------------------------------------------------------------
(* What an interactive session remembers.                                  *)

Exchange(t) == [turn |-> t, part |-> "exchange"]

\* The turn at hand has been added to the memory, is not closed yet and has no
\* blank transcript.
Ahead ==
  /\ step \in {"keep", "endTurn", "endTask"} /\ ~HalfClosed
  /\ outcome # "rewound" /\ turn \notin torn

FromRecord == Besides(Restored(stream), torn)

MemoryInv ==
  mode = "tui" /\ step # "away" =>
    Besides(memory, torn) = IF Ahead THEN Append(FromRecord, Exchange(turn)) ELSE FromRecord

\* What a session was not looking at or failed to record is not at hand; the
\* transcript that closes a turn is the last event before its end.
AtHandInv ==
  /\ step = "prompt" => mode = "tui"
  /\ step = "take" => mode = "script"
  /\ step \in {"keep", "endTurn", "endTask"} => outcome # "none"
  /\ step = "keep" => Keeps(outcome)
  /\ torn \subseteq 1 .. Len(work)
  /\ turn \in torn => step \in {"endTurn", "endTask"}
  /\ mode = "tui" /\ step = "closing" => found \subseteq torn
  /\ step = "endTurn" \/ (step = "endTask" /\ TaskFirst(outcome)) =>
       IF Keeps(outcome)
         THEN /\ Len(stream) # 0
              /\ \/ stream[Len(stream)] = [kind |-> "transcript", turn |-> turn]
                 \/ turn \in torn
         ELSE ~Said(turn)

Bounded ==
  /\ memory \in Memory /\ cut \subseteq Turns
  /\ faults \in 0 .. MaxFaults /\ crashes \in 0 .. MaxCrashes

MInv == Bounded /\ AtHandInv /\ MemoryInv

\* run_turn's push, seen past the turns left out.
LEMMA MemoryAppend ==
  ASSUME NEW m \in Memory, NEW t \in Turns, NEW ts
  PROVE  /\ Append(m, Exchange(t)) \in Memory
         /\ Besides(Append(m, Exchange(t)), ts) =
              IF t \in ts THEN Besides(m, ts) ELSE Append(Besides(m, ts), Exchange(t))
<1> DEFINE S == [turn : Turns, part : {"exchange", "prompt"}]
           x == Exchange(t)
<1>1. x \in S /\ x.turn = t /\ m \in Seq(S)
  BY DEF Exchange, Memory
<1>2. Append(m, x) \in Seq(S)
  <2> HIDE DEF S, x
  <2>1. QED
    BY <1>1
<1>3. Besides(Append(m, x), ts) = IF x.turn \in ts THEN Besides(m, ts)
                                  ELSE Append(Besides(m, ts), x)
  <2> HIDE DEF S, x
  <2>1. QED
    BY <1>1, BesidesAppend
<1>4. QED
  BY <1>1, <1>2, <1>3 DEF Memory

LEMMA BesidesType ==
  ASSUME NEW m \in Memory, NEW ts
  PROVE  Besides(m, ts) \in Memory
<1> DEFINE S == [turn : Turns, part : {"exchange", "prompt"}]
           I == {i \in DOMAIN m : m[i].turn \notin ts}
           k == Len(m)
<1>1. k \in Nat /\ \A i \in 1 .. k : m[i] \in S
  <2>1. m \in Seq(S)
    BY DEF Memory
  <2> HIDE DEF S
  <2>2. QED
    BY <2>1
<1>2. Besides(m, ts) = KeptUpTo(m, I, k)
  BY DEF Besides, Kept
<1> HIDE DEF S, I, k
<1>3. KeptUpTo(m, I, k) \in Seq(S)
  BY <1>1, KeptType
<1>4. QED
  BY <1>2, <1>3 DEF Memory, S

\* Leaving out the turn at hand as well hides whether it was added.
LEMMA HandHidden ==
  ASSUME NEW r \in Memory, NEW t \in Turns
  PROVE  Besides(Append(r, Exchange(t)), {t}) = Besides(r, {t})
  BY MemoryAppend

\* A step that leaves record, memory and torn alone, and stays on its side of
\* Ahead, keeps the memory.
LEMMA MemoryStays ==
  ASSUME MemoryInv, UNCHANGED <<stream, memory, torn>>,
         mode' = "tui" /\ step' # "away" => mode = "tui" /\ step # "away",
         mode' = "tui" => (Ahead' <=> Ahead) /\ (Ahead => UNCHANGED turn)
  PROVE  MemoryInv'
<1>1. FromRecord' = FromRecord /\ Besides(memory', torn') = Besides(memory, torn)
  BY DEF FromRecord
<1>2. QED
  BY <1>1 DEF MemoryInv

LEMMA OpenRemembers ==
  ASSUME IInv, MInv, ResumeInto \/ Resume
  PROVE  MInv'
<1>1. /\ step \in {"away", "prompt"} /\ step' = "closing"
      /\ UNCHANGED <<stream, work, on, turn, outcome, cut, faults, crashes>>
  BY DEF ResumeInto, Resume, diskVars, countVars
<1>2. turn = 0 /\ stream \in Seq(Event) /\ Open \subseteq 1 .. Len(work) /\ 0 \notin 1 .. Len(work)
  BY <1>1 DEF IInv, Typed, InTurn, Open
<1>3. CASE ResumeInto
  <2>1. memory' = Restored(stream) /\ found' = Open /\ torn' = Open /\ mode' = "tui"
    BY <1>3 DEF ResumeInto
  <2>2. memory' \in Memory
    BY <1>2, <2>1, RestoredBesides
  <2>3. Bounded'
    BY <1>1, <2>2 DEF MInv, Bounded
  <2>4. AtHandInv'
    BY <1>1, <1>2, <2>1 DEF AtHandInv
  <2>5. ~Ahead'
    BY <1>1 DEF Ahead
  <2>6. Besides(memory', torn') = FromRecord'
    BY <1>1, <2>1 DEF FromRecord
  <2>7. MemoryInv'
    BY <2>5, <2>6 DEF MemoryInv
  <2>8. QED
    BY <2>3, <2>4, <2>7 DEF MInv
<1>4. CASE Resume
  <2>1. mode' = "script" /\ UNCHANGED <<memory, torn>>
    BY <1>4 DEF Resume
  <2>2. Bounded' /\ MemoryInv'
    BY <1>1, <2>1 DEF MInv, Bounded, MemoryInv
  <2>3. AtHandInv'
    BY <1>1, <1>2, <2>1 DEF MInv, AtHandInv
  <2>4. QED
    BY <2>2, <2>3 DEF MInv
<1>5. QED
  BY <1>3, <1>4

LEMMA CloseRemembers ==
  ASSUME IInv, MInv, CloseFound
  PROVE  MInv'
<1>1. /\ step = "closing"
      /\ UNCHANGED <<work, mode, step, on, turn, outcome, memory, found, torn, cut, faults, crashes>>
  BY DEF CloseFound, procVars, countVars
<1>2. PICK t \in found \ Closed(stream) :
        stream' = Append(stream, [kind |-> "abandoned", turn |-> t])
  BY DEF CloseFound
<1> DEFINE e == [kind |-> "abandoned", turn |-> t]
<1>3. stream \in Seq(Event) /\ e \in Event /\ e.turn = t /\ e.kind = "abandoned"
  BY Indices DEF IInv, HandInv, Typed, Event, Ends
<1>4. mode = "tui" => t \in torn
  BY <1>1 DEF MInv, AtHandInv
<1>5. mode = "tui" => FromRecord' = FromRecord
  <2> HIDE DEF e
  <2>1. stream' = Append(stream, e)
    BY <1>2 DEF e
  <2>2. QED
    BY <1>1, <1>3, <1>4, <2>1, GivesNothing DEF FromRecord
<1>6. ~Ahead /\ ~Ahead'
  BY <1>1 DEF Ahead
<1>7. MemoryInv'
  BY <1>1, <1>5, <1>6 DEF MInv, MemoryInv
<1>8. AtHandInv' /\ Bounded'
  BY <1>1 DEF MInv, AtHandInv, Bounded
<1>9. QED
  BY <1>7, <1>8 DEF MInv

LEMMA StartRemembers ==
  ASSUME IInv, MInv, StartTurn
  PROVE  MInv'
<1> DEFINE n == Len(work) + 1
           e == [kind |-> "started", turn |-> n]
<1>1. /\ step = "leased" /\ step' = "working" /\ turn' = n /\ work' = Append(work, on)
      /\ stream' = Append(stream, e) /\ Len(work) < MaxTurns
      /\ UNCHANGED <<mode, outcome, memory, found, torn, cut, faults, crashes>>
  BY DEF StartTurn, countVars
<1>2. n \in Turns /\ Len(work) \in Nat /\ Len(work') = n
  BY <1>1, SessionAssumption DEF IInv, Typed, Turns
<1>3. stream \in Seq(Event) /\ e \in Event /\ e.kind = "started"
  BY <1>2 DEF IInv, Typed, Event
<1>4. FromRecord' = FromRecord
  <2>1. e.kind # "transcript" /\ e.kind \notin Ends
    BY DEF Ends
  <2> HIDE DEF e
  <2>2. QED
    BY <1>1, <1>3, <2>1, GivesNothing DEF FromRecord
<1>5. ~Ahead /\ ~Ahead'
  BY <1>1 DEF Ahead
<1>6. MemoryInv'
  BY <1>1, <1>4, <1>5 DEF MInv, MemoryInv
<1>7. torn \subseteq 1 .. Len(work)
  BY DEF MInv, AtHandInv
<1>8. AtHandInv' /\ Bounded'
  BY <1>1, <1>2, <1>7 DEF MInv, AtHandInv, Bounded
<1>9. QED
  BY <1>6, <1>8 DEF MInv

LEMMA WorkRemembers ==
  ASSUME IInv, MInv, NEW o \in Outcomes, Work(o)
  PROVE  MInv'
<1>1. /\ UNCHANGED <<stream, work, mode, turn, found, torn, cut, faults, crashes>>
      /\ step = "working" /\ outcome' = o
      /\ step' = IF Keeps(o) THEN "keep" ELSE FirstEnd(o)
      /\ memory' = IF mode = "tui" /\ o # "rewound" THEN Append(memory, Exchange(turn)) ELSE memory
  BY DEF Work, diskVars, countVars, Exchange
<1>2. /\ step' \in {"keep", "endTurn", "endTask"}
      /\ step' = "endTask" => TaskFirst(o)
      /\ step' = "keep" <=> Keeps(o)
      /\ TaskFirst(outcome)' = TaskFirst(o) /\ Keeps(outcome)' = Keeps(o)
  BY <1>1 DEF FirstEnd, TaskFirst, Keeps
<1>3. turn \in Turns /\ turn \notin torn /\ ~Said(turn) /\ Said(turn)' = Said(turn)
  BY <1>1 DEF IInv, Typed, InTurn, HandInv, MInv, AtHandInv, Said, Records
<1>4. /\ Append(memory, Exchange(turn)) \in Memory
      /\ Besides(Append(memory, Exchange(turn)), torn) = Append(Besides(memory, torn), Exchange(turn))
  BY <1>3, MemoryAppend DEF MInv, Bounded
<1>5. Bounded'
  BY <1>1, <1>4 DEF MInv, Bounded
<1>6. ~HalfClosed'
  BY <1>2 DEF HalfClosed
<1>7. ~Ahead /\ (Ahead' <=> o # "rewound") /\ FromRecord' = FromRecord
  BY <1>1, <1>2, <1>3, <1>6 DEF Ahead, FromRecord, Restored, Besides
<1>8. mode = "tui" => Besides(memory, torn) = FromRecord
  BY <1>1, <1>7 DEF MInv, MemoryInv
<1>9. MemoryInv'
  BY <1>1, <1>4, <1>7, <1>8 DEF MemoryInv
<1>10. AtHandInv'
  BY <1>1, <1>2, <1>3 DEF MInv, AtHandInv, Outcomes
<1>11. QED
  BY <1>5, <1>9, <1>10 DEF MInv

LEMMA TranscriptRemembers ==
  ASSUME IInv, MInv, NEW kind \in Transcripts, Transcript(kind)
  PROVE  MInv'
<1> DEFINE e == [kind |-> kind, turn |-> turn]
           us == IF kind = "blank" THEN {turn} ELSE {}
<1>1. /\ step = "keep" /\ stream' = Append(stream, e) /\ step' = FirstEnd(outcome)
      /\ torn' = torn \cup us
      /\ UNCHANGED <<work, mode, turn, outcome, memory, found, cut, faults, crashes>>
  BY DEF Transcript, countVars
<1>2. turn \in Turns /\ turn \in 1 .. Len(work) /\ turn \notin Closed(stream) /\ turn \notin torn
  BY <1>1, Indices DEF IInv, Typed, InTurn, HandInv, HalfClosed, MInv, AtHandInv, Turns
<1>3. /\ stream \in Seq(Event) /\ e \in Event /\ e.kind = kind /\ e.turn = turn
      /\ e.kind \notin Ends /\ memory \in Memory
  BY <1>2 DEF IInv, Typed, Event, Transcripts, Ends, MInv, Bounded
<1>4. /\ step' \in {"endTurn", "endTask"}
      /\ step' = "endTask" => TaskFirst(outcome)
      /\ TaskFirst(outcome)' = TaskFirst(outcome) /\ Keeps(outcome)' = Keeps(outcome)
  BY <1>1 DEF FirstEnd, TaskFirst, Keeps
<1>5. Besides(Restored(stream'), torn) = FromRecord
  <2> HIDE DEF e, us
  <2>1. QED
    BY <1>1, <1>2, <1>3, GivesNothing DEF FromRecord
<1>6. Len(stream') # 0 /\ stream'[Len(stream')] = e /\ stream' \in Seq(Event)
  BY <1>1, <1>3, OneMore
<1>7. AtHandInv' /\ Bounded'
  <2>1. stream'[Len(stream')] = [kind |-> "transcript", turn |-> turn] \/ turn \in torn'
    BY <1>1, <1>6 DEF Transcripts
  <2>2. torn' \subseteq 1 .. Len(work') /\ (mode' = "tui" /\ step' = "closing" => found' \subseteq torn')
    BY <1>1, <1>2, <1>4 DEF MInv, AtHandInv
  <2>3. QED
    BY <1>1, <1>4, <1>6, <2>1, <2>2 DEF MInv, AtHandInv, Bounded
<1>8. CASE kind # "blank"
  <2>1. torn' = torn
    BY <1>1, <1>8
  <2>2. (Ahead' <=> Ahead) /\ FromRecord' = FromRecord
    BY <1>1, <1>4, <1>5, <2>1 DEF Ahead, HalfClosed, FromRecord
  <2>3. MemoryInv'
    BY <1>1, <1>4, <2>1, <2>2 DEF MInv, MemoryInv
  <2>4. QED
    BY <1>7, <2>3 DEF MInv
<1>9. CASE kind = "blank"
  <2>1. torn' = torn \cup {turn} /\ ~Ahead'
    BY <1>1, <1>9 DEF Ahead
  <2>2. \A m \in Memory : Besides(m, torn \cup {turn}) = Besides(Besides(m, torn), {turn})
    BY BesidesTwice DEF Memory
  <2>3. Restored(stream') \in Memory /\ FromRecord \in Memory
    BY <1>3, <1>6, RestoredBesides, BesidesType DEF FromRecord
  <2>4. FromRecord' = Besides(FromRecord, {turn})
    BY <1>5, <2>1, <2>2, <2>3 DEF FromRecord
  <2>5. ASSUME mode = "tui" PROVE Besides(memory', torn') = FromRecord'
    <3>1. Besides(memory, torn) = Append(FromRecord, Exchange(turn))
             \/ Besides(memory, torn) = FromRecord
      BY <1>1, <2>5 DEF MInv, MemoryInv
    <3>2. Besides(Besides(memory, torn), {turn}) = Besides(FromRecord, {turn})
      BY <1>2, <2>3, <3>1, HandHidden
    <3>3. QED
      BY <1>1, <1>3, <2>1, <2>2, <2>4, <3>2
  <2>6. MemoryInv'
    BY <1>1, <2>1, <2>5 DEF MemoryInv
  <2>7. QED
    BY <1>7, <2>6 DEF MInv
<1>10. QED
  BY <1>8, <1>9

\* What Keeps asks of a turn is in the stream when its end is recorded.
LEMMA EndTurnRemembers ==
  ASSUME IInv, MInv, EndTurn
  PROVE  MInv'
<1> DEFINE k == CASE outcome = "answered" -> "completed"
                  [] outcome = "interrupted" -> "interrupted"
                  [] OTHER -> "failed"
           e == [turn |-> turn, kind |-> k]
           n == Len(stream)
<1>1. /\ step = "endTurn" /\ stream' = Append(stream, e)
      /\ UNCHANGED <<work, mode, memory, found, torn, cut, faults, crashes>>
      /\ \/ TaskFirst(outcome) /\ LetGo(Home)
         \/ ~TaskFirst(outcome) /\ step' = "endTask" /\ UNCHANGED <<on, turn, outcome>>
  BY DEF EndTurn, countVars
<1>2. /\ turn \in Turns /\ turn # 0 /\ turn = Len(work) /\ turn \notin Closed(stream)
      /\ outcome \in Outcomes
  BY <1>1 DEF IInv, Typed, InTurn, HandInv, HalfClosed, MInv, AtHandInv
<1>3. /\ k \in Ends /\ (k = "completed" => outcome = "answered")
      /\ stream \in Seq(Event) /\ e \in Event /\ e.turn = turn /\ e.kind = k
  BY <1>2 DEF IInv, Typed, Event, Ends
<1> HIDE DEF k, e
<1>4. ASSUME mode = "tui" PROVE FromRecord' = Besides(memory, torn)
  <2>1. CASE outcome = "rewound"
    <3>1. ~Said(turn)
      BY <1>1, <2>1 DEF MInv, AtHandInv, Keeps
    <3>2. \A j \in 1 .. n : stream[j] # [kind |-> "transcript", turn |-> turn]
      BY <1>3, <3>1 DEF Said, Records, Transcripts
    <3>3. k # "completed"
      BY <1>3, <2>1
    <3>4. Besides(Restored(stream'), torn) = Besides(Restored(stream), torn)
      BY <1>1, <1>3, <3>2, <3>3, GivesNothing DEF Ends
    <3>5. ~Ahead
      BY <2>1 DEF Ahead
    <3>6. QED
      BY <1>1, <1>4, <3>4, <3>5 DEF MInv, MemoryInv, FromRecord
  <2>2. CASE turn \in torn
    <3>1. Besides(Restored(stream'), torn) = Besides(Restored(stream), torn)
      BY <1>1, <1>3, <2>2, GivesNothing DEF Ends
    <3>2. ~Ahead
      BY <2>2 DEF Ahead
    <3>3. QED
      BY <1>1, <1>4, <3>1, <3>2 DEF MInv, MemoryInv, FromRecord
  <2>3. CASE outcome # "rewound" /\ turn \notin torn
    <3>1. Keeps(outcome)
      BY <1>2, <1>4, <2>3 DEF Keeps, Outcomes
    <3>2. n # 0 /\ stream[n] = [kind |-> "transcript", turn |-> turn]
      BY <1>1, <2>3, <3>1 DEF MInv, AtHandInv
    <3>3. \A j \in 1 .. n : stream[j].kind = "transcript" /\ stream[j].turn = turn => j = n
      BY <1>3, <3>2 DEF IInv, StreamInv, Transcripts
    <3>4. Besides(Restored(stream'), torn) =
            Append(Besides(Restored(stream), torn), Exchange(turn))
      BY <1>1, <1>2, <1>3, <2>3, <3>2, <3>3, GivesExchange DEF Exchange
    <3>5. Ahead
      BY <1>1, <2>3 DEF Ahead, HalfClosed
    <3>6. QED
      BY <1>1, <1>4, <3>4, <3>5 DEF MInv, MemoryInv, FromRecord
  <2>4. QED
    BY <2>1, <2>2, <2>3
<1>5. CASE TaskFirst(outcome) /\ LetGo(Home)
  <2>1. /\ step' = "prompt" /\ turn' = 0 /\ mode = "tui" /\ mode' = "tui"
        /\ torn \subseteq 1 .. Len(work) /\ 0 \notin torn
    BY <1>1, <1>5 DEF LetGo, Home, TaskFirst, MInv, AtHandInv
  <2>2. ~Ahead'
    BY <2>1 DEF Ahead
  <2>3. MemoryInv'
    BY <1>1, <1>4, <2>1, <2>2 DEF MemoryInv
  <2>4. AtHandInv' /\ Bounded'
    BY <1>1, <2>1 DEF MInv, AtHandInv, Bounded
  <2>5. QED
    BY <2>3, <2>4 DEF MInv
<1>6. CASE ~TaskFirst(outcome) /\ step' = "endTask" /\ UNCHANGED <<on, turn, outcome>>
  <2>1. HalfClosed' /\ ~TaskFirst(outcome)'
    BY <1>1, <1>6 DEF HalfClosed, TaskFirst
  <2>2. ~Ahead'
    BY <2>1 DEF Ahead
  <2>3. MemoryInv'
    BY <1>1, <1>4, <2>2 DEF MemoryInv
  <2>4. AtHandInv' /\ Bounded'
    BY <1>1, <1>2, <1>6, <2>1 DEF MInv, AtHandInv, Bounded, Outcomes
  <2>5. QED
    BY <2>3, <2>4 DEF MInv
<1>7. QED
  BY <1>1, <1>5, <1>6

LEMMA EndTaskRemembers ==
  ASSUME IInv, MInv, EndTask
  PROVE  MInv'
<1>1. /\ step = "endTask" /\ UNCHANGED <<stream, work, mode, memory, found, torn, cut, faults, crashes>>
      /\ \/ TaskFirst(outcome) /\ step' = "endTurn" /\ UNCHANGED <<on, turn, outcome>>
         \/ ~TaskFirst(outcome) /\ LetGo(Home)
  BY DEF EndTask, countVars
<1>2. CASE TaskFirst(outcome) /\ step' = "endTurn" /\ UNCHANGED <<on, turn, outcome>>
  <2>1. /\ TaskFirst(outcome)' = TaskFirst(outcome) /\ Keeps(outcome)' = Keeps(outcome)
        /\ Said(turn)' = Said(turn)
    BY <1>1, <1>2 DEF TaskFirst, Keeps, Said, Records
  <2>2. Ahead' <=> Ahead
    BY <1>1, <1>2, <2>1 DEF Ahead, HalfClosed
  <2>3. MemoryInv'
    BY <1>1, <1>2, <2>2, MemoryStays DEF MInv
  <2>4. AtHandInv' /\ Bounded'
    BY <1>1, <1>2, <2>1 DEF MInv, AtHandInv, Bounded
  <2>5. QED
    BY <2>3, <2>4 DEF MInv
<1>3. CASE ~TaskFirst(outcome) /\ LetGo(Home)
  <2>1. /\ step' = Home /\ turn' = 0 /\ torn \subseteq 1 .. Len(work) /\ 0 \notin torn
        /\ step' \in {"prompt", "away"} /\ (step' = "prompt" => mode = "tui")
    BY <1>3 DEF LetGo, Home, MInv, AtHandInv
  <2>2. ~Ahead /\ ~Ahead'
    BY <1>1, <1>3, <2>1 DEF Ahead, HalfClosed
  <2>3. MemoryInv'
    BY <1>1, <2>2, MemoryStays DEF MInv
  <2>4. AtHandInv' /\ Bounded'
    BY <1>1, <2>1 DEF MInv, AtHandInv, Bounded
  <2>5. QED
    BY <2>3, <2>4 DEF MInv
<1>4. QED
  BY <1>1, <1>2, <1>3

LEMMA FaultRemembers ==
  ASSUME IInv, MInv, Fault
  PROVE  MInv'
<1> DEFINE us == IF turn # 0 /\ turn \notin Closed(stream) THEN {turn} ELSE {}
<1>1. /\ UNCHANGED <<stream, work, mode, crashes>> /\ turn' = 0 /\ found' = {}
      /\ step' = IF mode = "tui" /\ step # "closing" THEN "prompt" ELSE "away"
      /\ torn' = torn \cup us /\ faults' \in 0 .. MaxFaults
      /\ cut' = IF HalfClosed THEN cut \cup {turn} ELSE cut
      /\ memory' = CASE step' = "away" -> <<>>
                     [] step' # "away" /\ step = "working" -> Append(memory, Exchange(turn))
                     [] OTHER -> memory
  <2>1. UNCHANGED <<stream, work, mode, crashes>> /\ faults' \in 0 .. MaxFaults
    BY SessionAssumption DEF Fault, diskVars, MInv, Bounded
  <2>2. /\ turn' = 0 /\ found' = {}
        /\ step' = IF mode = "tui" /\ step # "closing" THEN "prompt" ELSE "away"
        /\ cut' = IF HalfClosed THEN cut \cup {turn} ELSE cut
    BY DEF Fault, LetGo
  <2>3. torn' = torn \cup us
    BY DEF Fault
  <2>4. memory' = CASE step' = "away" -> <<>>
                    [] step' # "away" /\ step = "working" -> Append(memory, Exchange(turn))
                    [] OTHER -> memory
    BY DEF Fault, Exchange
  <2>5. QED
    BY <2>1, <2>2, <2>3, <2>4
<1>2. /\ turn # 0 => turn \in Turns /\ turn \in 1 .. Len(work)
      /\ step = "working" \/ Ahead => us = {turn} /\ turn \in Turns
      /\ HalfClosed => turn \in Turns
  <2>1. turn # 0 => turn \in Turns /\ turn \in 1 .. Len(work)
    BY Indices DEF IInv, Typed, HandInv, MInv, AtHandInv, Turns
  <2>2. step = "working" \/ Ahead \/ HalfClosed => turn # 0
    BY DEF IInv, Typed, InTurn, Ahead, HalfClosed
  <2>3. step = "working" \/ Ahead => ~HalfClosed
    BY DEF Ahead, HalfClosed
  <2>4. QED
    BY <2>1, <2>2, <2>3 DEF IInv, HandInv
<1>3. memory \in Memory /\ stream \in Seq(Event)
  BY DEF MInv, Bounded, IInv, Typed
<1>4. /\ Besides(memory', torn \cup us) = Besides(Besides(memory', torn), us)
      /\ FromRecord \in Memory
      /\ Besides(Restored(stream), torn \cup us) = Besides(FromRecord, us)
      /\ memory' \in Memory
  <2>1. <<>> \in Memory
    BY DEF Memory
  <2>2. step = "working" => Append(memory, Exchange(turn)) \in Memory
    BY <1>2, <1>3, MemoryAppend
  <2>3. memory' \in {<<>>, memory} \/ (step = "working" /\ memory' = Append(memory, Exchange(turn)))
    BY <1>1
  <2>4. memory' \in Memory
    BY <1>3, <2>1, <2>2, <2>3
  <2>5. Restored(stream) \in Memory
    BY <1>3, RestoredBesides
  <2>6. \A m \in Memory : Besides(m, torn \cup us) = Besides(Besides(m, torn), us)
    BY BesidesTwice DEF Memory
  <2>7. QED
    BY <2>4, <2>5, <2>6, BesidesType DEF FromRecord
<1> HIDE DEF us
<1>5. ASSUME step' # "away" PROVE Besides(Besides(memory', torn), us) = Besides(FromRecord, us)
  <2>1. mode = "tui" /\ step # "away"
    BY <1>1, <1>5 DEF Fault, InTurn
  <2>2. CASE step = "working"
    <3>1. Besides(memory, torn) = FromRecord
      BY <2>1, <2>2 DEF MInv, MemoryInv, Ahead
    <3>2. Besides(memory', torn) = Append(FromRecord, Exchange(turn))
      <4>1. turn # 0 /\ turn \in Turns /\ turn \notin torn
        BY <1>2, <2>2 DEF IInv, Typed, InTurn, MInv, AtHandInv
      <4>2. QED
        BY <1>1, <1>3, <1>5, <2>2, <3>1, <4>1, MemoryAppend
    <3>3. QED
      BY <1>2, <1>4, <2>2, <3>2, HandHidden
  <2>3. CASE step # "working" /\ Ahead
    <3>1. Besides(memory', torn) = Append(FromRecord, Exchange(turn))
      BY <1>1, <1>5, <2>1, <2>3 DEF MInv, MemoryInv
    <3>2. QED
      BY <1>2, <1>4, <2>3, <3>1, HandHidden
  <2>4. CASE step # "working" /\ ~Ahead
    BY <1>1, <1>5, <2>1, <2>4 DEF MInv, MemoryInv
  <2>5. QED
    BY <2>2, <2>3, <2>4
<1>6. MemoryInv'
  <2>1. ~Ahead'
    BY <1>1 DEF Ahead
  <2>2. FromRecord' = Besides(FromRecord, us)
    BY <1>1, <1>4 DEF FromRecord
  <2>3. step' # "away" => Besides(memory', torn') = FromRecord'
    BY <1>1, <1>4, <1>5, <2>2
  <2>4. QED
    BY <2>1, <2>3 DEF MemoryInv
<1>7. torn' \subseteq 1 .. Len(work') /\ 0 \notin torn'
  BY <1>1, <1>2 DEF us, MInv, AtHandInv
<1>8. AtHandInv'
  BY <1>1, <1>7 DEF AtHandInv
<1>9. Bounded'
  BY <1>1, <1>2, <1>4 DEF MInv, Bounded
<1>10. QED
  BY <1>6, <1>8, <1>9 DEF MInv

LEMMA LeavingForgets ==
  ASSUME IInv, MInv, Crash \/ Leave
  PROVE  MInv'
<1>1. /\ step' = "away" /\ memory' = <<>> /\ torn' = {} /\ turn' = 0
      /\ cut' \in {cut, cut \cup {turn}} /\ (cut' # cut => turn \in Turns)
      /\ UNCHANGED <<work, faults>> /\ crashes' \in 0 .. MaxCrashes
  <2>1. CASE Crash
    BY <2>1, SessionAssumption DEF Crash, LetGo, diskVars, HalfClosed, IInv, Typed, InTurn,
       MInv, Bounded
  <2>2. CASE Leave
    BY <2>2 DEF Leave, diskVars, countVars, IInv, Typed, InTurn, MInv, Bounded
  <2>3. QED
    BY <2>1, <2>2
<1>2. memory' \in Memory
  BY <1>1 DEF Memory
<1>3. Bounded'
  BY <1>1, <1>2 DEF MInv, Bounded
<1>4. AtHandInv' /\ MemoryInv'
  BY <1>1 DEF AtHandInv, MemoryInv
<1>5. QED
  BY <1>3, <1>4 DEF MInv

\* Recovery, and the taking of a task, before a turn has begun.
LEMMA IdleRemembers ==
  ASSUME IInv, MInv, Recover \/ Enqueue \/ TakeReady \/ EnqueueFails
  PROVE  MInv'
<1>1. /\ step \in {"closing", "prompt", "away", "take"}
      /\ step' \in {"prompt", "take", "away", "leased"}
      /\ UNCHANGED <<stream, work, turn, memory, torn, cut, crashes>>
      /\ faults' \in 0 .. MaxFaults
      /\ (mode' = mode /\ step # "away") \/ (mode' = "script" /\ step' = "leased")
      /\ step' = "take" => mode' = "script"
      /\ step' = "prompt" => mode' = "tui"
  <2>1. CASE Recover
    <3>1. /\ step' \in {"prompt", "take", "away"}
          /\ step' = "prompt" => mode = "tui"
          /\ step' = "take" => mode # "tui"
      BY <2>1 DEF Recover
    <3>2. /\ step = "closing" /\ mode \in {"tui", "script"} /\ faults \in 0 .. MaxFaults
          /\ UNCHANGED <<stream, work, mode, turn, memory, torn, cut, faults, crashes>>
      BY <2>1 DEF Recover, countVars, MInv, Bounded, IInv, Typed
    <3>3. QED
      BY <3>1, <3>2
  <2>2. CASE Enqueue \/ TakeReady
    BY <2>2 DEF Enqueue, TakeReady, Lease, countVars, MInv, Bounded, AtHandInv
  <2>3. CASE EnqueueFails
    <3>1. /\ step = "prompt" /\ faults' \in 0 .. MaxFaults
          /\ UNCHANGED <<stream, work, mode, step, turn, memory, torn, cut, crashes>>
      BY <2>3, SessionAssumption DEF EnqueueFails, procVars, MInv, Bounded
    <3>2. QED
      BY <3>1 DEF MInv, AtHandInv
  <2>4. QED
    BY <2>1, <2>2, <2>3
<1>2. ~Ahead /\ ~Ahead'
  BY <1>1 DEF Ahead
<1>3. MemoryInv'
  BY <1>1, <1>2, MemoryStays DEF MInv
<1>4. AtHandInv' /\ Bounded'
  BY <1>1 DEF MInv, AtHandInv, Bounded
<1>5. QED
  BY <1>3, <1>4 DEF MInv

LEMMA InitRemembers ==
  ASSUME Init
  PROVE  MInv
<1>1. <<>> \in Memory
  BY DEF Memory
<1>2. QED
  BY <1>1, SessionAssumption DEF Init, MInv, Bounded, AtHandInv, MemoryInv

LEMMA NextRemembers ==
  ASSUME IInv, MInv, [Next]_vars
  PROVE  MInv'
<1>1. CASE Next
  BY <1>1, OpenRemembers, CloseRemembers, IdleRemembers, StartRemembers, WorkRemembers,
     TranscriptRemembers, EndTurnRemembers, EndTaskRemembers, FaultRemembers, LeavingForgets
     DEF Next
<1>2. CASE UNCHANGED vars
  <2>1. UNCHANGED <<stream, memory, torn, mode, step, turn, outcome, work, found, cut, faults, crashes>>
    BY <1>2 DEF vars
  <2>2. /\ Ahead' = Ahead /\ FromRecord' = FromRecord /\ Said(turn)' = Said(turn)
        /\ Keeps(outcome)' = Keeps(outcome) /\ TaskFirst(outcome)' = TaskFirst(outcome)
    BY <2>1 DEF Ahead, HalfClosed, TaskFirst, FromRecord, Said, Records, Keeps
  <2>3. Bounded' /\ AtHandInv'
    BY <2>1, <2>2 DEF MInv, Bounded, AtHandInv
  <2>4. MemoryInv'
    BY <2>1, <2>2, MemoryStays DEF MInv
  <2>5. QED
    BY <2>3, <2>4 DEF MInv
<1>3. QED
  BY <1>1, <1>2

\* The memory of an interactive session is the record's, with the turn at hand.
THEOREM Remembered == Spec => []MInv
<1>1. Init => MInv
  BY InitRemembers
<1>2. IInv /\ MInv /\ [Next]_vars => MInv'
  BY NextRemembers
<1>3. QED
  BY <1>1, <1>2, Inductive, PTL DEF Spec

\* Every variable is in its type, the conversation a session restores or goes
\* on with included, for any number of turns.
THEOREM TypeCorrect == Spec => []TypeOK
<1>1. IInv /\ MInv => TypeOK
  <2> SUFFICES ASSUME IInv, MInv PROVE TypeOK
    OBVIOUS
  <2>1. Typed /\ Bounded
    BY DEF IInv, MInv
  <2>2. \A t \in 1 .. Len(work) : t \in Turns
    BY Indices DEF IInv
  <2>3. found \subseteq Turns /\ torn \subseteq Turns
    BY <2>2 DEF IInv, HandInv, MInv, AtHandInv
  <2>4. QED
    BY <2>1, <2>3 DEF TypeOK, Typed, Bounded, Memory
<1>2. QED
  BY <1>1, Inductive, Remembered, PTL

\* At its prompt a session remembers, in order, what a resumed one would be
\* given: run_turn's pushes and record_transcript's appends stay in step.
THEOREM MemoryFollowsRecord == Spec => []MemoryIsRecord
<1>1. MInv => MemoryIsRecord
  BY DEF MInv, AtHandInv, MemoryInv, MemoryIsRecord, Ahead, FromRecord
<1>2. QED
  BY <1>1, Remembered, PTL

=============================================================================
