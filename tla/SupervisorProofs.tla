-------------------------- MODULE SupervisorProofs --------------------------
(***************************************************************************)
(* The supervisor of a turn, for any tasks, keys, limits, allowance and    *)
(* number of turns.                                                        *)
(***************************************************************************)
EXTENDS Supervisor, FiniteSetTheorems, TLAPS

\* What the step of the turn's thread says of the child it is about.
StepInv ==
  \A c \in Child :
    /\ At("view", c) \/ At("launch", c) =>
         /\ phase = "open" /\ Len(mine) < spent
         /\ c \in held /\ worker[c] = "none"
    /\ At("join", c) => phase = "ending" /\ next \in DOMAIN mine /\ mine[next] = c

\* A task that was never recorded has no thread and no slots; a thread that
\* runs has both of its, a joined one has given them back.
WorkerInv ==
  \A c \in Child :
    /\ attempt[c] = "absent" => worker[c] = "none" /\ c \notin held
    /\ worker[c] \in Alive => c \in held /\ claim[c] = "live" /\ c \in Spawned
    /\ worker[c] = "joined" => c \notin held
    /\ worker[c] \in {"done", "joined"} => report[c] # "none"

\* finish has joined the children it has passed, and a turn that is over all.
FinishInv ==
  /\ phase \in {"ending", "over"} =>
       \A i \in 1 .. Len(mine) : i < next => worker[mine[i]] = "joined"
  /\ phase = "over" => next = Len(mine) + 1 /\ at = Idle

SlotInv ==
  /\ \A k \in Keys : inUse[k] = Cardinality(held) * Wanted(k)
  /\ \A k \in Keys : inUse[k] <= Limit[k]

Inv == StepInv /\ WorkerInv /\ FinishInv
IInv == TypeOK /\ Inv /\ SlotInv /\ AnswerIsOnRecord

-----------------------------------------------------------------------------
(* Slots.                                                                  *)

LEMMA WantedType ==
  ASSUME NEW k \in Keys
  PROVE  /\ Wanted(k) \in {0, 1}
         /\ Wanted(k) = 1 => \E i \in DOMAIN Asked : Asked[i] = k
<1> DEFINE S == {i \in DOMAIN Asked : Asked[i] = k}
<1>1. CASE S = {}
  BY <1>1, FS_EmptySet DEF Wanted
<1>2. CASE S # {}
  <2>1. PICK i \in DOMAIN Asked : Asked[i] = k
    BY <1>2
  <2>2. S = {i}
    BY <2>1, SupervisorAssumption
  <2>3. QED
    BY <2>1, <2>2, FS_Singleton DEF Wanted
<1>3. QED
  BY <1>1, <1>2

LEMMA HeldFinite ==
  ASSUME TypeOK
  PROVE  IsFiniteSet(held) /\ Cardinality(held) \in Nat
  BY SupervisorAssumption, FS_Subset, FS_CardinalityType DEF TypeOK

LEMMA Times ==
  ASSUME NEW n \in Nat, NEW w \in {0, 1}
  PROVE  /\ n * w \in Nat /\ (n + 1) * w = n * w + w
         /\ n # 0 => n * w >= w /\ (n - 1) * w = n * w - w
<1>1. CASE w = 0
  BY <1>1
<1>2. CASE w = 1
  BY <1>2
<1>3. QED
  BY <1>1, <1>2

LEMMA TakeSlots ==
  ASSUME TypeOK, SlotInv, NEW c \in Child, c \notin held,
         Free, Take, held' = held \cup {c}
  PROVE  SlotInv' /\ inUse' \in [Keys -> Nat]
<1>1. Cardinality(held') = Cardinality(held) + 1 /\ Cardinality(held) \in Nat
  BY HeldFinite, FS_AddElement
<1>2. ASSUME NEW k \in Keys
      PROVE  /\ inUse'[k] = inUse[k] + Wanted(k) /\ inUse'[k] \in Nat
             /\ inUse'[k] = Cardinality(held') * Wanted(k)
             /\ inUse'[k] <= Limit[k]
  <2>1. inUse'[k] = inUse[k] + Wanted(k) /\ inUse[k] \in Nat /\ Wanted(k) \in {0, 1}
    BY WantedType DEF Take, TypeOK
  <2>2. inUse[k] = Cardinality(held) * Wanted(k) /\ inUse[k] <= Limit[k]
    BY DEF SlotInv
  <2>3. (Cardinality(held) + 1) * Wanted(k) = Cardinality(held) * Wanted(k) + Wanted(k)
    BY <1>1, <2>1, Times
  <2>4. inUse'[k] = Cardinality(held') * Wanted(k)
    BY <1>1, <2>1, <2>2, <2>3
  <2>5. Wanted(k) = 1 => inUse[k] < Limit[k]
    BY WantedType DEF Free
  <2>6. Limit[k] \in Nat
    BY SupervisorAssumption
  <2>7. QED
    BY <2>1, <2>2, <2>4, <2>5, <2>6
<1>3. inUse' \in [Keys -> Nat]
  BY <1>2 DEF Take
<1>4. QED
  BY <1>2, <1>3 DEF SlotInv, Wanted

LEMMA ReleaseSlots ==
  ASSUME TypeOK, SlotInv, NEW c \in Child, Release(c)
  PROVE  SlotInv' /\ inUse' \in [Keys -> Nat] /\ held' = held \ {c}
<1>1. held' = held \ {c}
  BY DEF Release
<1>2. CASE c \notin held
  <2>1. held' = held /\ inUse' = inUse
    BY <1>1, <1>2 DEF Release
  <2>2. inUse' \in [Keys -> Nat]
    BY <2>1 DEF TypeOK
  <2>3. SlotInv'
    BY <2>1, Zenon DEF SlotInv, Wanted
  <2>4. QED
    BY <1>1, <2>2, <2>3
<1>3. CASE c \in held
  <2>1. /\ Cardinality(held) \in Nat /\ Cardinality(held) # 0
        /\ Cardinality(held') = Cardinality(held) - 1
    BY <1>1, <1>3, HeldFinite, FS_RemoveElement, FS_EmptySet
  <2>2. inUse' = [k \in Keys |-> IF inUse[k] < Wanted(k) THEN 0 ELSE inUse[k] - Wanted(k)]
    BY <1>3 DEF Release
  <2>3. ASSUME NEW k \in Keys
        PROVE  /\ inUse'[k] \in Nat /\ inUse'[k] <= Limit[k]
               /\ inUse'[k] = Cardinality(held') * Wanted(k)
    <3>1. inUse[k] \in Nat /\ Wanted(k) \in {0, 1} /\ Limit[k] \in Nat
      BY WantedType, SupervisorAssumption DEF TypeOK
    <3>2. inUse[k] = Cardinality(held) * Wanted(k) /\ inUse[k] <= Limit[k]
      BY DEF SlotInv
    <3>3. /\ Cardinality(held) * Wanted(k) >= Wanted(k)
          /\ (Cardinality(held) - 1) * Wanted(k) = Cardinality(held) * Wanted(k) - Wanted(k)
      BY <2>1, <3>1, Times
    <3>4. inUse'[k] = inUse[k] - Wanted(k) /\ inUse[k] >= Wanted(k)
      BY <2>2, <3>1, <3>2, <3>3
    <3>5. QED
      BY <2>1, <3>1, <3>2, <3>3, <3>4
  <2>4. inUse' \in [Keys -> Nat]
    BY <2>2, <2>3
  <2>5. QED
    BY <1>1, <2>3, <2>4 DEF SlotInv, Wanted
<1>4. QED
  BY <1>2, <1>3

-----------------------------------------------------------------------------
(* Steps that look alike.                                                  *)

LEMMA StepKinds ==
  /\ \A c \in Child : /\ Idle # [step |-> "view", child |-> c]
                      /\ Idle # [step |-> "launch", child |-> c]
                      /\ Idle # [step |-> "join", child |-> c]
  /\ \A c, d \in Child :
       /\ [step |-> "view", child |-> c] # [step |-> "launch", child |-> d]
       /\ [step |-> "view", child |-> c] # [step |-> "join", child |-> d]
       /\ [step |-> "launch", child |-> c] # [step |-> "join", child |-> d]
       /\ [step |-> "view", child |-> c] = [step |-> "view", child |-> d] => c = d
       /\ [step |-> "launch", child |-> c] = [step |-> "launch", child |-> d] => c = d
       /\ [step |-> "join", child |-> c] = [step |-> "join", child |-> d] => c = d
<1>1. Idle.step = "idle"
  BY DEF Idle
<1>2. \A c \in Child : /\ [step |-> "view", child |-> c].step = "view"
                       /\ [step |-> "launch", child |-> c].step = "launch"
                       /\ [step |-> "join", child |-> c].step = "join"
                       /\ [step |-> "view", child |-> c].child = c
                       /\ [step |-> "launch", child |-> c].child = c
                       /\ [step |-> "join", child |-> c].child = c
  OBVIOUS
<1>3. QED
  BY <1>1, <1>2

\* When the thread of the turn does nothing, StepInv says nothing.
LEMMA IdleStep == ASSUME at = Idle PROVE StepInv
  BY StepKinds DEF StepInv, At

Outcomes == {"completed", "cancelled", "failed", "failedUnknown"}

LEMMA GivenOutcome ==
  /\ \A r : Outcome(r) \subseteq Outcomes
  /\ \A r : Given(r) \in Outcome(r)
  /\ Outcome("ok") = {"completed"} /\ Outcome("cancelled") = {"cancelled"}
<1>1. Outcome("ok") = {"completed"} /\ Outcome("cancelled") = {"cancelled"}
  BY DEF Outcome
<1>2. ASSUME NEW r PROVE Outcome(r) \subseteq Outcomes /\ \E s : s \in Outcome(r)
  <2>1. CASE r = "ok"
    BY <1>1, <2>1 DEF Outcomes
  <2>2. CASE r = "cancelled"
    BY <1>1, <2>2 DEF Outcomes
  <2>3. CASE r # "ok" /\ r # "cancelled"
    <3>1. Outcome(r) = {"failed", "failedUnknown"}
      BY <2>3 DEF Outcome
    <3>2. QED
      BY <3>1 DEF Outcomes
  <2>4. QED
    BY <2>1, <2>2, <2>3
<1>3. ASSUME NEW r PROVE Given(r) \in Outcome(r)
  <2>1. CASE r = "failed"
    BY <2>1 DEF Given, Outcome
  <2>2. CASE r # "failed"
    <3>1. (CHOOSE s \in Outcome(r) : TRUE) \in Outcome(r)
      BY <1>2
    <3>2. QED
      BY <2>2, <3>1 DEF Given
  <2>3. QED
    BY <2>1, <2>2
<1>4. QED
  BY <1>1, <1>2, <1>3

\* The step of one thread: it goes on or ends, and may settle its attempt.
LEMMA ThreadStep ==
  ASSUME IInv, NEW c \in Child, worker[c] \in Alive,
         NEW w \in Alive \cup {"done"}, NEW r \in {"none", "ok", "cancelled", "failed"},
         NEW a \in AttemptStates,
         worker' = [worker EXCEPT ![c] = w], report' = [report EXCEPT ![c] = r],
         attempt' = [attempt EXCEPT ![c] = a],
         w = "done" => r # "none", a = "absent" => attempt[c] = "absent",
         UNCHANGED <<turnVars, slotVars, viewVars, paused, token>>
  PROVE  IInv'
<1>1. UNCHANGED <<turns, phase, at, spent, mine, next, inUse, held, known, kind, claim,
                  disk, paused, token>>
  BY DEF turnVars, slotVars, viewVars
<1>2. /\ worker'[c] = w /\ report'[c] = r /\ attempt'[c] = a
      /\ \A d \in Child \ {c} : /\ worker'[d] = worker[d] /\ report'[d] = report[d]
                                /\ attempt'[d] = attempt[d]
  BY DEF IInv, TypeOK
<1>3. TypeOK'
  <2>1. /\ worker' \in [Child -> {"none", "done", "joined"} \cup Alive]
        /\ report' \in [Child -> {"none", "ok", "cancelled", "failed"}]
        /\ attempt' \in [Child -> AttemptStates]
    BY DEF IInv, TypeOK
  <2>2. QED
    BY <1>1, <2>1 DEF IInv, TypeOK
<1>4. worker[c] # "joined" /\ worker[c] # "none"
  BY DEF Alive
<1>5. WorkerInv'
  <2>1. Spawned' = Spawned
    BY <1>1 DEF Spawned
  <2>2. w # "joined" /\ c \in held /\ claim[c] = "live" /\ c \in Spawned
    BY DEF Alive, IInv, Inv, WorkerInv
  <2>3. attempt[c] # "absent"
    BY <1>4 DEF IInv, Inv, WorkerInv
  <2>4. QED
    BY <1>1, <1>2, <2>1, <2>2, <2>3 DEF Alive, IInv, Inv, WorkerInv
<1>6. StepInv'
  BY <1>1, <1>2, <1>4 DEF IInv, Inv, StepInv, At
<1>7. FinishInv'
  <2>1. \A i \in 1 .. Len(mine) : mine[i] \in Child
    BY DEF IInv, TypeOK
  <2>2. QED
    BY <1>1, <1>2, <1>4, <2>1 DEF IInv, Inv, FinishInv
<1>8. SlotInv'
  BY <1>1, Zenon DEF IInv, SlotInv, Wanted
<1>9. AnswerIsOnRecord'
  <2>1. w # "joined"
    BY DEF Alive
  <2>2. QED
    BY <1>2, <2>1 DEF IInv, AnswerIsOnRecord, Outcome
<1>10. QED
  BY <1>3, <1>5, <1>6, <1>7, <1>8, <1>9 DEF IInv, Inv

\* A step that changes no thread and no slot, and settles no answer's attempt.
LEMMA QuietStep ==
  ASSUME IInv, TypeOK', UNCHANGED <<phase, at, mine, next, inUse, held, worker, report>>,
         spent' >= spent, StepInv',
         \A c \in Child :
           /\ attempt'[c] = "absent" => attempt[c] = "absent"
           /\ attempt'[c] = attempt[c] \/ attempt[c] \notin Outcomes \ {"failed"}
           /\ claim[c] = "live" => claim'[c] = "live"
  PROVE  IInv'
<1>1. Spawned' = Spawned
  BY DEF Spawned
<1>2. WorkerInv'
  BY <1>1 DEF IInv, Inv, WorkerInv
<1>3. FinishInv'
  BY DEF IInv, Inv, FinishInv
<1>4. SlotInv'
  BY Zenon DEF IInv, SlotInv, Wanted
<1>5. AnswerIsOnRecord'
  <2>1. ASSUME NEW c \in Child, worker[c] = "joined", report[c] # "failed"
        PROVE  attempt'[c] \in Outcome(report[c])
    <3>1. report[c] \in {"ok", "cancelled"} /\ attempt[c] \in Outcome(report[c])
      BY <2>1 DEF IInv, Inv, WorkerInv, AnswerIsOnRecord, TypeOK
    <3>2. attempt[c] \in {"completed", "cancelled"}
      BY <3>1, GivenOutcome
    <3>3. QED
      BY <3>1, <3>2 DEF Outcomes
  <2>2. QED
    BY <2>1 DEF AnswerIsOnRecord, Outcome
<1>6. QED
  BY <1>2, <1>3, <1>4, <1>5 DEF IInv, Inv

-----------------------------------------------------------------------------
(* A worker's steps.                                                       *)

LEMMA AnswersStep ==
  ASSUME IInv, NEW c \in Child, worker[c] \in Alive,
         NEW r \in {"ok", "cancelled", "failed"}, Answers(c, r),
         UNCHANGED <<turnVars, slotVars, viewVars, paused, token>>
  PROVE  IInv'
<1>1. worker' = [worker EXCEPT ![c] = "done"]
  BY DEF Answers
<1>2. PICK q \in {r, "failed"} : report' = [report EXCEPT ![c] = q]
  BY DEF Answers
<1>3. Outcomes \subseteq AttemptStates /\ "absent" \notin Outcomes
  BY DEF Outcomes, AttemptStates
<1>4. CASE UNCHANGED attempt
  <2>1. attempt' = [attempt EXCEPT ![c] = attempt[c]] /\ attempt[c] \in AttemptStates
    BY <1>4 DEF IInv, TypeOK
  <2>2. QED
    BY <1>1, <1>2, <2>1, ThreadStep
<1>5. CASE attempt' = [attempt EXCEPT ![c] = IF r = "failed" THEN "failed" ELSE Given(r)]
  <2>1. PICK a \in Outcomes : attempt' = [attempt EXCEPT ![c] = a]
    <3>1. (IF r = "failed" THEN "failed" ELSE Given(r)) \in Outcomes
      BY GivenOutcome DEF Outcomes
    <3>2. QED
      BY <1>5, <3>1
  <2>2. QED
    BY <1>1, <1>2, <1>3, <2>1, ThreadStep
<1>6. QED
  BY <1>4, <1>5 DEF Answers

LEMMA GoesOn ==
  ASSUME IInv, NEW c \in Child, worker[c] \in Alive, NEW w \in Alive,
         worker' = [worker EXCEPT ![c] = w], UNCHANGED report,
         attempt' \in {attempt, [attempt EXCEPT ![c] = "running"]},
         UNCHANGED <<turnVars, slotVars, viewVars, paused, token>>
  PROVE  IInv'
<1>1. /\ report' = [report EXCEPT ![c] = report[c]]
      /\ report[c] \in {"none", "ok", "cancelled", "failed"}
      /\ attempt[c] \in AttemptStates /\ attempt = [attempt EXCEPT ![c] = attempt[c]]
  BY DEF IInv, TypeOK
<1>2. "running" \in AttemptStates /\ "done" \notin Alive
  BY DEF AttemptStates, Live, Alive
<1>3. CASE attempt' = attempt
  BY <1>1, <1>2, <1>3, ThreadStep
<1>4. CASE attempt' = [attempt EXCEPT ![c] = "running"]
  BY <1>1, <1>2, <1>4, ThreadStep
<1>5. QED
  BY <1>3, <1>4

LEMMA WorkerSteps ==
  ASSUME IInv, NEW c \in Child, Worker(c) \/ PollFails(c) \/ Panic(c)
  PROVE  IInv'
<1> USE DEF Alive
<1>1. CASE Start(c)
  <2>1. worker[c] \in Alive /\ UNCHANGED <<turnVars, slotVars, viewVars, paused, token>>
    BY <1>1 DEF Start
  <2>2. CASE Answers(c, IF attempt[c] = "starting" /\ c \in token THEN "cancelled" ELSE "failed")
    <3>1. CASE attempt[c] = "starting" /\ c \in token
      <4>1. Answers(c, "cancelled")
        BY <2>2, <3>1, Zenon
      <4>2. QED
        BY <2>1, <4>1, AnswersStep
    <3>2. CASE ~(attempt[c] = "starting" /\ c \in token)
      <4>1. Answers(c, "failed")
        BY <2>2, <3>2, Zenon
      <4>2. QED
        BY <2>1, <4>1, AnswersStep
    <3>3. QED
      BY <3>1, <3>2
  <2>3. CASE /\ attempt' = [attempt EXCEPT ![c] = "running"]
             /\ worker' = [worker EXCEPT ![c] = "polling"]
             /\ UNCHANGED report
    BY <2>1, <2>3, GoesOn
  <2>4. QED
    BY <1>1, <2>2, <2>3 DEF Start
<1>2. CASE Poll(c)
  <2>1. worker[c] \in Alive /\ UNCHANGED <<turnVars, slotVars, viewVars, paused, token>>
    BY <1>2 DEF Poll
  <2>2. CASE Answers(c, "cancelled")
    BY <2>1, <2>2, AnswersStep
  <2>3. CASE worker' = [worker EXCEPT ![c] = "calling"] /\ UNCHANGED <<report, attempt>>
    BY <2>1, <2>3, GoesOn
  <2>4. QED
    BY <1>2, <2>2, <2>3 DEF Poll
<1>3. CASE PollFails(c)
  <2>1. /\ worker[c] \in Alive /\ Answers(c, "cancelled")
        /\ UNCHANGED <<turnVars, slotVars, viewVars, paused, token>>
    BY <1>3 DEF PollFails
  <2>2. QED
    BY <2>1, AnswersStep
<1>4. CASE Call(c)
  <2>1. worker[c] \in Alive /\ UNCHANGED <<turnVars, slotVars, viewVars, paused, token>>
    BY <1>4 DEF Call
  <2>2. ASSUME NEW r \in {"ok", "cancelled", "failed"}, Answers(c, r) PROVE IInv'
    BY <2>1, <2>2, AnswersStep
  <2>3. CASE worker' = [worker EXCEPT ![c] = "polling"] /\ UNCHANGED <<report, attempt>>
    BY <2>1, <2>3, GoesOn
  <2>4. QED
    BY <1>4, <2>2, <2>3 DEF Call, Enters
<1>5. CASE Panic(c)
  <2>1. attempt[c] \in AttemptStates /\ attempt' = [attempt EXCEPT ![c] = attempt[c]]
    BY <1>5 DEF Panic, IInv, TypeOK
  <2>2. /\ worker[c] \in Alive /\ worker' = [worker EXCEPT ![c] = "done"]
        /\ report' = [report EXCEPT ![c] = "failed"]
        /\ UNCHANGED <<turnVars, slotVars, viewVars, paused, token>>
    BY <1>5 DEF Panic
  <2>3. QED
    BY <2>1, <2>2, ThreadStep
<1>6. QED
  BY <1>1, <1>2, <1>3, <1>4, <1>5 DEF Worker

-----------------------------------------------------------------------------
(* Steps of others, and the calls that change only the stream.             *)

\* request_cancel changes a live attempt.
LEMMA CancelStep ==
  ASSUME TypeOK, NEW c \in Child, CancelRecorded(c) \/ UNCHANGED attempt
  PROVE  /\ attempt' \in [Child -> AttemptStates]
         /\ \A d \in Child : /\ attempt'[d] = "absent" => attempt[d] = "absent"
                             /\ attempt'[d] = attempt[d] \/ attempt[d] \notin Outcomes
<1>1. CASE CancelRecorded(c)
  <2>1. attempt[c] \in Live /\ attempt' = [attempt EXCEPT ![c] = "cancelling"]
    BY <1>1 DEF CancelRecorded
  <2>2. attempt[c] \notin Outcomes /\ "cancelling" \in AttemptStates
    BY <2>1 DEF Live, Outcomes, AttemptStates
  <2>3. QED
    BY <2>1, <2>2 DEF TypeOK
<1>2. CASE UNCHANGED attempt
  BY <1>2 DEF TypeOK
<1>3. QED
  BY <1>1, <1>2

LEMMA StepKept ==
  ASSUME IInv, UNCHANGED <<phase, at, mine, next, held, worker>>,
         spent \in Nat, spent' \in Nat, spent' >= spent
  PROVE  StepInv'
<1>1. Len(mine) \in Nat
  BY DEF IInv, TypeOK
<1>2. QED
  BY <1>1 DEF IInv, Inv, StepInv, At

LEMMA OutsideSteps ==
  ASSUME IInv, Outside
  PROVE  IInv'
<1>1. ASSUME NEW c \in Child, NEW a \in AttemptStates \ {"absent"}, Elsewhere(c, a),
             attempt[c] \in Live \cup {"failed"}
      PROVE  IInv'
  <2>1. /\ attempt' = [attempt EXCEPT ![c] = a] /\ attempt[c] \notin Outcomes \ {"failed"}
        /\ UNCHANGED <<turns, phase, at, spent, mine, next, inUse, held, known, kind, claim,
                       disk, worker, report, paused, token>>
    BY <1>1 DEF Elsewhere, Live, Outcomes, turnVars, slotVars, workVars, viewVars
  <2>2. /\ attempt' \in [Child -> AttemptStates] /\ attempt'[c] = a
        /\ \A d \in Child \ {c} : attempt'[d] = attempt[d]
    BY <2>1 DEF IInv, TypeOK
  <2>3. TypeOK'
    BY <2>1, <2>2 DEF IInv, TypeOK
  <2>4. spent \in Nat /\ spent' \in Nat /\ spent' >= spent
    BY <2>1, SupervisorAssumption DEF IInv, TypeOK
  <2>5. StepInv'
    BY <2>1, <2>4, StepKept
  <2>6. QED
    BY <2>1, <2>2, <2>3, <2>4, <2>5, QuietStep
<1>2. ASSUME TypeOK', UNCHANGED <<turnVars, slotVars, workVars, attempt, claim>> PROVE IInv'
  <2>1. spent \in Nat /\ spent' \in Nat /\ spent' >= spent
    BY <1>2, SupervisorAssumption DEF IInv, TypeOK, turnVars
  <2>2. UNCHANGED <<phase, at, mine, next, inUse, held, worker, report, attempt, claim>>
    BY <1>2 DEF turnVars, slotVars, workVars
  <2>3. StepInv'
    BY <2>1, <2>2, StepKept
  <2>4. QED
    BY <1>2, <2>1, <2>2, <2>3, QuietStep
<1>3. ASSUME NEW c \in Child, OperatorPause(c) \/ OperatorResume(c) PROVE IInv'
  <2>1. UNCHANGED <<turnVars, slotVars, workVars, viewVars, attempt, token>> /\ paused' \subseteq Child
    BY <1>3 DEF OperatorPause, OperatorResume, IInv, TypeOK
  <2>2. TypeOK'
    BY <2>1 DEF IInv, TypeOK, turnVars, slotVars, workVars, viewVars
  <2>3. QED
    BY <1>2, <2>1, <2>2 DEF viewVars
<1>4. ASSUME NEW v \in Prunable, Prune(v) PROVE IInv'
  <2>1. /\ UNCHANGED <<turnVars, slotVars, workVars, known, kind, claim, attempt, paused, token>>
        /\ disk' \subseteq Views
    BY <1>4 DEF Prune, IInv, TypeOK
  <2>2. TypeOK'
    BY <2>1 DEF IInv, TypeOK, turnVars, slotVars, workVars
  <2>3. QED
    BY <1>2, <2>1, <2>2
<1>5. {"cancelling", "expired", "superseded"} \subseteq AttemptStates \ {"absent"}
  BY DEF AttemptStates, Live
<1>6. ASSUME NEW c \in Child, OperatorCancel(c) \/ OperatorRetry(c) \/ Expire(c) PROVE IInv'
  BY <1>1, <1>5, <1>6 DEF OperatorCancel, OperatorRetry, Expire
<1>7. QED
  BY <1>3, <1>4, <1>6 DEF Outside

LEMMA StopSteps ==
  ASSUME IInv, SpawnRefused \/ \E c \in Child : Stop(c)
  PROVE  IInv'
<1>1. CASE SpawnRefused
  <2>1. /\ spent' = spent + 1 /\ spent < MaxChildren
        /\ UNCHANGED <<turns, phase, at, mine, next, inUse, held, worker, report, known, kind,
                       claim, disk, attempt, paused, token>>
    BY <1>1 DEF SpawnRefused, Allowed, slotVars, workVars, viewVars
  <2>2. spent \in Nat /\ spent' \in 0 .. MaxChildren /\ spent' >= spent /\ Len(mine) \in Nat
    BY <2>1, SupervisorAssumption DEF IInv, TypeOK
  <2>3. TypeOK'
    BY <2>1, <2>2 DEF IInv, TypeOK
  <2>4. StepInv'
    BY <2>1, <2>2, StepKept
  <2>5. QED
    BY <2>1, <2>2, <2>3, <2>4, QuietStep
<1>2. ASSUME NEW c \in Child, Stop(c) PROVE IInv'
  <2>1. /\ CancelRecorded(c) \/ UNCHANGED attempt
        /\ token' \subseteq Child
        /\ UNCHANGED <<turns, phase, at, spent, mine, next, inUse, held, worker, report, known,
                       kind, claim, disk, paused>>
    BY <1>2 DEF Stop, Cancel, turnVars, slotVars, workVars, viewVars, IInv, TypeOK
  <2>2. /\ attempt' \in [Child -> AttemptStates]
        /\ \A d \in Child : /\ attempt'[d] = "absent" => attempt[d] = "absent"
                            /\ attempt'[d] = attempt[d] \/ attempt[d] \notin Outcomes
    BY <2>1, CancelStep DEF IInv
  <2>3. TypeOK'
    BY <2>1, <2>2 DEF IInv, TypeOK
  <2>4. spent \in Nat /\ spent' \in Nat /\ spent' >= spent
    BY <2>1, SupervisorAssumption DEF IInv, TypeOK
  <2>5. StepInv'
    BY <2>1, <2>4, StepKept
  <2>6. \A d \in Child :
          /\ attempt'[d] = "absent" => attempt[d] = "absent"
          /\ attempt'[d] = attempt[d] \/ attempt[d] \notin Outcomes \ {"failed"}
          /\ claim[d] = "live" => claim'[d] = "live"
    <3>1. claim' = claim
      BY <2>1
    <3>2. ASSUME NEW d \in Child
          PROVE  /\ attempt'[d] = "absent" => attempt[d] = "absent"
                 /\ attempt'[d] = attempt[d] \/ attempt[d] \notin Outcomes \ {"failed"}
      BY <2>2
    <3>3. QED
      BY <3>1, <3>2
  <2>7. QED
    BY <2>1, <2>3, <2>4, <2>5, <2>6, QuietStep
<1>3. QED
  BY <1>1, <1>2

-----------------------------------------------------------------------------
(* task.spawn.                                                             *)

LEMMA ViewSteps ==
  ASSUME IInv, NEW c \in Child, CutView(c)
  PROVE  IInv'
<1>1. /\ At("view", c) /\ UNCHANGED <<turns, phase, spent, mine, next, inUse, held, worker, report,
                                   kind, claim, paused>>
      /\ CancelRecorded(c) \/ UNCHANGED attempt
      /\ token' \subseteq Child
      /\ at' \in {Idle, [step |-> "launch", child |-> c]}
  BY DEF CutView, Cancel, slotVars, workVars, IInv, TypeOK
<1>2. known' \in BOOLEAN
  <2>1. known' = known \/ known' = TRUE
    BY DEF CutView, CutWriter, ShareReader
  <2>2. known \in BOOLEAN
    BY DEF IInv, TypeOK
  <2>3. QED
    BY <2>1, <2>2
<1>3. disk' \subseteq Views
  BY DEF CutView, CutWriter, ShareReader, View, Views, IInv, TypeOK
<1>4. /\ attempt' \in [Child -> AttemptStates]
      /\ \A d \in Child : /\ attempt'[d] = "absent" => attempt[d] = "absent"
                          /\ attempt'[d] = attempt[d] \/ attempt[d] \notin Outcomes
  BY <1>1, CancelStep DEF IInv
<1>5. at' \in {Idle} \cup Busy
  BY <1>1 DEF Busy
<1>6. TypeOK'
  BY <1>1, <1>2, <1>3, <1>4, <1>5 DEF IInv, TypeOK
<1>7. StepInv'
  <2>1. CASE at' = Idle
    BY <2>1, StepKinds DEF StepInv, At
  <2>2. CASE at' = [step |-> "launch", child |-> c]
    <3>1. phase = "open" /\ Len(mine) < spent /\ c \in held /\ worker[c] = "none"
      BY <1>1 DEF IInv, Inv, StepInv
    <3>2. QED
      BY <1>1, <2>2, <3>1, StepKinds DEF StepInv, At
  <2>3. QED
    BY <1>1, <2>1, <2>2
<1>8. \A d \in Child :
        /\ attempt'[d] = "absent" => attempt[d] = "absent"
        /\ attempt'[d] = attempt[d] \/ attempt[d] \notin Outcomes \ {"failed"}
        /\ claim[d] = "live" => claim'[d] = "live"
  <2>1. claim' = claim
    BY <1>1
  <2>2. ASSUME NEW d \in Child
        PROVE  /\ attempt'[d] = "absent" => attempt[d] = "absent"
               /\ attempt'[d] = attempt[d] \/ attempt[d] \notin Outcomes \ {"failed"}
    BY <1>4
  <2>3. QED
    BY <2>1, <2>2
<1>10. WorkerInv' /\ FinishInv' /\ SlotInv' /\ AnswerIsOnRecord'
  <2>1. FinishInv'
    <3>1. phase = "open"
      BY <1>1 DEF IInv, Inv, StepInv
    <3>2. QED
      BY <1>1, <3>1 DEF FinishInv
  <2>2. Spawned' = Spawned
    BY <1>1 DEF Spawned
  <2>3. WorkerInv'
    BY <1>1, <1>8, <2>2 DEF IInv, Inv, WorkerInv
  <2>4. SlotInv'
    BY <1>1, Zenon DEF IInv, SlotInv, Wanted
  <2>5. AnswerIsOnRecord'
    <3>1. ASSUME NEW d \in Child, worker[d] = "joined", report[d] # "failed"
          PROVE  attempt'[d] \in Outcome(report[d])
      BY <3>1, <1>4, GivenOutcome DEF IInv, AnswerIsOnRecord
    <3>2. QED
      BY <1>1, <3>1 DEF AnswerIsOnRecord, Outcome
  <2>6. QED
    BY <2>1, <2>3, <2>4, <2>5
<1>11. QED
  BY <1>6, <1>7, <1>10 DEF IInv, Inv

LEMMA SpawnSteps ==
  ASSUME IInv, NEW c \in Child, NEW k \in Kinds, Spawn(c, k)
  PROVE  IInv'
<1>1. /\ phase = "open" /\ at = Idle /\ attempt[c] = "absent" /\ spent' = spent + 1
      /\ spent < MaxChildren /\ kind' = [kind EXCEPT ![c] = k]
      /\ UNCHANGED <<turns, phase, mine, next, worker, report, known, claim, disk, paused, token>>
  BY DEF Spawn, Allowed, Open, workVars
<1>2. worker[c] = "none" /\ c \notin held
  BY <1>1 DEF IInv, Inv, WorkerInv
<1>3. /\ spent \in Nat /\ spent' \in 0 .. MaxChildren /\ Len(mine) \in Nat /\ Len(mine) < spent'
      /\ kind' \in [Child -> {"none", "reader", "writer"}]
  BY <1>1, SupervisorAssumption DEF IInv, TypeOK
<1>4. /\ inUse' \in [Keys -> Nat] /\ SlotInv' /\ held' \in {held, held \cup {c}}
      /\ \/ UNCHANGED <<held, at>>
         \/ held' = held \cup {c} /\ at' = [step |-> "view", child |-> c]
  <2>1. CASE Free /\ Take /\ held' = held \cup {c} /\ at' = [step |-> "view", child |-> c]
    BY <1>2, <2>1, TakeSlots DEF IInv
  <2>2. CASE UNCHANGED <<slotVars, at>>
    <3>1. inUse' = inUse /\ held' = held /\ at' = at
      BY <2>2 DEF slotVars
    <3>2. SlotInv'
      BY <3>1, Zenon DEF IInv, SlotInv, Wanted
    <3>3. QED
      BY <3>1, <3>2 DEF IInv, TypeOK
  <2>3. QED
    BY <2>1, <2>2 DEF Spawn
<1>5. PICK a \in {"starting", "queued"} : attempt' = [attempt EXCEPT ![c] = a]
  BY DEF Spawn
<1>6. /\ attempt' \in [Child -> AttemptStates] /\ attempt'[c] = a
      /\ \A d \in Child \ {c} : attempt'[d] = attempt[d]
  BY <1>5 DEF IInv, TypeOK, AttemptStates, Live
<1>7. at' \in {Idle} \cup Busy
  BY <1>1, <1>4 DEF Busy
<1>8. TypeOK'
  BY <1>1, <1>3, <1>4, <1>6, <1>7 DEF IInv, TypeOK
<1>9. StepInv'
  <2>1. CASE at' = Idle
    BY <2>1, StepKinds DEF StepInv, At
  <2>2. CASE held' = held \cup {c} /\ at' = [step |-> "view", child |-> c]
    BY <1>1, <1>2, <1>3, <2>2, StepKinds DEF StepInv, At
  <2>3. QED
    BY <1>1, <1>4, <2>1, <2>2
<1>10. WorkerInv'
  <2>1. Spawned' = Spawned
    BY <1>1 DEF Spawned
  <2>2. "none" \notin Alive
    BY DEF Alive
  <2>3. QED
    BY <1>1, <1>2, <1>4, <1>6, <2>1, <2>2 DEF IInv, Inv, WorkerInv
<1>11. FinishInv'
  BY <1>1 DEF FinishInv
<1>12. AnswerIsOnRecord'
  BY <1>1, <1>2, <1>6 DEF IInv, AnswerIsOnRecord, Outcome
<1>13. QED
  BY <1>4, <1>8, <1>9, <1>10, <1>11, <1>12 DEF IInv, Inv

LEMMA LaunchSteps ==
  ASSUME IInv, NEW c \in Child, Launch(c)
  PROVE  IInv'
<1>1. /\ phase = "open" /\ Len(mine) < spent /\ c \in held /\ worker[c] = "none"
      /\ at' = Idle
      /\ UNCHANGED <<turns, phase, spent, next, inUse, held, known, kind, disk, report, attempt,
                     paused, token>>
  BY DEF Launch, slotVars, IInv, Inv, StepInv
<1>2. attempt[c] # "absent"
  BY <1>1 DEF IInv, Inv, WorkerInv
<1>3. claim' \in {claim, [claim EXCEPT ![c] = "live"]}
  BY DEF Launch
<1>4. \/ UNCHANGED <<mine, worker>>
      \/ /\ mine' = Append(mine, c) /\ worker' = [worker EXCEPT ![c] = "starting"]
         /\ claim' = [claim EXCEPT ![c] = "live"]
  BY DEF Launch
<1>5. /\ mine' \in Seq(Child) /\ Len(mine') \in {Len(mine), Len(mine) + 1}
      /\ \A d \in Child : d \in Spawned => d \in Spawned'
      /\ mine' # mine => c \in Spawned'
  <2>1. CASE mine' = mine
    BY <2>1 DEF IInv, TypeOK, Spawned
  <2>2. CASE mine' = Append(mine, c)
    <3>1. /\ mine \in Seq(Child) /\ mine' \in Seq(Child) /\ Len(mine') = Len(mine) + 1
          /\ Len(mine) \in Nat
          /\ \A i \in 1 .. Len(mine) : mine'[i] = mine[i]
          /\ mine'[Len(mine) + 1] = c
      BY <2>2 DEF IInv, TypeOK
    <3>2. /\ DOMAIN mine = 1 .. Len(mine) /\ DOMAIN mine' = 1 .. Len(mine) + 1
          /\ DOMAIN mine \subseteq DOMAIN mine' /\ Len(mine) + 1 \in DOMAIN mine'
      BY <3>1
    <3>3. QED
      BY <3>1, <3>2 DEF Spawned, Range
  <2>3. QED
    BY <1>4, <2>1, <2>2
<1>6. /\ claim' \in [Child -> {"none", "live", "released"}]
      /\ \A d \in Child : claim[d] = "live" => claim'[d] = "live"
      /\ worker' \in [Child -> {"none", "done", "joined"} \cup Alive]
      /\ \A d \in Child \ {c} : worker'[d] = worker[d]
      /\ worker'[c] = "none" \/ (worker'[c] = "starting" /\ claim'[c] = "live")
  BY <1>1, <1>3, <1>4 DEF IInv, TypeOK, Alive
<1>7. TypeOK'
  <2>1. Len(mine') <= spent /\ next \in 1 .. Len(mine') + 1
    <3>1. /\ Len(mine) \in Nat /\ spent \in 0 .. MaxChildren /\ MaxChildren \in Nat
          /\ next \in 1 .. Len(mine) + 1
      BY SupervisorAssumption DEF IInv, TypeOK
    <3>2. QED
      BY <1>1, <1>5, <3>1
  <2>2. QED
    BY <1>1, <1>5, <1>6, <2>1 DEF IInv, TypeOK
<1>8. StepInv'
  BY <1>1, StepKinds DEF StepInv, At
<1>9. WorkerInv'
  <2>1. ASSUME NEW d \in Child
        PROVE  /\ attempt[d] = "absent" => worker'[d] = "none" /\ d \notin held
               /\ worker'[d] \in Alive => d \in held /\ claim'[d] = "live" /\ d \in Spawned'
               /\ worker'[d] = "joined" => d \notin held
               /\ worker'[d] \in {"done", "joined"} => report[d] # "none"
    <3>1. CASE d # c
      BY <1>5, <1>6, <3>1 DEF IInv, Inv, WorkerInv
    <3>2. CASE d = c /\ UNCHANGED <<mine, worker>>
      BY <1>1, <1>2, <3>2 DEF Alive
    <3>3. CASE d = c /\ mine' = Append(mine, c) /\ worker' = [worker EXCEPT ![c] = "starting"]
      <4>1. mine' # mine
        <5>1. PICK n \in Nat : n = Len(mine)
          BY DEF IInv, TypeOK
        <5>2. Len(mine') = n + 1
          BY <3>3, <5>1 DEF IInv, TypeOK
        <5>3. QED
          BY <5>1, <5>2
      <4>2. worker'[c] = "starting"
        BY <3>3 DEF IInv, TypeOK
      <4>3. QED
        BY <1>1, <1>2, <1>5, <1>6, <3>3, <4>1, <4>2
    <3>4. QED
      BY <1>4, <3>1, <3>2, <3>3
  <2>2. QED
    BY <1>1, <2>1 DEF WorkerInv
<1>10. FinishInv'
  BY <1>1 DEF FinishInv
<1>11. SlotInv'
  BY <1>1, Zenon DEF IInv, SlotInv, Wanted
<1>12. AnswerIsOnRecord'
  BY <1>1, <1>6 DEF IInv, AnswerIsOnRecord, Outcome
<1>13. QED
  BY <1>7, <1>8, <1>9, <1>10, <1>11, <1>12 DEF IInv, Inv

-----------------------------------------------------------------------------
(* A reap.                                                                 *)

\* What a settlement does to the record of the one attempt, for the answer
\* that is then shown.
LEMMA SettleStep ==
  ASSUME IInv, NEW c \in Child, attempt[c] # "absent",
         NEW r \in {"ok", "cancelled", "failed"}, Settle(c, r)
  PROVE  /\ Release(c)
         /\ \E q \in {"ok", "cancelled", "failed"}, a \in AttemptStates \ {"absent"} :
              /\ report' = [report EXCEPT ![c] = q]
              /\ attempt' = [attempt EXCEPT ![c] = a]
              /\ q # "failed" => a \in Outcome(q)
<1>1. attempt[c] \in AttemptStates \ {"absent"} /\ attempt = [attempt EXCEPT ![c] = attempt[c]]
  BY DEF IInv, TypeOK
<1>2. PICK g \in AttemptStates \ {"absent"} : g = Given(r) /\ g \in Outcome(r)
  <2>1. Given(r) \in Outcome(r) /\ Given(r) \in Outcomes
    BY GivenOutcome
  <2>2. Outcomes \subseteq AttemptStates \ {"absent"}
    BY DEF Outcomes, AttemptStates, Live
  <2>3. QED
    BY <2>1, <2>2
<1>3. CASE attempt' = [attempt EXCEPT ![c] = Given(r)]
           /\ report' \in {[report EXCEPT ![c] = r], [report EXCEPT ![c] = "failed"]}
  <2>1. attempt' = [attempt EXCEPT ![c] = g]
    BY <1>2, <1>3, Zenon
  <2>2. PICK q \in {r, "failed"} : report' = [report EXCEPT ![c] = q]
    BY <1>3
  <2>3. q # "failed" => g \in Outcome(q)
    BY <1>2, <2>2
  <2>4. QED
    BY <2>1, <2>2, <2>3 DEF Settle
<1>4. CASE attempt[c] \in Outcome(r) /\ report' = [report EXCEPT ![c] = r] /\ UNCHANGED attempt
  BY <1>1, <1>4 DEF Settle
<1>5. CASE report' = [report EXCEPT ![c] = "failed"] /\ UNCHANGED attempt
  BY <1>1, <1>5 DEF Settle
<1>6. QED
  BY <1>3, <1>4, <1>5 DEF Settle

LEMMA ReapSteps ==
  ASSUME IInv, NEW c \in Child, Reap(c)
  PROVE  IInv'
<1>1. /\ worker[c] = "done" /\ worker' = [worker EXCEPT ![c] = "joined"]
      /\ UNCHANGED <<turns, phase, spent, mine, known, kind, claim, disk, paused, token>>
      /\ \/ Open /\ UNCHANGED <<at, next>>
         \/ At("join", c) /\ at' = Idle /\ next' = next + 1
  BY DEF Reap, viewVars
<1>2. attempt[c] # "absent" /\ report[c] \in {"ok", "cancelled", "failed"}
  BY <1>1 DEF IInv, Inv, WorkerInv, TypeOK
<1>3. PICK r \in {"ok", "cancelled", "failed"} : Settle(c, r)
  BY <1>2 DEF Reap
<1>4. PICK q \in {"ok", "cancelled", "failed"}, a \in AttemptStates \ {"absent"} :
        /\ report' = [report EXCEPT ![c] = q]
        /\ attempt' = [attempt EXCEPT ![c] = a]
        /\ q # "failed" => a \in Outcome(q)
  BY <1>2, <1>3, SettleStep
<1>5. SlotInv' /\ inUse' \in [Keys -> Nat] /\ held' = held \ {c}
  BY <1>2, <1>3, SettleStep, ReleaseSlots DEF IInv
<1>6. /\ report' \in [Child -> {"none", "ok", "cancelled", "failed"}] /\ report'[c] = q
      /\ attempt' \in [Child -> AttemptStates] /\ attempt'[c] = a
      /\ worker' \in [Child -> {"none", "done", "joined"} \cup Alive] /\ worker'[c] = "joined"
      /\ \A d \in Child \ {c} : /\ worker'[d] = worker[d] /\ report'[d] = report[d]
                                /\ attempt'[d] = attempt[d]
  BY <1>1, <1>4 DEF IInv, TypeOK
<1>7. /\ mine \in Seq(Child) /\ Len(mine) \in Nat /\ DOMAIN mine = 1 .. Len(mine)
      /\ \A i \in 1 .. Len(mine) : mine[i] \in Child
      /\ next \in 1 .. Len(mine) + 1 /\ next \in Nat
  BY DEF IInv, TypeOK
<1>8. /\ at' = Idle
      /\ \/ phase = "open" /\ next' = next
         \/ phase = "ending" /\ next' = next + 1 /\ next \in 1 .. Len(mine) /\ mine[next] = c
  BY <1>1, <1>7 DEF Open, IInv, Inv, StepInv
<1>9. TypeOK'
  <2>1. next' \in 1 .. Len(mine) + 1
    BY <1>7, <1>8
  <2>2. held' \subseteq Child
    BY <1>5 DEF IInv, TypeOK
  <2>3. QED
    BY <1>1, <1>5, <1>6, <1>8, <2>1, <2>2 DEF IInv, TypeOK
<1>10. StepInv'
  BY <1>8, IdleStep, StepKinds DEF StepInv, At
<1>11. WorkerInv'
  <2>1. ASSUME NEW d \in Child
        PROVE  /\ attempt'[d] = "absent" => worker'[d] = "none" /\ d \notin held'
               /\ worker'[d] \in Alive => d \in held' /\ claim'[d] = "live" /\ d \in Spawned
               /\ worker'[d] = "joined" => d \notin held'
               /\ worker'[d] \in {"done", "joined"} => report'[d] # "none"
    <3>1. CASE d = c
      BY <1>4, <1>5, <1>6, <3>1 DEF Alive
    <3>2. CASE d # c
      BY <1>1, <1>5, <1>6, <3>2 DEF IInv, Inv, WorkerInv
    <3>3. QED
      BY <3>1, <3>2
  <2>2. Spawned' = Spawned
    BY <1>1 DEF Spawned
  <2>3. QED
    BY <2>1, <2>2 DEF WorkerInv
<1>12. FinishInv'
  <2>1. CASE phase = "open"
    BY <1>1, <2>1 DEF FinishInv
  <2>2. CASE phase = "ending" /\ next' = next + 1 /\ mine[next] = c
    <3>1. ASSUME NEW i \in 1 .. Len(mine), i < next' PROVE worker'[mine[i]] = "joined"
      <4>1. CASE mine[i] = c
        BY <1>6, <4>1
      <4>2. CASE mine[i] # c
        <5>1. i < next
          BY <1>7, <2>2, <3>1, <4>2
        <5>2. worker[mine[i]] = "joined"
          BY <2>2, <5>1 DEF IInv, Inv, FinishInv
        <5>3. QED
          BY <1>6, <1>7, <4>2, <5>2
      <4>3. QED
        BY <4>1, <4>2
    <3>2. QED
      BY <1>1, <2>2, <3>1 DEF FinishInv
  <2>3. QED
    BY <1>8, <2>1, <2>2
<1>13. AnswerIsOnRecord'
  <2>1. ASSUME NEW d \in Child, worker'[d] = "joined", report'[d] # "failed"
        PROVE  attempt'[d] \in Outcome(report'[d])
    <3>1. CASE d = c
      BY <1>4, <1>6, <2>1, <3>1
    <3>2. CASE d # c
      BY <1>6, <2>1, <3>2 DEF IInv, AnswerIsOnRecord
    <3>3. QED
      BY <3>1, <3>2
  <2>2. QED
    BY <2>1 DEF AnswerIsOnRecord, Outcome
<1>14. QED
  BY <1>5, <1>9, <1>10, <1>11, <1>12, <1>13 DEF IInv, Inv

-----------------------------------------------------------------------------
(* finish, and the next turn.                                              *)

LEMMA EndTurnStep ==
  ASSUME IInv, EndTurn
  PROVE  IInv'
<1>1. /\ at = Idle /\ phase' = "ending" /\ next' = 1
      /\ UNCHANGED <<turns, at, spent, mine, inUse, held, worker, report, known, kind, claim,
                     disk, attempt, paused, token>>
  BY DEF EndTurn, Open, slotVars, workVars, viewVars
<1>2. Len(mine) \in Nat
  BY DEF IInv, TypeOK
<1>3. TypeOK'
  BY <1>1, <1>2 DEF IInv, TypeOK
<1>4. StepInv'
  BY <1>1, StepKinds DEF StepInv, At
<1>5. WorkerInv'
  BY <1>1 DEF IInv, Inv, WorkerInv, Spawned
<1>6. FinishInv'
  BY <1>1, <1>2 DEF FinishInv
<1>7. SlotInv'
  BY <1>1, Zenon DEF IInv, SlotInv, Wanted
<1>8. AnswerIsOnRecord'
  BY <1>1, Zenon DEF IInv, AnswerIsOnRecord, Outcome
<1>9. QED
  BY <1>3, <1>4, <1>5, <1>6, <1>7, <1>8 DEF IInv, Inv

LEMMA FinishSkipStep ==
  ASSUME IInv, FinishSkip
  PROVE  IInv'
<1>1. /\ at = Idle /\ phase = "ending" /\ next' = next + 1 /\ next <= Len(mine)
      /\ worker[mine[next]] = "joined"
      /\ UNCHANGED <<turns, phase, at, spent, mine, inUse, held, worker, report, known, kind,
                     claim, disk, attempt, paused, token>>
  BY DEF FinishSkip, Ending, slotVars, workVars, viewVars
<1>2. Len(mine) \in Nat /\ next \in 1 .. Len(mine) + 1
  BY DEF IInv, TypeOK
<1>3. TypeOK'
  BY <1>1, <1>2 DEF IInv, TypeOK
<1>4. StepInv'
  BY <1>1, StepKinds DEF StepInv, At
<1>5. WorkerInv'
  BY <1>1 DEF IInv, Inv, WorkerInv, Spawned
<1>6. FinishInv'
  <2>1. ASSUME NEW i \in 1 .. Len(mine), i < next' PROVE worker[mine[i]] = "joined"
    <3>1. i < next \/ i = next
      BY <1>1, <1>2, <2>1
    <3>2. QED
      BY <1>1, <3>1 DEF IInv, Inv, FinishInv
  <2>2. QED
    BY <1>1, <2>1 DEF FinishInv
<1>7. SlotInv'
  BY <1>1, Zenon DEF IInv, SlotInv, Wanted
<1>8. AnswerIsOnRecord'
  BY <1>1, Zenon DEF IInv, AnswerIsOnRecord, Outcome
<1>9. QED
  BY <1>3, <1>4, <1>5, <1>6, <1>7, <1>8 DEF IInv, Inv

LEMMA FinishCancelStep ==
  ASSUME IInv, FinishCancel
  PROVE  IInv'
<1>1. PICK c \in Child :
        /\ c = mine[next] /\ worker[c] # "joined" /\ next \in DOMAIN mine
        /\ at = Idle /\ phase = "ending"
        /\ at' = [step |-> "join", child |-> c] /\ token' = token \cup {c}
        /\ CancelRecorded(c) \/ UNCHANGED attempt
        /\ UNCHANGED <<turns, phase, spent, mine, next, inUse, held, worker, report, known, kind,
                       claim, disk, paused>>
  <2>1. next \in DOMAIN mine /\ mine[next] \in Child
    BY DEF FinishCancel, IInv, TypeOK
  <2>2. QED
    BY <2>1 DEF FinishCancel, Ending, slotVars, workVars, viewVars
<1>2. /\ attempt' \in [Child -> AttemptStates]
      /\ \A d \in Child : /\ attempt'[d] = "absent" => attempt[d] = "absent"
                          /\ attempt'[d] = attempt[d] \/ attempt[d] \notin Outcomes
  BY <1>1, CancelStep DEF IInv
<1>3. TypeOK'
  BY <1>1, <1>2 DEF IInv, TypeOK, Busy
<1>4. StepInv'
  BY <1>1, StepKinds DEF StepInv, At
<1>5. WorkerInv'
  <2>1. Spawned' = Spawned
    BY <1>1 DEF Spawned
  <2>2. QED
    BY <1>1, <1>2, <2>1 DEF IInv, Inv, WorkerInv
<1>6. FinishInv'
  BY <1>1 DEF IInv, Inv, FinishInv
<1>7. SlotInv'
  BY <1>1, Zenon DEF IInv, SlotInv, Wanted
<1>8. AnswerIsOnRecord'
  <2>1. ASSUME NEW d \in Child, worker[d] = "joined", report[d] # "failed"
        PROVE  attempt'[d] \in Outcome(report[d])
    BY <2>1, <1>2, GivenOutcome DEF IInv, AnswerIsOnRecord
  <2>2. QED
    BY <1>1, <2>1 DEF AnswerIsOnRecord, Outcome
<1>9. QED
  BY <1>3, <1>4, <1>5, <1>6, <1>7, <1>8 DEF IInv, Inv

\* Every child of a turn that has passed them all is joined.
LEMMA AllJoined ==
  ASSUME IInv, phase \in {"ending", "over"}, next = Len(mine) + 1
  PROVE  \A c \in Child : /\ c \in Spawned => worker[c] = "joined" /\ c \notin held
                          /\ worker[c] \notin Alive
<1>1. Len(mine) \in Nat /\ DOMAIN mine = 1 .. Len(mine)
  BY DEF IInv, TypeOK
<1>2. ASSUME NEW c \in Spawned PROVE worker[c] = "joined"
  <2>1. PICK i \in 1 .. Len(mine) : mine[i] = c
    BY <1>1 DEF Spawned, Range
  <2>2. i < next
    BY <1>1, <2>1
  <2>3. QED
    BY <2>1, <2>2 DEF IInv, Inv, FinishInv
<1>3. "joined" \notin Alive
  BY DEF Alive
<1>4. QED
  BY <1>2, <1>3 DEF IInv, Inv, WorkerInv

LEMMA ReleaseStep ==
  ASSUME IInv, NEW kept \in SUBSET Spawned, ReleaseViews(kept)
  PROVE  IInv'
<1>1. /\ at = Idle /\ phase = "ending" /\ next > Len(mine) /\ phase' = "over"
      /\ disk' \subseteq disk
      /\ claim' = [c \in Child |-> IF c \in Spawned \ kept THEN "released" ELSE claim[c]]
      /\ UNCHANGED <<turns, at, spent, mine, next, inUse, held, worker, report, known, kind,
                     attempt, paused, token>>
  BY DEF ReleaseViews, Ending, slotVars, workVars
<1>2. next = Len(mine) + 1 /\ Len(mine) \in Nat
  BY <1>1 DEF IInv, TypeOK
<1>3. \A c \in Child : worker[c] \notin Alive
  BY <1>1, <1>2, AllJoined
<1>4. TypeOK'
  BY <1>1 DEF IInv, TypeOK
<1>5. StepInv'
  BY <1>1, StepKinds DEF StepInv, At
<1>6. WorkerInv'
  BY <1>1, <1>3 DEF IInv, Inv, WorkerInv
<1>7. FinishInv'
  BY <1>1, <1>2 DEF IInv, Inv, FinishInv
<1>8. SlotInv'
  BY <1>1, Zenon DEF IInv, SlotInv, Wanted
<1>9. AnswerIsOnRecord'
  BY <1>1, Zenon DEF IInv, AnswerIsOnRecord, Outcome
<1>10. QED
  BY <1>4, <1>5, <1>6, <1>7, <1>8, <1>9 DEF IInv, Inv

LEMMA NoneTaken ==
  Cardinality({}) = 0 /\ \A k \in Keys : 0 = 0 * Wanted(k) /\ 0 <= Limit[k]
<1>1. Cardinality({}) = 0
  BY FS_EmptySet
<1>2. ASSUME NEW k \in Keys PROVE 0 = 0 * Wanted(k) /\ 0 <= Limit[k]
  BY WantedType, SupervisorAssumption
<1>3. QED
  BY <1>1, <1>2

LEMMA BeginStep ==
  ASSUME IInv, BeginTurn
  PROVE  IInv'
<1>1. /\ phase = "over" /\ turns < MaxTurns /\ turns' = turns + 1 /\ phase' = "open"
      /\ spent' = 0 /\ mine' = <<>> /\ next' = 1
      /\ inUse' = [k \in Keys |-> 0] /\ held' = {} /\ known' = FALSE
      /\ UNCHANGED <<at, worker, report, kind, claim, disk, attempt, paused, token>>
  BY DEF BeginTurn, workVars
<1>2. next = Len(mine) + 1 /\ at = Idle
  BY <1>1 DEF IInv, Inv, FinishInv
<1>3. \A c \in Child : worker[c] \notin Alive
  BY <1>1, <1>2, AllJoined
<1>4. TypeOK'
  <2>1. turns' \in 1 .. MaxTurns /\ spent' \in 0 .. MaxChildren
    BY <1>1, SupervisorAssumption DEF IInv, TypeOK
  <2>2. mine' \in Seq(Child) /\ Len(mine') = 0
    BY <1>1
  <2>3. Len(mine') <= spent' /\ next' \in 1 .. Len(mine') + 1
    BY <1>1, <2>2
  <2>4. inUse' \in [Keys -> Nat] /\ held' \subseteq Child /\ known' \in BOOLEAN
    BY <1>1
  <2>5. QED
    BY <1>1, <2>1, <2>2, <2>3, <2>4 DEF IInv, TypeOK
<1>5. StepInv'
  BY <1>1, <1>2, StepKinds DEF StepInv, At
<1>6. WorkerInv'
  BY <1>1, <1>3 DEF IInv, Inv, WorkerInv
<1>7. FinishInv'
  BY <1>1 DEF FinishInv
<1>8. SlotInv'
  <2>1. held' = {} /\ \A k \in Keys : inUse'[k] = 0
    BY <1>1
  <2>2. QED
    BY <2>1, NoneTaken DEF SlotInv, Wanted
<1>9. AnswerIsOnRecord'
  BY <1>1, Zenon DEF IInv, AnswerIsOnRecord, Outcome
<1>10. QED
  BY <1>4, <1>5, <1>6, <1>7, <1>8, <1>9 DEF IInv, Inv

-----------------------------------------------------------------------------
(* The invariant.                                                          *)

LEMMA InitHolds ==
  ASSUME Init
  PROVE  IInv
<1>1. TypeOK
  <2>1. turns \in 1 .. MaxTurns /\ spent \in 0 .. MaxChildren
    BY SupervisorAssumption DEF Init
  <2>2. mine \in Seq(Child) /\ Len(mine) = 0
    BY DEF Init
  <2>3. Len(mine) <= spent /\ next \in 1 .. Len(mine) + 1
    BY <2>2 DEF Init
  <2>4. inUse \in [Keys -> Nat] /\ attempt \in [Child -> AttemptStates]
    BY DEF Init, AttemptStates
  <2>5. QED
    BY <2>1, <2>2, <2>3, <2>4 DEF Init, TypeOK
<1>2. StepInv
  BY IdleStep DEF Init
<1>3. WorkerInv
  BY DEF Init, WorkerInv, Alive
<1>4. FinishInv
  BY DEF Init, FinishInv
<1>5. SlotInv
  <2>1. held = {} /\ \A k \in Keys : inUse[k] = 0
    BY DEF Init
  <2>2. QED
    BY <2>1, NoneTaken DEF SlotInv
<1>6. AnswerIsOnRecord
  BY DEF Init, AnswerIsOnRecord
<1>7. QED
  BY <1>1, <1>2, <1>3, <1>4, <1>5, <1>6 DEF IInv, Inv

LEMMA StutterHolds ==
  ASSUME IInv, UNCHANGED vars
  PROVE  IInv'
<1>1. UNCHANGED <<turns, phase, at, spent, mine, next, inUse, held, known, kind,
                  attempt, paused, worker, report, token, claim, disk>>
  BY DEF vars
<1>2. TypeOK'
  BY <1>1 DEF IInv, TypeOK
<1>3. Inv'
  BY <1>1 DEF IInv, Inv, StepInv, WorkerInv, FinishInv, At, Spawned
<1>4. SlotInv'
  BY <1>1, Zenon DEF IInv, SlotInv, Wanted
<1>5. AnswerIsOnRecord'
  BY <1>1, Zenon DEF IInv, AnswerIsOnRecord, Outcome
<1>6. QED
  BY <1>2, <1>3, <1>4, <1>5 DEF IInv

LEMMA NextHolds ==
  ASSUME IInv, [Next]_vars
  PROVE  IInv'
<1>1. CASE Turn
  BY <1>1, ViewSteps, LaunchSteps, ReapSteps, FinishSkipStep, FinishCancelStep, ReleaseStep
     DEF Turn
<1>2. CASE Asks
  BY <1>2, StopSteps, SpawnSteps, EndTurnStep, BeginStep DEF Asks
<1>3. CASE Outside
  BY <1>3, OutsideSteps
<1>4. CASE \E c \in Child : Worker(c) \/ PollFails(c) \/ Panic(c)
  BY <1>4, WorkerSteps
<1>5. CASE UNCHANGED vars
  BY <1>5, StutterHolds
<1>6. QED
  BY <1>1, <1>2, <1>3, <1>4, <1>5 DEF Next

\* The inductive invariant of the supervisor, its workers and finish.
THEOREM Inductive == Spec => []IInv
<1>1. Init => IInv
  BY InitHolds
<1>2. IInv /\ [Next]_vars => IInv'
  BY NextHolds
<1>3. QED
  BY <1>1, <1>2, PTL DEF Spec

\* Every variable stays in its type: finish never runs past its list, and no
\* turn spawns more than its allowance.
THEOREM TypeCorrect == Spec => []TypeOK
<1>1. IInv => TypeOK
  BY DEF IInv
<1>2. QED
  BY <1>1, Inductive, PTL

\* Scheduler's counts are what the held attempts took and within the limits,
\* and a running thread's slots and claim are its own.
THEOREM SlotsAreCovered == Spec => []SlotsCoverWorkers
<1>1. IInv => SlotsCoverWorkers
  BY Zenon DEF IInv, Inv, SlotInv, WorkerInv, SlotsCoverWorkers
<1>2. QED
  BY <1>1, Inductive, PTL

\* What reap shows the parent is the outcome on record.
THEOREM RecordedAnswers == Spec => []AnswerIsOnRecord
<1>1. IInv => AnswerIsOnRecord
  BY DEF IInv
<1>2. QED
  BY <1>1, Inductive, PTL

\* finish leaves no thread and no slot behind.
THEOREM EndedTurnIsQuiet == Spec => []EndedTurnStopsItsChildren
<1>1. IInv => EndedTurnStopsItsChildren
  <2>1. ASSUME IInv, phase = "over" PROVE next = Len(mine) + 1
    BY <2>1 DEF IInv, Inv, FinishInv
  <2>2. QED
    BY <2>1, AllJoined DEF EndedTurnStopsItsChildren
<1>2. QED
  BY <1>1, Inductive, PTL

\* Nothing but another process's housekeeping removes the tree a running
\* child works in.
THEOREM ViewsStay == Spec => WorkingViewStays
<1> DEFINE Kept(c) ==
      worker[c] \in Alive /\ View(c) \in disk
        => \/ View(c) \in disk' \/ worker'[c] \notin Alive
           \/ \E v \in Views : Prune(v)
<1>1. ASSUME IInv, [Next]_vars, NEW c \in Child, worker[c] \in Alive, View(c) \in disk
      PROVE  \/ View(c) \in disk'
             \/ \E v \in Views : Prune(v)
  <2>1. CASE Turn
    <3>1. ASSUME NEW kept \in SUBSET Spawned, ReleaseViews(kept) PROVE FALSE
      <4>1. phase = "ending" /\ next = Len(mine) + 1
        BY <1>1, <3>1 DEF ReleaseViews, Ending, IInv, TypeOK
      <4>2. QED
        BY <1>1, <4>1, AllJoined
    <3>2. CASE \E d \in Child : CutView(d)
      BY <1>1, <3>2 DEF CutView, CutWriter, ShareReader
    <3>3. CASE \E d \in Child : Launch(d) \/ Reap(d)
      BY <1>1, <3>3 DEF Launch, Reap, viewVars
    <3>4. CASE FinishSkip \/ FinishCancel
      BY <1>1, <3>4 DEF FinishSkip, FinishCancel, viewVars
    <3>5. QED
      BY <2>1, <3>1, <3>2, <3>3, <3>4 DEF Turn
  <2>2. CASE Asks
    BY <1>1, <2>2 DEF Asks, SpawnRefused, Spawn, Stop, EndTurn, BeginTurn, viewVars
  <2>3. CASE Outside
    <3>1. CASE \E v \in Prunable : Prune(v)
      BY <3>1, SupervisorAssumption DEF Views
    <3>2. CASE \E d \in Child : \/ OperatorCancel(d) \/ OperatorRetry(d) \/ Expire(d)
                                \/ OperatorPause(d) \/ OperatorResume(d)
      BY <1>1, <3>2 DEF OperatorCancel, OperatorRetry, Expire, OperatorPause, OperatorResume,
                        Elsewhere, viewVars
    <3>3. QED
      BY <2>3, <3>1, <3>2 DEF Outside
  <2>4. CASE \E d \in Child : Worker(d) \/ PollFails(d) \/ Panic(d)
    BY <1>1, <2>4 DEF Worker, Start, Poll, Call, PollFails, Panic, viewVars
  <2>5. CASE UNCHANGED vars
    BY <1>1, <2>5 DEF vars
  <2>6. QED
    BY <1>1, <2>1, <2>2, <2>3, <2>4, <2>5 DEF Next
<1>2. IInv /\ [Next]_vars => [\A c \in Child : Kept(c)]_vars
  BY <1>1
<1>3. QED
  BY <1>2, Inductive, PTL DEF Spec, WorkingViewStays
=============================================================================
