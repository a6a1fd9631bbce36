-------------------------- MODULE CommitLoopProofs --------------------------
(***************************************************************************)
(* The commit loop implements EventLog for any number of views, of roots   *)
(* and of tries, and any log length; and a command that gives up has met   *)
(* as many events of others as it had tries.                               *)
(***************************************************************************)
EXTENDS CommitLoop, FiniteSetTheorems, TLAPS

\* What was decided stays decidable: the prefix a view folded is a prefix of
\* the stream, and its event was built on that prefix.
FoldedBy(w) ==
  /\ seen[w] <= Len(log)
  /\ pc[w] \in {"idle", "check", "append"} => sub[w] = "none"
  /\ pc[w] = "append" => EL!Decidable(seen[w], draft[w].kind, draft[w].root)
  /\ sub[w] = "append" => target[w] \in EL!Open(seen[w])

Folded == \A w \in Writers : FoldedBy(w)

\* Every event of the stream was a decision on the events before it.
Decided ==
  \A i \in 1 .. Len(log) :
    log[i].basis = i - 1 /\ EL!Decidable(i - 1, log[i].kind, log[i].root)

\* The types; that no view is past the stream's end is in FoldedBy.
Typed ==
  /\ log \in Seq(Events)
  /\ seen \in [Writers -> Nat]
  /\ pc \in [Writers -> Places]
  /\ try \in [Writers -> 1 .. CommitAttempts]
  /\ draft \in [Writers -> Drafts]
  /\ sub \in [Writers -> SubPlaces]
  /\ subtry \in [Writers -> 1 .. CommitAttempts]
  /\ target \in [Writers -> Roots \cup {None}]
  /\ since \in [Writers -> Nat]

IInv == Typed /\ Folded /\ Decided

\* A step writes nothing, or one event decided on the whole stream.
Grows ==
  \E w \in Writers \cup {Outsider}, k \in {"plain", "stop", "block"},
     r \in Roots \cup {None} : EL!Commit(w, k, r)

-----------------------------------------------------------------------------
(* The stream.                                                             *)

\* Appending does not change what a prefix holds.
LEMMA PrefixHas ==
  ASSUME log \in Seq(Events), NEW e \in Events, log' = Append(log, e),
         NEW n \in 0 .. Len(log), NEW k, NEW r
  PROVE  EL!Has(n, k, r)' <=> EL!Has(n, k, r)
<1>1. \A i \in 1 .. n : log'[i] = log[i]
  OBVIOUS
<1>2. QED
  BY <1>1 DEF EL!Has

LEMMA PrefixOpen ==
  ASSUME log \in Seq(Events), NEW e \in Events, log' = Append(log, e),
         NEW n \in 0 .. Len(log)
  PROVE  /\ EL!Open(n)' = EL!Open(n)
         /\ \A k, r : EL!Decidable(n, k, r)' <=> EL!Decidable(n, k, r)
<1>1. ASSUME NEW k, NEW r PROVE EL!Has(n, k, r)' <=> EL!Has(n, k, r)
  BY PrefixHas
<1>2. EL!Open(n)' = EL!Open(n)
  BY <1>1 DEF EL!Open
<1>3. QED
  BY <1>1, <1>2 DEF EL!Decidable

\* An accepted append is a commit of the abstract stream.
LEMMA CommitType ==
  ASSUME NEW w \in Writers \cup {Outsider}, log \in Seq(Events),
         NEW k \in {"plain", "stop", "block"}, NEW r \in Roots \cup {None},
         log' = Append(log, EL!Event(w, Len(log), k, r))
  PROVE  /\ EL!Event(w, Len(log), k, r) \in Events
         /\ log' \in Seq(Events)
         /\ Len(log') = Len(log) + 1
<1>1. EL!Event(w, Len(log), k, r) \in Events
  BY DEF EL!Event, Events
<1>2. QED
  BY <1>1

\* The decisions already in the stream stand, and a commit adds one.
LEMMA CommitDecided ==
  ASSUME log \in Seq(Events), Decided,
         NEW w \in Writers \cup {Outsider},
         NEW k \in {"plain", "stop", "block"}, NEW r \in Roots \cup {None},
         EL!Commit(w, k, r)
  PROVE  Decided'
<1> DEFINE e == EL!Event(w, Len(log), k, r)
<1>1. /\ log' = Append(log, e)
      /\ EL!Decidable(Len(log), k, r)
  BY DEF EL!Commit
<1>2. e \in Events /\ Len(log') = Len(log) + 1
  BY <1>1, CommitType
<1>3. SUFFICES ASSUME NEW i \in 1 .. Len(log) + 1
               PROVE  (log[i].basis = i - 1
                         /\ EL!Decidable(i - 1, log[i].kind, log[i].root))'
  BY <1>2 DEF Decided
<1>4. i - 1 \in 0 .. Len(log) /\ \A j \in 1 .. i - 1 : log'[j] = log[j]
  BY <1>1, <1>2
<1>5. PICK ev \in {log'[i]} : ev.basis = i - 1 /\ EL!Decidable(i - 1, ev.kind, ev.root)
  <2>1. CASE i = Len(log) + 1
    <3>1. log'[i] = e
      BY <1>1, <1>2, <2>1
    <3>2. e.basis = i - 1 /\ e.kind = k /\ e.root = r
      BY <2>1 DEF EL!Event
    <3>3. EL!Decidable(i - 1, k, r)
      BY <1>1, <2>1
    <3>4. QED
      BY <3>1, <3>2, <3>3
  <2>2. CASE i \in 1 .. Len(log)
    <3>1. log'[i] = log[i]
      BY <1>1, <1>2, <2>2
    <3>2. log[i].basis = i - 1 /\ EL!Decidable(i - 1, log[i].kind, log[i].root)
      BY <2>2 DEF Decided
    <3>3. QED
      BY <3>1, <3>2
  <2>3. QED
    BY <2>1, <2>2
<1>6. QED
  BY <1>4, <1>5 DEF EL!Decidable, EL!Open, EL!Has

-----------------------------------------------------------------------------
(* Types.                                                                  *)

LEMMA InitTyped == Init => Typed
  BY CommitLoopAssumption DEF Init, Typed, Places, SubPlaces, Drafts, Blank

LEMMA LeaveTyped ==
  ASSUME Typed, NEW w \in Writers, Leave(w)
  PROVE  /\ pc' \in [Writers -> Places]
         /\ try' \in [Writers -> 1 .. CommitAttempts]
         /\ draft' \in [Writers -> Drafts]
         /\ since' \in [Writers -> Nat]
  BY CommitLoopAssumption DEF Typed, Leave, Places, Drafts, Blank

LEMMA SubDoneTyped ==
  ASSUME Typed, NEW w \in Writers, SubDone(w)
  PROVE  /\ sub' \in [Writers -> SubPlaces]
         /\ subtry' \in [Writers -> 1 .. CommitAttempts]
         /\ target' \in [Writers -> Roots \cup {None}]
  BY CommitLoopAssumption DEF Typed, SubDone, SubPlaces

LEMMA StepGrows ==
  ASSUME IInv, [Next]_vars
  PROVE  UNCHANGED log \/ Grows
<1>1. ASSUME NEW w \in Writers, SubAccepted(w) PROVE Grows
  <2>1. target[w] \in EL!Open(Len(log)) /\ target[w] \in Roots
    BY <1>1 DEF IInv, Folded, FoldedBy, SubAccepted, EL!Open
  <2>2. EL!Commit(w, "block", target[w])
    BY <1>1, <2>1 DEF EL!Commit, EL!Decidable, SubAccepted
  <2>3. QED
    BY <2>1, <2>2 DEF Grows
<1>2. ASSUME NEW w \in Writers, Accepted(w) PROVE Grows
  <2>1. EL!Decidable(Len(log), draft[w].kind, draft[w].root)
    BY <1>2 DEF IInv, Folded, FoldedBy, Accepted
  <2>2. /\ draft[w].kind \in {"plain", "stop", "block"}
        /\ draft[w].root \in Roots \cup {None}
    BY DEF IInv, Typed, Drafts
  <2>3. EL!Commit(w, draft[w].kind, draft[w].root)
    BY <1>2, <2>1 DEF EL!Commit, Accepted
  <2>4. QED
    BY <2>2, <2>3 DEF Grows
<1>3. ASSUME OutsideAppend PROVE Grows
  <2>1. EL!Commit(Outsider, "plain", None)
    BY <1>3 DEF EL!Commit, EL!Decidable, OutsideAppend
  <2>2. QED
    BY <2>1 DEF Grows
<1>4. ASSUME NEW w \in Writers,
             \/ Begin(w) \/ Crash(w) \/ (\E r \in Roots : DrainPick(w, r))
             \/ SubBuild(w) \/ SubNothing(w) \/ SubConflict(w) \/ SubGivesUp(w)
             \/ CatchUp(w) \/ (\E d \in Drafts : Build(w, d)) \/ BuildNothing(w)
             \/ Conflict(w) \/ GivesUp(w) \/ Return(w)
      PROVE  UNCHANGED log
  BY <1>4 DEF Begin, Crash, DrainPick, SubBuild, SubNothing, SubConflict, SubGivesUp,
       CatchUp, Build, BuildNothing, Conflict, GivesUp, Return
<1>5. QED
  BY <1>1, <1>2, <1>3, <1>4 DEF Next, Run, vars

LEMMA GrowsTyped ==
  ASSUME Typed, UNCHANGED log \/ Grows
  PROVE  log' \in Seq(Events) /\ Len(log') >= Len(log)
<1>1. CASE Grows
  <2>1. PICK w \in Writers \cup {Outsider}, k \in {"plain", "stop", "block"},
             r \in Roots \cup {None} : EL!Commit(w, k, r)
    BY <1>1 DEF Grows
  <2>2. log' = Append(log, EL!Event(w, Len(log), k, r))
    BY <2>1 DEF EL!Commit
  <2>3. log \in Seq(Events) /\ Len(log) \in Nat
    BY DEF Typed
  <2>4. log' \in Seq(Events) /\ Len(log') = Len(log) + 1
    BY <2>2, <2>3, CommitType
  <2>5. QED
    BY <2>3, <2>4
<1>2. QED
  BY <1>1 DEF Typed

\* Every step keeps the types; the stream's is GrowsTyped.
LEMMA StepTyped ==
  ASSUME IInv, [Next]_vars
  PROVE  Typed'
<1> USE DEF IInv, outer, inner
<1>1. log' \in Seq(Events) /\ Len(log') \in Nat
  BY StepGrows, GrowsTyped
<1>2. ASSUME NEW w \in Writers, NEW r \in Roots, DrainPick(w, r) PROVE Typed'
  BY <1>1, <1>2 DEF DrainPick, Typed, SubPlaces
<1>3. ASSUME NEW w \in Writers, SubBuild(w) PROVE Typed'
  BY <1>1, <1>3 DEF SubBuild, Typed, SubPlaces
<1>4. ASSUME NEW w \in Writers, SubNothing(w) PROVE Typed'
  BY <1>1, <1>4, SubDoneTyped DEF SubNothing, Typed
<1>5. ASSUME NEW w \in Writers, SubAccepted(w) PROVE Typed'
  BY <1>1, <1>5, SubDoneTyped DEF SubAccepted, Typed
<1>6. ASSUME NEW w \in Writers, SubConflict(w) PROVE Typed'
  <2>1. subtry[w] + 1 \in 1 .. CommitAttempts
    BY <1>6, CommitLoopAssumption DEF SubConflict, Typed
  <2>2. QED
    BY <1>1, <1>6, <2>1 DEF SubConflict, Typed, SubPlaces
<1>7. ASSUME NEW w \in Writers, SubGivesUp(w) PROVE Typed'
  BY <1>1, <1>7, SubDoneTyped, LeaveTyped DEF SubGivesUp, Typed
<1>8. ASSUME NEW w \in Writers, Begin(w) PROVE Typed'
  BY <1>1, <1>8 DEF Begin, Typed, Places
<1>9. ASSUME NEW w \in Writers, CatchUp(w) PROVE Typed'
  BY <1>1, <1>9 DEF CatchUp, Typed, Places
<1>10. ASSUME NEW w \in Writers, NEW d \in Drafts, Build(w, d) PROVE Typed'
  BY <1>1, <1>10 DEF Build, Typed, Places
<1>11. ASSUME NEW w \in Writers, BuildNothing(w) PROVE Typed'
  BY <1>1, <1>11, LeaveTyped DEF BuildNothing, Typed
<1>12. ASSUME NEW w \in Writers, Accepted(w) PROVE Typed'
  BY <1>1, <1>12 DEF Accepted, Typed, Places, Drafts, Blank
<1>13. ASSUME NEW w \in Writers, Conflict(w) PROVE Typed'
  <2>1. try[w] + 1 \in 1 .. CommitAttempts
    BY <1>13, CommitLoopAssumption DEF Conflict, Typed
  <2>2. QED
    BY <1>1, <1>13, <2>1 DEF Conflict, Typed, Places, Drafts, Blank
<1>14. ASSUME NEW w \in Writers, GivesUp(w) PROVE Typed'
  BY <1>1, <1>14, LeaveTyped DEF GivesUp, Typed
<1>15. ASSUME NEW w \in Writers, Return(w) PROVE Typed'
  BY <1>1, <1>15, LeaveTyped DEF Return, Typed
<1>16. ASSUME OutsideAppend PROVE Typed'
  BY <1>1, <1>16 DEF OutsideAppend, Typed
<1>17. ASSUME NEW w \in Writers, Crash(w) PROVE Typed'
  BY <1>1, <1>17, SubDoneTyped, LeaveTyped DEF Crash, Typed
<1>18. CASE UNCHANGED vars
  BY <1>18 DEF vars, Typed
<1>19. QED
  BY <1>2, <1>3, <1>4, <1>5, <1>6, <1>7, <1>8, <1>9, <1>10, <1>11, <1>12, <1>13,
     <1>14, <1>15, <1>16, <1>17, <1>18 DEF Next, Run

-----------------------------------------------------------------------------
(* The folded prefix.                                                      *)

\* What the stream's prefixes hold never changes.
LEMMA PrefixStands ==
  ASSUME Typed, UNCHANGED log \/ Grows, NEW n \in 0 .. Len(log)
  PROVE  /\ EL!Open(n)' = EL!Open(n)
         /\ \A k, r : EL!Decidable(n, k, r)' <=> EL!Decidable(n, k, r)
<1>1. log \in Seq(Events)
  BY DEF Typed
<1>2. CASE Grows
  <2>1. PICK w \in Writers \cup {Outsider}, k \in {"plain", "stop", "block"},
             r \in Roots \cup {None} : EL!Commit(w, k, r)
    BY <1>2 DEF Grows
  <2>2. log' = Append(log, EL!Event(w, Len(log), k, r))
    BY <2>1 DEF EL!Commit
  <2>3. EL!Event(w, Len(log), k, r) \in Events
    BY <1>1, <2>2, CommitType
  <2>4. QED
    BY <1>1, <2>2, <2>3, PrefixOpen
<1>3. CASE UNCHANGED log
  BY <1>3 DEF EL!Open, EL!Decidable, EL!Has
<1>4. QED
  BY <1>2, <1>3

\* A view that does not move keeps what it decided, whatever is appended.
LEMMA OthersStand ==
  ASSUME IInv, [Next]_vars, NEW w \in Writers,
         seen'[w] = seen[w], pc'[w] = pc[w], draft'[w] = draft[w],
         sub'[w] = sub[w], target'[w] = target[w]
  PROVE  FoldedBy(w)'
<1>1. seen[w] \in 0 .. Len(log) /\ Len(log') >= Len(log) /\ Len(log') \in Nat
  <2>1. log \in Seq(Events) /\ seen[w] \in Nat /\ seen[w] <= Len(log)
    BY DEF IInv, Typed, Folded, FoldedBy
  <2>2. log' \in Seq(Events) /\ Len(log') >= Len(log)
    BY StepGrows, GrowsTyped DEF IInv
  <2>3. QED
    BY <2>1, <2>2
<1>2. /\ EL!Open(seen[w])' = EL!Open(seen[w])
      /\ \A k, r : EL!Decidable(seen[w], k, r)' <=> EL!Decidable(seen[w], k, r)
  BY <1>1, StepGrows, PrefixStands DEF IInv, Typed, Folded, FoldedBy
<1>3. QED
  BY <1>1, <1>2 DEF IInv, Folded, FoldedBy

\* Every step keeps every view's event built on the prefix it folded.
LEMMA StepFolded ==
  ASSUME IInv, [Next]_vars
  PROVE  Folded'
<1> USE DEF outer, inner
<1>1. SUFFICES ASSUME NEW v \in Writers PROVE FoldedBy(v)'
  BY DEF Folded
<1>2. /\ Typed /\ Typed' /\ FoldedBy(v)
      /\ log \in Seq(Events) /\ log' \in Seq(Events)
      /\ Len(log) \in Nat /\ Len(log') \in Nat
  <2>1. Typed /\ Typed' /\ FoldedBy(v)
    BY StepTyped DEF IInv, Folded
  <2>2. log \in Seq(Events) /\ log' \in Seq(Events)
    BY <2>1 DEF Typed
  <2>3. QED
    BY <2>1, <2>2
<1>3. ASSUME seen'[v] <= Len(log'), sub'[v] = "none", pc'[v] # "append"
      PROVE  FoldedBy(v)'
  BY <1>3 DEF FoldedBy
<1>4. ASSUME NEW w \in Writers, w # v, Begin(w) \/ Run(w) \/ Crash(w)
      PROVE  FoldedBy(v)'
  <2>1. /\ seen'[v] = seen[v] /\ pc'[v] = pc[v] /\ draft'[v] = draft[v]
        /\ sub'[v] = sub[v] /\ target'[v] = target[v]
    BY <1>2, <1>4 DEF Typed, Begin, Run, Crash, DrainPick, SubBuild, SubNothing,
         SubAccepted, SubConflict, SubGivesUp, CatchUp, Build, BuildNothing,
         Accepted, Conflict, GivesUp, Return, Leave, SubDone
  <2>2. QED
    BY <2>1, OthersStand
<1>5. ASSUME NEW r \in Roots, DrainPick(v, r) PROVE FoldedBy(v)'
  BY <1>2, <1>5 DEF DrainPick, FoldedBy, Typed
<1>6. ASSUME SubBuild(v) PROVE FoldedBy(v)'
  <2>1. EL!Open(Len(log))' = EL!Open(Len(log))
    BY <1>6 DEF SubBuild, EL!Open, EL!Has
  <2>2. QED
    BY <1>2, <1>6, <2>1 DEF SubBuild, FoldedBy, Typed
<1>7. ASSUME SubNothing(v) PROVE FoldedBy(v)'
  BY <1>2, <1>7 DEF SubNothing, SubDone, FoldedBy, Typed
<1>8. ASSUME SubAccepted(v) PROVE FoldedBy(v)'
  <2>1. seen'[v] <= Len(log')
    BY <1>2, <1>8 DEF SubAccepted, Typed
  <2>2. QED
    BY <1>2, <1>8, <2>1 DEF SubAccepted, SubDone, FoldedBy, Typed
<1>9. ASSUME SubConflict(v) PROVE FoldedBy(v)'
  BY <1>2, <1>9 DEF SubConflict, FoldedBy, Typed
<1>10. ASSUME SubGivesUp(v) PROVE FoldedBy(v)'
  BY <1>2, <1>3, <1>10 DEF SubGivesUp, SubDone, Leave, FoldedBy, Typed
<1>11. ASSUME Begin(v) PROVE FoldedBy(v)'
  BY <1>2, <1>3, <1>11 DEF Begin, FoldedBy, Typed
<1>12. ASSUME CatchUp(v) PROVE FoldedBy(v)'
  BY <1>2, <1>3, <1>12 DEF CatchUp, DrainReturned, FoldedBy, Typed
<1>13. ASSUME NEW d \in Drafts, Build(v, d) PROVE FoldedBy(v)'
  <2>1. EL!Decidable(seen[v], d.kind, d.root)
    BY <1>13 DEF Build
  <2>2. log' = log /\ seen' = seen /\ draft'[v] = d
    BY <1>2, <1>13 DEF Build, Typed
  <2>3. (EL!Decidable(seen[v], draft[v].kind, draft[v].root))'
    BY <2>1, <2>2 DEF EL!Decidable, EL!Open, EL!Has
  <2>4. QED
    BY <1>2, <1>13, <2>3 DEF Build, DrainReturned, FoldedBy, Typed
<1>14. ASSUME BuildNothing(v) PROVE FoldedBy(v)'
  BY <1>2, <1>3, <1>14 DEF BuildNothing, DrainReturned, Leave, FoldedBy, Typed
<1>15. ASSUME Accepted(v) PROVE FoldedBy(v)'
  <2>1. seen'[v] <= Len(log')
    BY <1>2, <1>15 DEF Accepted, Typed
  <2>2. QED
    BY <1>2, <1>3, <1>15, <2>1 DEF Accepted, FoldedBy, Typed
<1>16. ASSUME Conflict(v) PROVE FoldedBy(v)'
  BY <1>2, <1>3, <1>16 DEF Conflict, FoldedBy, Typed
<1>17. ASSUME GivesUp(v) PROVE FoldedBy(v)'
  BY <1>2, <1>3, <1>17 DEF GivesUp, Leave, FoldedBy, Typed
<1>18. ASSUME Return(v) PROVE FoldedBy(v)'
  BY <1>2, <1>3, <1>18 DEF Return, DrainReturned, Leave, FoldedBy, Typed
<1>19. ASSUME Crash(v) PROVE FoldedBy(v)'
  BY <1>2, <1>3, <1>19 DEF Crash, SubDone, Leave, FoldedBy, Typed
<1>20. ASSUME OutsideAppend \/ UNCHANGED vars PROVE FoldedBy(v)'
  BY <1>20, OthersStand DEF OutsideAppend, vars
<1>21. ASSUME Run(v) PROVE FoldedBy(v)'
  BY <1>5, <1>6, <1>7, <1>8, <1>9, <1>10, <1>12, <1>13, <1>14, <1>15, <1>16,
     <1>17, <1>18, <1>21 DEF Run
<1>22. QED
  BY <1>4, <1>11, <1>19, <1>20, <1>21 DEF Next

-----------------------------------------------------------------------------
(* The theorems.                                                           *)

LEMMA StepInvariant == IInv /\ [Next]_vars => IInv'
<1> SUFFICES ASSUME IInv, [Next]_vars PROVE IInv'
  OBVIOUS
<1>1. Typed' /\ Folded'
  BY StepTyped, StepFolded
<1>2. Decided'
  <2>1. CASE Grows
    <3>1. PICK w \in Writers \cup {Outsider}, k \in {"plain", "stop", "block"},
               r \in Roots \cup {None} : EL!Commit(w, k, r)
      BY <2>1 DEF Grows
    <3>2. log \in Seq(Events) /\ Decided
      BY DEF IInv, Typed
    <3>3. QED
      BY <3>1, <3>2, CommitDecided
  <2>2. CASE UNCHANGED log
    <3>1. SUFFICES ASSUME NEW i \in 1 .. Len(log)
                   PROVE  (log[i].basis = i - 1
                             /\ EL!Decidable(i - 1, log[i].kind, log[i].root))'
      BY <2>2 DEF Decided
    <3>2. log[i].basis = i - 1 /\ EL!Decidable(i - 1, log[i].kind, log[i].root)
      BY DEF IInv, Decided
    <3>3. QED
      BY <2>2, <3>2 DEF EL!Decidable, EL!Open, EL!Has
  <2>3. QED
    BY <2>1, <2>2, StepGrows
<1>3. QED
  BY <1>1, <1>2 DEF IInv

\* The loop's types, and the two facts everything rests on: an append that
\* the store accepts was decided on the whole stream, and stays decided.
THEOREM Invariant == Spec => []IInv
<1>1. Init => IInv
  <2> SUFFICES ASSUME Init PROVE IInv
    OBVIOUS
  <2>1. Folded
    BY DEF Init, Folded, FoldedBy
  <2>2. Decided
    BY DEF Init, Decided
  <2>3. QED
    BY <2>1, <2>2, InitTyped DEF IInv
<1>2. QED
  BY <1>1, StepInvariant, PTL DEF Spec

\* Types of the commit loop's state, for any number of views: the tries of
\* both loops stay within the limit and no view folds past the stream.
THEOREM TypeCorrect == Spec => []TypeOK
<1>1. IInv => TypeOK
  BY DEF IInv, Typed, Folded, FoldedBy, TypeOK
<1>2. QED
  BY <1>1, Invariant, PTL

\* commit_if and append: every event was decided on exactly its prefix.
THEOREM WholePrefix == Spec => []DecidedOnWholePrefix
<1>1. IInv => DecidedOnWholePrefix
  BY DEF IInv, Typed, Decided, DecidedOnWholePrefix
<1>2. QED
  BY <1>1, Invariant, PTL

\* reconcile_blocked: one durable block per dependent, after its cause.
THEOREM OneBlock == Spec => []BlockedOnce
<1>1. IInv => BlockedOnce
  <2> SUFFICES ASSUME IInv, NEW i \in DOMAIN log, log[i].kind = "block"
               PROVE  /\ \E j \in 1 .. i - 1 : log[j].kind = "stop" /\ log[j].root = log[i].root
                      /\ \A j \in DOMAIN log :
                           log[j].kind = "block" /\ log[j].root = log[i].root => j = i
    BY DEF BlockedOnce
  <2>1. log \in Seq(Events) /\ DOMAIN log = 1 .. Len(log) /\ Len(log) \in Nat
    BY DEF IInv, Typed
  <2>2. \A j \in 1 .. Len(log) : log[j].kind = "block" => log[j].root \in EL!Open(j - 1)
    BY DEF IInv, Decided, EL!Decidable
  <2>3. \A j \in 1 .. Len(log) : log[j].kind = "block" =>
          /\ EL!Has(j - 1, "stop", log[j].root)
          /\ ~EL!Has(j - 1, "block", log[j].root)
    BY <2>2 DEF EL!Open
  <2>4. ASSUME NEW j \in 1 .. Len(log), NEW k \in 1 .. Len(log), j < k,
               log[j].kind = "block", log[k].kind = "block"
        PROVE  log[j].root # log[k].root
    BY <2>3, <2>4 DEF EL!Has
  <2>5. QED
    BY <2>1, <2>3, <2>4 DEF EL!Has
<1>2. QED
  BY <1>1, Invariant, PTL

\* commit_if implements the atomic, append-only stream: each of its steps is
\* one commit of EventLog or leaves the stream alone.
THEOREM Refinement == Spec => ImplementsEventLog
<1>1. Init => EL!Init
  BY DEF Init, EL!Init
<1>2. IInv /\ [Next]_vars => [EL!Next]_log
  BY StepGrows DEF Grows, EL!Next
<1>3. QED
  BY <1>1, <1>2, Invariant, PTL DEF Spec, ImplementsEventLog, EL!Spec

-----------------------------------------------------------------------------
(* What a view met.                                                        *)

\* The events of others a view folded since its command began.
Met(w) == {i \in 1 .. seen[w] : i > since[w] /\ log[i].by # w}

\* A view's own events are folded as they land, so that an append refused is
\* one of somebody else's; each try but the first follows one.
Tried(w) ==
  /\ since[w] <= Len(log)
  /\ \A i \in 1 .. Len(log) : i > seen[w] => log[i].by # w
  /\ pc[w] \in {"build", "append"} \/ sub[w] = "append" => since[w] <= seen[w]
  /\ pc[w] = "idle" => try[w] = 1
  /\ sub[w] = "none" => subtry[w] = 1
  /\ try[w] <= Cardinality(Met(w)) + 1
  /\ subtry[w] <= Cardinality(Met(w)) + 1

Counted == \A w \in Writers : Tried(w)

LEMMA LogTyped ==
  ASSUME IInv
  PROVE  /\ log \in Seq(Events) /\ Len(log) \in Nat /\ DOMAIN log = 1 .. Len(log)
         /\ \A w \in Writers : /\ seen[w] \in 0 .. Len(log) /\ since[w] \in Nat
                               /\ try[w] \in Nat /\ subtry[w] \in Nat
<1>1. log \in Seq(Events)
  BY DEF IInv, Typed
<1>2. QED
  BY <1>1 DEF IInv, Typed, Folded, FoldedBy

LEMMA MetFinite ==
  ASSUME IInv, NEW w \in Writers
  PROVE  IsFiniteSet(Met(w)) /\ Cardinality(Met(w)) \in Nat
<1>1. seen[w] \in Int /\ 1 \in Int
  BY LogTyped
<1>2. IsFiniteSet(1 .. seen[w])
  BY <1>1, FS_Interval
<1>3. Met(w) \subseteq 1 .. seen[w]
  BY DEF Met
<1>4. QED
  BY <1>2, <1>3, FS_Subset, FS_CardinalityType

\* A view that folds on meets no less, and what it has not folded is of others.
LEMMA MetGrows ==
  ASSUME IInv, IInv', NEW w \in Writers, Tried(w),
         seen[w] <= seen'[w], since'[w] = since[w],
         \/ UNCHANGED log
         \/ \E e \in Events : log' = Append(log, e) /\ (e.by = w => seen'[w] = Len(log) + 1)
  PROVE  /\ since'[w] <= Len(log')
         /\ \A i \in 1 .. Len(log') : i > seen'[w] => log'[i].by # w
         /\ Cardinality(Met(w)) <= Cardinality(Met(w)')
         /\ Cardinality(Met(w)) \in Nat /\ Cardinality(Met(w)') \in Nat
<1> DEFINE n == Len(log)
<1>1. /\ n \in Nat /\ Len(log') \in Nat /\ n <= Len(log')
      /\ \A i \in 1 .. n : log'[i] = log[i]
      /\ \A i \in 1 .. Len(log') : i > n => i = n + 1 /\ (log'[i].by = w => seen'[w] = n + 1)
  <2>1. log \in Seq(Events) /\ n \in Nat
    BY LogTyped
  <2>2. CASE UNCHANGED log
    BY <2>1, <2>2
  <2>3. ASSUME NEW e \in Events, log' = Append(log, e), e.by = w => seen'[w] = n + 1
        PROVE  <1>1!1 /\ <1>1!2 /\ <1>1!3
    BY <2>1, <2>3
  <2>4. QED
    BY <2>2, <2>3
<1>2. /\ seen[w] \in 0 .. n /\ seen'[w] \in 0 .. Len(log') /\ since[w] \in Nat
      /\ since[w] <= n /\ \A i \in 1 .. n : i > seen[w] => log[i].by # w
  <2>1. seen'[w] \in 0 .. Len(log')
    BY <1>1 DEF IInv, Typed, Folded, FoldedBy
  <2>2. QED
    BY <2>1, LogTyped DEF Tried
<1> HIDE DEF n
<1>3. Met(w) \subseteq Met(w)'
  BY <1>1, <1>2 DEF Met
<1>4. IsFiniteSet(Met(w)') /\ Cardinality(Met(w)') \in Nat /\ Cardinality(Met(w)) \in Nat
  <2>1. Met(w)' \subseteq 1 .. Len(log')
    BY <1>2 DEF Met
  <2>2. IsFiniteSet(1 .. Len(log'))
    BY <1>1, FS_Interval
  <2>3. QED
    BY <2>1, <2>2, MetFinite, FS_Subset, FS_CardinalityType
<1>5. Cardinality(Met(w)) <= Cardinality(Met(w)')
  BY <1>3, <1>4, FS_Subset
<1>6. \A i \in 1 .. Len(log') : i > seen'[w] => log'[i].by # w
  BY <1>1, <1>2
<1>7. QED
  BY <1>1, <1>2, <1>4, <1>5, <1>6

\* A refused append is one more event of another writer.
LEMMA MetMore ==
  ASSUME IInv, NEW w \in Writers, Tried(w), since[w] <= seen[w], seen[w] # Len(log),
         NEW S, S = {i \in 1 .. Len(log) : i > since[w] /\ log[i].by # w}
  PROVE  IsFiniteSet(S) /\ Cardinality(S) \in Nat /\ Cardinality(S) >= Cardinality(Met(w)) + 1
<1> DEFINE n == Len(log)
<1>1. /\ n \in Nat /\ seen[w] \in 0 .. n /\ since[w] \in Nat /\ seen[w] < n /\ n \in 1 .. n
      /\ log[n].by # w
  <2>1. n \in Nat /\ seen[w] \in 0 .. n /\ since[w] \in Nat
    BY LogTyped
  <2>2. QED
    BY <2>1 DEF Tried
<1>2. IsFiniteSet(1 .. n)
  BY <1>1, FS_Interval
<1> DEFINE M == Met(w) \cup {n}
<1>3. M \subseteq S /\ S \subseteq 1 .. n /\ n \notin Met(w)
  <2> HIDE DEF n
  <2>1. Met(w) \subseteq 1 .. seen[w] /\ \A i \in Met(w) : i > since[w] /\ log[i].by # w
    BY DEF Met
  <2>2. S = {i \in 1 .. n : i > since[w] /\ log[i].by # w}
    BY DEF n
  <2>3. QED
    BY <1>1, <2>1, <2>2
<1>4. IsFiniteSet(S) /\ Cardinality(S) \in Nat
  BY <1>2, <1>3, FS_Subset, FS_CardinalityType
<1>5. IsFiniteSet(Met(w)) /\ Cardinality(Met(w)) \in Nat
  BY MetFinite
<1>6. Cardinality(M) = Cardinality(Met(w)) + 1
  BY <1>3, <1>5, FS_AddElement
<1>7. Cardinality(M) <= Cardinality(S)
  BY <1>3, <1>4, FS_Subset
<1>8. QED
  BY <1>4, <1>5, <1>6, <1>7

\* What a view at rest in a step keeps, and what one that acts must show.
LEMMA TriedBy ==
  ASSUME IInv, IInv', NEW w \in Writers, Tried(w),
         seen[w] <= seen'[w], since'[w] = since[w],
         \/ UNCHANGED log
         \/ \E e \in Events : log' = Append(log, e) /\ (e.by = w => seen'[w] = Len(log) + 1),
         try'[w] \in {1, try[w]}, subtry'[w] \in {1, subtry[w]},
         pc'[w] \in {"build", "append"} \/ sub'[w] = "append" => since[w] <= seen'[w],
         pc'[w] = "idle" => try'[w] = 1, sub'[w] = "none" => subtry'[w] = 1
  PROVE  Tried(w)'
<1>1. /\ since'[w] <= Len(log')
      /\ \A i \in 1 .. Len(log') : i > seen'[w] => log'[i].by # w
      /\ Cardinality(Met(w)) <= Cardinality(Met(w)')
      /\ Cardinality(Met(w)) \in Nat /\ Cardinality(Met(w)') \in Nat
  BY MetGrows
<1>2. try[w] \in Nat /\ subtry[w] \in Nat
  BY LogTyped
<1>3. try[w] <= Cardinality(Met(w)) + 1 /\ subtry[w] <= Cardinality(Met(w)) + 1
  BY DEF Tried
<1>4. try'[w] <= Cardinality(Met(w)') + 1 /\ subtry'[w] <= Cardinality(Met(w)') + 1
  BY <1>1, <1>2, <1>3
<1>5. QED
  BY <1>1, <1>4 DEF Tried

\* A command begins or ends: its tries start again.
LEMMA TriedAnew ==
  ASSUME IInv, IInv', NEW w \in Writers, Tried(w), UNCHANGED log,
         seen'[w] \in {seen[w], Len(log)}, since'[w] \in {0, Len(log)},
         try'[w] = 1, sub'[w] = "none", subtry'[w] = 1, pc'[w] \in {"idle", "start"}
  PROVE  Tried(w)'
<1>1. Len(log) \in Nat /\ log' = log /\ seen[w] <= Len(log)
  BY LogTyped
<1>2. Met(w)' \subseteq 1 .. Len(log)
  BY <1>1 DEF Met, IInv, Typed, Folded, FoldedBy
<1>3. Cardinality(Met(w)') \in Nat
  <2>1. IsFiniteSet(1 .. Len(log))
    BY <1>1, FS_Interval
  <2>2. QED
    BY <1>2, <2>1, FS_Subset, FS_CardinalityType
<1>4. QED
  BY <1>1, <1>3 DEF Tried

\* A view's append is its own event, on the whole stream.
LEMMA Appends ==
  ASSUME IInv, NEW w \in Writers, SubAccepted(w) \/ Accepted(w)
  PROVE  \E e \in Events : log' = Append(log, e) /\ e.by = w
<1>1. PICK k \in {"plain", "stop", "block"}, r \in Roots \cup {None} :
        log' = Append(log, EL!Event(w, Len(log), k, r))
  <2>1. CASE SubAccepted(w)
    <3>1. log' = Append(log, EL!Event(w, Len(log), "block", target[w]))
      BY <2>1 DEF SubAccepted
    <3>2. target[w] \in Roots \cup {None}
      BY DEF IInv, Typed
    <3>3. QED
      BY <3>1, <3>2
  <2>2. CASE Accepted(w)
    <3>1. log' = Append(log, EL!Event(w, Len(log), draft[w].kind, draft[w].root))
      BY <2>2 DEF Accepted
    <3>2. draft[w].kind \in {"plain", "stop", "block"} /\ draft[w].root \in Roots \cup {None}
      BY DEF IInv, Typed, Drafts
    <3>3. QED
      BY <3>1, <3>2
  <2>3. QED
    BY <2>1, <2>2
<1>2. log \in Seq(Events) /\ EL!Event(w, Len(log), k, r) \in Events
  BY <1>1, LogTyped, CommitType
<1>3. EL!Event(w, Len(log), k, r).by = w
  BY DEF EL!Event
<1>4. QED
  BY <1>1, <1>2, <1>3

LEMMA StepTried ==
  ASSUME IInv, Counted, [Next]_vars
  PROVE  Counted'
<1> USE DEF outer, inner
<1>1. SUFFICES ASSUME NEW v \in Writers PROVE Tried(v)'
  BY DEF Counted
<1>2. /\ IInv /\ IInv' /\ Typed /\ Tried(v)
      /\ log \in Seq(Events) /\ Len(log) \in Nat /\ seen[v] \in 0 .. Len(log)
  BY StepInvariant, LogTyped DEF Counted, IInv
<1>3. ASSUME NEW w \in Writers, w # v, Begin(w) \/ Run(w) \/ Crash(w)
      PROVE  Tried(v)'
  <2>1. /\ seen'[v] = seen[v] /\ pc'[v] = pc[v] /\ try'[v] = try[v] /\ since'[v] = since[v]
        /\ sub'[v] = sub[v] /\ subtry'[v] = subtry[v]
    BY <1>2, <1>3 DEF Typed, Begin, Run, Crash, DrainPick, SubBuild, SubNothing,
         SubAccepted, SubConflict, SubGivesUp, CatchUp, Build, BuildNothing,
         Accepted, Conflict, GivesUp, Return, Leave, SubDone
  <2>2. UNCHANGED log \/ \E e \in Events : log' = Append(log, e) /\ e.by # v
    <3>1. CASE SubAccepted(w) \/ Accepted(w)
      BY <1>2, <1>3, <3>1, Appends
    <3>2. QED
      BY <1>3, <3>1 DEF Begin, Run, Crash, DrainPick, SubBuild, SubNothing, SubConflict,
         SubGivesUp, CatchUp, Build, BuildNothing, Conflict, GivesUp, Return
  <2>3. seen[v] <= seen'[v]
    BY <1>2, <2>1
  <2>4. QED
    BY <1>2, <2>1, <2>2, <2>3, TriedBy DEF Tried
<1>4. ASSUME NEW r \in Roots, DrainPick(v, r) PROVE Tried(v)'
  <2>1. /\ UNCHANGED <<log, seen, pc, try, subtry, since>> /\ sub'[v] = "check"
    BY <1>2, <1>4 DEF DrainPick, Typed
  <2>2. QED
    BY <1>2, <2>1, TriedBy DEF Tried
<1>5. ASSUME SubBuild(v) PROVE Tried(v)'
  <2>1. /\ UNCHANGED <<log, pc, try, subtry, since>> /\ sub'[v] = "append" /\ seen'[v] = Len(log)
        /\ sub[v] = "check"
    BY <1>2, <1>5 DEF SubBuild, Typed
  <2>2. QED
    BY <1>2, <2>1, TriedBy DEF Tried
<1>6. ASSUME SubNothing(v) PROVE Tried(v)'
  <2>1. /\ UNCHANGED <<log, pc, try, since>> /\ sub'[v] = "none" /\ subtry'[v] = 1
        /\ seen'[v] = Len(log)
    BY <1>2, <1>6 DEF SubNothing, SubDone, Typed
  <2>2. QED
    BY <1>2, <2>1, TriedBy DEF Tried
<1>7. ASSUME SubAccepted(v) PROVE Tried(v)'
  <2>1. /\ UNCHANGED <<pc, try, since>> /\ sub'[v] = "none" /\ subtry'[v] = 1
        /\ seen'[v] = Len(log) + 1 /\ seen[v] = Len(log)
    BY <1>2, <1>7 DEF SubAccepted, SubDone, Typed
  <2>2. seen[v] <= seen'[v] /\ since[v] <= seen'[v]
    BY <1>2, <2>1, LogTyped DEF Tried
  <2>3. QED
    BY <1>2, <1>7, <2>1, <2>2, Appends, TriedBy DEF Tried
<1>8. ASSUME SubConflict(v) PROVE Tried(v)'
  <2>1. /\ UNCHANGED <<log, pc, try, since>> /\ sub[v] = "append" /\ sub'[v] = "check"
        /\ subtry'[v] = subtry[v] + 1 /\ seen'[v] = Len(log) /\ seen[v] # Len(log)
    BY <1>2, <1>8 DEF SubConflict, Typed
  <2>2. Met(v)' = {i \in 1 .. Len(log) : i > since[v] /\ log[i].by # v} /\ since[v] <= seen[v]
    BY <1>2, <2>1 DEF Met, Tried
  <2>3. Cardinality(Met(v)') \in Nat /\ Cardinality(Met(v)') >= Cardinality(Met(v)) + 1
    BY <1>2, <2>1, <2>2, MetMore
  <2>4. Cardinality(Met(v)) \in Nat /\ try[v] \in Nat /\ subtry[v] \in Nat /\ since[v] \in Nat
    BY MetFinite, LogTyped
  <2>5. QED
    BY <1>2, <2>1, <2>2, <2>3, <2>4 DEF Tried
<1>9. ASSUME SubGivesUp(v) PROVE Tried(v)'
  <2>1. /\ UNCHANGED <<log, seen>> /\ sub'[v] = "none" /\ subtry'[v] = 1 /\ try'[v] = 1
        /\ pc'[v] = "idle" /\ since'[v] = 0
    BY <1>2, <1>9 DEF SubGivesUp, SubDone, Leave, Typed
  <2>2. QED
    BY <1>2, <2>1, TriedAnew
<1>10. ASSUME Begin(v) PROVE Tried(v)'
  <2>1. sub[v] = "none" /\ try[v] = 1 /\ subtry[v] = 1
    BY <1>2, <1>10 DEF Begin, Tried, IInv, Folded, FoldedBy
  <2>2. /\ UNCHANGED <<log, seen, try, sub, subtry>> /\ pc'[v] = "start" /\ since'[v] = Len(log)
    BY <1>2, <1>10 DEF Begin, Typed
  <2>3. QED
    BY <1>2, <2>1, <2>2, TriedAnew
<1>11. ASSUME CatchUp(v) PROVE Tried(v)'
  <2>1. /\ UNCHANGED <<log, try, sub, subtry, since>> /\ pc'[v] = "build" /\ seen'[v] = Len(log)
    BY <1>2, <1>11 DEF CatchUp, Typed
  <2>2. QED
    BY <1>2, <2>1, TriedBy DEF Tried
<1>12. ASSUME NEW d \in Drafts, Build(v, d) PROVE Tried(v)'
  <2>1. /\ UNCHANGED <<log, seen, try, sub, subtry, since>> /\ pc[v] = "build" /\ pc'[v] = "append"
    BY <1>2, <1>12 DEF Build, Typed
  <2>2. QED
    BY <1>2, <2>1, TriedBy DEF Tried
<1>13. ASSUME BuildNothing(v) \/ GivesUp(v) \/ Return(v) PROVE Tried(v)'
  <2>1. /\ UNCHANGED <<log, seen, sub, subtry>> /\ sub[v] = "none"
        /\ pc'[v] = "idle" /\ try'[v] = 1 /\ since'[v] = 0
    BY <1>2, <1>13 DEF BuildNothing, GivesUp, Return, Leave, DrainReturned, Typed, IInv, Folded, FoldedBy
  <2>2. QED
    BY <1>2, <2>1, TriedAnew DEF Tried
<1>14. ASSUME Accepted(v) PROVE Tried(v)'
  <2>1. /\ UNCHANGED <<try, sub, subtry, since>> /\ pc'[v] = "after" /\ sub[v] = "none"
        /\ seen'[v] = Len(log) + 1 /\ seen[v] = Len(log)
    BY <1>2, <1>14 DEF Accepted, Typed, IInv, Folded, FoldedBy
  <2>2. seen[v] <= seen'[v]
    BY <1>2, <2>1
  <2>3. QED
    BY <1>2, <1>14, <2>1, <2>2, Appends, TriedBy DEF Tried
<1>15. ASSUME Conflict(v) PROVE Tried(v)'
  <2>1. /\ UNCHANGED <<log, sub, subtry, since>> /\ pc[v] = "append" /\ pc'[v] = "check"
        /\ sub[v] = "none" /\ try'[v] = try[v] + 1 /\ seen'[v] = Len(log) /\ seen[v] # Len(log)
    BY <1>2, <1>15 DEF Conflict, Typed, IInv, Folded, FoldedBy
  <2>2. Met(v)' = {i \in 1 .. Len(log) : i > since[v] /\ log[i].by # v} /\ since[v] <= seen[v]
    BY <1>2, <2>1 DEF Met, Tried
  <2>3. Cardinality(Met(v)') \in Nat /\ Cardinality(Met(v)') >= Cardinality(Met(v)) + 1
    BY <1>2, <2>1, <2>2, MetMore
  <2>4. Cardinality(Met(v)) \in Nat /\ try[v] \in Nat /\ subtry[v] \in Nat /\ since[v] \in Nat
    BY MetFinite, LogTyped
  <2>5. QED
    BY <1>2, <2>1, <2>2, <2>3, <2>4 DEF Tried
<1>16. ASSUME Crash(v) PROVE Tried(v)'
  <2>1. /\ UNCHANGED log /\ sub'[v] = "none" /\ subtry'[v] = 1 /\ try'[v] = 1
        /\ pc'[v] = "idle" /\ since'[v] = 0 /\ seen'[v] = Len(log)
    BY <1>2, <1>16 DEF Crash, SubDone, Leave, Typed
  <2>2. QED
    BY <1>2, <2>1, TriedAnew
<1>17. ASSUME OutsideAppend \/ UNCHANGED vars PROVE Tried(v)'
  <2>1. /\ UNCHANGED <<seen, pc, try, sub, subtry, since>>
        /\ UNCHANGED log \/ \E e \in Events : log' = Append(log, e) /\ e.by # v
    <3>1. CASE UNCHANGED vars
      BY <3>1 DEF vars
    <3>2. CASE OutsideAppend
      <4>1. log' = Append(log, EL!Event(Outsider, Len(log), "plain", None))
        BY <3>2 DEF OutsideAppend
      <4>2. EL!Event(Outsider, Len(log), "plain", None) \in Events
        BY <1>2, <4>1, CommitType
      <4>3. EL!Event(Outsider, Len(log), "plain", None).by # v
        BY CommitLoopAssumption DEF EL!Event
      <4>4. QED
        BY <3>2, <4>1, <4>2, <4>3 DEF OutsideAppend
    <3>3. QED
      BY <1>17, <3>1, <3>2
  <2>2. seen[v] <= seen'[v]
    BY <1>2, <2>1
  <2>3. QED
    BY <1>2, <2>1, <2>2, TriedBy DEF Tried
<1>18. ASSUME Run(v) PROVE Tried(v)'
  BY <1>4, <1>5, <1>6, <1>7, <1>8, <1>9, <1>11, <1>12, <1>13, <1>14, <1>15, <1>18 DEF Run
<1>19. QED
  BY <1>3, <1>10, <1>16, <1>17, <1>18 DEF Next

\* The tries of a command are counted by the events it met.
THEOREM TriesCounted == Spec => []Counted
<1>1. Init => Counted
  <2> SUFFICES ASSUME Init, NEW w \in Writers PROVE Tried(w)
    BY DEF Counted
  <2>1. Met(w) = {}
    BY DEF Init, Met
  <2>2. Cardinality(Met(w)) = 0
    BY <2>1, FS_EmptySet
  <2>3. QED
    BY <2>2 DEF Init, Tried
<1>2. IInv /\ Counted /\ [Next]_vars => Counted'
  BY StepTried
<1>3. QED
  BY <1>1, <1>2, Invariant, PTL DEF Spec

\* commit_if: "contended" is said only after as many events of others as tries.
THEOREM GivingUpIsEarned == Spec => GivingUpMeansOthersCommitted
<1> DEFINE A == \A w \in Writers : GivesUp(w) \/ SubGivesUp(w) =>
                                      Cardinality(Others(w)) >= CommitAttempts
<1>1. ASSUME IInv, Counted, NEW w \in Writers, GivesUp(w) \/ SubGivesUp(w)
      PROVE  Cardinality(Others(w)) >= CommitAttempts
  <2>1. Tried(w) /\ seen[w] # Len(log) /\ since[w] <= seen[w]
    BY <1>1 DEF Counted, Tried, GivesUp, SubGivesUp
  <2>2. Others(w) = {i \in 1 .. Len(log) : i > since[w] /\ log[i].by # w}
    BY <1>1, LogTyped DEF Others
  <2>3. Cardinality(Others(w)) \in Nat /\ Cardinality(Others(w)) >= Cardinality(Met(w)) + 1
    BY <1>1, <2>1, <2>2, MetMore
  <2>4. CommitAttempts <= Cardinality(Met(w)) + 1
    BY <1>1, <2>1 DEF Tried, GivesUp, SubGivesUp
  <2>5. Cardinality(Met(w)) \in Nat /\ CommitAttempts \in Nat
    BY <1>1, MetFinite, CommitLoopAssumption
  <2>6. QED
    BY <2>3, <2>4, <2>5
<1>2. IInv /\ Counted => A
  BY <1>1
<1>3. IInv /\ Counted /\ [Next]_vars => [A]_vars
  BY <1>2
<1>4. QED
  BY <1>3, Invariant, TriesCounted, PTL DEF Spec, GivingUpMeansOthersCommitted

=============================================================================
