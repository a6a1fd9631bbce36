-------------------------- MODULE ChildTurnProofs ---------------------------
(***************************************************************************)
(* A subagent's turn for any inbox, number of rounds, messages and calls.  *)
(***************************************************************************)
EXTENDS ChildTurn, TLAPS

\* The child's copy is the beginning of the inbox: only the child empties it,
\* and it catches up when it does.
ViewIsPrefix ==
  /\ Len(known) <= Len(inbox)
  /\ \A i \in 1 .. Len(known) : known[i] = inbox[i]
  /\ pc = "commit" => taking = known

\* Messages are numbered as they are sent: given, then waiting, then to come.
InOrder ==
  /\ \A i, j \in DOMAIN given : i < j => given[i] < given[j]
  /\ \A i, j \in DOMAIN inbox : i < j => inbox[i] < inbox[j]
  /\ \A i \in DOMAIN given, j \in DOMAIN inbox : given[i] < inbox[j]
  /\ \A i \in DOMAIN given : given[i] <= sent
  /\ \A i \in DOMAIN inbox : inbox[i] <= sent

\* What waited when the round began is in the child's copy until it is taken,
\* and then with the model, unless the delivery returned an error.
DueIsKnown ==
  /\ pc \in {"deliver", "commit"} => due \subseteq Range(known)
  /\ RoundSeesWhatWaited

\* Between a boundary and the call it let through nothing was late.
LateOnlyAfterCall ==
  cancelled \/ paused =>
    /\ late <= 1
    /\ pc \in {"deliver", "commit", "request", "invoke"} => late = 0

\* A call that is due has a round that is not the last one behind it.
RoundIsOpen ==
  /\ pc \notin {"done", "stopped", "ended"} => round < MaxRounds
  /\ pc \in {"tool", "beforeTool", "invoke"} => calls >= 1

IInv == TypeOK /\ RoundIsOpen /\ ViewIsPrefix /\ InOrder /\ DueIsKnown /\ LateOnlyAfterCall

-----------------------------------------------------------------------------
LEMMA EmptySeq == <<>> \in Seq(Messages) /\ Len(<<>>) = 0 /\ DOMAIN <<>> = {}
  OBVIOUS

LEMMA SeqValues ==
  ASSUME NEW s \in Seq(Messages)
  PROVE  /\ DOMAIN s = 1 .. Len(s) /\ Len(s) \in Nat
         /\ \A i \in DOMAIN s : s[i] \in Nat
         /\ Range(s) \subseteq Messages
<1>1. \A m \in Messages : m \in Nat
  BY ChildTurnAssumption DEF Messages
<1>2. DOMAIN s = 1 .. Len(s) /\ Len(s) \in Nat /\ \A i \in DOMAIN s : s[i] \in Messages
  OBVIOUS
<1>3. Range(s) \subseteq Messages
  BY <1>2 DEF Range
<1>4. QED
  BY <1>1, <1>2, <1>3

LEMMA LateCounts == ASSUME late \in Nat, Late PROVE late' \in {late, late + 1}
  BY Zenon DEF Late

\* Appending keeps what was there; nothing of either part is lost.
LEMMA RangeOfBoth ==
  ASSUME NEW s \in Seq(Messages), NEW t \in Seq(Messages)
  PROVE  Range(s) \cup Range(t) \subseteq Range(s \o t)
<1>1. \A i \in DOMAIN s : i \in DOMAIN (s \o t) /\ (s \o t)[i] = s[i]
  OBVIOUS
<1>2. ASSUME NEW i \in DOMAIN t
      PROVE  Len(s) + i \in DOMAIN (s \o t) /\ (s \o t)[Len(s) + i] = t[i]
  OBVIOUS
<1>3. QED
  BY <1>1, <1>2 DEF Range

LEMMA RangeOfAppend ==
  ASSUME NEW s \in Seq(Messages), NEW m \in Messages
  PROVE  Range(s) \subseteq Range(Append(s, m))
<1>1. \A i \in DOMAIN s : i \in DOMAIN Append(s, m) /\ Append(s, m)[i] = s[i]
  OBVIOUS
<1>2. QED
  BY <1>1 DEF Range

\* A prefix holds nothing the whole does not.
LEMMA KnownInInbox == TypeOK /\ ViewIsPrefix => Range(known) \subseteq Range(inbox)
<1> SUFFICES ASSUME TypeOK, ViewIsPrefix, NEW i \in DOMAIN known
             PROVE  i \in DOMAIN inbox /\ known[i] = inbox[i]
  BY DEF Range
<1>1. DOMAIN known = 1 .. Len(known) /\ DOMAIN inbox = 1 .. Len(inbox)
      /\ Len(known) \in Nat /\ Len(inbox) \in Nat
  BY SeqValues DEF TypeOK
<1>2. QED
  BY <1>1 DEF ViewIsPrefix

LEMMA InitHolds == Init => IInv
<1> SUFFICES ASSUME Init PROVE IInv
  OBVIOUS
<1>1. /\ paused \in BOOLEAN /\ flag \in BOOLEAN /\ open \in BOOLEAN /\ errored \in BOOLEAN
  BY Zenon DEF Init
<1>2. LateOnlyAfterCall
  BY DEF Init, LateOnlyAfterCall, cancelled
<1>3. TypeOK
  BY <1>1, EmptySeq, ChildTurnAssumption DEF Init, TypeOK, Places, Checks, Boundaries
<1>4. RoundIsOpen /\ ViewIsPrefix /\ InOrder /\ DueIsKnown
  BY EmptySeq, ChildTurnAssumption
  DEF Init, RoundIsOpen, ViewIsPrefix, InOrder, DueIsKnown, RoundSeesWhatWaited
<1>5. QED
  BY <1>2, <1>3, <1>4 DEF IInv

LEMMA NextTyped == IInv /\ [Next]_vars => TypeOK'
<1> SUFFICES ASSUME IInv, [Next]_vars PROVE TypeOK'
  OBVIOUS
<1> USE ChildTurnAssumption DEF IInv, TypeOK, Places, Checks, Boundaries
<1>1. CASE Send
  <2>1. sent + 1 \in Messages /\ sent' = sent + 1
    BY <1>1 DEF Send, Messages
  <2>2. inbox' \in Seq(Messages) /\ Len(inbox') = Len(inbox) + 1
    BY <1>1, <2>1 DEF Send
  <2>3. QED
    BY <1>1, <2>1, <2>2 DEF Send, control, turn
<1>2. CASE RequestCancel \/ RequestPause \/ Resume \/ SetFlag \/ TakenAway
  <2>1. paused' \in BOOLEAN /\ flag' \in BOOLEAN /\ open' \in BOOLEAN
    BY <1>2, Zenon DEF RequestCancel, RequestPause, Resume, SetFlag, TakenAway
  <2>2. late' \in Nat /\ attempt' \in {"running", "cancelling", "over"}
    BY <1>2 DEF RequestCancel, RequestPause, Resume, SetFlag, TakenAway
  <2>3. UNCHANGED <<mail, turn>>
    BY <1>2 DEF RequestCancel, RequestPause, Resume, SetFlag, TakenAway
  <2>4. QED
    BY <2>1, <2>2, <2>3 DEF mail, turn
<1>3. CASE FlagStops \/ FlagPasses \/ BoundaryStops \/ BoundaryFails \/ DeliverNothing
  BY <1>3 DEF FlagStops, FlagPasses, BoundaryStops, BoundaryFails, DeliverNothing,
              control, mail
<1>4. CASE BoundaryPasses
  <2>1. Range(inbox) \subseteq Messages
    BY DEF Range
  <2>2. errored' \in BOOLEAN
    BY <1>4, Zenon DEF BoundaryPasses
  <2>3. QED
    BY <1>4, <2>1, <2>2 DEF BoundaryPasses, control
<1>5. CASE DeliverRead
  BY <1>5 DEF DeliverRead, control
<1>6. CASE DeliverRefused \/ DeliverUnheard \/ DeliverCommit
  <2>1. /\ pc' \in Places /\ inbox' \in {inbox, <<>>}
        /\ known' \in {known, inbox, <<>>} /\ taking' = <<>>
    BY <1>6 DEF DeliverRefused, DeliverUnheard, DeliverCommit
  <2>2. given \o taking \in Seq(Messages)
    OBVIOUS
  <2>3. given' \in {given, given \o taking}
    BY <1>6 DEF DeliverRefused, DeliverUnheard, DeliverCommit
  <2>4. given' \in Seq(Messages)
    BY <2>2, <2>3
  <2>5. inbox' \in Seq(Messages) /\ Len(inbox') <= MaxInbox
        /\ known' \in Seq(Messages) /\ taking' \in Seq(Messages)
    <3>1. Len(<<>>) <= MaxInbox
      BY EmptySeq
    <3>2. QED
      BY <2>1, <3>1, EmptySeq, Zenon
  <2>6. /\ paused' \in BOOLEAN /\ flag' \in BOOLEAN /\ open' \in BOOLEAN
        /\ errored' \in BOOLEAN
    BY <1>6, Zenon DEF DeliverRefused, DeliverUnheard, DeliverCommit, control
  <2>7. sent' = sent /\ due' = due /\ UNCHANGED <<attempt, round, calls, late>>
    BY <1>6 DEF DeliverRefused, DeliverUnheard, DeliverCommit, control
  <2>8. unheard' \subseteq Messages
    BY <1>6, SeqValues DEF DeliverRefused, DeliverUnheard, DeliverCommit
  <2>9. QED
    BY <2>1, <2>4, <2>5, <2>6, <2>7, <2>8
<1>7. CASE \E n \in 0 .. MaxCalls : Request(n)
  <2>1. late' \in Nat
    BY <1>7, LateCounts DEF Request
  <2>2. QED
    BY <1>7, <2>1 DEF Request, mail, control
<1>8. CASE Invoke
  <2>1. late' \in Nat
    BY <1>8, LateCounts DEF Invoke
  <2>2. /\ round' \in 0 .. MaxRounds /\ calls' \in 0 .. MaxCalls /\ pc' \in Places
    BY <1>8 DEF Invoke, RoundIsOpen
  <2>3. QED
    BY <1>8, <2>1, <2>2 DEF Invoke, mail, control
<1>9. CASE Denied \/ Finish \/ FinishLost
  <2>1. late' \in Nat /\ pc' \in Places /\ attempt' \in {"running", "cancelling", "over"}
    BY <1>9, LateCounts DEF Denied, Finish, FinishLost, control
  <2>2. paused' \in BOOLEAN /\ flag' \in BOOLEAN /\ open' \in BOOLEAN
    BY <1>9, Zenon DEF Denied, Finish, FinishLost, control
  <2>3. UNCHANGED <<mail, round, calls>>
    BY <1>9 DEF Denied, Finish, FinishLost
  <2>4. QED
    BY <2>1, <2>2, <2>3 DEF mail
<1>10. CASE UNCHANGED vars
  BY <1>10 DEF vars, mail, control, turn
<1>11. QED
  BY <1>1, <1>2, <1>3, <1>4, <1>5, <1>6, <1>7, <1>8, <1>9, <1>10
  DEF Next, Child, Boundary, Deliver, Work, Outside

LEMMA NextRound == IInv /\ [Next]_vars => RoundIsOpen'
<1> SUFFICES ASSUME IInv, [Next]_vars PROVE RoundIsOpen'
  OBVIOUS
<1> USE ChildTurnAssumption DEF IInv, TypeOK, RoundIsOpen, Checks, Boundaries
<1>1. CASE UNCHANGED turn
  BY <1>1 DEF turn
<1>2. CASE Boundary \/ BoundaryFails
  BY <1>2 DEF Boundary, FlagStops, FlagPasses, BoundaryStops, BoundaryPasses, BoundaryFails
<1>3. CASE Deliver
  BY <1>3 DEF Deliver, DeliverNothing, DeliverRead, DeliverCommit, DeliverRefused,
              DeliverUnheard
<1>4. CASE \E n \in 0 .. MaxCalls : Request(n)
  BY <1>4 DEF Request
<1>5. CASE Invoke
  BY <1>5 DEF Invoke
<1>6. CASE Denied \/ Finish \/ FinishLost
  BY <1>6 DEF Denied, Finish, FinishLost
<1>7. CASE Outside \/ UNCHANGED vars
  <2>1. UNCHANGED turn
    BY <1>7 DEF Outside, Send, RequestCancel, RequestPause, Resume, SetFlag, TakenAway, vars
  <2>2. QED
    BY <1>1, <2>1
<1>8. QED
  BY <1>2, <1>3, <1>4, <1>5, <1>6, <1>7 DEF Next, Child, Work

LEMMA NextPrefix == IInv /\ [Next]_vars => ViewIsPrefix'
<1> SUFFICES ASSUME IInv, [Next]_vars PROVE ViewIsPrefix'
  OBVIOUS
<1> USE DEF IInv, TypeOK, ViewIsPrefix, Checks, Boundaries
<1>1. CASE Send
  BY <1>1 DEF Send, control, turn
<1>2. CASE RequestCancel \/ RequestPause \/ Resume \/ SetFlag \/ TakenAway
  BY <1>2 DEF RequestCancel, RequestPause, Resume, SetFlag, TakenAway, mail, turn
<1>3. CASE FlagStops \/ FlagPasses \/ BoundaryFails
  BY <1>3 DEF FlagStops, FlagPasses, BoundaryFails, mail
<1>4. CASE BoundaryStops \/ BoundaryPasses \/ DeliverRefused
  BY <1>4 DEF BoundaryStops, BoundaryPasses, DeliverRefused
<1>5. CASE DeliverNothing \/ DeliverRead \/ DeliverCommit \/ DeliverUnheard
  BY <1>5 DEF DeliverNothing, DeliverRead, DeliverCommit, DeliverUnheard, mail
<1>6. CASE Work
  BY <1>6 DEF Work, Request, Invoke, Denied, Finish, FinishLost, mail
<1>7. CASE UNCHANGED vars
  BY <1>7 DEF vars, mail, turn
<1>8. QED
  BY <1>1, <1>2, <1>3, <1>4, <1>5, <1>6, <1>7 DEF Next, Child, Boundary, Deliver, Outside

LEMMA NextInOrder == IInv /\ [Next]_vars => InOrder'
<1> SUFFICES ASSUME IInv, [Next]_vars PROVE InOrder'
  OBVIOUS
<1> USE DEF IInv, TypeOK, InOrder
<1>1. CASE Send
  <2>1. /\ sent' = sent + 1 /\ given' = given
        /\ inbox' \in Seq(Messages) /\ Len(inbox') = Len(inbox) + 1
        /\ inbox'[Len(inbox) + 1] = sent + 1
        /\ \A i \in 1 .. Len(inbox) : inbox'[i] = inbox[i]
    <3>1. sent + 1 \in Messages
      BY <1>1, ChildTurnAssumption DEF Send, Messages
    <3>2. QED
      BY <1>1, <3>1 DEF Send
  <2>2. /\ DOMAIN inbox = 1 .. Len(inbox) /\ DOMAIN inbox' = 1 .. Len(inbox) + 1
        /\ \A i \in DOMAIN inbox : inbox[i] \in Nat
        /\ \A i \in DOMAIN given : given[i] \in Nat
    BY <2>1, SeqValues
  <2>3. \A i \in DOMAIN inbox' : i \in DOMAIN inbox \/ i = Len(inbox) + 1
    BY <2>2, SeqValues
  <2>4. \A i \in DOMAIN inbox : i < Len(inbox) + 1 /\ inbox'[i] = inbox[i]
    BY <2>1, <2>2, SeqValues
  <2>5. ASSUME NEW i \in DOMAIN inbox', NEW j \in DOMAIN inbox', i < j
        PROVE  inbox'[i] < inbox'[j]
    <3>1. i \in DOMAIN inbox
      BY <2>2, <2>5, SeqValues
    <3>2. inbox'[i] = inbox[i] /\ inbox[i] \in Nat /\ inbox[i] <= sent /\ sent \in Nat
      BY <2>2, <2>4, <3>1
    <3>3. CASE j \in DOMAIN inbox
      BY <2>4, <2>5, <3>1, <3>2, <3>3
    <3>4. CASE j = Len(inbox) + 1
      BY <2>1, <3>2, <3>4
    <3>5. QED
      BY <2>3, <3>3, <3>4
  <2>6. \A i \in DOMAIN given, j \in DOMAIN inbox' : given[i] < inbox'[j]
    BY <2>1, <2>2, <2>3, <2>4
  <2>7. sent \in Nat
    OBVIOUS
  <2>8. /\ \A i \in DOMAIN inbox' : inbox'[i] <= sent'
        /\ \A i \in DOMAIN given : given[i] <= sent'
    <3>1. ASSUME NEW i \in DOMAIN given PROVE given[i] <= sent'
      BY <2>1, <2>2, <2>7
    <3>2. ASSUME NEW i \in DOMAIN inbox PROVE inbox[i] <= sent + 1
      BY <2>2, <2>7
    <3>3. QED
      BY <2>1, <2>2, <2>3, <2>4, <2>7, <3>1, <3>2
  <2>9. QED
    BY <2>1, <2>5, <2>6, <2>8
<1>2. CASE DeliverCommit
  <2>1. taking = known /\ pc = "commit"
    BY <1>2 DEF DeliverCommit, ViewIsPrefix
  <2>2. /\ given' = given \o known /\ inbox' = <<>> /\ sent' = sent
    BY <1>2, <2>1 DEF DeliverCommit
  <2>3. /\ Len(given') = Len(given) + Len(known)
        /\ given' \in Seq(Messages)
        /\ Len(given) \in Nat /\ Len(known) \in Nat
        /\ DOMAIN given = 1 .. Len(given)
        /\ DOMAIN given' = 1 .. Len(given) + Len(known)
        /\ \A i \in 1 .. Len(given) : given'[i] = given[i]
        /\ \A i \in Len(given) + 1 .. Len(given) + Len(known) :
             /\ i - Len(given) \in 1 .. Len(known)
             /\ given'[i] = known[i - Len(given)]
    BY <2>2
  <2>4. \A i \in 1 .. Len(known) : i \in DOMAIN inbox /\ known[i] = inbox[i]
    BY DEF ViewIsPrefix
  <2>5. \A i \in Len(given) + 1 .. Len(given) + Len(known) :
          /\ i - Len(given) \in DOMAIN inbox
          /\ given'[i] = inbox[i - Len(given)]
    BY <2>3, <2>4
  <2>6. ASSUME NEW i \in DOMAIN given', NEW j \in DOMAIN given', i < j
        PROVE  given'[i] < given'[j]
    <3>1. CASE j \in 1 .. Len(given)
      <4>1. i \in DOMAIN given /\ j \in DOMAIN given
        BY <2>3, <2>6, <3>1
      <4>2. given'[i] = given[i] /\ given'[j] = given[j]
        BY <2>3, <4>1
      <4>3. QED
        BY <2>6, <4>1, <4>2
    <3>2. CASE i \in 1 .. Len(given) /\ j \notin 1 .. Len(given)
      BY <2>3, <2>5, <2>6, <3>2
    <3>3. CASE i \notin 1 .. Len(given)
      <4>1. i \in Len(given) + 1 .. Len(given) + Len(known)
            /\ j \in Len(given) + 1 .. Len(given) + Len(known)
            /\ i - Len(given) < j - Len(given)
        BY <2>3, <2>6, <3>3
      <4>2. QED
        BY <2>5, <4>1
    <3>4. QED
      BY <2>3, <2>6, <3>1, <3>2, <3>3
  <2>7. ASSUME NEW i \in DOMAIN given' PROVE given'[i] <= sent
    <3>1. i \in DOMAIN given \/ i \in Len(given) + 1 .. Len(given) + Len(known)
      BY <2>3
    <3>2. QED
      BY <2>3, <2>5, <3>1
  <2>8. QED
    BY <2>2, <2>6, <2>7, EmptySeq
<1>3. CASE DeliverUnheard
  <2>1. inbox' = <<>> /\ given' = given /\ sent' = sent
    BY <1>3 DEF DeliverUnheard
  <2>2. QED
    BY <2>1, EmptySeq
<1>4. CASE Boundary \/ BoundaryFails \/ DeliverNothing \/ DeliverRead \/ DeliverRefused \/ Work
  <2>1. UNCHANGED <<sent, inbox, given>>
    BY <1>4 DEF Boundary, FlagStops, FlagPasses, BoundaryStops, BoundaryPasses,
                BoundaryFails, DeliverNothing, DeliverRead, DeliverRefused,
                Work, Request, Invoke, Denied, Finish, FinishLost, mail
  <2>2. QED
    BY <2>1
<1>5. CASE UNCHANGED mail
  BY <1>5 DEF mail
<1>6. QED
  BY <1>1, <1>2, <1>3, <1>4, <1>5
  DEF Next, Child, Deliver, Outside, RequestCancel, RequestPause, Resume, SetFlag,
      TakenAway, vars

LEMMA NextDue == IInv /\ [Next]_vars => DueIsKnown'
<1> SUFFICES ASSUME IInv, [Next]_vars PROVE DueIsKnown'
  OBVIOUS
<1> USE DEF IInv, DueIsKnown, RoundSeesWhatWaited
<1>1. CASE Send
  <2>1. UNCHANGED <<given, known, due, errored, unheard, pc>>
    BY <1>1 DEF Send, turn
  <2>2. Range(inbox) \subseteq Range(inbox')
    <3>1. sent + 1 \in Messages
      BY <1>1, ChildTurnAssumption DEF Send, Messages, TypeOK
    <3>2. QED
      BY <1>1, <3>1, RangeOfAppend DEF Send, TypeOK
  <2>3. QED
    BY <2>1, <2>2, Zenon
<1>2. CASE Boundary \/ BoundaryFails
  BY <1>2 DEF Boundary, FlagStops, FlagPasses, BoundaryStops, BoundaryPasses,
              BoundaryFails, Checks, Boundaries
<1>3. CASE DeliverNothing
  <2>1. due = {}
    BY <1>3 DEF DeliverNothing, Range
  <2>2. QED
    BY <1>3, <2>1 DEF DeliverNothing, mail
<1>4. CASE DeliverRead
  BY <1>4 DEF DeliverRead
<1>5. CASE DeliverCommit
  <2>1. due \subseteq Range(taking)
    BY <1>5 DEF DeliverCommit, ViewIsPrefix
  <2>2. due' \subseteq Range(given')
    BY <1>5, <2>1, RangeOfBoth DEF DeliverCommit, TypeOK
  <2>3. pc' = "request"
    BY <1>5 DEF DeliverCommit
  <2>4. QED
    BY <2>2, <2>3
<1>6. CASE DeliverRefused \/ DeliverUnheard
  <2>1. due \subseteq Range(inbox)
    BY <1>6, KnownInInbox DEF DeliverRefused, DeliverUnheard
  <2>2. pc' = "request" /\ errored' = TRUE /\ due' = due
        /\ Range(inbox) \subseteq Range(inbox') \cup unheard'
    BY <1>6, Zenon DEF DeliverRefused, DeliverUnheard
  <2>3. QED
    BY <2>1, <2>2
<1>7. CASE Work
  <2>1. pc' \notin {"deliver", "commit", "request"}
    BY <1>7 DEF Work, Request, Invoke, Denied, Finish, FinishLost
  <2>2. QED
    BY <2>1
<1>8. CASE UNCHANGED <<mail, turn>>
  <2>1. UNCHANGED <<given, known, inbox, due, errored, unheard, pc>>
    BY <1>8 DEF mail, turn
  <2>2. QED
    BY <2>1, Zenon
<1>9. QED
  BY <1>1, <1>2, <1>3, <1>4, <1>5, <1>6, <1>7, <1>8
  DEF Next, Child, Deliver, Outside, RequestCancel, RequestPause, Resume, SetFlag,
      TakenAway, vars

LEMMA NextLate == IInv /\ [Next]_vars => LateOnlyAfterCall'
<1> SUFFICES ASSUME IInv, [Next]_vars PROVE LateOnlyAfterCall'
  OBVIOUS
<1> USE DEF IInv, TypeOK, LateOnlyAfterCall, cancelled, live
<1>1. CASE Send \/ UNCHANGED vars
  BY <1>1 DEF Send, vars, control, turn
<1>2. CASE RequestCancel \/ RequestPause \/ Resume \/ SetFlag \/ TakenAway
  BY <1>2 DEF RequestCancel, RequestPause, Resume, SetFlag, TakenAway, turn
<1>3. CASE Boundary \/ BoundaryFails
  BY <1>3 DEF Boundary, FlagStops, FlagPasses, BoundaryStops, BoundaryPasses,
              BoundaryFails, control
<1>4. CASE Deliver
  BY <1>4 DEF Deliver, DeliverNothing, DeliverRead, DeliverCommit, DeliverRefused,
              DeliverUnheard, control
<1>5. CASE \E n \in 0 .. MaxCalls : Request(n)
  BY <1>5 DEF Request, Late, control
<1>6. CASE Invoke \/ Denied \/ Finish \/ FinishLost
  BY <1>6 DEF Invoke, Denied, Finish, FinishLost, Late, control
<1>7. QED
  BY <1>1, <1>2, <1>3, <1>4, <1>5, <1>6 DEF Next, Child, Work, Outside

-----------------------------------------------------------------------------
\* The inductive invariant holds in every state of a child's turn.
THEOREM Inductive == Spec => []IInv
<1>1. Init => IInv
  BY InitHolds
<1>2. IInv /\ [Next]_vars => IInv'
  BY NextTyped, NextRound, NextPrefix, NextInOrder, NextDue, NextLate DEF IInv
<1>3. QED
  BY <1>1, <1>2, PTL DEF Spec

\* Every field of the child, its inbox and its history keeps its type.
THEOREM TypeCorrect == Spec => []TypeOK
<1>1. IInv => TypeOK
  BY DEF IInv
<1>2. QED
  BY <1>1, Inductive, PTL

\* deliver: messages are handed over once and in the order they were sent.
THEOREM InSendingOrder == Spec => []GivenOnceInOrder
<1>1. IInv => GivenOnceInOrder
  BY DEF IInv, InOrder, GivenOnceInOrder
<1>2. QED
  BY <1>1, Inductive, PTL

\* refresh, then deliver: what waited when a round began has been handed over
\* when its request is made, or the delivery returned an error.
THEOREM NothingWaits == Spec => []RoundSeesWhatWaited
<1>1. IInv => RoundSeesWhatWaited
  BY DEF IInv, DueIsKnown, RoundSeesWhatWaited
<1>2. QED
  BY <1>1, Inductive, PTL

\* boundary: a pause or a cancel is followed by one call at most.
THEOREM OneLateCall == Spec => []AtMostOneLateCall
<1>1. IInv => AtMostOneLateCall
  BY DEF IInv, LateOnlyAfterCall, AtMostOneLateCall
<1>2. QED
  BY <1>1, Inductive, PTL

=============================================================================
