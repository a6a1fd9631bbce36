------------------------- MODULE AgentServiceProofs -------------------------
(***************************************************************************)
(* The agent service for any keys, bodies, clients and buffer sizes.       *)
(***************************************************************************)
EXTENDS AgentService, TLAPS

\* A call is one of a service that is attached; the key it starts a turn of was
\* admitted with its body, and no turn of it is in the stream.
CallsAreAdmitted ==
  call # None =>
    /\ up
    /\ call.event.key # None =>
         /\ call.event.kind = "started" /\ call.event.body \in Bodies
         /\ KeyedBy(call.event.key) = {}
         /\ ledger[call.event.key] = call.event.body

\* What the service remembers of a key is what the stream says of it, and it
\* has forgotten no key of the stream.
KeysAreRemembered ==
  \A k \in Keys :
    /\ turnOf[k] # 0 => turnOf[k] \in KeyedBy(k) /\ stream[turnOf[k]].body = ledger[k]
    /\ up /\ KeyedBy(k) # {} => ledger[k] # None
    /\ \A i \in KeyedBy(k) : stream[i].body \in Bodies

KeyInv == KeyStartsOneTurn /\ CallsAreAdmitted /\ KeysAreRemembered

\* A subscription is one of a service that is attached.
SubscribersAreServed == \A c \in Clients : sub[c].on => up

-----------------------------------------------------------------------------
(* The stream and the keys in it.                                          *)

LEMMA KeyedIsStarted ==
  ASSUME stream \in Seq(Event), NEW k
  PROVE  /\ DOMAIN stream = 1 .. Len(stream) /\ Len(stream) \in Nat
         /\ \A i : i \in KeyedBy(k) <=>
              /\ i \in 1 .. Len(stream)
              /\ stream[i].kind = "started" /\ stream[i].key = k
  BY DEF KeyedBy

LEMMA KeyedAppend ==
  ASSUME stream \in Seq(Event), NEW e \in Event, stream' = Append(stream, e)
  PROVE  /\ stream' \in Seq(Event) /\ Len(stream') = Len(stream) + 1
         /\ \A i \in 1 .. Len(stream) : stream'[i] = stream[i]
         /\ stream'[Len(stream) + 1] = e
         /\ \A k : KeyedBy(k)' = IF e.kind = "started" /\ e.key = k
                                   THEN KeyedBy(k) \cup {Len(stream) + 1}
                                   ELSE KeyedBy(k)
<1>1. /\ stream' \in Seq(Event) /\ Len(stream') = Len(stream) + 1
      /\ Len(stream) \in Nat
      /\ \A i \in 1 .. Len(stream) : stream'[i] = stream[i]
      /\ stream'[Len(stream) + 1] = e
  OBVIOUS
<1>2. /\ DOMAIN stream = 1 .. Len(stream) /\ DOMAIN stream' = 1 .. Len(stream) + 1
      /\ \A i \in 1 .. Len(stream) + 1 : i \in 1 .. Len(stream) \/ i = Len(stream) + 1
  BY <1>1
<1>3. ASSUME NEW k
      PROVE  KeyedBy(k)' = IF e.kind = "started" /\ e.key = k
                             THEN KeyedBy(k) \cup {Len(stream) + 1}
                             ELSE KeyedBy(k)
  BY <1>1, <1>2 DEF KeyedBy
<1>4. QED
  BY <1>1, <1>3

\* An event without a key leaves the keys of the stream as they were.
LEMMA UnkeyedAppend ==
  ASSUME TypeOK, KeyInv, NEW e \in Event, e.key = None, stream' = Append(stream, e)
  PROVE  /\ \A k \in Keys : KeyedBy(k)' = KeyedBy(k)
         /\ \A k \in Keys : \A i \in KeyedBy(k) : stream'[i] = stream[i]
<1>1. \A k \in Keys : e.key # k
  BY ServiceAssumption
<1>2. QED
  BY <1>1, KeyedAppend, KeyedIsStarted DEF TypeOK

-----------------------------------------------------------------------------
LEMMA InitKeys == Init => KeyInv
<1> SUFFICES ASSUME Init PROVE KeyInv
  OBVIOUS
<1>1. \A k \in Keys : KeyedBy(k) = {}
  <2>1. DOMAIN stream = {}
    BY DEF Init
  <2>2. QED
    BY <2>1 DEF KeyedBy
<1>2. \A k \in Keys : turnOf[k] = 0
  BY DEF Init
<1>3. KeysAreRemembered
  BY <1>1, <1>2, Zenon DEF KeysAreRemembered
<1>4. KeyStartsOneTurn /\ CallsAreAdmitted
  BY <1>1 DEF Init, KeyStartsOneTurn, CallsAreAdmitted
<1>5. QED
  BY <1>3, <1>4 DEF KeyInv

\* A step that keeps what the service and the clients know of keys.
LEMMA KeysKept ==
  ASSUME KeyInv, UNCHANGED <<stream, up, ledger, turnOf, answers>>,
         call' # None => \/ up /\ call'.event.key = None
                         \/ call # None /\ call'.event = call.event
  PROVE  KeyInv'
<1>1. \A k : KeyedBy(k)' = KeyedBy(k)
  BY DEF KeyedBy
<1>2. KeyStartsOneTurn' /\ KeysAreRemembered'
  BY <1>1 DEF KeyInv, KeyStartsOneTurn, KeysAreRemembered
<1>3. CallsAreAdmitted'
  BY <1>1 DEF KeyInv, CallsAreAdmitted
<1>4. QED
  BY <1>2, <1>3 DEF KeyInv

LEMMA FreshKeys ==
  ASSUME TypeOK, KeyInv, NEW k \in Keys, NEW b \in Bodies, StartFresh(k, b)
  PROVE  KeyInv'
<1>1. \A m : KeyedBy(m)' = KeyedBy(m)
  BY DEF StartFresh, KeyedBy
<1>2. /\ ledger[k] = None /\ ledger' = [ledger EXCEPT ![k] = b] /\ up /\ up' = up
      /\ UNCHANGED <<stream, turnOf, answers>>
  BY ServiceAssumption DEF StartFresh, clientVars
<1>3. ledger'[k] = b /\ \A m \in Keys \ {k} : ledger'[m] = ledger[m]
  BY <1>2 DEF TypeOK
<1>4. KeyedBy(k) = {}
  BY <1>2 DEF KeyInv, KeysAreRemembered
<1>5. KeyStartsOneTurn'
  BY <1>1, <1>2 DEF KeyInv, KeyStartsOneTurn
<1>6. CallsAreAdmitted'
  BY <1>1, <1>2, <1>3, <1>4 DEF StartFresh, Begin, CallsAreAdmitted
<1>7. KeysAreRemembered'
  <2>1. b # None
    BY ServiceAssumption
  <2>2. turnOf[k] = 0
    BY <1>4 DEF KeyInv, KeysAreRemembered
  <2>3. QED
    BY <1>1, <1>2, <1>3, <2>1, <2>2 DEF KeyInv, KeysAreRemembered
<1>8. QED
  BY <1>5, <1>6, <1>7 DEF KeyInv

LEMMA ReplayKeys ==
  ASSUME TypeOK, KeyInv, NEW k \in Keys, NEW b \in Bodies, StartReplay(k, b)
  PROVE  KeyInv'
<1>1. \A m : KeyedBy(m)' = KeyedBy(m)
  BY DEF StartReplay, KeyedBy
<1>2. UNCHANGED <<stream, up, ledger, turnOf, call>>
  BY DEF StartReplay, admitVars
<1>3. turnOf[k] \in KeyedBy(k) /\ stream[turnOf[k]].body = b
  BY DEF StartReplay, KeyInv, KeysAreRemembered
<1>4. KeyStartsOneTurn'
  BY <1>1, <1>2, <1>3 DEF StartReplay, KeyInv, KeyStartsOneTurn
<1>5. QED
  BY <1>1, <1>2, <1>4 DEF KeyInv, CallsAreAdmitted, KeysAreRemembered

LEMMA CommittedKeys ==
  ASSUME TypeOK, KeyInv, Committed
  PROVE  KeyInv'
<1> DEFINE e == call.event
<1> DEFINE n == version + 1
<1> DEFINE e2 == IF e.kind = "started" THEN [e EXCEPT !.turn = n] ELSE e
<1>1. call # None /\ call \in Call /\ e \in Event /\ up /\ call' = None
      /\ n = Len(stream) + 1 /\ n \in Nat /\ n # 0
  BY DEF Committed, TypeOK, Call, KeyInv, CallsAreAdmitted
<1>2. e2 \in Event /\ e2.kind = e.kind /\ e2.key = e.key /\ e2.body = e.body
  BY <1>1 DEF Event
<1>3. stream' = Append(stream, e2) /\ UNCHANGED <<up, ledger>>
  BY DEF Committed
<1> HIDE DEF e2
<1>4. CallsAreAdmitted'
  BY <1>1 DEF CallsAreAdmitted
<1>5. CASE e.key = None
  <2>1. /\ \A k \in Keys : KeyedBy(k)' = KeyedBy(k)
        /\ \A k \in Keys : \A i \in KeyedBy(k) : stream'[i] = stream[i]
    BY <1>2, <1>3, <1>5, UnkeyedAppend
  <2>2. UNCHANGED <<turnOf, answers>>
    BY <1>5 DEF Committed
  <2>3. KeyStartsOneTurn'
    <3>1. \A a \in answers : a.key \in Keys
      BY DEF TypeOK
    <3>2. QED
      BY <2>1, <2>2, <3>1 DEF KeyInv, KeyStartsOneTurn
  <2>4. KeysAreRemembered'
    BY <1>3, <2>1, <2>2 DEF KeyInv, KeysAreRemembered
  <2>5. QED
    BY <1>4, <2>3, <2>4 DEF KeyInv
<1>6. CASE e.key # None
  <2>0. PICK q \in Keys : q = e.key
    BY <1>1, <1>6 DEF Event
  <2>1. /\ e.kind = "started" /\ e.body \in Bodies
        /\ KeyedBy(q) = {} /\ ledger[q] = e.body /\ e.body # None
    BY <1>1, <1>6, <2>0, ServiceAssumption DEF KeyInv, CallsAreAdmitted, Event
  <2>2. /\ \A i \in 1 .. Len(stream) : stream'[i] = stream[i]
        /\ stream'[n] = e2
        /\ \A k : KeyedBy(k)' = IF k = q THEN KeyedBy(k) \cup {n} ELSE KeyedBy(k)
    BY <1>1, <1>2, <1>3, <2>0, <2>1, KeyedAppend DEF TypeOK
  <2>3. /\ KeyedBy(q)' = {n}
        /\ \A k \in Keys \ {q} : KeyedBy(k)' = KeyedBy(k)
        /\ \A k : \A i \in KeyedBy(k) : stream'[i] = stream[i]
    <3>1. \A k : \A i \in KeyedBy(k) : i \in 1 .. Len(stream)
      BY KeyedIsStarted DEF TypeOK
    <3>2. KeyedBy(q)' = {n}
      BY <2>1, <2>2
    <3>3. QED
      BY <2>2, <3>1, <3>2
  <2>4. /\ turnOf' = [turnOf EXCEPT ![q] = n]
        /\ answers' = answers \cup {[key |-> q, body |-> e.body, turn |-> n]}
    BY <1>6, <2>0 DEF Committed
  <2>5. KeyStartsOneTurn'
    <3>1. \A a \in answers : a.key \in Keys /\ a.key # q
      BY <2>1 DEF TypeOK, KeyInv, KeyStartsOneTurn
    <3>2. \A a \in answers' : a.turn \in KeyedBy(a.key)' /\ stream'[a.turn].body = a.body
      BY <1>2, <2>2, <2>3, <2>4, <3>1 DEF KeyInv, KeyStartsOneTurn
    <3>3. ASSUME NEW k \in Keys PROVE \A i, j \in KeyedBy(k)' : i = j
      <4>1. CASE k = q
        BY <2>3, <4>1
      <4>2. CASE k # q
        BY <2>3, <4>2 DEF KeyInv, KeyStartsOneTurn
      <4>3. QED
        BY <4>1, <4>2
    <3>4. QED
      BY <3>2, <3>3 DEF KeyStartsOneTurn
  <2>6. KeysAreRemembered'
    <3>1. turnOf'[q] = n /\ \A k \in Keys \ {q} : turnOf'[k] = turnOf[k]
      BY <2>1, <2>4 DEF TypeOK
    <3>2. ASSUME NEW k \in Keys
          PROVE  /\ turnOf'[k] # 0 => turnOf'[k] \in KeyedBy(k)' /\ stream'[turnOf'[k]].body = ledger'[k]
                 /\ up' /\ KeyedBy(k)' # {} => ledger'[k] # None
                 /\ \A i \in KeyedBy(k)' : stream'[i].body \in Bodies
      <4>1. CASE k = q
        BY <1>2, <1>3, <2>1, <2>2, <2>3, <3>1, <4>1
      <4>2. CASE k # q
        <5>1. /\ turnOf[k] # 0 => turnOf[k] \in KeyedBy(k) /\ stream[turnOf[k]].body = ledger[k]
              /\ up /\ KeyedBy(k) # {} => ledger[k] # None
              /\ \A i \in KeyedBy(k) : stream[i].body \in Bodies
          BY DEF KeyInv, KeysAreRemembered
        <5>2. /\ turnOf'[k] = turnOf[k] /\ ledger'[k] = ledger[k]
              /\ KeyedBy(k)' = KeyedBy(k) /\ up' = up
              /\ \A i \in KeyedBy(k) : stream'[i] = stream[i]
          BY <1>3, <2>3, <3>1, <4>2
        <5>3. QED
          BY <5>1, <5>2
      <4>3. QED
        BY <4>1, <4>2
    <3>3. QED
      BY <3>2 DEF KeysAreRemembered
  <2>7. QED
    BY <1>4, <2>5, <2>6 DEF KeyInv
<1>7. QED
  BY <1>5, <1>6

LEMMA OthersKeys ==
  ASSUME TypeOK, KeyInv, OthersAppend
  PROVE  KeyInv'
<1>1. PICK e \in Event : e.key = None /\ stream' = Append(stream, e)
  <2>1. CASE stream' = Append(stream, Unkeyed("other", 0))
    BY <2>1 DEF Unkeyed, Event
  <2>2. CASE stream' = Append(stream, Unkeyed("started", Len(stream) + 1))
    <3>1. Len(stream) + 1 \in Nat
      BY DEF TypeOK
    <3>2. Unkeyed("started", Len(stream) + 1) \in Event
      BY <3>1 DEF Unkeyed, Event
    <3>3. QED
      BY <2>2, <3>2 DEF Unkeyed
  <2>3. ASSUME NEW t \in DOMAIN stream, stream' = Append(stream, Unkeyed("ended", t))
        PROVE  \E e \in Event : e.key = None /\ stream' = Append(stream, e)
    <3>1. t \in Nat
      BY DEF TypeOK
    <3>2. QED
      BY <2>3, <3>1 DEF Unkeyed, Event
  <2>4. QED
    BY <2>1, <2>2, <2>3 DEF OthersAppend
<1>2. /\ \A k \in Keys : KeyedBy(k)' = KeyedBy(k)
      /\ \A k \in Keys : \A i \in KeyedBy(k) : stream'[i] = stream[i]
  BY <1>1, UnkeyedAppend
<1>3. UNCHANGED <<up, ledger, turnOf, call, answers>>
  BY DEF OthersAppend, admitVars, clientVars
<1>4. KeyStartsOneTurn'
  <2>1. \A a \in answers : a.key \in Keys
    BY DEF TypeOK
  <2>2. QED
    BY <1>2, <1>3, <2>1 DEF KeyInv, KeyStartsOneTurn
<1>5. KeysAreRemembered'
  BY <1>2, <1>3 DEF KeyInv, KeysAreRemembered
<1>6. CallsAreAdmitted'
  <2>1. call # None /\ call.event.key # None => call.event.key \in Keys
    BY DEF TypeOK, Call, Event
  <2>2. QED
    BY <1>2, <1>3, <2>1 DEF KeyInv, CallsAreAdmitted
<1>7. QED
  BY <1>4, <1>5, <1>6 DEF KeyInv

LEMMA AttachKeys ==
  ASSUME TypeOK, KeyInv, Attach
  PROVE  KeyInv'
<1>1. \A m : KeyedBy(m)' = KeyedBy(m)
  BY DEF Attach, KeyedBy
<1>2. UNCHANGED <<stream, call, answers>>
  BY DEF Attach, clientVars
<1>3. PICK last \in [Keys -> {0} \cup DOMAIN stream] :
        /\ \A k \in Keys : IF KeyedBy(k) = {} THEN last[k] = 0
                           ELSE last[k] \in KeyedBy(k) /\ \A i \in KeyedBy(k) : i <= last[k]
        /\ turnOf' = last
        /\ ledger' = [k \in Keys |-> IF last[k] = 0 THEN None ELSE stream[last[k]].body]
  BY DEF Attach
<1>4. call = None
  BY DEF Attach, KeyInv, CallsAreAdmitted
<1>5. KeyStartsOneTurn' /\ CallsAreAdmitted'
  BY <1>1, <1>2, <1>4 DEF KeyInv, KeyStartsOneTurn, CallsAreAdmitted
<1>6. ASSUME NEW k \in Keys
      PROVE  /\ turnOf'[k] # 0 => turnOf'[k] \in KeyedBy(k) /\ stream[turnOf'[k]].body = ledger'[k]
             /\ KeyedBy(k) # {} => ledger'[k] # None
  <2>1. CASE KeyedBy(k) = {}
    BY <1>3, <2>1
  <2>2. CASE KeyedBy(k) # {}
    <3>1. last[k] \in KeyedBy(k) /\ last[k] # 0
      BY <1>3, <2>2, KeyedIsStarted DEF TypeOK
    <3>2. ledger'[k] = stream[last[k]].body
      BY <1>3, <3>1
    <3>3. QED
      BY <1>3, <3>1, <3>2, ServiceAssumption DEF KeyInv, KeysAreRemembered
  <2>3. QED
    BY <2>1, <2>2
<1>7. KeysAreRemembered'
  BY <1>1, <1>2, <1>6 DEF KeyInv, KeysAreRemembered
<1>8. QED
  BY <1>5, <1>7 DEF KeyInv

LEMMA CrashKeys ==
  ASSUME TypeOK, KeyInv, Crash
  PROVE  KeyInv'
<1>1. \A m : KeyedBy(m)' = KeyedBy(m)
  BY DEF Crash, KeyedBy
<1>2. UNCHANGED <<stream, answers>> /\ call' = None /\ ~up'
      /\ \A k \in Keys : turnOf'[k] = 0
  BY DEF Crash, clientVars
<1>3. KeyStartsOneTurn'
  BY <1>1, <1>2 DEF KeyInv, KeyStartsOneTurn
<1>4. CallsAreAdmitted'
  BY <1>2 DEF CallsAreAdmitted
<1>5. KeysAreRemembered'
  BY <1>1, <1>2 DEF KeyInv, KeysAreRemembered
<1>6. QED
  BY <1>3, <1>4, <1>5 DEF KeyInv

LEMMA NextKeys == TypeOK /\ KeyInv /\ [Next]_vars => KeyInv'
<1> SUFFICES ASSUME TypeOK, KeyInv, [Next]_vars PROVE KeyInv'
  OBVIOUS
<1>1. ASSUME NEW c \in Clients, Subscribe(c) \/ Poll(c) \/ Unsubscribe(c) PROVE KeyInv'
  <2>1. UNCHANGED <<stream, up, ledger, turnOf, answers, call>>
    BY <1>1 DEF Subscribe, Poll, Unsubscribe, admitVars, clientVars
  <2>2. QED
    BY <2>1, KeysKept
<1>2. CASE StartFresh(None, None) \/ (\E t \in known : Finish(t)) \/ Record
  <2>1. /\ UNCHANGED <<stream, up, ledger, turnOf, answers>>
        /\ up /\ call'.event.key = None
    BY <1>2, ServiceAssumption
    DEF StartFresh, Finish, Record, Begin, Unkeyed, admitVars, clientVars
  <2>2. QED
    BY <2>1, KeysKept
<1>3. CASE Conflict \/ CatchUp \/ Fails
  <2>1. /\ UNCHANGED <<stream, up, ledger, turnOf, answers>>
        /\ call # None
        /\ call' = None \/ call'.event = call.event
    BY <1>3 DEF Conflict, CatchUp, Fails, Fold, admitVars, clientVars, TypeOK, Call
  <2>2. QED
    BY <2>1, KeysKept
<1>4. CASE UNCHANGED vars
  <2>1. UNCHANGED <<stream, up, ledger, turnOf, answers, call>>
    BY <1>4 DEF vars
  <2>2. QED
    BY <2>1, KeysKept
<1>5. QED
  BY <1>1, <1>2, <1>3, <1>4, FreshKeys, ReplayKeys, CommittedKeys, OthersKeys,
     AttachKeys, CrashKeys DEF Next

-----------------------------------------------------------------------------
(* Runs of sequence numbers.                                               *)

LEMMA EmptyRuns ==
  /\ <<>> \in Seq(Span) /\ <<>> \in Seq(Nat) /\ Len(<<>>) = 0 /\ DOMAIN <<>> = {}
  OBVIOUS

LEMMA EndType == ASSUME NEW r \in Seq(Span) PROVE End(r) \in Nat
<1>1. CASE r = <<>>
  BY <1>1 DEF End
<1>2. CASE r # <<>>
  <2>1. r[Len(r)] \in Span
    BY <1>2
  <2>2. QED
    BY <1>2, <2>1 DEF End, Span
<1>3. QED
  BY <1>1, <1>2

LEMMA SinglesShape ==
  ASSUME NEW n \in Nat, NEW m \in Nat, n <= m
  PROVE  /\ Singles(n, m) \in Seq(Span) /\ Len(Singles(n, m)) = m - n
         /\ \A i \in 1 .. m - n : Singles(n, m)[i] = [from |-> n + i - 1, to |-> n + i]
<1>1. m - n \in Nat
  OBVIOUS
<1>2. \A i \in 1 .. m - n : [from |-> n + i - 1, to |-> n + i] \in Span
  BY DEF Span
<1>3. QED
  BY <1>1, <1>2 DEF Singles

\* What continues an unbroken run, from its end to m, leaves it unbroken.
LEMMA Continues ==
  ASSUME NEW r \in Seq(Span), Unbroken(r), NEW t \in Seq(Span), NEW m \in Nat,
         \A i \in 1 .. Len(t) : t[i].from < t[i].to,
         \A i \in 1 .. Len(t) : t[i].from = IF i = 1 THEN End(r) ELSE t[i - 1].to,
         m = IF Len(t) = 0 THEN End(r) ELSE t[Len(t)].to
  PROVE  r \o t \in Seq(Span) /\ Unbroken(r \o t) /\ End(r \o t) = m
<1>1. /\ r \o t \in Seq(Span) /\ Len(r \o t) = Len(r) + Len(t)
      /\ Len(r) \in Nat /\ Len(t) \in Nat
      /\ \A i \in 1 .. Len(r) : (r \o t)[i] = r[i]
      /\ \A i \in Len(r) + 1 .. Len(r) + Len(t) : (r \o t)[i] = t[i - Len(r)]
  OBVIOUS
<1>2. ASSUME NEW i \in 1 .. Len(r) + Len(t)
      PROVE  /\ (r \o t)[i].from < (r \o t)[i].to
             /\ (r \o t)[i].from = IF i = 1 THEN 1 ELSE (r \o t)[i - 1].to
  <2>1. CASE i \in 1 .. Len(r)
    <3>1. /\ r[i].from < r[i].to
          /\ r[i].from = IF i = 1 THEN 1 ELSE r[i - 1].to
      BY <2>1 DEF Unbroken
    <3>2. i # 1 => i - 1 \in 1 .. Len(r)
      BY <2>1
    <3>3. QED
      BY <1>1, <2>1, <3>1, <3>2
  <2>2. CASE i \notin 1 .. Len(r)
    <3>1. i - Len(r) \in 1 .. Len(t) /\ (r \o t)[i] = t[i - Len(r)]
      BY <1>1, <1>2, <2>2
    <3>2. CASE i - Len(r) = 1
      <4>1. i = Len(r) + 1
        BY <1>1, <1>2, <3>2
      <4>2. t[1].from = End(r) /\ t[1].from < t[1].to
        BY <3>1, <3>2
      <4>3. CASE Len(r) = 0
        <5>1. End(r) = 1
          BY <4>3 DEF End
        <5>2. QED
          BY <3>1, <3>2, <4>1, <4>2, <4>3, <5>1
      <4>4. CASE Len(r) # 0
        <5>1. End(r) = r[Len(r)].to /\ i - 1 = Len(r) /\ i # 1 /\ (r \o t)[i - 1] = r[Len(r)]
          BY <1>1, <4>1, <4>4 DEF End
        <5>2. QED
          BY <3>1, <3>2, <4>2, <5>1
      <4>5. QED
        BY <4>3, <4>4
    <3>3. CASE i - Len(r) # 1
      <4>1. /\ i - 1 \in Len(r) + 1 .. Len(r) + Len(t) /\ i # 1
            /\ (i - 1) - Len(r) = (i - Len(r)) - 1
        BY <1>1, <1>2, <3>1, <3>3
      <4>2. (r \o t)[i - 1] = t[(i - Len(r)) - 1]
        BY <1>1, <4>1
      <4>3. /\ t[i - Len(r)].from < t[i - Len(r)].to
            /\ t[i - Len(r)].from = t[(i - Len(r)) - 1].to
        BY <3>1, <3>3
      <4>4. QED
        BY <3>1, <4>1, <4>2, <4>3
    <3>4. QED
      BY <3>2, <3>3
  <2>3. QED
    BY <2>1, <2>2
<1>3. DOMAIN (r \o t) = 1 .. Len(r) + Len(t)
  BY <1>1
<1>4. Unbroken(r \o t)
  BY <1>2, <1>3 DEF Unbroken
<1>5. End(r \o t) = m
  <2>1. CASE Len(t) = 0
    <3>1. r \o t = r
      BY <2>1
    <3>2. QED
      BY <2>1, <3>1
  <2>2. CASE Len(t) # 0
    <3>1. /\ Len(r) + Len(t) \in Len(r) + 1 .. Len(r) + Len(t)
          /\ (Len(r) + Len(t)) - Len(r) = Len(t) /\ Len(r \o t) # 0
      BY <1>1, <2>2
    <3>2. (r \o t)[Len(r \o t)] = t[Len(t)] /\ r \o t # <<>>
      BY <1>1, <3>1
    <3>3. QED
      BY <2>2, <3>2 DEF End
  <2>3. QED
    BY <2>1, <2>2
<1>6. QED
  BY <1>1, <1>4, <1>5

LEMMA ContinuesSingly ==
  ASSUME NEW r \in Seq(Span), Unbroken(r), NEW m \in Nat, End(r) <= m
  PROVE  /\ r \o Singles(End(r), m) \in Seq(Span)
         /\ Unbroken(r \o Singles(End(r), m)) /\ End(r \o Singles(End(r), m)) = m
<1> DEFINE t == Singles(End(r), m)
<1>1. /\ t \in Seq(Span) /\ Len(t) = m - End(r) /\ End(r) \in Nat
      /\ \A i \in 1 .. m - End(r) : t[i] = [from |-> End(r) + i - 1, to |-> End(r) + i]
  BY EndType, SinglesShape
<1> HIDE DEF t
<1>2. /\ \A i \in 1 .. Len(t) : t[i].from < t[i].to
      /\ \A i \in 1 .. Len(t) : t[i].from = IF i = 1 THEN End(r) ELSE t[i - 1].to
      /\ m = IF Len(t) = 0 THEN End(r) ELSE t[Len(t)].to
  BY <1>1
<1>3. r \o t \in Seq(Span) /\ Unbroken(r \o t) /\ End(r \o t) = m
  BY <1>1, <1>2, Continues
<1>4. QED
  BY <1>3 DEF t

LEMMA ContinuesByGap ==
  ASSUME NEW r \in Seq(Span), Unbroken(r), NEW t \in Seq(Span), Len(t) <= 1,
         t # <<>> => t[1].from = End(r) /\ t[1].from < t[1].to
  PROVE  /\ r \o t \in Seq(Span) /\ Unbroken(r \o t)
         /\ End(r \o t) = IF t = <<>> THEN End(r) ELSE t[1].to
<1>1. CASE t = <<>>
  <2>1. r \o t = r
    BY <1>1
  <2>2. QED
    BY <1>1, <2>1
<1>2. CASE t # <<>>
  <2>1. Len(t) = 1 /\ t[1] \in Span
    <3>1. Len(t) # 0
      BY <1>2
    <3>2. PICK k \in Nat : k = Len(t)
      OBVIOUS
    <3>3. Len(t) = 1
      BY <3>1, <3>2
    <3>4. 1 \in 1 .. Len(t)
      BY <3>3
    <3>5. QED
      BY <3>3, <3>4
  <2>2. t[1].to \in Nat
    BY <2>1 DEF Span
  <2>3. /\ \A i \in 1 .. Len(t) : t[i].from < t[i].to
        /\ \A i \in 1 .. Len(t) : t[i].from = IF i = 1 THEN End(r) ELSE t[i - 1].to
    BY <1>2, <2>1
  <2>4. QED
    BY <1>2, <2>1, <2>2, <2>3, Continues
<1>3. QED
  BY <1>1, <1>2

-----------------------------------------------------------------------------
(* Subscribers.                                                            *)

\* What NothingMissed says of client c's runs r and its Subscriber s, when the
\* service has folded v.
Follows(r, s, v) ==
  s.on =>
    /\ IF s.gap = <<>> THEN s.next = End(r)
       ELSE /\ s.gap[1].from = End(r) /\ s.gap[1].from < s.gap[1].to
            /\ s.next = s.gap[1].to
    /\ \A i \in DOMAIN s.pending : s.pending[i] = s.next + i - 1
    /\ s.next + Len(s.pending) > v

Bounded(s) == s \in Subscriber /\ Len(s.pending) <= Queue /\ Len(s.gap) <= 1

LEMMA MissedByClient ==
  NothingMissed <=> \A c \in Clients : Unbroken(got[c]) /\ Follows(got[c], sub[c], version)
  BY DEF NothingMissed, Follows

LEMMA AtMostOne ==
  ASSUME NEW g \in Seq(Span), Len(g) <= 1, g # <<>>
  PROVE  Len(g) = 1 /\ g[1] \in Span /\ g[1].from \in Nat /\ g[1].to \in Nat
<1>1. PICK k \in Nat : k = Len(g)
  OBVIOUS
<1>2. Len(g) # 0
  OBVIOUS
<1>3. Len(g) = 1
  BY <1>1, <1>2
<1>4. 1 \in 1 .. Len(g)
  BY <1>3
<1>5. g[1] \in Span
  BY <1>4
<1>6. QED
  BY <1>3, <1>5 DEF Span

LEMMA OfferFollows ==
  ASSUME NEW s, Bounded(s), NEW v \in Nat, NEW r \in Seq(Span), Follows(r, s, v)
  PROVE  Bounded(Offer(s, v + 1)) /\ Follows(r, Offer(s, v + 1), v + 1)
<1> DEFINE n == v + 1
<1> DEFINE o == Offer(s, n)
<1>1. /\ s \in Subscriber /\ s.on \in BOOLEAN /\ s.next \in Nat
      /\ s.pending \in Seq(Nat) /\ s.gap \in Seq(Span)
      /\ Len(s.pending) \in Nat /\ Len(s.pending) <= Queue /\ Len(s.gap) <= 1
  BY DEF Bounded, Subscriber
<1>2. CASE ~s.on \/ n # s.next + Len(s.pending)
  <2>1. o = s
    BY <1>2 DEF Offer
  <2>2. s.on => s.next + Len(s.pending) > n
    <3>1. s.on => s.next + Len(s.pending) > v
      BY DEF Follows
    <3>2. s.next \in Nat /\ Len(s.pending) \in Nat /\ n = v + 1
      BY <1>1
    <3> HIDE DEF n
    <3>3. s.on => n # s.next + Len(s.pending)
      BY <1>2
    <3> DEFINE m == s.next + Len(s.pending)
    <3>4. m \in Nat
      BY <3>2
    <3> HIDE DEF m
    <3>5. s.on => m > v /\ n # m
      BY <3>1, <3>3 DEF m
    <3>6. m > v /\ n # m => m > n
      BY <3>2, <3>4
    <3>7. s.on => m > n
      BY <3>5, <3>6, Zenon
    <3>8. QED
      BY <3>7 DEF m
  <2>3. Follows(r, s, n)
    BY <2>2 DEF Follows
  <2>4. QED
    BY <2>1, <2>3
<1>3. CASE ~(~s.on \/ n # s.next + Len(s.pending)) /\ Len(s.pending) < Queue
  <2>1. o = [s EXCEPT !.pending = Append(@, n)] /\ s.on /\ n = s.next + Len(s.pending)
    BY <1>3 DEF Offer
  <2> HIDE DEF o
  <2>2. /\ o.on = s.on /\ o.next = s.next /\ o.gap = s.gap
        /\ o.pending = Append(s.pending, n) /\ o \in Subscriber
    <3>1. Append(s.pending, n) \in Seq(Nat)
      BY <1>1
    <3>2. QED
      BY <1>1, <2>1, <3>1 DEF Subscriber
  <2>3. /\ Len(Append(s.pending, n)) = Len(s.pending) + 1
        /\ \A i \in 1 .. Len(s.pending) : Append(s.pending, n)[i] = s.pending[i]
        /\ Append(s.pending, n)[Len(s.pending) + 1] = n
        /\ DOMAIN s.pending = 1 .. Len(s.pending)
        /\ DOMAIN Append(s.pending, n) = 1 .. Len(s.pending) + 1
    BY <1>1
  <2>4. Bounded(o)
    BY <1>1, <1>3, <2>2, <2>3, ServiceAssumption DEF Bounded
  <2>5. \A i \in DOMAIN o.pending : o.pending[i] = o.next + i - 1
    <3>1. \A i \in 1 .. Len(s.pending) : s.pending[i] = s.next + i - 1
      BY <2>1, <2>3 DEF Follows
    <3>2. \A i \in 1 .. Len(s.pending) + 1 : i \in 1 .. Len(s.pending) \/ i = Len(s.pending) + 1
      BY <1>1
    <3>3. n = s.next + (Len(s.pending) + 1) - 1
      BY <1>1, <2>1
    <3>4. QED
      BY <2>2, <2>3, <3>1, <3>2, <3>3
  <2>6. o.next + Len(o.pending) > n
    BY <1>1, <2>1, <2>2, <2>3
  <2>7. Follows(r, o, n)
    <3>1. IF o.gap = <<>> THEN o.next = End(r)
          ELSE /\ o.gap[1].from = End(r) /\ o.gap[1].from < o.gap[1].to
               /\ o.next = o.gap[1].to
      BY <2>1, <2>2 DEF Follows
    <3>2. QED
      BY <2>5, <2>6, <3>1 DEF Follows
  <2>8. QED
    BY <2>4, <2>7 DEF o
<1>4. CASE ~(~s.on \/ n # s.next + Len(s.pending)) /\ ~(Len(s.pending) < Queue)
  <2> DEFINE from == IF s.gap = <<>> THEN s.next ELSE s.gap[1].from
  <2>1. /\ o = [s EXCEPT !.pending = <<>>, !.next = n + 1, !.gap = <<[from |-> from, to |-> n + 1]>>]
        /\ s.on /\ n = s.next + Len(s.pending)
    BY <1>4 DEF Offer
  <2>2. from = End(r) /\ from \in Nat /\ from <= s.next
    <3>1. CASE s.gap = <<>>
      BY <1>1, <2>1, <3>1 DEF Follows
    <3>2. CASE s.gap # <<>>
      <4>1. s.gap[1] \in Span /\ s.gap[1].from \in Nat
        BY <1>1, <3>2, AtMostOne
      <4>2. QED
        BY <1>1, <2>1, <3>2, <4>1 DEF Follows
    <3>3. QED
      BY <3>1, <3>2
  <2> HIDE DEF from, o
  <2>3. /\ [from |-> from, to |-> n + 1] \in Span /\ n + 1 \in Nat
        /\ from < n + 1
    BY <1>1, <2>1, <2>2 DEF Span
  <2>4. /\ o.on = s.on /\ o.next = n + 1 /\ o.pending = <<>>
        /\ o.gap = <<[from |-> from, to |-> n + 1]>> /\ o \in Subscriber
    <3>1. <<[from |-> from, to |-> n + 1]>> \in Seq(Span) /\ <<>> \in Seq(Nat)
      BY <2>3
    <3>2. QED
      BY <1>1, <2>1, <2>3, <3>1 DEF Subscriber
  <2>5. /\ Len(o.gap) = 1 /\ o.gap # <<>> /\ o.gap[1].from = from /\ o.gap[1].to = n + 1
        /\ Len(o.pending) = 0 /\ DOMAIN o.pending = {}
    BY <2>4, EmptyRuns
  <2>6. Bounded(o)
    BY <2>4, <2>5, ServiceAssumption DEF Bounded
  <2>7. Follows(r, o, n)
    BY <2>2, <2>3, <2>4, <2>5 DEF Follows
  <2>8. QED
    BY <2>6, <2>7 DEF o
<1>5. QED
  BY <1>2, <1>3, <1>4

ClientInv ==
  /\ got \in [Clients -> Seq(Span)]
  /\ sub \in [Clients -> Subscriber]
  /\ \A c \in Clients : Bounded(sub[c])
  /\ SubscribersAreServed /\ NothingMissed

LEMMA ClientsKept ==
  ASSUME ClientInv, UNCHANGED <<version, sub, got, up>>
  PROVE  ClientInv'
  BY DEF ClientInv, SubscribersAreServed, NothingMissed

\* The step of one client leaves the others as they were.
LEMMA OneClient ==
  ASSUME TypeOK, ClientInv, NEW c \in Clients, up, UNCHANGED <<version, up>>,
         NEW r \in Seq(Span), Unbroken(r),
         NEW s, Bounded(s), Follows(r, s, version),
         got' = [got EXCEPT ![c] = r], sub' = [sub EXCEPT ![c] = s]
  PROVE  ClientInv'
<1>1. /\ got' \in [Clients -> Seq(Span)] /\ sub' \in [Clients -> Subscriber]
      /\ got'[c] = r /\ sub'[c] = s
      /\ \A d \in Clients \ {c} : got'[d] = got[d] /\ sub'[d] = sub[d]
  BY DEF ClientInv, Bounded
<1>2. \A d \in Clients : Bounded(sub'[d])
  BY <1>1 DEF ClientInv
<1>3. \A d \in Clients : Unbroken(got'[d]) /\ Follows(got'[d], sub'[d], version)
  BY <1>1, MissedByClient DEF ClientInv
<1>4. NothingMissed'
  BY <1>3 DEF NothingMissed, Follows
<1>5. SubscribersAreServed'
  BY DEF SubscribersAreServed
<1>6. QED
  BY <1>1, <1>2, <1>4, <1>5 DEF ClientInv

LEMMA FoldClients ==
  ASSUME TypeOK, ClientInv, up, UNCHANGED <<got, up>>, Fold(version + 1)
  PROVE  ClientInv'
<1>1. version \in Nat /\ version' = version + 1
      /\ sub' = [c \in Clients |-> Offer(sub[c], version + 1)]
  BY DEF TypeOK, Fold
<1>2. ASSUME NEW c \in Clients
      PROVE  /\ Bounded(sub'[c]) /\ Follows(got[c], sub'[c], version + 1)
             /\ Unbroken(got[c])
  <2>1. /\ Bounded(sub[c]) /\ got[c] \in Seq(Span)
        /\ Unbroken(got[c]) /\ Follows(got[c], sub[c], version)
    BY MissedByClient DEF ClientInv
  <2>2. sub'[c] = Offer(sub[c], version + 1)
    BY <1>1
  <2>3. QED
    BY <1>1, <2>1, <2>2, OfferFollows
<1>3. sub' \in [Clients -> Subscriber]
  BY <1>1, <1>2 DEF Bounded
<1>4. NothingMissed'
  BY <1>1, <1>2 DEF NothingMissed, Follows
<1>5. QED
  BY <1>2, <1>3, <1>4 DEF ClientInv, SubscribersAreServed

LEMMA SubscribeClients ==
  ASSUME TypeOK, ClientInv, NEW c \in Clients, Subscribe(c)
  PROVE  ClientInv'
<1> DEFINE from == End(got[c])
<1> DEFINE read == Smaller(from + Batch, Len(stream) + 1)
<1> DEFINE shown == IF read > from THEN read ELSE from
<1> DEFINE head == version + 1
<1> DEFINE gap == IF head > shown THEN <<[from |-> shown, to |-> head]>> ELSE <<>>
<1> DEFINE r == (got[c] \o Singles(from, shown)) \o gap
<1> DEFINE s == [on |-> TRUE, pending |-> <<>>, gap |-> <<>>,
                 next |-> IF head > shown THEN head ELSE shown]
<1>1. /\ got[c] \in Seq(Span) /\ Unbroken(got[c]) /\ from \in Nat
      /\ version \in Nat /\ Len(stream) \in Nat /\ Batch \in Nat
  BY MissedByClient, EndType, ServiceAssumption DEF ClientInv, TypeOK
<1>2. read \in Nat /\ shown \in Nat /\ from <= shown /\ head \in Nat /\ head = version + 1
  BY <1>1 DEF Smaller
<1>3. /\ up /\ UNCHANGED <<version, up>>
      /\ got' = [got EXCEPT ![c] = got[c] \o Singles(from, shown) \o gap]
      /\ sub' = [sub EXCEPT ![c] = s]
  BY DEF Subscribe
<1> HIDE DEF read, shown, head
<1>4. /\ got[c] \o Singles(from, shown) \in Seq(Span)
      /\ Unbroken(got[c] \o Singles(from, shown))
      /\ End(got[c] \o Singles(from, shown)) = shown
  BY <1>1, <1>2, ContinuesSingly
<1>5. /\ gap \in Seq(Span) /\ Len(gap) <= 1
      /\ gap # <<>> => gap[1].from = shown /\ gap[1].from < gap[1].to
      /\ (IF gap = <<>> THEN shown ELSE gap[1].to) = IF head > shown THEN head ELSE shown
  <2>1. CASE head > shown
    <3>1. [from |-> shown, to |-> head] \in Span
      BY <1>2 DEF Span
    <3>2. gap = <<[from |-> shown, to |-> head]>> /\ gap # <<>>
      BY <2>1
    <3>3. gap \in Seq(Span) /\ Len(gap) = 1 /\ gap[1] = [from |-> shown, to |-> head]
      BY <3>1, <3>2
    <3>4. QED
      BY <2>1, <3>2, <3>3
  <2>2. CASE ~(head > shown)
    BY <2>2, EmptyRuns
  <2>3. QED
    BY <2>1, <2>2
<1> HIDE DEF gap
<1>6. r \in Seq(Span) /\ Unbroken(r) /\ End(r) = IF head > shown THEN head ELSE shown
  BY <1>4, <1>5, ContinuesByGap
<1>7. /\ s \in Subscriber /\ Len(s.pending) = 0 /\ Len(s.gap) = 0
      /\ s.gap = <<>> /\ s.next = End(r) /\ s.next > version /\ s.next \in Nat
      /\ DOMAIN s.pending = {}
  BY <1>1, <1>2, <1>6, EmptyRuns DEF Subscriber
<1> HIDE DEF s, r
<1>8. Bounded(s) /\ Follows(r, s, version)
  BY <1>1, <1>7, ServiceAssumption DEF Bounded, Follows
<1>9. got' = [got EXCEPT ![c] = r]
  BY <1>3 DEF r
<1>10. QED
  BY <1>3, <1>6, <1>8, <1>9, OneClient

LEMMA PollClients ==
  ASSUME TypeOK, ClientInv, NEW c \in Clients, Poll(c)
  PROVE  ClientInv'
<1> DEFINE s == sub[c]
<1> DEFINE after == s.next + Len(s.pending)
<1> DEFINE r == (got[c] \o s.gap) \o Singles(s.next, after)
<1> DEFINE t == [s EXCEPT !.pending = <<>>, !.gap = <<>>, !.next = after]
<1>1. /\ s \in Subscriber /\ s.on /\ s.next \in Nat /\ s.gap \in Seq(Span)
      /\ Len(s.pending) \in Nat /\ Len(s.gap) <= 1 /\ s.next <= after /\ after \in Nat
      /\ got[c] \in Seq(Span) /\ Unbroken(got[c]) /\ Follows(got[c], s, version)
      /\ version \in Nat
  BY MissedByClient DEF Poll, ClientInv, Subscriber, TypeOK, Bounded
<1>2. /\ up /\ UNCHANGED <<version, up>>
      /\ got' = [got EXCEPT ![c] = r]
      /\ sub' = [sub EXCEPT ![c] = t]
  <2>1. sub' = [sub EXCEPT ![c].pending = <<>>, ![c].gap = <<>>, ![c].next = after]
    BY DEF Poll
  <2>2. sub' = [sub EXCEPT ![c] = t]
    BY <1>1, <2>1 DEF ClientInv
  <2>3. QED
    BY <2>2 DEF Poll
<1>3. s.gap # <<>> => s.gap[1].from = End(got[c]) /\ s.gap[1].from < s.gap[1].to
  BY <1>1 DEF Follows
<1>4. /\ got[c] \o s.gap \in Seq(Span) /\ Unbroken(got[c] \o s.gap)
      /\ End(got[c] \o s.gap) = s.next
  <2>1. s.next = IF s.gap = <<>> THEN End(got[c]) ELSE s.gap[1].to
    BY <1>1 DEF Follows
  <2>2. QED
    BY <1>1, <1>3, <2>1, ContinuesByGap
<1>5. r \in Seq(Span) /\ Unbroken(r) /\ End(r) = after
  <2> DEFINE g == got[c] \o s.gap
  <2>1. g \in Seq(Span) /\ Unbroken(g) /\ End(g) = s.next /\ r = g \o Singles(s.next, after)
    BY <1>4
  <2>2. after \in Nat /\ s.next <= after
    BY <1>1
  <2> HIDE DEF g, r, after, s
  <2>3. r = g \o Singles(End(g), after) /\ End(g) <= after
    BY <2>1, <2>2
  <2>4. QED
    BY <2>1, <2>2, <2>3, ContinuesSingly
<1>6. /\ t \in Subscriber /\ t.pending = <<>> /\ t.gap = <<>> /\ t.next = after
      /\ after > version
  <2>1. after > version
    BY <1>1 DEF Follows
  <2>2. QED
    BY <1>1, <2>1, EmptyRuns DEF Subscriber
<1> HIDE DEF t, r, after
<1>7. Bounded(t) /\ Follows(r, t, version)
  BY <1>1, <1>5, <1>6, EmptyRuns, ServiceAssumption DEF Bounded, Follows
<1>8. QED
  BY <1>2, <1>5, <1>7, OneClient

LEMMA NextClients == TypeOK /\ KeyInv /\ ClientInv /\ [Next]_vars => ClientInv'
<1> SUFFICES ASSUME TypeOK, KeyInv, ClientInv, [Next]_vars PROVE ClientInv'
  OBVIOUS
<1>1. ASSUME NEW c \in Clients, Unsubscribe(c) PROVE ClientInv'
  <2>1. Bounded(Unsubscribed) /\ Follows(got[c], Unsubscribed, version)
    BY EmptyRuns, ServiceAssumption DEF Bounded, Follows, Unsubscribed, Subscriber
  <2>2. /\ up /\ UNCHANGED <<version, up, got>> /\ sub' = [sub EXCEPT ![c] = Unsubscribed]
    BY <1>1 DEF Unsubscribe, clientVars
  <2>3. /\ got[c] \in Seq(Span) /\ Unbroken(got[c]) /\ got' = [got EXCEPT ![c] = got[c]]
    BY <2>2, MissedByClient DEF ClientInv
  <2>4. QED
    BY <2>1, <2>2, <2>3, OneClient
<1>2. CASE Committed
  <2>1. up /\ UNCHANGED <<got, up>> /\ Fold(version + 1)
    BY <1>2 DEF Committed, KeyInv, CallsAreAdmitted
  <2>2. QED
    BY <2>1, FoldClients
<1>3. CASE CatchUp
  <2>1. up /\ UNCHANGED <<got, up>> /\ (Fold(version + 1) \/ UNCHANGED <<version, sub>>)
    BY <1>3 DEF CatchUp, KeyInv, CallsAreAdmitted, clientVars
  <2>2. QED
    BY <2>1, FoldClients, ClientsKept
<1>4. CASE Attach \/ Crash
  <2>1. /\ got' = got
        /\ \A c \in Clients : ~sub'[c].on /\ Bounded(sub'[c])
        /\ sub' \in [Clients -> Subscriber]
    <3>1. CASE Attach
      BY <3>1 DEF Attach, clientVars, ClientInv, SubscribersAreServed
    <3>2. CASE Crash
      <4>1. Bounded(Unsubscribed) /\ Unsubscribed \in Subscriber /\ ~Unsubscribed.on
        BY EmptyRuns, ServiceAssumption DEF Bounded, Unsubscribed, Subscriber
      <4>2. QED
        BY <3>2, <4>1 DEF Crash, clientVars
    <3>3. QED
      BY <1>4, <3>1, <3>2
  <2>2. QED
    BY <2>1 DEF ClientInv, SubscribersAreServed, NothingMissed
<1>5. CASE StartFresh(None, None) \/ (\E k \in Keys, b \in Bodies : StartFresh(k, b) \/ StartReplay(k, b))
  <2>1. UNCHANGED <<version, sub, got, up>>
    BY <1>5 DEF StartFresh, StartReplay, clientVars
  <2>2. QED
    BY <2>1, ClientsKept
<1>6. CASE (\E t \in known : Finish(t)) \/ Record \/ Conflict \/ Fails \/ OthersAppend \/ UNCHANGED vars
  <2>1. UNCHANGED <<version, sub, got, up>>
    BY <1>6 DEF Finish, Record, Conflict, Fails, OthersAppend, clientVars, vars
  <2>2. QED
    BY <2>1, ClientsKept
<1>7. QED
  BY <1>1, <1>2, <1>3, <1>4, <1>5, <1>6, SubscribeClients, PollClients DEF Next

-----------------------------------------------------------------------------
(* Types, and the theorems.                                                *)

LEMMA InitTyped == Init => TypeOK
<1> SUFFICES ASSUME Init PROVE TypeOK
  OBVIOUS
<1>1. Unsubscribed \in Subscriber /\ Len(Unsubscribed.pending) = 0 /\ Len(Unsubscribed.gap) = 0
  BY EmptyRuns DEF Unsubscribed, Subscriber
<1>2. stream \in Seq(Event) /\ up \in BOOLEAN /\ version \in 0 .. Len(stream)
  <2>1. <<>> \in Seq(Event) /\ Len(<<>>) = 0 /\ 0 \in 0 .. 0
    OBVIOUS
  <2>2. QED
    BY <2>1 DEF Init
<1>3. got \in [Clients -> Seq(Span)]
  BY EmptyRuns DEF Init
<1>4. /\ sub \in [Clients -> Subscriber]
      /\ \A c \in Clients : Len(sub[c].pending) <= Queue /\ Len(sub[c].gap) <= 1
  BY <1>1, ServiceAssumption DEF Init
<1>5. /\ ledger \in [Keys -> Bodies \cup {None}] /\ turnOf \in [Keys -> Nat]
      /\ known \subseteq Nat /\ call \in Call \cup {None}
      /\ answers \subseteq [key : Keys, body : Bodies, turn : Nat]
  BY DEF Init
<1>6. QED
  BY <1>2, <1>3, <1>4, <1>5 DEF TypeOK

\* The fields no subscriber's step touches.
ServiceTyped ==
  /\ stream \in Seq(Event) /\ up \in BOOLEAN
  /\ version \in 0 .. Len(stream)
  /\ ledger \in [Keys -> Bodies \cup {None}]
  /\ turnOf \in [Keys -> Nat] /\ known \subseteq Nat
  /\ call \in Call \cup {None}
  /\ answers \subseteq [key : Keys, body : Bodies, turn : Nat]

LEMMA CommittedTyped ==
  ASSUME TypeOK, KeyInv, Committed
  PROVE  ServiceTyped'
<1> DEFINE e == call.event
<1> DEFINE n == version + 1
<1> DEFINE e2 == IF e.kind = "started" THEN [e EXCEPT !.turn = n] ELSE e
<1>1. /\ call # None /\ e \in Event /\ n = Len(stream) + 1 /\ n \in Nat
      /\ Len(stream) \in Nat
  BY DEF Committed, TypeOK, Call
<1>2. e2 \in Event
  BY <1>1 DEF Event
<1>3. stream' = Append(stream, e2)
  BY DEF Committed
<1>4. version' = n /\ UNCHANGED <<up, ledger>> /\ call' = None
  BY DEF Committed, Fold
<1> HIDE DEF e2
<1>5. stream' \in Seq(Event) /\ Len(stream') = n
  BY <1>1, <1>2, <1>3 DEF TypeOK
<1>6. known' \subseteq Nat
  BY <1>1 DEF Committed, TypeOK
<1>7. turnOf' \in [Keys -> Nat] /\ answers' \subseteq [key : Keys, body : Bodies, turn : Nat]
  <2>1. CASE e.key = None
    BY <2>1 DEF Committed, TypeOK
  <2>2. CASE e.key # None
    <3>1. e.key \in Keys /\ e.body \in Bodies
      BY <1>1, <2>2 DEF Event, KeyInv, CallsAreAdmitted
    <3>2. QED
      BY <1>1, <2>2, <3>1 DEF Committed, TypeOK
  <2>3. QED
    BY <2>1, <2>2
<1>8. version' \in 0 .. Len(stream')
  BY <1>1, <1>4, <1>5
<1>9. QED
  BY <1>4, <1>5, <1>6, <1>7, <1>8 DEF ServiceTyped, TypeOK

LEMMA AttachTyped ==
  ASSUME TypeOK, KeyInv, Attach
  PROVE  ServiceTyped'
<1>1. PICK last \in [Keys -> {0} \cup DOMAIN stream] :
        /\ \A k \in Keys : IF KeyedBy(k) = {} THEN last[k] = 0
                           ELSE last[k] \in KeyedBy(k) /\ \A i \in KeyedBy(k) : i <= last[k]
        /\ turnOf' = last
        /\ ledger' = [k \in Keys |-> IF last[k] = 0 THEN None ELSE stream[last[k]].body]
  BY DEF Attach
<1>2. DOMAIN stream \subseteq Nat /\ Len(stream) \in Nat
  BY DEF TypeOK
<1>3. \A i \in DOMAIN stream : stream[i].body \in Bodies \cup {None}
  <2>1. \A i \in DOMAIN stream : stream[i] \in Event
    BY DEF TypeOK
  <2>2. QED
    BY <2>1 DEF Event
<1>4. turnOf' \in [Keys -> Nat]
  BY <1>1, <1>2
<1>5. ledger' \in [Keys -> Bodies \cup {None}]
  <2>1. \A k \in Keys : last[k] # 0 => last[k] \in DOMAIN stream
    OBVIOUS
  <2>2. QED
    BY <1>1, <1>3, <2>1
<1>6. up' = TRUE /\ version' = Len(stream) /\ known' \subseteq Nat
      /\ UNCHANGED <<stream, call, answers>>
  BY <1>2 DEF Attach, clientVars
<1>7. QED
  BY <1>2, <1>4, <1>5, <1>6 DEF ServiceTyped, TypeOK

LEMMA NextTyped == TypeOK /\ KeyInv /\ ClientInv /\ [Next]_vars => TypeOK'
<1> SUFFICES ASSUME TypeOK, KeyInv, ClientInv, [Next]_vars PROVE TypeOK'
  OBVIOUS
<1>1. ASSUME ServiceTyped' PROVE TypeOK'
  <2>1. ClientInv'
    BY NextClients
  <2>2. QED
    BY <1>1, <2>1 DEF ServiceTyped, ClientInv, Bounded, TypeOK
<1> SUFFICES ServiceTyped'
  BY <1>1
<1>2. ServiceTyped
  BY DEF TypeOK, ServiceTyped
<1> USE DEF ServiceTyped
<1>3. ASSUME NEW c \in Clients, Subscribe(c) \/ Poll(c) \/ Unsubscribe(c) PROVE ServiceTyped'
  BY <1>2, <1>3 DEF Subscribe, Poll, Unsubscribe, admitVars, clientVars
<1>4. ASSUME NEW kind \in {"started", "ended", "other"}, NEW t \in Nat,
             Begin(Unkeyed(kind, t)), UNCHANGED <<stream, up, version, admitVars, answers>>
      PROVE  ServiceTyped'
  <2>1. call' \in Call
    BY <1>4 DEF Begin, Unkeyed, Call, Event
  <2>2. QED
    BY <1>2, <1>4, <2>1 DEF admitVars
<1>5. ASSUME NEW t \in known, Finish(t) PROVE ServiceTyped'
  BY <1>2, <1>4, <1>5 DEF Finish, clientVars
<1>6. CASE Record
  BY <1>4, <1>6 DEF Record, clientVars
<1>7. ASSUME NEW k \in Keys \cup {None}, NEW b \in Bodies \cup {None}, StartFresh(k, b)
      PROVE  ServiceTyped'
  <2>1. call' \in Call
    BY <1>7 DEF StartFresh, Begin, Call, Event
  <2>2. ledger' \in [Keys -> Bodies \cup {None}]
    BY <1>2, <1>7 DEF StartFresh
  <2>3. QED
    BY <1>2, <1>7, <2>1, <2>2 DEF StartFresh, clientVars
<1>8. ASSUME NEW k \in Keys, NEW b \in Bodies, StartReplay(k, b) PROVE ServiceTyped'
  BY <1>2, <1>8 DEF StartReplay, admitVars
<1>9. CASE Conflict
  <2>1. call' \in Call
    BY <1>2, <1>9 DEF Conflict, Call
  <2>2. QED
    BY <1>2, <1>9, <2>1 DEF Conflict, admitVars, clientVars
<1>10. CASE CatchUp
  <2>1. call' \in Call /\ version' \in 0 .. Len(stream)
    BY <1>2, <1>10 DEF CatchUp, Call, Fold
  <2>2. QED
    BY <1>2, <1>10, <2>1 DEF CatchUp, admitVars, clientVars
<1>11. CASE Fails
  BY <1>2, <1>11 DEF Fails, admitVars, clientVars
<1>12. CASE OthersAppend
  <2>1. stream' \in Seq(Event) /\ Len(stream') = Len(stream) + 1 /\ Len(stream) \in Nat
    <3>1. \A t \in DOMAIN stream : t \in Nat
      BY <1>2
    <3>2. Len(stream) \in Nat /\ Len(stream) + 1 \in Nat
      BY <1>2
    <3>3. ASSUME NEW kind \in {"started", "ended", "other"}, NEW t \in Nat
          PROVE  Unkeyed(kind, t) \in Event
      BY DEF Unkeyed, Event
    <3>4. \E e \in Event : stream' = Append(stream, e)
      BY <1>12, <3>1, <3>2, <3>3 DEF OthersAppend
    <3>5. QED
      BY <1>2, <3>4
  <2>2. version' \in 0 .. Len(stream')
    BY <1>2, <1>12, <2>1 DEF OthersAppend
  <2>3. QED
    BY <1>2, <1>12, <2>1, <2>2 DEF OthersAppend, admitVars, clientVars
<1>13. CASE Crash
  <2>1. /\ stream' = stream /\ up' = FALSE /\ version' = 0 /\ known' = {} /\ call' = None
        /\ answers' = answers
    BY <1>13 DEF Crash, clientVars
  <2>2. ledger' \in [Keys -> Bodies \cup {None}] /\ turnOf' \in [Keys -> Nat]
    BY <1>13 DEF Crash
  <2>3. version' \in 0 .. Len(stream')
    BY <1>2, <2>1
  <2>4. QED
    BY <1>2, <2>1, <2>2, <2>3
<1>14. CASE UNCHANGED vars
  BY <1>2, <1>14 DEF vars
<1>15. QED
  BY <1>3, <1>5, <1>6, <1>7, <1>8, <1>9, <1>10, <1>11, <1>12, <1>13, <1>14,
     CommittedTyped, AttachTyped DEF Next

LEMMA InitClients == Init => ClientInv
<1> SUFFICES ASSUME Init PROVE ClientInv
  OBVIOUS
<1>1. TypeOK
  BY InitTyped
<1>2. \A c \in Clients : ~sub[c].on /\ got[c] = <<>>
  BY DEF Init, Unsubscribed
<1>3. Unbroken(<<>>)
  BY EmptyRuns DEF Unbroken
<1>4. QED
  BY <1>1, <1>2, <1>3 DEF TypeOK, ClientInv, Bounded, SubscribersAreServed, NothingMissed

\* The inductive invariant of the service, its stream and its clients.
THEOREM Inductive == Spec => [](TypeOK /\ KeyInv /\ ClientInv)
<1>1. Init => TypeOK /\ KeyInv /\ ClientInv
  BY InitTyped, InitKeys, InitClients
<1>2. TypeOK /\ KeyInv /\ ClientInv /\ [Next]_vars => (TypeOK /\ KeyInv /\ ClientInv)'
  BY NextTyped, NextKeys, NextClients
<1>3. QED
  BY <1>1, <1>2, PTL DEF Spec

\* Every field keeps its type, every subscriber its bounds.
THEOREM TypeCorrect == Spec => []TypeOK
  BY Inductive, PTL

\* start_turn: a key starts one turn, however requests are retried, and every
\* answer names it and the body it was asked with.
THEOREM OneTurnOfAKey == Spec => []KeyStartsOneTurn
<1>1. KeyInv => KeyStartsOneTurn
  BY DEF KeyInv
<1>2. QED
  BY <1>1, Inductive, PTL

\* subscribe, poll, offer: a client is shown one unbroken run of the stream.
THEOREM NothingIsMissed == Spec => []NothingMissed
<1>1. ClientInv => NothingMissed
  BY DEF ClientInv
<1>2. QED
  BY <1>1, Inductive, PTL

=============================================================================
