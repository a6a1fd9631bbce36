--------------------------- MODULE AgentService ---------------------------
(***************************************************************************)
(* The agent service of one session (arsy-kernel, service.rs): what admits *)
(* turn requests, appends to the session's stream and shows the stream to  *)
(* subscribed clients.                                                     *)
(*                                                                         *)
(* One service serves the keyed requests of a session; it may die and      *)
(* attach again.  It is not the stream's only writer: the task graph, and  *)
(* recovery in another process, append whenever they like.  A call holds   *)
(* the service's lock, so calls do not overlap; the appends of others fall *)
(* between any two of a call's steps.                                      *)
(*                                                                         *)
(* A turn is known by the sequence number of its turn.started.             *)
(***************************************************************************)
EXTENDS Naturals, Sequences

CONSTANTS
  Keys,        \* idempotency keys
  Bodies,      \* bodies of a request: what request_digest tells apart
  Clients,     \* subscribed clients
  None,        \* no key, no body, no call
  Batch,       \* MAX_SUBSCRIPTION_BATCH
  Queue,       \* MAX_SUBSCRIBER_QUEUE
  MaxEvents    \* bound of the model: length of the stream

ASSUME ServiceAssumption ==
  /\ Batch \in Nat \ {0} /\ Queue \in Nat \ {0} /\ MaxEvents \in Nat
  /\ None \notin Keys /\ None \notin Bodies

VARIABLES
  stream,    \* the committed events
  up,        \* a service is attached
  version,   \* the prefix it has folded
  ledger,    \* RequestLedger: the body each key was admitted with
  turnOf,    \* turns_by_key
  known,     \* started_at: the turns it can close
  call,      \* the call that holds the lock, or None
  sub,       \* each client's Subscriber
  \* of the clients
  got,       \* what each was shown: runs of sequence numbers, from .. to - 1
  answers    \* the admissions that were answered

storeVars == <<stream>>
admitVars == <<ledger, turnOf, known>>
clientVars == <<got, answers>>
vars == <<stream, up, version, ledger, turnOf, known, call, sub, got, answers>>

Event == [kind : {"started", "ended", "other"}, turn : Nat,
          key : Keys \cup {None}, body : Bodies \cup {None}]
Span == [from : Nat, to : Nat]
Call == [at : {"append", "catchUp", "again"}, event : Event]
Subscriber == [on : BOOLEAN, next : Nat, pending : Seq(Nat), gap : Seq(Span)]

Unsubscribed == [on |-> FALSE, next |-> 0, pending |-> <<>>, gap |-> <<>>]

TypeOK ==
  /\ stream \in Seq(Event) /\ up \in BOOLEAN
  /\ version \in 0 .. Len(stream)
  /\ ledger \in [Keys -> Bodies \cup {None}]
  /\ turnOf \in [Keys -> Nat] /\ known \subseteq Nat
  /\ call \in Call \cup {None}
  /\ sub \in [Clients -> Subscriber]
  /\ \A c \in Clients : Len(sub[c].pending) <= Queue /\ Len(sub[c].gap) <= 1
  /\ got \in [Clients -> Seq(Span)]
  /\ answers \subseteq [key : Keys, body : Bodies, turn : Nat]

-----------------------------------------------------------------------------
(* A subscriber's bounded buffer.                                          *)

\* Mutant: an overflow starts its gap at the cursor, whatever gap was pending.
OfferRestartsGap(s, n) ==
  IF ~s.on \/ n # s.next + Len(s.pending)
    THEN s
  ELSE IF Len(s.pending) < Queue
    THEN [s EXCEPT !.pending = Append(@, n)]
  ELSE [s EXCEPT !.pending = <<>>, !.next = n + 1,
                 !.gap = <<[from |-> s.next, to |-> n + 1]>>]

\* Mutant: the queue takes one event more than its bound.
OfferOneMore(s, n) ==
  IF ~s.on \/ n # s.next + Len(s.pending)
    THEN s
  ELSE IF Len(s.pending) <= Queue
    THEN [s EXCEPT !.pending = Append(@, n)]
  ELSE [s EXCEPT !.pending = <<>>, !.next = n + 1,
                 !.gap = <<[from |-> IF s.gap = <<>> THEN s.next ELSE s.gap[1].from,
                            to |-> n + 1]>>]

\* Subscriber::offer: what the snapshot already showed is ignored; a full queue
\* becomes a gap, which joins the one that waits.
Offer(s, n) ==
  IF ~s.on \/ n # s.next + Len(s.pending)
    THEN s
  ELSE IF Len(s.pending) < Queue
    THEN [s EXCEPT !.pending = Append(@, n)]
  ELSE [s EXCEPT !.pending = <<>>, !.next = n + 1,
                 !.gap = <<[from |-> IF s.gap = <<>> THEN s.next ELSE s.gap[1].from,
                            to |-> n + 1]>>]

\* Event n is folded and offered to every subscriber.
Fold(n) ==
  /\ version' = n
  /\ sub' = [c \in Clients |-> Offer(sub[c], n)]

\* Events n .. m - 1, each a run of its own.
Singles(n, m) == [i \in 1 .. m - n |-> [from |-> n + i - 1, to |-> n + i]]

End(runs) == IF runs = <<>> THEN 1 ELSE runs[Len(runs)].to

Smaller(m, n) == IF m < n THEN m ELSE n

\* subscribe, from where the client was last shown the stream: one batch read
\* from the store, which may be ahead of the service, then a gap up to what the
\* service has folded.
Subscribe(c) ==
  LET from == End(got[c])
      read == Smaller(from + Batch, Len(stream) + 1)
      shown == IF read > from THEN read ELSE from
      head == version + 1
      gap == IF head > shown THEN <<[from |-> shown, to |-> head]>> ELSE <<>>
  IN /\ up /\ call = None
     /\ got' = [got EXCEPT ![c] = @ \o Singles(from, shown) \o gap]
     /\ sub' = [sub EXCEPT ![c] = [on |-> TRUE, pending |-> <<>>, gap |-> <<>>,
                                   next |-> IF head > shown THEN head ELSE shown]]
     /\ UNCHANGED <<stream, up, version, admitVars, call, answers>>

\* poll: the gap, then the events after it.
Poll(c) ==
  LET s == sub[c]
      after == s.next + Len(s.pending)
  IN /\ up /\ call = None /\ s.on
     /\ got' = [got EXCEPT ![c] = @ \o s.gap \o Singles(s.next, after)]
     /\ sub' = [sub EXCEPT ![c].pending = <<>>, ![c].gap = <<>>, ![c].next = after]
     /\ UNCHANGED <<stream, up, version, admitVars, call, answers>>

Unsubscribe(c) ==
  /\ up /\ call = None
  /\ sub' = [sub EXCEPT ![c] = Unsubscribed]
  /\ UNCHANGED <<stream, up, version, admitVars, call, clientVars>>

-----------------------------------------------------------------------------
(* Calls that append.                                                      *)

Unkeyed(kind, t) == [kind |-> kind, turn |-> t, key |-> None, body |-> None]

Begin(event) == call' = [at |-> "append", event |-> event]

\* start_turn, of a key never admitted: it is admitted before the append, and
\* stays admitted when the append fails.  An unkeyed request is always fresh.
StartFresh(k, b) ==
  /\ up /\ call = None
  /\ \/ k = None /\ UNCHANGED ledger
     \/ k \in Keys /\ ledger[k] = None /\ ledger' = [ledger EXCEPT ![k] = b]
  /\ Begin([kind |-> "started", turn |-> 0, key |-> k, body |-> b])
  /\ UNCHANGED <<stream, up, version, turnOf, known, sub, clientVars>>

\* start_turn, of a key admitted with this body.  One whose turn was never
\* recorded is LedgerDesync, one with another body IdempotencyConflict: neither
\* changes anything.
StartReplay(k, b) ==
  /\ up /\ call = None
  /\ ledger[k] = b /\ turnOf[k] # 0
  /\ answers' = answers \cup {[key |-> k, body |-> b, turn |-> turnOf[k]]}
  /\ UNCHANGED <<stream, up, version, admitVars, call, sub, got>>

EndedBy(n) == {stream[i].turn : i \in {j \in 1 .. n : stream[j].kind = "ended"}}

\* finish_turn: the turn runs in the folded prefix, and the service saw it start.
Finish(t) ==
  /\ up /\ call = None
  /\ t \in known \ EndedBy(version)
  /\ Begin(Unkeyed("ended", t))
  /\ UNCHANGED <<stream, up, version, admitVars, sub, clientVars>>

\* record_usage, record_transcript, record_compaction and record_approval.
Record ==
  /\ up /\ call = None
  /\ Begin(Unkeyed("other", 0))
  /\ UNCHANGED <<stream, up, version, admitVars, sub, clientVars>>

\* append: the expected version is the stream's.
Committed ==
  LET n == version + 1
      e == call.event
  IN /\ call # None /\ call.at \in {"append", "again"}
     /\ version = Len(stream) /\ n <= MaxEvents
     /\ stream' = Append(stream, IF e.kind = "started" THEN [e EXCEPT !.turn = n] ELSE e)
     /\ Fold(n)
     /\ IF e.kind = "started"
          THEN known' = known \cup {n}
          ELSE UNCHANGED known
     /\ IF e.key # None
          THEN /\ turnOf' = [turnOf EXCEPT ![e.key] = n]
               /\ answers' = answers \cup {[key |-> e.key, body |-> e.body, turn |-> n]}
          ELSE UNCHANGED <<turnOf, answers>>
     /\ call' = None
     /\ UNCHANGED <<up, ledger, got>>

\* Someone else appended since the service looked.
Conflict ==
  /\ call # None /\ call.at = "append" /\ version < Len(stream)
  /\ call' = [call EXCEPT !.at = "catchUp"]
  /\ UNCHANGED <<stream, up, version, admitVars, sub, clientVars>>

\* catch_up, an event at a time: the projection and the subscribers follow, the
\* ledger and the turn maps do not.
CatchUp ==
  /\ call # None /\ call.at = "catchUp"
  /\ IF version < Len(stream)
       THEN Fold(version + 1) /\ UNCHANGED call
       ELSE call' = [call EXCEPT !.at = "again"] /\ UNCHANGED <<version, sub>>
  /\ UNCHANGED <<stream, up, admitVars, clientVars>>

\* A second conflict, or a store that fails.
Fails ==
  /\ call # None
  /\ call' = None
  /\ UNCHANGED <<stream, up, version, admitVars, sub, clientVars>>

-----------------------------------------------------------------------------
(* The rest of the session.                                                *)

\* The task graph's events, unkeyed turns, and recovery's ends.
OthersAppend ==
  /\ Len(stream) < MaxEvents
  /\ \/ stream' = Append(stream, Unkeyed("other", 0))
     \/ stream' = Append(stream, Unkeyed("started", Len(stream) + 1))
     \/ \E t \in DOMAIN stream \ EndedBy(Len(stream)) :
          stream[t].kind = "started" /\ stream' = Append(stream, Unkeyed("ended", t))
  /\ UNCHANGED <<up, version, admitVars, call, sub, clientVars>>

\* Mutant: a service that attaches remembers turns, not keys.
AttachForgets ==
  /\ ~up /\ up' = TRUE
  /\ version' = Len(stream)
  /\ known' = {i \in DOMAIN stream : stream[i].kind = "started"}
  /\ UNCHANGED <<stream, ledger, turnOf, call, sub, clientVars>>

KeyedBy(k) == {i \in DOMAIN stream : stream[i].kind = "started" /\ stream[i].key = k}

\* attach: the last event of a key is the one its maps keep.
Attach ==
  /\ ~up /\ up' = TRUE
  /\ version' = Len(stream)
  /\ known' = {i \in DOMAIN stream : stream[i].kind = "started"}
  /\ \E last \in [Keys -> {0} \cup DOMAIN stream] :
       /\ \A k \in Keys : IF KeyedBy(k) = {} THEN last[k] = 0
                          ELSE last[k] \in KeyedBy(k) /\ \A i \in KeyedBy(k) : i <= last[k]
       /\ turnOf' = last
       /\ ledger' = [k \in Keys |-> IF last[k] = 0 THEN None ELSE stream[last[k]].body]
  /\ UNCHANGED <<stream, call, sub, clientVars>>

\* The process dies: calls are not answered, subscriptions are gone.
Crash ==
  /\ up /\ up' = FALSE
  /\ version' = 0 /\ known' = {} /\ call' = None
  /\ ledger' = [k \in Keys |-> None] /\ turnOf' = [k \in Keys |-> 0]
  /\ sub' = [c \in Clients |-> Unsubscribed]
  /\ UNCHANGED <<stream, clientVars>>

-----------------------------------------------------------------------------
Init ==
  /\ stream = <<>> /\ up = FALSE /\ version = 0
  /\ ledger = [k \in Keys |-> None] /\ turnOf = [k \in Keys |-> 0]
  /\ known = {} /\ call = None
  /\ sub = [c \in Clients |-> Unsubscribed]
  /\ got = [c \in Clients |-> <<>>] /\ answers = {}

Next ==
  \/ \E c \in Clients : Subscribe(c) \/ Poll(c) \/ Unsubscribe(c)
  \/ StartFresh(None, None)
  \/ \E k \in Keys, b \in Bodies : StartFresh(k, b) \/ StartReplay(k, b)
  \/ \E t \in known : Finish(t)
  \/ Record
  \/ Committed \/ Conflict \/ CatchUp \/ Fails
  \/ OthersAppend \/ Attach \/ Crash

Spec == Init /\ [][Next]_vars

-----------------------------------------------------------------------------
(* Properties.                                                             *)

\* start_turn: however often a request is retried, through conflicts, failed
\* appends and restarts, its key starts one turn, and every answer names that
\* turn and the body it was asked with.
KeyStartsOneTurn ==
  /\ \A k \in Keys : \A i, j \in KeyedBy(k) : i = j
  /\ \A a \in answers : a.turn \in KeyedBy(a.key) /\ stream[a.turn].body = a.body

Unbroken(runs) ==
  /\ \A i \in DOMAIN runs : runs[i].from < runs[i].to
  /\ \A i \in DOMAIN runs : runs[i].from = IF i = 1 THEN 1 ELSE runs[i - 1].to

\* subscribe, poll and offer: what a client was shown, over all its
\* subscriptions, is one unbroken run of the stream, each event once or in one
\* gap; the gap that waits goes on where that ends, the queue where the gap
\* ends, and the queue reaches all that the service has folded.
NothingMissed ==
  \A c \in Clients :
    /\ Unbroken(got[c])
    /\ sub[c].on =>
         LET s == sub[c]
         IN /\ IF s.gap = <<>> THEN s.next = End(got[c])
               ELSE /\ s.gap[1].from = End(got[c]) /\ s.gap[1].from < s.gap[1].to
                    /\ s.next = s.gap[1].to
            /\ \A i \in DOMAIN s.pending : s.pending[i] = s.next + i - 1
            /\ s.next + Len(s.pending) > version

=============================================================================
