------------------------------ MODULE EventBus ------------------------------
(***************************************************************************)
(* PartitionedEventBus (events/bus.rs): streams with a counter each,       *)
(* publishers that take a number under the lock of the counters and send   *)
(* after they have let it go, and subscribers that poll their streams.  A  *)
(* stream is a broadcast channel of tokio, which keeps the last Capacity   *)
(* events; a receiver that falls behind is told so once, and then goes on  *)
(* with the oldest event kept.                                             *)
(***************************************************************************)
EXTENDS Naturals, Sequences, FiniteSets

CONSTANTS Streams,
          Publishers, StreamOf,     \* publishers, and the stream of each
          Subscribers, Listens,     \* subscribers, and the streams of each in polling order
          Ids, Payloads,            \* event ids, and payloads
          Capacity                  \* capacity of a channel, a power of two

ASSUME BusAssumption ==
  /\ StreamOf \in [Publishers -> Streams]
  /\ Listens \in [Subscribers -> Seq(Streams)]
  /\ Capacity \in Nat \ {0}

VARIABLES
  counters,   \* sequence_counters
  sending,    \* the event a publisher has numbered and not yet sent, or none
  sent,       \* what has been sent to a stream, in this order
  cursor,     \* position of a subscriber's receiver in each stream
  seen        \* seen_ids

bus == <<counters, sending, sent, cursor, seen>>

Event == [id : Ids, seq : Nat, payload : Payloads]

BusInit ==
  /\ counters = [st \in Streams |-> 0]
  /\ sending = [p \in Publishers |-> {}]
  /\ sent = [st \in Streams |-> <<>>]
  /\ cursor = [s \in Subscribers |-> [st \in Streams |-> 1]]
  /\ seen = [s \in Subscribers |-> {}]

BusType ==
  /\ counters \in [Streams -> Nat]
  /\ sending \in [Publishers -> SUBSET Event]
  /\ \A p \in Publishers : Cardinality(sending[p]) <= 1
  /\ \A st \in Streams : sent[st] \in Seq(Event)
  /\ \A s \in Subscribers, st \in Streams : cursor[s][st] \in 1 .. Len(sent[st]) + 1
  /\ seen \in [Subscribers -> SUBSET Ids]

-----------------------------------------------------------------------------
(* publish *)

\* Fault: a reader's lock is enough, and the number is not counted.
TakeNumberUncounted(p, id, payload) ==
  /\ sending[p] = {}
  /\ sending' = [sending EXCEPT ![p] =
                   {[id |-> id, seq |-> counters[StreamOf[p]] + 1, payload |-> payload]}]
  /\ counters' = [counters EXCEPT ![StreamOf[p]] = IF @ = 0 THEN 1 ELSE @]
  /\ UNCHANGED <<sent, cursor, seen>>

TakeNumber(p, id, payload) ==
  /\ sending[p] = {}
  /\ counters' = [counters EXCEPT ![StreamOf[p]] = @ + 1]
  /\ sending' = [sending EXCEPT ![p] =
                   {[id |-> id, seq |-> counters'[StreamOf[p]], payload |-> payload]}]
  /\ UNCHANGED <<sent, cursor, seen>>

Send(p) ==
  /\ \E event \in sending[p] :
       sent' = [sent EXCEPT ![StreamOf[p]] = Append(@, event)]
  /\ sending' = [sending EXCEPT ![p] = {}]
  /\ UNCHANGED <<counters, cursor, seen>>

-----------------------------------------------------------------------------
(* recv and recv_from *)

Oldest(st) == IF Len(sent[st]) > Capacity THEN Len(sent[st]) - Capacity + 1 ELSE 1

Empty(s, st)  == cursor[s][st] > Len(sent[st])
Lagged(s, st) == cursor[s][st] < Oldest(st)
NextOf(s, st) == sent[st][cursor[s][st]]
Fresh(s, st)  == ~Empty(s, st) /\ ~Lagged(s, st) /\ NextOf(s, st).id \notin seen[s]

\* try_recv: an event, a duplicate included, is taken; who lags is put at the oldest.
Advanced(s, st) ==
  IF Empty(s, st) THEN cursor[s][st]
  ELSE IF Lagged(s, st) THEN Oldest(st)
  ELSE cursor[s][st] + 1

\* What one call of a subscriber on the streams q, in their order, returns: the first fresh
\* event, or nothing, though a stream on which it lagged may have more
FirstFresh(s, q) == {i \in DOMAIN q : Fresh(s, q[i]) /\ \A j \in 1 .. i - 1 : ~Fresh(s, q[j])}
Received(s, q) == {NextOf(s, q[i]) : i \in FirstFresh(s, q)}

\* The call: the streams after the one that had it are not polled.
Poll(s, q) ==
  LET polled == {q[i] : i \in {j \in DOMAIN q : \A f \in FirstFresh(s, q) : j <= f}}
  IN /\ cursor' = [cursor EXCEPT ![s] =
                     [st \in Streams |-> IF st \in polled THEN Advanced(s, st) ELSE @[st]]]
     /\ seen' = [seen EXCEPT ![s] = @ \cup {event.id : event \in Received(s, q)}]
     /\ UNCHANGED <<counters, sending, sent>>
=============================================================================
