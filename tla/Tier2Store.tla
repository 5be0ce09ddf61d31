----------------------------- MODULE Tier2Store -----------------------------
(***************************************************************************)
(* Tier2Store (events/store/tier2.rs), one stream of it: every BaseInterval-th *)
(* event is stored whole and the others as a delta against the event stored  *)
(* last, in five trees that are written one after the other.  The process may *)
(* crash between two writes; sled, flushed at the end of a store, recovers a *)
(* prefix of them.  The writer stores its events in the order of their       *)
(* sequence numbers, and after a crash goes on with the next or tries the    *)
(* event it was at again.                                                  *)
(***************************************************************************)
EXTENDS Naturals, Sequences, FiniteSetsExt

(* The coding: the exclusive or of two payloads as far as the older one reaches, and *)
(* the rest of the newer one as it is.  A payload is a sequence of bits.             *)

Payload == Seq(BOOLEAN)

\* Bit i of the exclusive or of s and t, where a position past the end of s counts as 0
XorBit(s, t, i) == IF i <= Len(s) THEN s[i] # t[i] ELSE t[i]

ComputeDelta(prev, current) == [i \in 1 .. Len(current) |-> XorBit(prev, current, i)]

ApplyDelta(prev, delta) == [i \in 1 .. Len(delta) |-> XorBit(prev, delta, i)]

-----------------------------------------------------------------------------

CONSTANTS ByteStrings,   \* payloads of events
          BaseInterval,  \* base_interval
          MaxSeq,        \* bound: sequence numbers
          MaxFaults      \* bound: crashes and removals

ASSUME StoreAssumption ==
  /\ ByteStrings \subseteq Payload
  /\ BaseInterval \in Nat \ {0}     \* asserted by with_base_interval
  /\ MaxSeq \in Nat /\ MaxFaults \in Nat

VARIABLES
  events,   \* EVENTS_TREE: entries by event, named by its sequence number
  headers,  \* HEADERS_TREE: its keys
  index,    \* STREAM_INDEX_TREE: its keys
  last,     \* LAST_PAYLOADS_TREE: the payload of this stream, <<>> before the first
  bases,    \* BASES_TREE: its keys
  write,    \* the next write of the store in progress, or "none"
  order,    \* the event it stores, the entry it has encoded, and whether it is tried again
  acked,    \* history: payloads of the events whose store has returned
  calm,     \* history: those of them stored since the last crash or removal, at once
  faults    \* crashes and removals so far

trees == <<events, headers, index, last, bases>>
vars  == <<trees, write, order, acked, calm, faults>>

-----------------------------------------------------------------------------
(* Reading *)

\* Fault: a base just after the event counts as well.
BasesBeforeNext(seq) == {b \in bases \cap index : b <= seq + 1}

\* find_base_before: the bases at or before an event
BasesBefore(seq) == {b \in bases \cap index : b <= seq}
StartOf(seq) == IF BasesBefore(seq) = {} THEN seq ELSE Max(BasesBefore(seq))

\* The index entries a replay walks through, and the events they lead to
Walk(start, seq) == {x \in index : start <= x /\ x <= seq}
Present(S) == S \subseteq DOMAIN events

\* One step of a replay: a whole payload, a delta on the one before, or a delta skipped
\* because no whole payload has been seen.
Replayed(state, seq) ==
  IF events[seq].full THEN [payload |-> events[seq].data, loaded |-> TRUE]
  ELSE IF state.loaded THEN [state EXCEPT !.payload = ApplyDelta(@, events[seq].data)]
  ELSE state

\* The walk from start to an event.  Without a base it believes it has one.
Decode(start, seq) ==
  LET state[n \in start - 1 .. seq] ==
        IF n < start THEN [payload |-> <<>>, loaded |-> BasesBefore(start) = {}]
        ELSE IF n \in index THEN Replayed(state[n - 1], n) ELSE state[n - 1]
  IN state[seq]

\* load: the payload found, or nothing when there is none or the walk fails
Load(seq) ==
  IF seq \notin DOMAIN events \cap headers THEN {}
  ELSE IF events[seq].full THEN {events[seq].data}
  ELSE IF seq \in index /\ Present(Walk(StartOf(seq), seq)) /\ Decode(StartOf(seq), seq).loaded
       THEN {Decode(StartOf(seq), seq).payload}
       ELSE {}

\* replay: the payloads from an event on, unless an entry or a header is missing
ReplayFails(from) ==
  \/ ~Present(Walk(StartOf(from), MaxSeq))
  \/ \E x \in Walk(from, MaxSeq) : Decode(StartOf(from), x).loaded /\ x \notin headers

\* Fault: the walk starts at the event asked for, and not at its base.
ReplayFromEvent(from) ==
  [x \in {y \in Walk(from, MaxSeq) : Decode(from, y).loaded} |-> Decode(from, x).payload]

Replay(from) ==
  [x \in {y \in Walk(from, MaxSeq) : Decode(StartOf(from), y).loaded} |->
     Decode(StartOf(from), x).payload]

-----------------------------------------------------------------------------
(* Writing *)

NoOrder ==
  [seq |-> 0, payload |-> <<>>, entry |-> [full |-> FALSE, data |-> <<>>], again |-> FALSE]

Interrupted == order # NoOrder

\* The events the writer may store now: the interrupted one, or one after all others,
\* of which one may have been lost on the way to the store.
NextEvents ==
  LET seen == DOMAIN acked \cup (IF Interrupted THEN {order.seq} ELSE {})
      top  == IF seen = {} THEN 0 ELSE Max(seen)
  IN (IF Interrupted THEN {order.seq} ELSE {})
     \cup {s \in {top + 1, top + 2} : s <= MaxSeq}

\* The entry that store makes of an event: whole by the number of events in the index,
\* otherwise a delta against the payload written last.
Encoded(payload) ==
  LET full == Cardinality(index) % BaseInterval = 0
  IN [full |-> full, data |-> IF full THEN payload ELSE ComputeDelta(last, payload)]

Store(seq, payload) ==
  /\ write = "none"
  /\ seq \in NextEvents
  /\ seq = order.seq => payload = order.payload
  /\ order' = [seq |-> seq, payload |-> payload, entry |-> Encoded(payload),
               again |-> seq = order.seq]
  /\ write' = "events"
  /\ UNCHANGED <<trees, acked, calm, faults>>

Put(f, key, value) == [x \in DOMAIN f \cup {key} |-> IF x = key THEN value ELSE f[x]]

\* One insertion of the store in progress, and the one after it
Writes(tree, then) ==
  /\ write = tree /\ write' = then
  /\ UNCHANGED <<order, acked, calm, faults>>

InsertEvent ==
  /\ Writes("events", "headers")
  /\ events' = Put(events, order.seq, order.entry)
  /\ UNCHANGED <<headers, index, last, bases>>

\* Fault: the header is left to be written with the next event.
InsertHeaderLate ==
  /\ Writes("headers", "index")
  /\ headers' = headers \cup DOMAIN acked
  /\ UNCHANGED <<events, index, last, bases>>

InsertHeader ==
  /\ Writes("headers", "index")
  /\ headers' = headers \cup {order.seq}
  /\ UNCHANGED <<events, index, last, bases>>

InsertIndex ==
  /\ Writes("index", "last")
  /\ index' = index \cup {order.seq}
  /\ UNCHANGED <<events, headers, last, bases>>

\* Fault: only whole payloads are noted, and deltas taken against them.
InsertLastBase ==
  /\ Writes("last", "bases")
  /\ last' = IF order.entry.full THEN order.payload ELSE last
  /\ UNCHANGED <<events, headers, index, bases>>

InsertLast ==
  /\ Writes("last", "bases")
  /\ last' = order.payload
  /\ UNCHANGED <<events, headers, index, bases>>

InsertBase ==
  /\ Writes("bases", "flush")
  /\ bases' = IF order.entry.full THEN bases \cup {order.seq} ELSE bases
  /\ UNCHANGED <<events, headers, index, last>>

Flush ==
  /\ write = "flush" /\ write' = "none"
  /\ acked' = Put(acked, order.seq, order.payload)
  /\ calm' = IF order.again THEN calm ELSE calm \cup {order.seq}
  /\ order' = NoOrder
  /\ UNCHANGED <<trees, faults>>

-----------------------------------------------------------------------------
(* Faults *)

\* The process ends between two writes of a store, or with the last one unflushed.
Crash ==
  /\ write # "none" /\ faults < MaxFaults
  /\ write' = "none" /\ calm' = {} /\ faults' = faults + 1
  /\ UNCHANGED <<trees, order, acked>>

\* remove: the header goes and then the data, unless the process ends in between; the
\* index entry stays.
RemoveEvent(seq, ended) ==
  /\ write = "none" /\ faults < MaxFaults
  /\ seq \in DOMAIN acked \cap DOMAIN events
  /\ headers' = headers \ {seq}
  /\ events' = IF ended THEN events ELSE [x \in DOMAIN events \ {seq} |-> events[x]]
  /\ calm' = {} /\ faults' = faults + 1
  /\ UNCHANGED <<index, last, bases, write, order, acked>>

-----------------------------------------------------------------------------
Init ==
  /\ events = <<>> /\ headers = {} /\ index = {} /\ last = <<>> /\ bases = {}
  /\ write = "none" /\ order = NoOrder
  /\ acked = <<>> /\ calm = {} /\ faults = 0

Next ==
  \/ \E seq \in 1 .. MaxSeq, payload \in ByteStrings : Store(seq, payload)
  \/ InsertEvent \/ InsertHeader \/ InsertIndex \/ InsertLast \/ InsertBase \/ Flush
  \/ Crash
  \/ \E seq \in 1 .. MaxSeq, ended \in BOOLEAN : RemoveEvent(seq, ended)

Spec == Init /\ [][Next]_vars

-----------------------------------------------------------------------------
(* Correctness *)

Entry == [full : BOOLEAN, data : Payload]

TypeOK ==
  /\ DOMAIN events \subseteq 1 .. MaxSeq /\ events \in [DOMAIN events -> Entry]
  /\ headers \subseteq 1 .. MaxSeq /\ index \subseteq 1 .. MaxSeq /\ bases \subseteq 1 .. MaxSeq
  /\ last \in Payload
  /\ write \in {"none", "events", "headers", "index", "last", "bases", "flush"}
  /\ order \in [seq : 0 .. MaxSeq, payload : Payload, entry : Entry, again : BOOLEAN]
  /\ DOMAIN acked \subseteq 1 .. MaxSeq /\ acked \in [DOMAIN acked -> Payload]
  /\ calm \subseteq DOMAIN acked /\ faults \in 0 .. MaxFaults

Readable(seq) == seq \in DOMAIN acked /\ Load(seq) = {acked[seq]}

\* Whatever has happened to the trees before, an event is read back as it was stored
\* once a whole event has been stored since: a crash, a removal or an event tried again,
\* which is counted twice and encoded against itself, reach to the next base and no
\* further.  Without faults it says that every event is read back.
BaseHeals ==
  \A seq \in calm : (\E b \in calm \cap bases : b <= seq) => Readable(seq)

\* The events of which a step removes something
Removed == (headers \ headers') \cup (DOMAIN events \ DOMAIN events')

\* What can be read can still be read after any write of any store, any crash, and the
\* removal of a later event.
Durable ==
  [][\A seq \in DOMAIN acked :
       Readable(seq) /\ (\A x \in Removed : x > seq) => Readable(seq)']_vars

\* load and replay, each with a walk of its own, find the same payload for an event
\* with a base at or before it.
ReplayAgrees ==
  \A from \in index : ~ReplayFails(from) =>
    \A seq \in DOMAIN acked :
      /\ seq >= from /\ BasesBefore(seq) # {} /\ Readable(seq)
      => seq \in DOMAIN Replay(from) /\ Replay(from)[seq] = acked[seq]

\* The index is written after data and header: no crash leaves it pointing at nothing,
\* which would fail every replay of the stream.  What was removed it does point at.
IndexBacked ==
  [][\A seq \in index' : seq \notin DOMAIN events' \cap headers'
       => seq \in index /\ seq \notin headers' /\ seq \in DOMAIN acked]_vars
=============================================================================
