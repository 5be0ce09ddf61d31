----------------------------- MODULE EventTiers -----------------------------
(***************************************************************************)
(* The stores of tiers 1 and 3 (events/store/tier1.rs, tier3.rs), the      *)
(* schemas an old event is lifted by (schema.rs), and the headers and codes *)
(* of the events the program emits (runtime.rs).  An event is its id, its    *)
(* stream and its sequence number; two events may share stream and number,  *)
(* because every run of a program counts from one again.                    *)
(***************************************************************************)
EXTENDS Integers, Sequences, SequencesExt, FiniteSets

CONSTANTS Ttl,           \* ttl of Tier3Store
          Tier1Events,   \* the events there may be in tier 1
          MaxCalls, MaxCrashes  \* bounds: calls at a time, and crashes

\* An id is of one event.
ASSUME TierAssumption ==
  /\ IsFiniteSet(Tier1Events)
  /\ \A e \in Tier1Events : e.id \in Int /\ e.seq \in Nat
  /\ \A a, b \in Tier1Events : a.id = b.id => a = b

SameKey(a, b) == a.stream = b.stream /\ a.seq = b.seq

Precedes(a, b) == a.seq < b.seq \/ (a.seq = b.seq /\ a.id < b.id)

\* The events of S by their number, the lower id first: each has before it those that precede it.
Ordered(S) ==
  LET Place(e) == Cardinality({x \in S : Precedes(x, e)}) + 1
  IN [i \in 1 .. Cardinality(S) |-> CHOOSE e \in S : Place(e) = i]

-----------------------------------------------------------------------------
(* Tier1Store: two sled trees.  What is written is in memory at once and on *)
(* disk in the order it was written, all of it after a flush.  index holds,  *)
(* for a stream and a number, the event whose id is stored there.            *)

NewTrees == [events |-> {}, index |-> {}]

WriteEvent(e)  == [kind |-> "event", event |-> e]
WriteIndex(e)  == [kind |-> "index", event |-> e]
DeleteEvent(e) == [kind |-> "delete", event |-> e]

Written(trees, w) ==
  CASE w.kind = "event"  -> [trees EXCEPT !.events = @ \cup {w.event}]
    [] w.kind = "index"  -> [trees EXCEPT !.index = {e \in @ : ~SameKey(e, w.event)} \cup {w.event}]
    [] w.kind = "delete" -> [trees EXCEPT !.events = @ \ {w.event}]

AllWritten(trees, writes) == FoldLeft(Written, trees, writes)

\* Fault: the index is written first.
StoreWritesIndexFirst(e) == <<WriteIndex(e), WriteEvent(e)>>

\* What store and remove write, before they flush: the index entry of a removed event stays.
StoreWrites(e)  == <<WriteEvent(e), WriteIndex(e)>>
RemoveWrites(e) == <<DeleteEvent(e)>>

LoadTier1(trees, id) == {e \in trees.events : e.id = id}

\* An index entry without its event is passed over.
ReplayTier1(trees, stream, from) ==
  Ordered({e \in trees.index : e.stream = stream /\ e.seq >= from /\ e \in trees.events})

-----------------------------------------------------------------------------
(* Tier3Store: a map with the time of each event, an index that may name an *)
(* event more than once, and the files of the cold storage.                  *)

NewTier3 == [events |-> {}, index |-> <<>>, cold |-> {}]

Stale(entry, now) == now - entry.at > Ttl

StoreTier3(store, e, now) ==
  [store EXCEPT !.events = {x \in @ : x.event # e} \cup {[event |-> e, at |-> now]},
                !.index = Append(@, e)]

LoadTier3(store, id, now) ==
  {x.event : x \in {y \in store.events : y.event.id = id /\ ~Stale(y, now)}}

ReplayTier3(store, stream, from, now) ==
  SortSeq(SelectSeq(store.index, LAMBDA e : /\ e.stream = stream /\ e.seq >= from
                                            /\ LoadTier3(store, e.id, now) # {}),
          LAMBDA a, b : a.seq < b.seq)

RemoveTier3(store, id) ==
  [store EXCEPT !.events = {x \in @ : x.event.id # id},
                !.index = SelectSeq(@, LAMBDA e : e.id # id)]

\* archive_expired: a write that fails is ignored, and the event is gone.
ArchiveExpired(store, now, writable) ==
  LET old == {x.event : x \in {y \in store.events : Stale(y, now)}}
  IN [events |-> {x \in store.events : ~Stale(x, now)},
      index |-> SelectSeq(store.index, LAMBDA e : e \notin old),
      cold |-> IF writable THEN store.cold \cup old ELSE store.cold]

-----------------------------------------------------------------------------
(* SchemaRegistry and Upcaster: a schema is its type and version; an        *)
(* upcaster its type and the versions it leads from and to.                  *)

Versions(schemas, type) == {s.version : s \in {x \in schemas : x.type = type}}

\* register: an error, and no change, for a schema that is already there
Registered(schemas, s) == schemas \cup {s}

\* latest_versions starts from 0 for every type: a version of 0 never becomes the latest.
LatestVersion(schemas, type) ==
  LET known == Versions(schemas, type) \ {0}
  IN {v \in known : \A u \in known : u <= v}

\* upcast_to_latest: the version the data ends at, or none for an error; data that is
\* newer than the latest schema is answered unchanged.
UpcastToLatest(schemas, upcasters, type, from) ==
  LET latest == LatestVersion(schemas, type)
      Rungs(to) == {[type |-> type, from |-> v, to |-> v + 1] : v \in from .. to - 1}
  IN {IF v < from THEN from ELSE v : v \in {u \in latest : Rungs(u) \subseteq upcasters}}

-----------------------------------------------------------------------------
(* RuntimeSequencer, and the codes of decisions and of what was skipped *)

StreamIds == {"market", "strategy", "execution", "state"}
NewSequencer == [s \in StreamIds |-> 0]

\* next_header: its sequence number
NextNumber(sequencer, stream) == sequencer[stream] + 1
Numbered(sequencer, stream) == [sequencer EXCEPT ![stream] = @ + 1]

ActionOf(direction) == IF direction = {} THEN "Hold" ELSE CHOOSE d \in direction : TRUE
DecisionOf(action) == IF action \in {"Buy", "Sell"} THEN "Execute" ELSE "Skip"

\* A decision carries its action, its lots and the reason it was skipped, if it was.
DecisionEvent(sequencer, strategy, action, lots, reason) ==
  [stream |-> "strategy", seq |-> NextNumber(sequencer, "strategy"), strategy |-> strategy,
   action |-> action, lots |-> lots, decision |-> DecisionOf(action), reason |-> reason]

SkipReasonCode(reason) ==
  CASE reason \in {"staleness_rejected", "STALENESS_THRESHOLD", "zero_effective_lot"}
         -> "StalenessThreshold"
    [] reason \in {"risk_limit_rejected", "daily_realized_halt", "weekly_halt", "monthly_halt"}
         -> "RiskLimitActive"
    [] reason = "gap_detected" -> "GapDetected"
    [] reason = "unknown_regime" -> "UnknownRegime"
    [] reason \in {"strategy_culled", "kill_switch_masked"} -> "StrategyHalted"
    [] reason = "hold_degeneration" -> "HoldDegradation"
    [] reason \in {"mtm_q_threshold_rejected", "trigger conditions not met"} -> "InsufficientEdge"
    [] reason \in {"global_position_rejected", "already_in_position"} -> "PositionLimit"
    [] OTHER -> "Unspecified"

SkipEvent(sequencer, strategy, reason) ==
  [stream |-> "strategy", seq |-> NextNumber(sequencer, "strategy"), strategy |-> strategy,
   reason |-> SkipReasonCode(reason), description |-> reason]

ParseStrategyId(value) ==
  {s \in {"A", "B", "C"} : value \in {s, "STRATEGY_" \o s, "Strategy" \o s}}

-----------------------------------------------------------------------------
(* Tier1Store at work: calls write to memory, step by step and among each     *)
(* other, and wait for a flush; a crash leaves any part of what was not       *)
(* flushed, from the first write on.                                          *)

VARIABLES
  trees,      \* as read
  durable,    \* as on disk after the last flush
  unflushed,  \* writes since, in their order
  writers,      \* under way: the event, whether it is removed, and the writes left
  known,      \* history: events whose store has returned
  gone,       \* history: events whose removal was asked for
  crashes

tierVars == <<trees, durable, unflushed, writers, known, gone, crashes>>

TierInit ==
  /\ trees = NewTrees /\ durable = NewTrees /\ unflushed = <<>>
  /\ writers = {} /\ known = {} /\ gone = {} /\ crashes = 0

Begin(e, removes, writes) ==
  /\ Cardinality(writers) < MaxCalls
  /\ \A c \in writers : c.event # e
  /\ writers' = writers \cup {[event |-> e, removes |-> removes, todo |-> writes]}
  /\ UNCHANGED <<trees, durable, unflushed, known, crashes>>

\* An event is stored once: its id is new.
StoreBegins(e) ==
  /\ e \notin known \cup gone /\ e \notin trees.events
  /\ Begin(e, FALSE, StoreWrites(e))
  /\ UNCHANGED gone

RemoveBegins(e) ==
  /\ e \in known
  /\ Begin(e, TRUE, RemoveWrites(e))
  /\ gone' = gone \cup {e}

CallWrites(c) ==
  /\ c.todo # <<>>
  /\ trees' = Written(trees, Head(c.todo))
  /\ unflushed' = Append(unflushed, Head(c.todo))
  /\ writers' = (writers \ {c}) \cup {[c EXCEPT !.todo = Tail(@)]}
  /\ UNCHANGED <<durable, known, gone, crashes>>

\* The flush of one call takes the writes of all with it.
CallReturns(c) ==
  /\ c.todo = <<>>
  /\ durable' = AllWritten(durable, unflushed) /\ unflushed' = <<>>
  /\ writers' = writers \ {c}
  /\ known' = IF c.removes THEN known ELSE known \cup {c.event}
  /\ UNCHANGED <<trees, gone, crashes>>

CrashAndOpen ==
  /\ crashes < MaxCrashes
  /\ \E kept \in 0 .. Len(unflushed) :
       durable' = AllWritten(durable, SubSeq(unflushed, 1, kept))
  /\ trees' = durable' /\ unflushed' = <<>> /\ writers' = {}
  /\ crashes' = crashes + 1
  /\ UNCHANGED <<known, gone>>

TierNext ==
  \/ \E e \in Tier1Events : StoreBegins(e) \/ RemoveBegins(e)
  \/ \E c \in writers : CallWrites(c) \/ CallReturns(c)
  \/ CrashAndOpen

-----------------------------------------------------------------------------
(* Properties *)

\* What was stored stays: an event whose store has returned is loaded, through crashes and the
\* calls of others, until its removal is asked for; and a replay of its stream has its number,
\* under that event or a later one, until an event of that number is removed.
StoreSurvives ==
  \A e \in known \ gone :
    /\ LoadTier1(trees, e.id) = {e}
    /\ (\A x \in gone : ~SameKey(x, e))
         => \E x \in ToSet(ReplayTier1(trees, e.stream, 0)) : SameKey(x, e)
=============================================================================
