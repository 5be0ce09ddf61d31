------------------------------ MODULE Projector ------------------------------
(***************************************************************************)
(* StateProjector (events/projector.rs): the snapshot of the book and how   *)
(* the events of the bus change it.  RiskRules has the arithmetic of a      *)
(* position, BacktestEngine and ForwardRunner the calls of their loops;     *)
(* here are the events in any order, their time stamps, the version and the *)
(* hash.  Times are milliseconds, 0 means never; a lot multiplier is a      *)
(* numerator over Full.  A payload is what it decodes as: every set in an   *)
(* event is empty, or holds the one payload that decodes.                   *)
(***************************************************************************)
EXTENDS RiskRules, Sequences, SequencesExt

\* recompute_staleness: the age at which nothing is traded, and the ages without a tick
StaleAfter == 5000
Full       == StaleAfter * StaleAfter
Forever    == 10 * StaleAfter

Clamped(multiplier) == IF multiplier < 0 THEN 0 ELSE Least(multiplier, Full)

\* compute_state_hash: what the hash is taken of stands for the hash.
StateHash(s) ==
  <<s.positions, s.net, s.unrealized, s.realized, s.multiplier, s.lastMarket, s.staleness, s.limits>>

\* increment_version
Versioned(s) == [s EXCEPT !.version = @ + 1, !.hash = StateHash(s)]

VerifyIntegrity(s) == s.hash = StateHash(s)

NewSnapshot ==
  LET s == [positions |-> FlatBook, net |-> 0, unrealized |-> 0, realized |-> 0, limits |-> NoLosses,
            staleness |-> 0, multiplier |-> Full, lastMarket |-> 0, version |-> 0, hash |-> <<>>,
            active |-> "A"]
  IN [s EXCEPT !.hash = StateHash(s)]

\* The multiplier follows from the age alone: what it was before is overwritten.
RecomputeStaleness(s, time) ==
  LET age == IF s.lastMarket = 0 THEN Forever
             ELSE IF time > s.lastMarket THEN time - s.lastMarket ELSE 0
  IN [s EXCEPT !.staleness = age,
               !.multiplier = IF age >= StaleAfter THEN 0 ELSE Full - age * age]

-----------------------------------------------------------------------------
(* process_event, one stream after the other *)

\* The tick's own time counts, not that of the header.
MarketEvent(s, e) ==
  LET marked(tick) == [x \in Strategies |-> MarkToMarket(s.positions[x], tick.mid)]
  IN IF e.tick = {} THEN s
     ELSE LET t == CHOOSE tick \in e.tick : TRUE IN
          Versioned([s EXCEPT !.lastMarket = t.time, !.staleness = 0, !.multiplier = Full,
                              !.positions = marked(t), !.unrealized = NetUnrealized(marked(t))])

\* A decision or a skipped trade names the strategy whose executions follow; its multiplier is
\* set, and recomputed at once.  No version is counted and no hash taken.
Spoken(s, e, payload) ==
  RecomputeStaleness([s EXCEPT !.active = IF payload.strategy = {} THEN @
                                          ELSE CHOOSE x \in payload.strategy : TRUE,
                               !.multiplier = Clamped(payload.multiplier)],
                     e.time)

StrategyEvent(s, e) ==
  IF e.decision # {} THEN Spoken(s, e, CHOOSE d \in e.decision : TRUE)
  ELSE IF e.skip # {} THEN Spoken(s, e, CHOOSE k \in e.skip : TRUE)
  ELSE IF e.command THEN RecomputeStaleness(s, e.time) ELSE s

\* process_execution_event: the time of a fill is the payload's, if it has one.  The unrealized
\* total waits for the next tick.
ExecutionEvent(s, e, strategy) ==
  LET Fill(x) == UpdatePositionFromFill(s.positions[strategy], x.size, x.price,
                                        IF x.time = {} THEN e.time ELSE CHOOSE t \in x.time : TRUE)
      book(x) == [s.positions EXCEPT ![strategy] = Fill(x)]
  IN IF e.execution = {} THEN s
     ELSE LET x == CHOOSE y \in e.execution : TRUE
              entered == IF ~x.filled THEN s
                         ELSE [s EXCEPT !.positions = book(x), !.net = NetSize(book(x)),
                                        !.realized = NetRealized(book(x))]
          IN Versioned(RecomputeStaleness(entered, e.time))

ProcessEvent(s, e) ==
  CASE e.stream = "Market"    -> MarketEvent(s, e)
    [] e.stream = "Strategy"  -> StrategyEvent(s, e)
    [] e.stream = "Execution" -> ExecutionEvent(s, e, s.active)
    [] e.stream = "State"     -> s

UpdateLimitState(s, limits) == Versioned([s EXCEPT !.limits = limits])

SetLotMultiplier(s, multiplier) == [s EXCEPT !.multiplier = Clamped(multiplier)]

-----------------------------------------------------------------------------
(* build_proto_payload: what the event of a snapshot tells *)

HoldingTime(p, time) == IF ~IsOpen(p) \/ p.since = 0 \/ time < p.since THEN 0 ELSE time - p.since

SnapshotPayload(s) ==
  [s EXCEPT !.positions = [x \in Strategies |-> [position |-> @[x],
                                                 held |-> HoldingTime(@[x], s.lastMarket)]]]

-----------------------------------------------------------------------------
(* Sequences of events, each of which is one of the following *)

NoPayload == [stream |-> "State", time |-> 0, tick |-> {}, decision |-> {}, skip |-> {},
              command |-> FALSE, execution |-> {}]

TickAt(time, price) ==
  [NoPayload EXCEPT !.stream = "Market", !.time = time, !.tick = {[time |-> time, mid |-> price]}]
DecisionAt(time, x) ==
  [NoPayload EXCEPT !.stream = "Strategy", !.time = time,
                    !.decision = {[strategy |-> {x}, multiplier |-> 1]}]
FillAt(time, size) ==
  [NoPayload EXCEPT !.stream = "Execution", !.time = time,
                    !.execution = {[filled |-> TRUE, size |-> size, price |-> 7, time |-> {time}]}]

SampleEvents ==
  {TickAt(1, 9), TickAt(3, 5), DecisionAt(1, "B"), DecisionAt(5002, "C"),
   FillAt(1, 2), FillAt(3, -2),
   [NoPayload EXCEPT !.stream = "Market"],
   [NoPayload EXCEPT !.stream = "Strategy", !.time = 3, !.skip = {[strategy |-> {}, multiplier |-> 0]}],
   [NoPayload EXCEPT !.stream = "Strategy", !.time = 3, !.command = TRUE],
   [NoPayload EXCEPT !.stream = "Execution", !.time = 3,
                     !.execution = {[filled |-> FALSE, size |-> 2, price |-> 7, time |-> {}]}]}

Projected(events) == FoldLeft(ProcessEvent, NewSnapshot, events)

\* The position totals are those of the positions, the unrealized one is still that of the last
\* tick; the version counts the ticks and executions read; the multiplier follows from the age,
\* whatever a decision said; and the hash is the snapshot's own after every one of these, and
\* always while strategies and executions carry times no later than the last tick's, as they do
\* in a replay.  A strategy's event of a later time leaves the hash behind (process_event,
\* recompute_staleness, increment_version).
ASSUME SnapshotProjected ==
  \A n \in 0 .. 4 : \A events \in [1 .. n -> SampleEvents] :
    LET s        == Projected(events)
        Upto(i)  == Projected(SubSeq(events, 1, i))
        Ticks(i) == {j \in 1 .. i : events[j].tick # {}}
        Counts(e) == e.tick # {} \/ e.execution # {}
        InTime(i) == events[i].stream \in {"Strategy", "Execution"}
                       => events[i].time <= Upto(i).lastMarket
        LastTick == IF Ticks(n) = {} THEN 0 ELSE CHOOSE j \in Ticks(n) : \A k \in Ticks(n) : k <= j
    IN /\ s.net = NetSize(s.positions) /\ s.realized = NetRealized(s.positions)
       /\ s.unrealized = Upto(LastTick).unrealized
       /\ s.version = Len(SelectSeq(events, Counts))
       /\ s.multiplier = IF s.staleness >= StaleAfter THEN 0 ELSE Full - s.staleness * s.staleness
       /\ (n > 0 /\ Counts(events[n])) \/ (\A i \in 1 .. n : InTime(i)) => VerifyIntegrity(s)
       /\ \A x \in Strategies : SnapshotPayload(s).positions[x].held <= s.lastMarket
=============================================================================
