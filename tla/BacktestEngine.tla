---------------------------- MODULE BacktestEngine ----------------------------
(***************************************************************************)
(* BacktestEngine (backtest/engine.rs): one thread that replays market     *)
(* ticks.  Every tick marks the book to market, closes what must be closed *)
(* (weekend, maximum holding time), lets each strategy decide on one       *)
(* snapshot of the book, and executes the decisions in order of Q-value    *)
(* through the risk pipeline.  The state is the engine's own: StateProjector*)
(* (pos and the three totals), PeriodicLimitTracker, McEvaluator,          *)
(* LifecycleManager, the strategies' episodes, KillSwitch, GapDetector and *)
(* RegimeCache.  An order is filled whole or rejected, as the execution    *)
(* gateway's dice fall; features, Q-values and the regime are inputs.      *)
(* Timestamps are counted in ticks of a clock of DayTicks to the day, and  *)
(* time 0 is the first instant of a Monday.                                *)
(***************************************************************************)
EXTENDS PeriodicLimits

CONSTANTS Enabled,           \* enabled_strategies
          Learning,          \* learning_enabled
          KillSwitchEnabled, \* KillSwitchConfig.enabled
          SnapshotLimit,     \* global_position_limit, as the strategies read it
          MaxHold,           \* max_hold_time_ms
          WeekendGap,        \* the shortest gap that is a weekend
          StartTimes, Steps, \* first timestamp, and distance to the next one
          Prices, Slippages, \* mid prices, and fill price minus mid price
          QValues,           \* sampled Q-values of the strategies that trigger
          FillOutcomes,      \* what simulate_execution may answer
          Anomalies,         \* whether KillSwitch and GapDetector may fire
          RegimeStates,      \* what is_unknown may answer
          UndecodableTicks,  \* whether a payload may fail to decode
          MaxTicks, MaxBatches  \* bounds: ticks of a batch, batches of a run

ASSUME EngineAssumption ==
  /\ Enabled \subseteq Strategies
  /\ Learning \in BOOLEAN /\ KillSwitchEnabled \in BOOLEAN /\ UndecodableTicks \in BOOLEAN
  /\ SnapshotLimit \in Nat /\ MaxHold \in Nat
  /\ WeekendGap \in Nat
  /\ StartTimes \subseteq Nat \ {0} /\ Steps \subseteq Nat \ {0}
  /\ Prices \subseteq Int /\ Slippages \subseteq Int /\ QValues \subseteq Int
  /\ FillOutcomes \subseteq BOOLEAN /\ Anomalies \subseteq BOOLEAN
  /\ RegimeStates \subseteq BOOLEAN
  /\ MaxTicks \in Nat /\ MaxBatches \in Nat \ {0}

\* Batches come from run_from_stream, whose events tick_to_event has just
\* encoded; a payload that does not decode can only come from a store, in one run.
ASSUME BatchAssumption == MaxBatches = 1 \/ ~UndecodableTicks

VARIABLES
  pc,            \* phase of run_inner
  todo,          \* strategies the loop of this phase has still to visit
  tick, batch,   \* ticks read in this batch, and its number
  now, prev,     \* tick_ns and prev_tick_ns; 0 before the first tick
  decoded,       \* whether the last event decoded
  mid,           \* mid_price of the last decoded tick
  pos,           \* StateSnapshot.positions
  globalPosition, totalRealized, totalUnrealized,  \* its aggregates
  tracker,       \* PeriodicLimitTracker: a key and a base for each period
  limits,        \* StateSnapshot.limit_state
  masked,        \* KillSwitch
  gapHalted,     \* GapDetector.halted
  unknown,       \* RegimeCache: the regime is unknown
  life,          \* LifecycleManager
  mc,            \* McEvaluator: strategies with an active episode
  episode,       \* entry timestamp of each strategy's own episode, or Idle
  decision       \* this tick's decisions

book  == <<pos, globalPosition, totalRealized, totalUnrealized>>
risk  == <<tracker, limits>>
gates == <<masked, gapHalted, unknown>>
agent == <<life, mc, episode>>
clock == <<tick, batch, now, prev, decoded, mid>>
vars  == <<pc, todo, clock, book, risk, gates, agent, decision>>

-----------------------------------------------------------------------------
Phases == {"ready", "weekend", "maxHold", "decide", "execute", "halt", "endOfData", "done"}

Idle == 0

Decision == [made : BOOLEAN, side : {-1, 0, 1}, q : Int, close : BOOLEAN]
NoDecision == [made |-> FALSE, side |-> 0, q |-> 0, close |-> FALSE]
HoldDecision == [made |-> TRUE, side |-> 0, q |-> 0, close |-> FALSE]
NoDecisions == [s \in Strategies |-> NoDecision]

OpenPositions == {s \in Strategies : IsOpen(pos[s])}
Decided == {s \in Strategies : decision[s].made}
Q == [s \in Strategies |-> decision[s].q]

\* Q-value descending, then stable_index
Foremost(S) == CHOOSE s \in S : \A x \in S :
                 \/ Q[s] > Q[x]
                 \/ Q[s] = Q[x] /\ StableIndex[s] <= StableIndex[x]

-----------------------------------------------------------------------------
(* The weekend *)

\* is_weekend_gap
IsWeekendGap(from, to) ==
  /\ from # 0 /\ from < to
  /\ Weekday(from) <= 4 /\ Weekday(to) = 0
  /\ to - from >= WeekendGap

-----------------------------------------------------------------------------
(* Helpers shared by the phases *)

UpdateLimits ==
  /\ tracker' = Roll(tracker, now', totalRealized')
  /\ limits' = LimitsOf(tracker', totalRealized', totalUnrealized')

\* process_execution_result: the fill changes one position, and the aggregates
\* are recomputed, all but the unrealised total.
ProcessExecutionResult(s, size, price) ==
  /\ pos' = [pos EXCEPT ![s] = UpdatePositionFromFill(@, size, price, now)]
  /\ globalPosition' = NetSize(pos')
  /\ totalRealized' = NetRealized(pos')
  /\ UNCHANGED totalUnrealized

\* end_strategy_episode, with the limit state of the snapshot it is given
EndStrategyEpisode(s, l) ==
  /\ mc' = mc \ {s}
  /\ episode' = [episode EXCEPT ![s] = Idle]
  /\ IF s \in mc /\ Learning
     THEN \E sharpeBad, pnlBreach \in BOOLEAN :
            /\ pnlBreach => l.dailyMtm # 0
            /\ life' = [life EXCEPT ![s] = RecordEpisode(@, sharpeBad, pnlBreach)]
     ELSE UNCHANGED life

\* A close order for the whole position, filled.
CloseFill(s) ==
  \E slip \in Slippages : ProcessExecutionResult(s, -pos[s].size, mid + slip)

\* Fault: the episode ends although the close was rejected.
CloseStrategyPositionEndsAnyway(s) ==
  \/ /\ IsOpen(pos[s]) /\ TRUE \in FillOutcomes
     /\ CloseFill(s) /\ EndStrategyEpisode(s, limits) /\ UpdateLimits
  \/ /\ FALSE \in FillOutcomes
     /\ EndStrategyEpisode(s, limits) /\ UNCHANGED <<book, risk>>

\* Fault: the limit state is left as it was before the close.
CloseStrategyPositionUncounted(s) ==
  \/ /\ IsOpen(pos[s]) /\ TRUE \in FillOutcomes
     /\ CloseFill(s) /\ EndStrategyEpisode(s, limits) /\ UNCHANGED risk
  \/ /\ ~IsOpen(pos[s]) \/ FALSE \in FillOutcomes
     /\ UNCHANGED <<book, agent, risk>>

\* close_strategy_position and the limit update after it; a rejected close
\* changes nothing.
CloseStrategyPosition(s) ==
  \/ /\ IsOpen(pos[s]) /\ TRUE \in FillOutcomes
     /\ CloseFill(s) /\ EndStrategyEpisode(s, limits) /\ UpdateLimits
  \/ /\ ~IsOpen(pos[s]) \/ FALSE \in FillOutcomes
     /\ UNCHANGED <<book, agent, risk>>

-----------------------------------------------------------------------------
(* A tick arrives *)

Arrive ==
  /\ pc = "ready" /\ tick < MaxTicks
  /\ tick' = tick + 1
  /\ now' \in IF now = 0 THEN StartTimes ELSE {now + d : d \in Steps}
  /\ \E anomaly \in Anomalies : masked' = (masked \/ (KillSwitchEnabled /\ anomaly))
  /\ \E gap \in Anomalies : gapHalted' = (gapHalted \/ gap)
  /\ UNCHANGED <<batch, prev, unknown>>

\* KillSwitch and GapDetector see an event whose payload does not decode; the
\* projector and everything after it do not.
UndecodableTick ==
  /\ UndecodableTicks
  /\ Arrive
  /\ decoded' = FALSE
  /\ UNCHANGED <<pc, todo, mid, book, risk, agent, decision>>

MarketTick ==
  /\ Arrive
  /\ decoded' = TRUE
  /\ mid' \in Prices
  /\ pos' = [s \in Strategies |-> MarkToMarket(pos[s], mid')]
  /\ totalUnrealized' = NetUnrealized(pos')
  /\ UNCHANGED <<globalPosition, totalRealized>>
  /\ UpdateLimits
  /\ decision' = NoDecisions
  /\ IF IsWeekendGap(prev, now')
     THEN pc' = "weekend" /\ todo' = {s \in Strategies : IsOpen(pos'[s])}
     ELSE pc' = "maxHold" /\ todo' = Enabled
  /\ UNCHANGED agent

-----------------------------------------------------------------------------
(* close_all_positions, in the order of a hash map.  The limits are updated *)
(* once, after the loop.                                                    *)

CloseAllPositions ==
  /\ pc \in {"weekend", "halt"}
  /\ \E s \in todo :
       /\ todo' = todo \ {s}
       /\ \/ TRUE \in FillOutcomes /\ CloseFill(s) /\ EndStrategyEpisode(s, limits)
          \/ FALSE \in FillOutcomes /\ UNCHANGED <<book, agent>>
  /\ UNCHANGED <<pc, clock, risk, gates, decision>>

\* After a weekend every culled strategy is revived.
WeekendClosed ==
  /\ pc = "weekend" /\ todo = {}
  /\ UNCHANGED <<clock, book, gates, mc, episode, decision>>
  /\ UpdateLimits
  /\ life' = [s \in Strategies |-> Revive(life[s])]
  /\ pc' = "maxHold" /\ todo' = Enabled

\* Fault: after the closes the decisions are gone through once more.
HaltClosedRetrying ==
  /\ pc = "halt" /\ todo = {}
  /\ UNCHANGED <<clock, book, gates, agent, decision>>
  /\ UpdateLimits
  /\ pc' = "execute" /\ todo' = Decided

\* After a hard limit the tick is over: the remaining decisions are dropped.
HaltClosed ==
  /\ pc = "halt" /\ todo = {}
  /\ UNCHANGED <<tick, batch, now, decoded, mid, book, gates, agent, decision, todo>>
  /\ UpdateLimits
  /\ prev' = now
  /\ pc' = "ready"

-----------------------------------------------------------------------------
(* Phase 1: MAX_HOLD_TIME, and the regime *)

ShouldCloseMaxHold(s) ==
  IsOpen(pos[s]) /\ pos[s].since # 0 /\ now - pos[s].since >= MaxHold

\* Fault: a gap halt suspends Phase 1 with the rest of the tick.
CloseMaxHoldUnlessHalted ==
  /\ pc = "maxHold" /\ todo # {}
  /\ LET s == First(todo) IN
       /\ todo' = todo \ {s}
       /\ UNCHANGED clock
       /\ \/ ~gapHalted /\ ShouldCloseMaxHold(s) /\ CloseStrategyPosition(s)
          \/ /\ gapHalted \/ ~ShouldCloseMaxHold(s)
             /\ UNCHANGED <<book, agent, risk>>
  /\ UNCHANGED <<pc, gates, decision>>

CloseMaxHold ==
  /\ pc = "maxHold" /\ todo # {}
  /\ LET s == First(todo) IN
       /\ todo' = todo \ {s}
       /\ UNCHANGED clock
       /\ \/ ShouldCloseMaxHold(s) /\ CloseStrategyPosition(s)
          \/ ~ShouldCloseMaxHold(s) /\ UNCHANGED <<book, agent, risk>>
  /\ UNCHANGED <<pc, gates, decision>>

\* Phase 2 skips every strategy in a gap halt or an unknown regime, and a
\* culled strategy always.
UpdateRegime ==
  /\ pc = "maxHold" /\ todo = {}
  /\ unknown' \in RegimeStates
  /\ pc' = "decide"
  /\ todo' = IF gapHalted \/ unknown' THEN {} ELSE {s \in Enabled : life[s].alive}
  /\ UNCHANGED <<clock, book, risk, masked, gapHalted, agent, decision>>

-----------------------------------------------------------------------------
(* Phase 2: the strategies decide on the book as Phase 1 left it *)

BuyAllowed  == globalPosition + 1 <= SnapshotLimit
SellAllowed == globalPosition - 1 >= -SnapshotLimit
SidesAllowed == {0} \cup {d \in {1, -1} : IF d = 1 THEN BuyAllowed ELSE SellAllowed}

\* The episode ran out: ask for a close, whatever the position.
DecideTimeout(s) ==
  /\ episode[s] # Idle /\ now - episode[s] >= MaxHold
  /\ episode' = [episode EXCEPT ![s] = Idle]
  /\ decision' = [decision EXCEPT ![s] =
       [made |-> TRUE, side |-> -Sign(pos[s].size), q |-> 0, close |-> TRUE]]

\* The episode as decide's second step leaves it: idle when the position is gone.
Synced(s) == IF IsOpen(pos[s]) THEN episode[s] ELSE Idle

DecideNotTriggered(s) ==
  /\ episode[s] = Idle \/ now - episode[s] < MaxHold
  /\ Synced(s) = Idle
  /\ episode' = [episode EXCEPT ![s] = Idle]
  /\ decision' = [decision EXCEPT ![s] = HoldDecision]

\* The action of the highest sampled Q-value the position limit allows.  An
\* idle strategy that trades starts its episode before the order is sent; an
\* active one that picks the other side asks for a close.
DecideAction(s) ==
  /\ episode[s] = Idle \/ now - episode[s] < MaxHold
  /\ \E side \in SidesAllowed, q \in QValues :
       /\ episode' = [episode EXCEPT ![s] =
            IF Synced(s) = Idle /\ side # 0 THEN now ELSE Synced(s)]
       /\ decision' = [decision EXCEPT ![s] =
            [made |-> TRUE, side |-> side, q |-> q,
             close |-> Synced(s) # Idle /\ side * pos[s].size < 0]]

GetStrategyDecision ==
  /\ pc = "decide" /\ todo # {}
  /\ LET s == First(todo) IN
       /\ todo' = todo \ {s}
       /\ DecideTimeout(s) \/ DecideNotTriggered(s) \/ DecideAction(s)
  /\ UNCHANGED <<pc, clock, book, risk, gates, life, mc>>

DecisionsMade ==
  /\ pc = "decide" /\ todo = {}
  /\ pc' = "execute" /\ todo' = Decided
  /\ UNCHANGED <<clock, book, risk, gates, agent, decision>>

-----------------------------------------------------------------------------
(* Phase 3: execution, highest Q-value first *)

Executing(s) == pc = "execute" /\ todo # {} /\ s = Foremost(todo)
Done(s) == todo' = todo \ {s} /\ UNCHANGED <<pc, clock, gapHalted, unknown, decision>>

Attempt(s) == ~decision[s].close /\ decision[s].side # 0

ExecuteClose(s) ==
  /\ Executing(s)
  /\ decision[s].close
  /\ Done(s)
  /\ CloseStrategyPosition(s)
  /\ UNCHANGED masked

\* Hold, or already_in_position: the kill switch is not asked.
ExecuteNothing(s) ==
  /\ Executing(s)
  /\ ~decision[s].close
  /\ decision[s].side = 0 \/ IsOpen(pos[s])
  /\ Done(s)
  /\ UNCHANGED <<book, risk, agent, masked>>

KillSwitchMasked(s) ==
  /\ Executing(s)
  /\ Attempt(s) /\ ~IsOpen(pos[s])
  /\ masked
  /\ Done(s)
  /\ UNCHANGED <<book, risk, agent, masked>>

\* Fault: a strategy that holds a position may order again.
OrderedWhileOpen(s) ==
  /\ Executing(s)
  /\ Attempt(s)
  /\ masked' = FALSE

\* An order the kill switch lets through: it is not masked, or the mask, timed
\* by a clock the ticks know nothing of, has run out and is removed.
Ordered(s) ==
  /\ Executing(s)
  /\ Attempt(s) /\ ~IsOpen(pos[s])
  /\ masked' = FALSE

QOther == CHOOSE q \in {Q[x] : x \in Decided} : \A x \in Decided : Q[x] <= q

PassesMtmGate(s) ==
  IF decision[s].side = 1 THEN PassesQThreshold(limits, Q[s], QOther)
                          ELSE PassesQThreshold(limits, QOther, Q[s])

Rank(s) == PriorityRank(s, Q, Decided)
Lots(s) == EffectiveLots(limits, globalPosition, Rank(s))

RiskPassed(s) ==
  /\ life[s].alive
  /\ ~HardBreach(limits)
  /\ PassesMtmGate(s)
  /\ BarrierLot > 0
  /\ GlobalCheckPasses(globalPosition, decision[s].side * LotSize, Rank(s))
  /\ Lots(s) > 0

\* A hard limit is broken: close everything, and drop the other decisions.
HardLimit(s) ==
  /\ Ordered(s)
  /\ life[s].alive /\ HardBreach(limits)
  /\ pc' = "halt" /\ todo' = OpenPositions
  /\ UNCHANGED <<clock, book, risk, gapHalted, unknown, agent, decision>>

\* Refused by a rule, or rejected by the gateway
Refused(s) ==
  /\ Ordered(s)
  /\ ~(life[s].alive /\ HardBreach(limits))
  /\ ~RiskPassed(s) \/ FALSE \in FillOutcomes
  /\ Done(s)
  /\ UNCHANGED <<book, risk, agent>>

\* start_strategy_episode asserts that the strategy has no active episode; the
\* strategy's own episode starts (again) at the fill.
Enter(s) ==
  /\ Ordered(s)
  /\ RiskPassed(s) /\ TRUE \in FillOutcomes
  /\ Done(s)
  /\ \E slip \in Slippages :
       ProcessExecutionResult(s, decision[s].side * Lots(s), mid + slip)
  /\ UpdateLimits
  /\ mc' = mc \cup {s}
  /\ episode' = [episode EXCEPT ![s] = now]
  /\ UNCHANGED life

TickDone ==
  /\ pc = "execute" /\ todo = {}
  /\ pc' = "ready"
  /\ prev' = now
  /\ UNCHANGED <<todo, tick, batch, now, decoded, mid, book, risk, gates, agent, decision>>

-----------------------------------------------------------------------------
(* END_OF_DATA: the batch is over, at any length up to MaxTicks *)

EndOfData ==
  /\ pc = "ready" /\ tick > 0
  /\ pc' = "endOfData"
  /\ todo' = IF decoded THEN OpenPositions ELSE {}
  /\ UNCHANGED <<clock, book, risk, gates, agent, decision>>

\* The episode ends even when the close is rejected.
CloseAtEnd ==
  /\ pc = "endOfData"
  /\ \E s \in todo :
       /\ todo' = todo \ {s}
       /\ UNCHANGED clock
       /\ \/ TRUE \in FillOutcomes /\ CloseFill(s) /\ UpdateLimits
          \/ FALSE \in FillOutcomes /\ UNCHANGED <<book, risk>>
       /\ EndStrategyEpisode(s, limits')
  /\ UNCHANGED <<pc, gates, decision>>

\* run_inner returns; the next batch of run_from_stream starts with a new
\* projector, tracker and gap detector, and the engine's own state.
NextBatch ==
  /\ pc = "endOfData" /\ todo = {} /\ batch < MaxBatches
  /\ pc' = "ready"
  /\ batch' = batch + 1 /\ tick' = 0
  /\ pos' = FlatBook
  /\ globalPosition' = 0 /\ totalRealized' = 0 /\ totalUnrealized' = 0
  /\ tracker' = FreshTracker /\ limits' = NoLosses
  /\ gapHalted' = FALSE
  /\ decision' = NoDecisions
  /\ UNCHANGED <<todo, now, prev, decoded, mid, masked, unknown, agent>>

Finish ==
  /\ pc = "endOfData" /\ todo = {} /\ batch = MaxBatches
  /\ pc' = "done"
  /\ UNCHANGED <<todo, clock, book, risk, gates, agent, decision>>

Finished == pc = "done" /\ UNCHANGED vars

-----------------------------------------------------------------------------
Init ==
  /\ pc = "ready" /\ todo = {} /\ tick = 0 /\ batch = 1
  /\ now = 0 /\ prev = 0 /\ decoded = TRUE /\ mid = 0
  /\ pos = FlatBook
  /\ globalPosition = 0 /\ totalRealized = 0 /\ totalUnrealized = 0
  /\ tracker = FreshTracker /\ limits = NoLosses
  /\ masked = FALSE /\ gapHalted = FALSE /\ unknown = FALSE
  /\ life = [s \in Strategies |-> Newborn]
  /\ mc = {}
  /\ episode = [s \in Strategies |-> Idle]
  /\ decision = NoDecisions

Next ==
  \/ MarketTick \/ UndecodableTick
  \/ CloseAllPositions \/ WeekendClosed \/ HaltClosed
  \/ CloseMaxHold \/ UpdateRegime
  \/ GetStrategyDecision \/ DecisionsMade
  \/ \E s \in Strategies :
       \/ ExecuteClose(s) \/ ExecuteNothing(s) \/ KillSwitchMasked(s)
       \/ HardLimit(s) \/ Refused(s) \/ Enter(s)
  \/ TickDone
  \/ EndOfData \/ CloseAtEnd \/ NextBatch \/ Finish \/ Finished

Spec == Init /\ [][Next]_vars

\* The engine is a loop over a finite list: it goes on while it can.
FairSpec == Spec /\ WF_vars(Next)

-----------------------------------------------------------------------------
(* Correctness *)

ClockType ==
  /\ tick \in 0 .. MaxTicks /\ batch \in 1 .. MaxBatches
  /\ now \in Nat /\ prev \in Nat /\ decoded \in BOOLEAN /\ mid \in Int
BookType ==
  /\ pos \in [Strategies -> Position]
  /\ globalPosition \in Int /\ totalRealized \in Int /\ totalUnrealized \in Int
RiskType ==
  /\ tracker \in [Periods -> Period]
  /\ limits \in LimitState
GatesType == masked \in BOOLEAN /\ gapHalted \in BOOLEAN /\ unknown \in BOOLEAN
AgentType ==
  /\ life \in [Strategies -> Life]
  /\ mc \subseteq Strategies
  /\ episode \in [Strategies -> Nat]

TypeOK ==
  /\ pc \in Phases /\ todo \subseteq Strategies
  /\ ClockType /\ BookType /\ RiskType /\ GatesType /\ AgentType
  /\ decision \in [Strategies -> Decision]

\* While a batch is replayed a strategy has an active Monte Carlo episode exactly
\* when it has an open position: whichever of the five ways a position is closed
\* ends the episode, and a rejected close does not.  start_episode and
\* end_episode assert it; a leak learns from returns that never happened.
Replaying == pc \notin {"endOfData", "done"}
EpisodeMatchesPosition ==
  Replaying => mc = OpenPositions

\* A culled strategy has no position.  Nothing in the engine closes one: the
\* close command of record_episode is dropped and close_commands_for_culled is
\* never called, so the guarantee rests on culling happening at a close only.
CulledIsFlat ==
  Replaying => \A s \in Strategies : ~life[s].alive => ~IsOpen(pos[s])

\* A fill opens a position from flat or closes one completely: the paths of
\* update_position_from_fill that add to or reverse a position are never taken.
\* Reversal would keep the old entry price and timestamp.
Opens(s)  == ~IsOpen(pos[s]) /\ IsOpen(pos[s])'
FillsOpenOrClose ==
  [][\A s \in Strategies :
       pos'[s].size # pos[s].size => ~IsOpen(pos[s]) \/ ~IsOpen(pos[s])']_vars

\* What the engine knows at the moment of an entry, computed from the book and
\* not from the limit state the entry was judged by: no gate is shut, and the
\* losses realised in this day, week and month are within the hard limits.
RealizedIn(p) ==
  IF tracker[p].key = PeriodKey(p, now) THEN totalRealized - tracker[p].start ELSE 0
EntryGated ==
  [][\A s \in Strategies : Opens(s) =>
       /\ s \in Enabled /\ life[s].alive
       /\ ~masked' /\ ~gapHalted /\ ~unknown
       /\ RealizedIn("day") >= MaxDailyRealized
       /\ RealizedIn("week") >= MaxWeekly
       /\ RealizedIn("month") >= MaxMonthly]_vars

\* A hard halt lasts: while day, week and month stay the same, a broken hard limit
\* stays broken.  Nothing latches it; what could lift it is a gain realised after
\* the breach, so it lasts when no position is open at the time of a breach, as
\* with one position at most, and does not when positions are held together.
HardHaltHolds ==
  [][(/\ HardBreach(limits)
      /\ \A p \in Periods : tracker'[p].key = tracker[p].key)
       => HardBreach(limits')]_vars

\* When close orders are filled, no position outlives MAX_HOLD_TIME by a tick:
\* Phase 1 closes it even in a gap halt, an unknown regime or behind the mask.
NoOverstay ==
  pc = "ready" /\ tick > 0 /\ decoded =>
    \A s \in OpenPositions : now - pos[s].since < MaxHold

\* The replay of a finite list of ticks comes to its end.
Termination == <>(pc = "done")
=============================================================================
