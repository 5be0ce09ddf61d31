---------------------------- MODULE ForwardRunner ----------------------------
(***************************************************************************)
(* ForwardTestRunner::run (forward/runner.rs): the loop that trades a live *)
(* or recorded feed on paper.  It differs from the replay engine in what it *)
(* asks when: a halt by a hard limit is latched for its period, the mask,  *)
(* the gap halt, the hard limits and the regime are asked once a tick, and *)
(* an unanswered one of them skips the tick, its closes included; and every *)
(* decision of a tick is judged by one copy of the book, made before the   *)
(* first of them.  An order is filled whole or rejected, as the paper engine's *)
(* dice fall; features, Q-values and the regime are inputs.                *)
(***************************************************************************)
EXTENDS PeriodicLimits, GapDetector

CONSTANTS Enabled,            \* enabled_strategies
          SnapshotLimit,      \* max_position_lots, as the policies read it
          MaxHold,            \* max_hold_ms of each strategy
          StartTimes, Steps,  \* first timestamp, and distance to the next one
          Prices, Slippages,  \* mid prices, and fill price minus mid price
          PointQs,            \* q_point of a decision
          FillOutcomes,       \* what simulate may answer
          Anomalies,          \* whether KillSwitch may fire
          LostTicks,          \* how many ticks may be missing in the feed
          RegimeStates,       \* what is_unknown may answer
          FeedErrors,         \* whether next_tick may fail
          MaxTicks            \* bound: ticks of a run

ASSUME RunnerAssumption ==
  /\ Enabled \subseteq Strategies
  /\ SnapshotLimit \in Nat /\ MaxHold \in [Strategies -> Nat]
  /\ StartTimes \subseteq Nat \ {0} /\ Steps \subseteq Nat \ {0}
  /\ Prices \subseteq Int /\ Slippages \subseteq Int /\ PointQs \subseteq Int
  /\ FillOutcomes \subseteq BOOLEAN /\ Anomalies \subseteq BOOLEAN
  /\ RegimeStates \subseteq BOOLEAN /\ FeedErrors \in BOOLEAN
  /\ LostTicks \subseteq Nat
  /\ MaxTicks \in Nat

VARIABLES
  pc,            \* phase of run
  todo,          \* strategies whose decision is still to be executed
  tick,          \* total_ticks, and market_sequence_id
  lost,          \* ticks that were missing in the feed before the last one
  now, mid,      \* timestamp and mid price of the last tick
  pos,           \* StateSnapshot.positions
  globalPosition, totalRealized, totalUnrealized,  \* its aggregates
  tracker,       \* PeriodicLimitTracker
  limits,        \* StateSnapshot.limit_state
  halt,          \* halt_state
  masked,        \* KillSwitch
  gapHalted,     \* GapDetector.halted
  life,          \* LifecycleManager
  earned,        \* strategies that reported a return other than zero to it
  mc,            \* McEvaluator: strategies with an active episode
  seen,          \* snapshot: the copy of the book decisions are judged by
  decision       \* strategy_decisions of this tick, of those that made one

book  == <<pos, globalPosition, totalRealized, totalUnrealized>>
risk  == <<tracker, limits>>
gates == <<masked, gapHalted>>
clock == <<tick, lost, now, mid>>
culling == <<life, earned>>
judged  == <<seen, decision>>
vars  == <<pc, todo, clock, book, risk, halt, gates, culling, mc, judged>>

-----------------------------------------------------------------------------
Phases == {"ready", "breach", "maxHold", "decide", "execute", "done", "failed"}

Decision == [side : {-1, 0, 1}, point : Int]
NoCopy == [pos |-> FlatBook, net |-> 0]
NoDecisions == [s \in {} |-> [side |-> 0, point |-> 0]]

OpenPositions == {s \in Strategies : IsOpen(pos[s])}

\* sync_limit_state
SyncLimitState ==
  /\ tracker' = Roll(tracker, now', totalRealized')
  /\ limits' = LimitsOf(tracker', totalRealized', totalUnrealized')

\* The aggregates after a fill: all but the unrealised total
Recomputed ==
  /\ globalPosition' = NetSize(pos')
  /\ totalRealized' = NetRealized(pos')
  /\ UNCHANGED totalUnrealized

\* Of the close orders for S these are filled, and the others rejected.
Filled(S) == {F \in SUBSET S :
                /\ F # {} => TRUE \in FillOutcomes
                /\ F # S  => FALSE \in FillOutcomes}

\* execute_close_order_forward for every position of S, whole.  The limits are
\* synchronised after each of them, which comes to the same as after the last,
\* and the episodes of the closed ones end.
Close(S) ==
  \E F \in Filled(S) : \E slip \in [F -> Slippages] :
    /\ pos' = [s \in Strategies |->
                IF s \in F
                THEN UpdatePositionFromFill(pos[s], -pos[s].size, mid + slip[s], now)
                ELSE pos[s]]
    /\ Recomputed
    /\ SyncLimitState
    /\ mc' = mc \ F

-----------------------------------------------------------------------------
(* A tick arrives: KillSwitch and GapDetector see it, the projector marks the *)
(* book to market, and the limits follow.  The runner has numbered the ticks  *)
(* itself: the detector compares this count with the one before.              *)

Arrive ==
  /\ pc = "ready" /\ tick < MaxTicks
  /\ tick' = tick + 1
  /\ lost' \in LostTicks
  /\ now' \in IF now = 0 THEN StartTimes ELSE {now + d : d \in Steps}
  /\ mid' \in Prices
  /\ pos' = [s \in Strategies |-> MarkToMarket(pos[s], mid')]
  /\ totalUnrealized' = NetUnrealized(pos')
  /\ UNCHANGED <<globalPosition, totalRealized>>
  /\ SyncLimitState
  /\ gapHalted' = (gapHalted \/ MissedTicks(tick, tick') >= SevereTicks)
  /\ UNCHANGED <<todo, culling, mc, judged>>

\* What the mask may be once record_tick has seen the tick
MaskSeen == {masked \/ anomaly : anomaly \in Anomalies}

\* Nothing but the book is looked at while a hard limit's halt lasts.
HaltedTick ==
  /\ Arrive
  /\ HaltActive(halt, now')
  /\ masked' \in MaskSeen
  /\ UNCHANGED <<pc, halt>>

\* Fault: the mask is asked first, and a masked tick forgets the halt.
SkippedTickForgetful ==
  /\ Arrive
  /\ halt' = NoHalt
  /\ masked' \in MaskSeen \cup {FALSE}
  /\ masked' \/ gapHalted' \/ BarrierLot = 0
  /\ UNCHANGED pc

\* The mask, the gap halt or the staleness barrier skips the tick, before the
\* hard limits are evaluated and with the closes of Phase 1.
SkippedTick ==
  /\ Arrive
  /\ ~HaltActive(halt, now')
  /\ halt' = NoHalt
  /\ masked' \in MaskSeen \cup {FALSE}
  /\ masked' \/ gapHalted' \/ BarrierLot = 0
  /\ UNCHANGED pc

\* An open tick passes the gates: the mask is down or, timed by another clock than
\* the ticks, has run out.
OpenTick ==
  /\ Arrive
  /\ ~HaltActive(halt, now')
  /\ halt' = NoHalt
  /\ masked' = FALSE
  /\ ~gapHalted' /\ BarrierLot > 0

BreachTick ==
  /\ OpenTick
  /\ HardBreach(limits')
  /\ pc' = "breach"

\* An unknown regime skips the tick as well; TRUE is such a regime.
UnknownRegimeTick ==
  /\ OpenTick
  /\ ~HardBreach(limits')
  /\ TRUE \in RegimeStates
  /\ UNCHANGED pc

TradingTick ==
  /\ OpenTick
  /\ ~HardBreach(limits')
  /\ FALSE \in RegimeStates
  /\ pc' = "maxHold"

\* A hard limit is broken: force_close_open_positions, and trading stops for the
\* period of the limit, whether or not the closes were filled.
ForceCloseOpenPositions ==
  /\ pc = "breach"
  /\ UNCHANGED now
  /\ Close(OpenPositions)
  /\ halt' = HaltFor(limits, now)
  /\ pc' = "ready"
  /\ UNCHANGED <<todo, tick, lost, mid, gates, culling, judged>>

-----------------------------------------------------------------------------
(* Phase 1: MAX_HOLD_TIME, then the copy of the book *)

Overdue == {s \in Enabled \cap OpenPositions :
              pos[s].since # 0 /\ now - pos[s].since >= MaxHold[s]}

\* Fault: the copy is the one made when the tick arrived.
CloseMaxHoldAfterCopy ==
  /\ pc = "maxHold"
  /\ UNCHANGED now
  /\ Close(Overdue)
  /\ seen' = [pos |-> pos, net |-> globalPosition]
  /\ pc' = "decide"
  /\ UNCHANGED <<todo, tick, lost, mid, halt, gates, culling, decision>>

CloseMaxHold ==
  /\ pc = "maxHold"
  /\ UNCHANGED now
  /\ Close(Overdue)
  /\ seen' = [pos |-> pos', net |-> globalPosition']
  /\ pc' = "decide"
  /\ UNCHANGED <<todo, tick, lost, mid, halt, gates, culling, decision>>

-----------------------------------------------------------------------------
(* The strategies that are alive decide, each on the copy of the book *)

BuyAllowed  == seen.net + 1 <= SnapshotLimit
SellAllowed == seen.net - 1 >= -SnapshotLimit

\* ThompsonSamplingPolicy::decide: any side the limit of the snapshot allows, or none
Decisions == {d \in [side : {-1, 0, 1}, point : PointQs] :
                /\ d.side = 1 => BuyAllowed
                /\ d.side = -1 => SellAllowed}

Decide ==
  /\ pc = "decide"
  /\ decision' \in [{s \in Enabled : life[s].alive} -> Decisions]
  /\ todo' = DOMAIN decision'
  /\ pc' = "execute"
  /\ UNCHANGED <<clock, book, risk, halt, gates, culling, mc, seen>>

-----------------------------------------------------------------------------
(* The decisions are executed in the order of their sampled Q-values: any order *)

Executing(s) == pc = "execute" /\ s \in todo
Done(s) == todo' = todo \ {s} /\ UNCHANGED <<pc, clock, halt, gates, judged>>

Side(s) == decision[s].side
AllQ == [s \in DOMAIN decision |-> decision[s].point]
Rank(s) == PriorityRank(s, AllQ, DOMAIN decision)

\* Neither the MTM stage nor the staleness barrier reduces these lots.
Lots(s) == LotSize \div LotDivisor(seen.net, Rank(s))

Closing(s) == Side(s) * seen.pos[s].size < 0

TriggerExit(s) ==
  /\ Executing(s)
  /\ Closing(s)
  /\ Done(s)
  /\ Close({s} \cap OpenPositions)
  /\ UNCHANGED culling

Attempt(s) ==
  /\ Side(s) # 0 /\ ~IsOpen(seen.pos[s])
  /\ GlobalCheckPasses(seen.net, Side(s) * LotSize, Rank(s))
  /\ Lots(s) > 0

\* Hold, already in position, or refused by the position constraint
Nothing(s) ==
  /\ Executing(s)
  /\ ~Closing(s) /\ ~Attempt(s)
  /\ Done(s)
  /\ UNCHANGED <<book, risk, culling, mc>>

\* record_episode is given what the order just executed has realised, and 0 when
\* it was rejected.  Returns that are all zero have a Sharpe ratio of zero, and a
\* total of zero is above any regime limit: neither is bad.
ReportEpisode(s, pnl) ==
  /\ earned' = IF pnl = 0 THEN earned ELSE earned \cup {s}
  /\ \E sharpeBad, pnlBreach \in (IF s \in earned' THEN BOOLEAN ELSE {FALSE}) :
       life' = [life EXCEPT ![s] = RecordEpisode(@, sharpeBad, pnlBreach)]

Enter(s) ==
  /\ Executing(s)
  /\ Attempt(s) /\ TRUE \in FillOutcomes
  /\ Done(s)
  /\ \E slip \in Slippages :
       pos' = [pos EXCEPT ![s] = UpdatePositionFromFill(@, Side(s) * Lots(s), mid + slip, now)]
  /\ Recomputed
  /\ SyncLimitState
  /\ mc' = mc \cup {s}
  /\ ReportEpisode(s, pos'[s].realized - pos[s].realized)

EntryRejected(s) ==
  /\ Executing(s)
  /\ Attempt(s) /\ FALSE \in FillOutcomes
  /\ Done(s)
  /\ UNCHANGED <<book, risk, mc>>
  /\ ReportEpisode(s, 0)

TickDone ==
  /\ pc = "execute" /\ todo = {}
  /\ pc' = "ready"
  /\ seen' = NoCopy /\ decision' = NoDecisions
  /\ UNCHANGED <<todo, clock, book, risk, halt, gates, culling, mc>>

-----------------------------------------------------------------------------
(* The end: the feed is exhausted or the duration over, at any tick; or the *)
(* feed fails, and run returns its error before the shutdown.               *)

Shutdown ==
  /\ pc = "ready"
  /\ UNCHANGED now
  /\ IF OpenPositions = {} THEN UNCHANGED <<book, risk, mc>> ELSE Close(OpenPositions)
  /\ pc' = "done"
  /\ UNCHANGED <<todo, tick, lost, mid, halt, gates, culling, judged>>

FeedFails ==
  /\ pc = "ready" /\ FeedErrors
  /\ pc' = "failed"
  /\ UNCHANGED <<todo, clock, book, risk, halt, gates, culling, mc, judged>>

Finished == pc \in {"done", "failed"} /\ UNCHANGED vars

-----------------------------------------------------------------------------
Init ==
  /\ pc = "ready" /\ todo = {} /\ tick = 0 /\ lost = 0 /\ now = 0 /\ mid = 0
  /\ pos = FlatBook
  /\ globalPosition = 0 /\ totalRealized = 0 /\ totalUnrealized = 0
  /\ tracker = FreshTracker /\ limits = NoLosses
  /\ halt = NoHalt /\ masked = FALSE /\ gapHalted = FALSE
  /\ life = [s \in Strategies |-> Newborn] /\ earned = {}
  /\ mc = {}
  /\ seen = NoCopy /\ decision = NoDecisions

Next ==
  \/ HaltedTick \/ SkippedTick \/ BreachTick \/ UnknownRegimeTick \/ TradingTick
  \/ ForceCloseOpenPositions \/ CloseMaxHold \/ Decide
  \/ \E s \in Enabled : TriggerExit(s) \/ Nothing(s) \/ Enter(s) \/ EntryRejected(s)
  \/ TickDone
  \/ Shutdown \/ FeedFails \/ Finished

Spec == Init /\ [][Next]_vars

-----------------------------------------------------------------------------
(* Correctness *)

ClockType == tick \in 0 .. MaxTicks /\ lost \in Nat /\ now \in Nat /\ mid \in Int
BookType ==
  /\ pos \in [Strategies -> Position]
  /\ globalPosition \in Int /\ totalRealized \in Int /\ totalUnrealized \in Int
RiskType ==
  /\ tracker \in [Periods -> Period]
  /\ limits \in LimitState
  /\ halt \in Halt
GatesType == masked \in BOOLEAN /\ gapHalted \in BOOLEAN
AgentType ==
  /\ life \in [Strategies -> Life] /\ earned \subseteq Strategies
  /\ mc \subseteq Strategies
JudgedType ==
  /\ seen \in [pos : [Strategies -> Position], net : Int]
  /\ DOMAIN decision \subseteq Strategies
  /\ decision \in [DOMAIN decision -> Decision]

TypeOK ==
  /\ pc \in Phases /\ todo \subseteq Strategies
  /\ ClockType /\ BookType /\ RiskType /\ GatesType /\ AgentType /\ JudgedType

\* A strategy has an active Monte Carlo episode exactly when it has an open
\* position, to the end of the run and through a failure of the feed: the loops
\* that end episodes after a forced close go by the closes that were filled.
EpisodeMatchesPosition == mc = OpenPositions

\* The copy of the book that decisions are judged by goes stale with the first fill
\* of the tick, but never in what a strategy still to come reads of itself.
OwnPositionFresh ==
  pc = "execute" => \A s \in todo : seen.pos[s] = pos[s]

\* A fill opens a position from flat or closes one completely, although nothing
\* but the copy is asked whether there is one: size, entry price and time of
\* a position are those of its only order.
FillsOpenOrClose ==
  [][\A s \in Strategies :
       pos'[s].size # pos[s].size => ~IsOpen(pos[s]) \/ ~IsOpen(pos[s])']_vars

\* The runner keeps the promises of a session: whatever gates open and shut and
\* whatever is rejected, nobody enters between the breach of a hard limit and the
\* end of its period, and the halt is neither shortened nor replaced.
Session == INSTANCE TradingSession WITH holding <- OpenPositions, learning <- mc
KeepsSession == Session!Spec

\* A severe gap halts trading (design.md 7.1): when so many ticks are missing between
\* two that the runner has seen, the gap detector halts it.
SevereGapHalts == [][0 < tick /\ tick < tick' /\ lost' >= SevereTicks => gapHalted']_vars
=============================================================================
