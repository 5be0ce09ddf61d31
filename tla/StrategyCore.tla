---------------------------- MODULE StrategyCore ----------------------------
(***************************************************************************)
(* What strategies A, B and C have in common, and what is each one's own   *)
(* (strategy/strategy_a.rs, strategy_b.rs, strategy_c.rs): its trigger, the*)
(* features it appends and its decision.  A strategy is a policy with an   *)
(* episode: the record [episode, q, history, decisions, inflation], where  *)
(* episode holds the time of its entry, or nothing while it is idle.       *)
(***************************************************************************)
EXTENDS DecisionPolicy

CONSTANTS ConfidentAfter,   \* min_obs of the consistency check
          ExpMinus          \* e to the power of minus a whole number, as a fraction

ASSUME CoreAssumption ==
  /\ ConfidentAfter \in Nat
  /\ \A t \in DOMAIN ExpMinus : IsFrac(ExpMinus[t]) /\ ExpMinus[t] \preceq One

NewStrategy == [episode |-> {}, q |-> NewQ, history |-> <<>>, decisions |-> 0, inflation |-> One]

HoldOrder == [action |-> "Hold", lots |-> 0]

-----------------------------------------------------------------------------
(* Episode *)

StartEpisode(s, now) == [s EXCEPT !.episode = {now}]
EndEpisode(s)        == [s EXCEPT !.episode = {}]

ShouldEnd(s, now, maxHold) == \E entry \in s.episode : now - entry >= maxHold

\* remaining_hold_time_ms: 0 when there is no episode, or no time left
Remaining(s, now, maxHold) ==
  IF \E entry \in s.episode : now - entry < maxHold
    THEN maxHold - (now - (CHOOSE entry \in s.episode : TRUE))
    ELSE 0

-----------------------------------------------------------------------------
(* Steps of decide *)

\* Step 1: what is held is to be closed, and the episode ends whether or not the close is filled.
TimedOut(s, size) ==
  [strategy |-> EndEpisode(s),
   order |-> CASE size > 0 -> [action |-> "Sell", lots |-> size]
               [] size < 0 -> [action |-> "Buy", lots |-> -size]
               [] size = 0 -> HoldOrder,
   close |-> TRUE, triggered |-> FALSE]

\* Step 2: an episode without a position ends.
SyncedWith(s, size) == IF size = 0 THEN EndEpisode(s) ELSE s

\* Step 3: idle and not triggered
Skipped(s) ==
  [strategy |-> [s EXCEPT !.history = RecordTrade(@, FALSE)], order |-> HoldOrder,
   close |-> FALSE, triggered |-> FALSE]

\* Step 6: the fallback waits for enough observations of both directions.
Fallback(s, v) ==
  /\ s.q["Buy"].n >= ConfidentAfter /\ s.q["Sell"].n >= ConfidentAfter
  /\ Inconsistent(v)

\* An active strategy leaves on the signal of the other direction.
ClosingSignal(s, order, size) ==
  /\ s.episode # {}
  /\ \/ order.action = "Buy" /\ size < 0
     \/ order.action = "Sell" /\ size > 0

\* Steps 6 and 7: the strategy with its order decided
Settled(s, order, triggered, size, now) ==
  [strategy |-> AfterOrder(IF s.episode = {} /\ order.action # "Hold" THEN StartEpisode(s, now) ELSE s,
                           order),
   order |-> order, close |-> ClosingSignal(s, order, size), triggered |-> triggered]

\* Steps 5 and 6: the order the values come to
Judged(s, v, state) == Order(v, Fallback(s, v), state)

\* The values compared: `raw' are the sampled ones, sigma the root of Buy's noise variance.
Values(f, raw, sigma, latency) == Penalized(raw, TradePenalty(f, NonModelK, sigma, latency))

-----------------------------------------------------------------------------
(* Strategy A: liquidity shock reversion *)

CONSTANTS SpreadZA, DepthDropA, VolSpikeA, RegimeKlA,  \* thresholds of A's trigger
          DecayRateA                                   \* decay_rate_a

IsTriggeredA(f, kl) ==
  /\ SpreadZA \prec f.spreadZ
  /\ f.depthChange \prec DepthDropA
  /\ VolSpikeA \prec f.volRatio
  /\ kl \prec RegimeKlA

TimeDecay(held, rate) == IF held <= 0 THEN One ELSE ExpMinus[held * rate]

\* compute_p_revert_a
PRevertA(f) ==
  LET spread == MinFrac(AbsFrac(f.spreadZ) // Whole(3), One)
      depth  == Clamp(((Zero -- f.depthChange) -- Frac(1, 5)) // Frac(4, 5), Zero, One)
      vol    == Clamp((f.volRatio -- One) // Whole(2), Zero, One)
  IN Clamp(((spread ** Frac(2, 5)) ++ (depth ** Frac(7, 20))) ++ (vol ** Frac(1, 4)), Zero, One)

\* The five coordinates A appends to the base features
ExtractFeaturesA(f) ==
  <<f.spreadZ ** f.obi,
    f.selfImpact ** (One ++ MinFrac(AbsFrac(f.depthChange), Whole(2))),
    PRevertA(f), TimeDecay(f.held, DecayRateA), f.depthChange ** f.volatility>>

-----------------------------------------------------------------------------
(* Strategy B: volatility decay momentum *)

CONSTANTS VolSpikeB, VolDecayingB, ObiAlignmentB, RegimeKlB,  \* thresholds of the trigger
          MaxHoldB, DecayRateB                                \* max_hold_time_ms, decay_rate_b

NewStrategyB == NewStrategy

IsTriggeredB(f, kl) ==
  /\ VolSpikeB \prec f.volRatio
  /\ f.volDecay \prec VolDecayingB
  /\ ObiAlignmentB \prec AbsFrac(f.obi)
  /\ kl \prec RegimeKlB

\* compute_p_continue_b
PContinueB(f) ==
  LET decay     == Clamp(Zero -- f.volDecay, Zero, One)
      alignment == MinFrac(AbsFrac(f.obi), One)
      intensity == MinFrac(f.intensity // Whole(10), One)
  IN Clamp(((decay ** Frac(2, 5)) ++ (alignment ** Frac(7, 20))) ++ (intensity ** Frac(1, 4)),
           Zero, One)

\* The five coordinates B appends
ExtractFeaturesB(f) ==
  <<f.volatility ** f.obi, f.deltaObi ** f.intensity, PContinueB(f),
    TimeDecay(f.held, DecayRateB), f.volRatio ** f.signedVolume>>

ShouldEndB(s, now) == ShouldEnd(s, now, MaxHoldB)
RemainingB(s, now) == Remaining(s, now, MaxHoldB)

\* Fault: an episode whose position was closed elsewhere goes on.
EnteredUnsyncedB(s, f, kl, size, now) ==
  IF ShouldEndB(s, now) THEN TimedOut(Counted(s), size)
  ELSE IF s.episode = {} /\ ~IsTriggeredB(f, kl) THEN Skipped(Counted(s))
  ELSE [strategy |-> Counted(s), order |-> HoldOrder, close |-> FALSE,
        triggered |-> IsTriggeredB(f, kl)]

\* Steps 1 to 3: what the strategy is before it samples
EnteredB(s, f, kl, size, now) ==
  LET synced == SyncedWith(Counted(s), size)
  IN IF ShouldEndB(s, now) THEN TimedOut(Counted(s), size)
     ELSE IF synced.episode = {} /\ ~IsTriggeredB(f, kl) THEN Skipped(synced)
     ELSE [strategy |-> synced, order |-> HoldOrder, close |-> FALSE,
           triggered |-> IsTriggeredB(f, kl)]

\* A strategy that is idle and not triggered, or out of time, does not sample.
SamplesB(s, f, kl, size, now) ==
  ~ShouldEndB(s, now) /\ (IsTriggeredB(f, kl) \/ (s.episode # {} /\ size # 0))

JudgedB(s, v, state) == Judged(s, v, state)

\* decide
DecideB(s, f, kl, raw, sigma, latency, state, size, now) ==
  LET decided(early) ==
        IF SamplesB(s, f, kl, size, now)
          THEN Settled(early.strategy, JudgedB(early.strategy, Values(f, raw, sigma, latency), state),
                       early.triggered, size, now)
          ELSE early
  IN decided(EnteredB(s, f, kl, size, now))

UpdateB(s, a, phi, target) == [s EXCEPT !.q = QUpdated(@, a, phi, target)]

-----------------------------------------------------------------------------
(* Strategy C: session structural bias *)

CONSTANTS SessionActiveC, ObiSignificanceC, MaxSessionOpenC, RegimeKlC,
          MaxHoldC, DecayRateC, SessionScale  \* SessionScale: an hour, in the unit of sinceOpen

\* The strongest of the four session indicators
DominantSession(f) ==
  MaxFrac(MaxFrac(f.tokyo, f.london), MaxFrac(f.ny, f.sydney))

NewStrategyC == NewStrategy

IsTriggeredC(f, kl) ==
  /\ SessionActiveC \prec DominantSession(f)
  /\ ObiSignificanceC \prec AbsFrac(f.obi)
  /\ f.sinceOpen < MaxSessionOpenC
  /\ kl \prec RegimeKlC

\* compute_session_x_obi
SessionTimesObi(f) == f.obi ** DominantSession(f)

\* compute_p_trend_c: the structural bias fades over the hour after the open
PTrendC(f) ==
  LET weight == TimeDecay(f.sinceOpen, SessionScale)
  IN Clamp(((MinFrac(AbsFrac(f.obi), One) ** Frac(2, 5))
             ++ (DominantSession(f) ** Frac(7, 20))) ++ (weight ** Frac(1, 4)), Zero, One)

\* The five coordinates C appends
ExtractFeaturesC(f) ==
  <<SessionTimesObi(f), f.depthChange ** f.queuePosition, PTrendC(f),
    TimeDecay(f.held, DecayRateC), f.obi ** MinFrac(Whole(f.sinceOpen), Whole(60))>>

ShouldEndC(s, now) == ShouldEnd(s, now, MaxHoldC)
RemainingC(s, now) == Remaining(s, now, MaxHoldC)

\* Steps 1 to 3: what the strategy is before it samples
EnteredC(s, f, kl, size, now) ==
  LET synced == SyncedWith(Counted(s), size)
  IN IF ShouldEndC(s, now) THEN TimedOut(Counted(s), size)
     ELSE IF synced.episode = {} /\ ~IsTriggeredC(f, kl) THEN Skipped(synced)
     ELSE [strategy |-> synced, order |-> HoldOrder, close |-> FALSE,
           triggered |-> IsTriggeredC(f, kl)]

SamplesC(s, f, kl, size, now) ==
  ~ShouldEndC(s, now) /\ (IsTriggeredC(f, kl) \/ (s.episode # {} /\ size # 0))

JudgedC(s, v, state) == Judged(s, v, state)

\* decide
DecideC(s, f, kl, raw, sigma, latency, state, size, now) ==
  LET decided(early) ==
        IF SamplesC(s, f, kl, size, now)
          THEN Settled(early.strategy, JudgedC(early.strategy, Values(f, raw, sigma, latency), state),
                       early.triggered, size, now)
          ELSE early
  IN decided(EnteredC(s, f, kl, size, now))

UpdateC(s, a, phi, target) == [s EXCEPT !.q = QUpdated(@, a, phi, target)]
=============================================================================
