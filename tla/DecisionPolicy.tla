--------------------------- MODULE DecisionPolicy ---------------------------
(***************************************************************************)
(* Thompson sampling (strategy/thompson_sampling.rs), whose pipeline the    *)
(* three strategies repeat: penalties, the choice of an action, its lots,   *)
(* and the inflation of the posterior when the strategy only holds.         *)
(* A policy is the record [q, history, decisions, inflation].               *)
(***************************************************************************)
EXTENDS QFunction, FiniteSets

CONSTANTS NonModelK, LatencyK,        \* non_model_uncertainty_k, latency_penalty_k
          MinFrequency, TradeWindow,  \* min_trade_frequency, trade_frequency_window
          InflationTarget,            \* hold_degeneration_inflation
          InflationDecay,             \* inflation_decay_rate
          InflationFloor,             \* the level below which inflation counts as none, 1.001
          MaxLot, MinLot, DefaultLot,
          Consistency                 \* consistency_threshold

ASSUME PolicyAssumption ==
  /\ TradeWindow \in Nat \ {0}
  /\ MaxLot \in Nat /\ MinLot \in Nat /\ DefaultLot \in Nat
  /\ IsFrac(MinFrequency) /\ IsFrac(InflationTarget) /\ IsFrac(InflationDecay)
  /\ One \preceq InflationTarget /\ One \preceq InflationFloor
  /\ Zero \preceq InflationDecay /\ InflationDecay \preceq One

NewPolicy == [q |-> NewQ, history |-> <<>>, decisions |-> 0, inflation |-> One]

-----------------------------------------------------------------------------
(* TradeFrequencyTracker *)

\* record: the oldest entry leaves a full window
RecordTrade(history, traded) ==
  LET h == Append(history, traded) IN IF Len(h) > TradeWindow THEN Tail(h) ELSE h

Frequency(history) ==
  IF history = <<>> THEN Zero
  ELSE Frac(Cardinality({i \in DOMAIN history : history[i]}), Len(history))

\* check_hold_degeneration
HoldDegenerate(p) == p.decisions >= TradeWindow /\ Frequency(p.history) \prec MinFrequency

-----------------------------------------------------------------------------
(* The values compared *)

\* compute_dynamic_k
DynamicK(base, volatility, stability) ==
  (base ** (One ++ (Whole(10) ** volatility)))
    ** (IF stability \prec Frac(1, 2) THEN One ++ (Whole(2) ** (One -- stability)) ELSE One)

\* regime_stability, from the ratio of volatilities
Stability(ratio) == MaxFrac(One -- MinFrac(ratio, One), Zero)

\* The penalty of trading; sigma is the root of Buy's noise variance.
TradePenalty(f, k, sigma, latency) ==
  (f.selfImpact ++ f.dynamicCost) ++ ((k ** sigma) ++ (LatencyK ** latency))

\* Holding pays no penalty.
Penalized(raw, penalty) == [a \in QAction |-> IF a = "Hold" THEN raw[a] ELSE raw[a] -- penalty]

\* check_action_consistency: both directions look good, and about equally so
Inconsistent(v) ==
  /\ Zero \prec v["Buy"] /\ Zero \prec v["Sell"]
  /\ (AbsFrac(v["Buy"] -- v["Sell"]) // MaxFrac(v["Buy"], v["Sell"])) \prec Consistency

\* select_action: a tie between the directions, or with holding, goes to Buy, then Sell; a
\* direction that is the only one left must beat holding.
SelectAction(v, buyAllowed, sellAllowed) ==
  LET best(a) == \A b \in QAction : v[b] \preceq v[a]
  IN CASE buyAllowed /\ sellAllowed ->
            IF best("Buy") THEN "Buy" ELSE IF best("Sell") THEN "Sell" ELSE "Hold"
       [] buyAllowed /\ ~sellAllowed -> IF v["Hold"] \prec v["Buy"] THEN "Buy" ELSE "Hold"
       [] ~buyAllowed /\ sellAllowed -> IF v["Hold"] \prec v["Sell"] THEN "Sell" ELSE "Hold"
       [] ~buyAllowed /\ ~sellAllowed -> "Hold"

LotSize(multiplier) ==
  LET lots == Truncated(Whole(DefaultLot) ** multiplier)
  IN IF lots > MaxLot THEN MaxLot ELSE lots

\* Too small an order, or a multiplier of nothing, is no order.
Sized(selected, multiplier) ==
  IF multiplier \prec Frac(1, 100) \/ selected = "Hold" \/ LotSize(multiplier) < MinLot
    THEN [action |-> "Hold", lots |-> 0]
    ELSE [action |-> selected, lots |-> LotSize(multiplier)]

\* Steps 4 to 7 for the values after the penalties, with the fallback already decided
Order(v, fallback, state) ==
  Sized(IF fallback THEN "Hold"
        ELSE SelectAction(v, state.global + 1 <= state.limit, state.global - 1 >= -state.limit),
        state.multiplier)

-----------------------------------------------------------------------------
(* Step 8: inflation *)

\* Fault: a level at the target does not decay.
WatchedStuck(p) ==
  IF HoldDegenerate(p)
    THEN IF p.inflation \prec InflationTarget
           THEN [p EXCEPT !.q = InflatedQ(@, InflationTarget // p.inflation),
                          !.inflation = InflationTarget]
           ELSE p
    ELSE IF p.inflation \prec InflationTarget THEN [p EXCEPT !.inflation = One] ELSE p

\* The level is raised to the target at most; when the trades are back only the level decays.
Watched(p) ==
  IF HoldDegenerate(p)
    THEN IF p.inflation \prec InflationTarget
           THEN [p EXCEPT !.q = InflatedQ(@, InflationTarget // p.inflation),
                          !.inflation = InflationTarget]
           ELSE p
    ELSE IF One \prec p.inflation
           THEN LET level == One ++ ((p.inflation -- One) ** InflationDecay)
                IN [p EXCEPT !.inflation = IF level \prec InflationFloor THEN One ELSE level]
           ELSE p

\* The policy after an order was decided
AfterOrder(p, order) ==
  Watched([p EXCEPT !.history = RecordTrade(@, order.action # "Hold")])

\* total_decisions, which is only compared with the window, stops there.
Counted(p) == [p EXCEPT !.decisions = IF @ < TradeWindow THEN @ + 1 ELSE @]

\* decide: the policy afterwards, and what it decided
Decide(p, v, state) ==
  LET fallback == Inconsistent(v)
      order    == Order(v, fallback, state)
      after    == AfterOrder(Counted(p), order)
  IN [policy |-> after, order |-> order, fallback |-> fallback,
      degenerate |-> HoldDegenerate([Counted(p) EXCEPT !.history = after.history])]

\* reset_trade_tracker: the inflation stays
ResetTracker(p) == [p EXCEPT !.history = <<>>, !.decisions = 0]
=============================================================================
