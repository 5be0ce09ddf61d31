--------------------------- MODULE ExecutionModels ---------------------------
(***************************************************************************)
(* How an order is judged and simulated: the staleness barrier             *)
(* (risk/barrier.rs), the models of the over-the-counter market             *)
(* (execution/otc_model.rs), the evaluation and simulation of an order in    *)
(* ExecutionGateway (execution/gateway.rs) and its paper result              *)
(* (forward/paper.rs).  LpExecution models the choice of the provider.       *)
(* Values are fractions; random draws are parameters, of every outcome that  *)
(* has a probability above zero.                                             *)
(***************************************************************************)
EXTENDS Fractions

CONSTANTS StalenessLimit, WarningLimit, MinMultiplier,      \* DynamicRiskBarrierConfig
          BarrierDefaultLot, BarrierMaxLot, BarrierMinLot,
          PriorAlpha, PriorBeta, VolPenalty,                \* LastLookConfig
          MarketFill, LimitFill, LimitDecay(_), HiddenLiquidity,
          SizeCost, RootCost, VolCost, SellImprovement, SizeRoot(_),
          ProfitFloor, FillFloor,                           \* OrderTypeConfig
          Providers, OrderRequests, MaxOrders,              \* the LPs and requests; a bound
          Slippages, HiddenDraws                            \* what may be drawn

-----------------------------------------------------------------------------
(* DynamicRiskBarrier *)

LotMultiplier(staleness) ==
  LET ratio == Frac(staleness, StalenessLimit)
  IN IF staleness >= StalenessLimit THEN Zero ELSE MaxFrac(One -- (ratio ** ratio), Zero)

BarrierStatus(staleness, multiplier) ==
  CASE multiplier \prec MinMultiplier \/ multiplier \preceq Zero
         \/ staleness >= StalenessLimit -> "Halted"
    [] OTHER -> IF staleness >= WarningLimit THEN "Degraded"
                ELSE IF staleness >= WarningLimit \div 2 THEN "Warning" ELSE "Normal"

EffectiveLot(multiplier) ==
  LET lot == Truncated(Whole(BarrierDefaultLot) ** multiplier)
  IN IF multiplier \prec MinMultiplier THEN 0
     ELSE IF lot < BarrierMaxLot THEN lot ELSE BarrierMaxLot

EvaluateBarrier(staleness) ==
  LET multiplier == LotMultiplier(staleness)
      status == BarrierStatus(staleness, multiplier)
      lot == EffectiveLot(multiplier)
  IN [multiplier |-> multiplier, status |-> status, lot |-> lot,
      allowed |-> status # "Halted" /\ lot >= BarrierMinLot]

\* validate_order: the error, or none
ValidateOrder(staleness) ==
  LET b == EvaluateBarrier(staleness)
  IN IF b.status = "Halted" THEN {"StalenessHalted"}
     ELSE IF ~b.allowed THEN {"StalenessDegraded"} ELSE {}

-----------------------------------------------------------------------------
(* LastLookModel: an LP that was never asked has the prior *)

Prior == [alpha |-> PriorAlpha, beta |-> PriorBeta]

UpdatedLook(params, filled) ==
  IF filled THEN [params EXCEPT !.alpha = @ ++ One] ELSE [params EXCEPT !.beta = @ ++ One]

LookFill(params, vol) ==
  Clamp((params.alpha // (params.alpha ++ params.beta)) ** (One -- (VolPenalty ** vol)), Zero, One)

-----------------------------------------------------------------------------
(* FillProbabilityModel *)

RequestFill(type, distance) ==
  IF type = "Market" THEN MarketFill
  ELSE Clamp(LimitFill ** LimitDecay(AbsFrac(distance)), Frac(1, 100), Frac(19, 20))

\* hidden is the expected liquidity, or a draw of it; a draw below zero counts as zero.
EffectiveFill(type, distance, lookFill, hidden) ==
  Clamp((RequestFill(type, distance) ** lookFill) ++ MaxFrac(hidden, Zero), Zero, One)

-----------------------------------------------------------------------------
(* SlippageModel *)

NoSlippage == [mean |-> Zero, variance |-> Zero, count |-> 0]

ExpectedSlippage(direction, size, vol, stats) ==
  LET base == (((SizeCost ** size) ++ (RootCost ** SizeRoot(size))) ++ VolCost) ** vol
  IN (IF direction = "Sell" THEN base ++ (SellImprovement ** size) ELSE base) ++ stats.mean

\* Fault: the deviation from the old mean is squared.
ObservedStale(stats, slippage) ==
  LET n == Whole(stats.count + 1)
      delta == slippage -- stats.mean
  IN [mean |-> stats.mean ++ (delta // n),
      variance |-> stats.variance ++ (((delta ** delta) -- stats.variance) // n),
      count |-> stats.count + 1]

Observed(stats, slippage) ==
  LET n == Whole(stats.count + 1)
      delta == slippage -- stats.mean
      mean == stats.mean ++ (delta // n)
  IN [mean |-> mean,
      variance |-> stats.variance ++ (((delta ** (slippage -- mean)) -- stats.variance) // n),
      count |-> stats.count + 1]

-----------------------------------------------------------------------------
(* OrderTypeSelector: the type and the distance of a limit from the mid *)

SelectType(profit, fill, slippage) ==
  IF /\ FillFloor \preceq fill /\ ProfitFloor \preceq profit
     /\ (profit -- AbsFrac(slippage)) \preceq (fill ** profit)
  THEN [type |-> "Limit", distance |-> profit // Whole(2)]
  ELSE [type |-> "Market", distance |-> Zero]

SelectWithUrgency(profit, fill, slippage, urgent) ==
  IF urgent THEN [type |-> "Market", distance |-> Zero] ELSE SelectType(profit, fill, slippage)

-----------------------------------------------------------------------------
(* ExecutionGateway: a model of the market is, of an LP, its Beta parameters and its slippage *)

NewModels(lps) == [look |-> [l \in lps |-> Prior], slip |-> [l \in lps |-> NoSlippage]]

\* evaluate: the type is chosen by a guess of nine tenths, and again by the probability
\* that comes of it.  None for an order of no lots.
Evaluation(models, request, lp) ==
  LET look == LookFill(models.look[lp], request.vol)
      slip == ExpectedSlippage(request.direction, request.size, request.vol, models.slip[lp])
      Chosen(fill) == SelectWithUrgency(request.profit, fill, slip, request.urgent)
      Fill(choice) == EffectiveFill(choice.type, choice.distance, look, HiddenLiquidity)
      final == Chosen(Fill(Chosen(Frac(9, 10))))
  IN IF request.size = Zero THEN {}
     ELSE {[type |-> final.type, distance |-> final.distance, fill |-> Fill(final),
            look |-> look, slippage |-> slip, lp |-> lp]}

\* The price asked for: above the mid for a buy, below for a sell, also for a limit.
RequestedPrice(request, distance) ==
  IF request.direction = "Buy" THEN request.mid ++ distance ELSE request.mid -- distance

\* process_fill and process_rejection
Processed(models, lp, filled, slippage) ==
  [look |-> [models.look EXCEPT ![lp] = UpdatedLook(@, filled)],
   slip |-> IF filled THEN [models.slip EXCEPT ![lp] = Observed(@, slippage)] ELSE models.slip]

\* What can be drawn for a probability
Draws(p) == (IF Zero \prec p THEN {TRUE} ELSE {}) \cup (IF p \prec One THEN {FALSE} ELSE {})

\* simulate_execution: reason is drawn by the probability of passing the last look.
Outcome(eval, request, filled, lookedAt, slippage) ==
  LET asked == RequestedPrice(request, eval.distance)
  IN [filled |-> filled, lp |-> eval.lp, type |-> eval.type, asked |-> asked,
      slippage |-> IF filled THEN slippage ELSE Zero,
      size |-> IF filled THEN request.size ELSE Zero,
      price |-> IF ~filled THEN asked
                ELSE IF request.direction = "Buy" THEN asked ++ slippage ELSE asked -- slippage,
      reason |-> IF filled THEN {} ELSE IF lookedAt THEN {"LAST_LOOK"}
                 ELSE {"INSUFFICIENT_LIQUIDITY"}]

\* build_execution_event: a sell has a size below zero.
ExecutionEvent(request, result) ==
  [size |-> IF request.direction = "Buy" THEN result.size ELSE Zero -- result.size,
   price |-> result.price, slippage |-> result.slippage, lp |-> result.lp,
   status |-> IF result.filled THEN "Filled" ELSE "Rejected",
   drift |-> result.price -- result.asked, reason |-> result.reason]

\* to_paper_result
PaperResult(request, result) ==
  [side |-> request.direction, lots |-> IF result.filled THEN result.size ELSE Zero,
   price |-> IF result.filled THEN {result.price} ELSE {}, rejected |-> ~result.filled,
   reason |-> result.reason]

\* active_lp_adversarial_score, of the state of the active LP
AdversarialScore(adversarial, rejectionRate, fillRate) ==
  IF adversarial THEN One
  ELSE Clamp(MaxFrac(rejectionRate, MaxFrac(One -- fillRate, Zero)), Zero, One)

\* aggregate_rejection_rate: counts is, of each LP, its requests and rejections.
RejectionRate(counts) ==
  LET requests == FoldLeft(LAMBDA n, c : n + c.requests, 0, counts)
  IN IF requests = 0 THEN Zero
     ELSE Frac(FoldLeft(LAMBDA n, c : n + c.rejections, 0, counts), requests)

-----------------------------------------------------------------------------
(* The orders of a run: each goes to the LP that is active then (LpExecution chooses it) *)

VARIABLES market,       \* last_look_model and slippage_model, of every LP
          executions    \* what came of the orders, in their order: the LP and its result

executionVars == <<market, executions>>

ExecutionInit == market = NewModels(Providers) /\ executions = <<>>

\* simulate_execution: an order of no lots is refused and changes nothing.
SimulateExecution(request, lp) ==
  \E eval \in Evaluation(market, request, lp) :
    \E hidden \in HiddenDraws, slippage \in Slippages, lookedAt \in Draws(eval.look) :
      \E filled \in Draws(EffectiveFill(eval.type, eval.distance, eval.look, hidden)) :
        LET result == Outcome(eval, request, filled, lookedAt, slippage)
        IN /\ market' = Processed(market, lp, filled, slippage)
           /\ executions' = Append(executions, [lp |-> lp, result |-> result])

ExecutionNext ==
  /\ Len(executions) < MaxOrders
  /\ \E request \in OrderRequests, lp \in Providers : SimulateExecution(request, lp)

\* The orders that went to an LP, those of them that were filled, and their slippages
OrdersOf(lp) == {i \in DOMAIN executions : executions[i].lp = lp}
FillsOf(lp)  == {i \in OrdersOf(lp) : executions[i].result.filled}

SlippagesOf(lp) ==
  Taken([i \in 1 .. Len(executions) |-> executions[i].result.slippage], FillsOf(lp))

\* The models, updated one result at a time, are what the whole history of an LP gives:
\* its Beta parameters count every fill and every refusal, and the running mean and
\* variance of its slippage (otc_model.rs update_observation) are those of its fills,
\* whatever other LPs' orders came in between.
ModelsMatchHistory ==
  \A lp \in Providers :
    LET slips == SlippagesOf(lp)
        n == Whole(Len(slips))
        stats == market.slip[lp]
        squares == [i \in DOMAIN slips |-> (slips[i] -- stats.mean) ** (slips[i] -- stats.mean)]
    IN /\ market.look[lp].alpha = PriorAlpha ++ n
       /\ market.look[lp].beta = PriorBeta ++ Whole(Cardinality(OrdersOf(lp) \ FillsOf(lp)))
       /\ stats.mean ** n = SumFrac(slips)
       /\ stats.variance ** n = SumFrac(squares)
=============================================================================
