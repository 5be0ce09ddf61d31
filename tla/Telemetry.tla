------------------------------ MODULE Telemetry ------------------------------
(***************************************************************************)
(* What a run tells about itself on every tick: RuntimeObservabilityState   *)
(* and the PreFailureMetrics made of it, and the events of decisions, of     *)
(* skipped trades and of snapshots.  BacktestEngine (backtest/engine.rs) and *)
(* ForwardTestRunner (forward/runner.rs) have a copy each.  Monitoring has   *)
(* the manager the metrics go to.                                            *)
(***************************************************************************)
EXTENDS Monitoring, EventTiers

CONSTANTS ObsWindow,             \* values each RollingStats of the state keeps
          ScoreFloor, ScoreShare,  \* 1e-6, and the relative change that counts
          SnapshotInterval,
          SoftEntropy(_), Distance(_, _),
          Situations,            \* the snapshots of the projector a tick may meet
          ObservedDecisions,     \* the sets of decisions of a tick
          ObservedTicks          \* bound: ticks

QActions == {"Buy", "Sell", "Hold"}

-----------------------------------------------------------------------------
(* RuntimeObservabilityState: scores is, of each strategy, its last scores    *)

NewObservability ==
  [execDrift |-> <<>>, adjustments |-> <<>>, liquidity |-> <<>>, costErrors |-> <<>>,
   entropy |-> Zero, impact |-> Zero, drift |-> Zero,
   scores |-> [s \in {"A", "B", "C"} |-> {}]]

KeptObs(q, v) == Append(IF Len(q) >= ObsWindow THEN Tail(q) ELSE q, v)

Adjusted(before, after) ==
  \E a \in QActions :
    ScoreShare \prec (AbsFrac(after[a] -- before[a]) // MaxFrac(AbsFrac(before[a]), ScoreFloor))

RecordActionScores(o, strategy, scores) ==
  LET adjusted == \E before \in o.scores[strategy] : Adjusted(before, scores)
  IN [o EXCEPT !.adjustments = KeptObs(@, IF adjusted THEN One ELSE Zero),
               !.scores[strategy] = {scores}]

\* estimated is none, or the set of the cost expected.
RecordExecutionFill(o, drift, slippage, estimated) ==
  LET Error(cost) == AbsFrac(AbsFrac(cost) -- AbsFrac(slippage))
  IN [o EXCEPT !.execDrift = KeptObs(@, drift),
               !.costErrors = IF estimated = {} THEN @
                              ELSE KeptObs(@, Error(CHOOSE c \in estimated : TRUE))]

Largest(scores) ==
  FoldLeft(LAMBDA m, a : MaxFrac(m, AbsFrac(scores[a])), Zero, <<"Buy", "Sell", "Hold">>)

\* The distance of a strategy's weights from those it had when last looked at: of three models
Drifts(seen, d) ==
  [a \in 1 .. 3 |-> IF seen[d.strategy] = {} THEN Zero
                    ELSE Distance((CHOOSE w \in seen[d.strategy] : TRUE)[a], d.weights[a])]

\* update_runtime_observability, for the decisions of one tick: the weights seen, with it
UpdateObservability(o, seen, decisions) ==
  LET Each(Value(_)) == SubSeq([i \in DOMAIN decisions |-> Value(decisions[i])], 1, Len(decisions))
      acting == SelectSeq(decisions, LAMBDA d : Zero \prec Largest(d.scores))
      drifts == FoldLeft(LAMBDA q, d : q \o Drifts(seen, d), <<>>, decisions)
      scored == FoldLeft(LAMBDA acc, d : RecordActionScores(acc, d.strategy, d.scores), o, decisions)
  IN [state |-> [scored EXCEPT
        !.entropy = MeanFrac(Each(LAMBDA d : SoftEntropy(d.scores))),
        !.impact = MeanFrac(SubSeq([i \in DOMAIN acting |->
                     AbsFrac(acting[i].impact) // Largest(acting[i].scores)], 1, Len(acting))),
        !.drift = MeanFrac(drifts),
        !.liquidity = KeptObs(@, AbsFrac(MeanFrac(Each(LAMBDA d : AbsFrac(d.depthChange)))))],
      seen |-> FoldLeft(LAMBDA acc, d : [acc EXCEPT ![d.strategy] = {d.weights}], seen, decisions)]

\* collect_pre_failure_metrics: now is what the projector, the regime, the kill switch and the
\* gateway say.  RollingStats divides by n for its variance.
SpreadOf(q) ==
  IF Len(q) < 2 THEN Zero
  ELSE SquareRoot(MeanFrac(SubSeq([i \in DOMAIN q |->
         (q[i] -- MeanFrac(q)) ** (q[i] -- MeanFrac(q))], 1, Len(q))))

OfLimit(v, limit) == IF limit = Zero THEN Zero ELSE v // AbsFrac(limit)

PreFailureMetrics(now, o) ==
  [rolling_variance_latency |-> now.intervalStd,
   feature_distribution_kl_divergence |-> now.kl,
   q_value_adjustment_frequency |-> MeanFrac(o.adjustments),
   execution_drift_trend |-> MeanFrac(o.execDrift),
   latency_risk_trend |-> Whole(now.staleness),
   self_impact_ratio |-> o.impact, liquidity_evolvement |-> MeanFrac(o.liquidity),
   policy_entropy |-> o.entropy, regime_posterior_entropy |-> now.entropy,
   hidden_liquidity_sigma |-> MaxFrac(now.hiddenSigma, SpreadOf(o.execDrift)),
   position_constraint_saturation_rate |-> OfLimit(AbsFrac(now.position), now.positionLimit),
   last_look_rejection_rate |-> now.rejectionRate,
   dynamic_cost_estimate_error |-> MeanFrac(o.costErrors),
   lp_adversarial_score |-> now.adversarial,
   daily_pnl_vs_limit |-> OfLimit(now.daily, now.dailyLimit),
   weekly_pnl_vs_limit |-> OfLimit(now.weekly, now.weeklyLimit),
   monthly_pnl_vs_limit |-> OfLimit(now.monthly, now.monthlyLimit),
   lp_recalibration_progress |-> now.recalibration,
   bayesian_posterior_drift |-> o.drift]

-----------------------------------------------------------------------------
(* The events of a decision and of a snapshot.  position is none, or the set  *)
(* of a position; q is what the decision sampled for each action.             *)

Signed(direction, lots) ==
  CASE direction = {"Buy"} -> lots [] direction = {"Sell"} -> -lots [] OTHER -> 0

\* What both copies put into the context: the decision, and the position as it will be if the
\* order is filled whole.
CommonContext(d, position, snapshot) ==
  LET Of(field, none) == IF position = {} THEN none ELSE (CHOOSE p \in position : TRUE)[field]
      size == Of("size", 0)
  IN [features |-> d.features, selected |-> d.sampled, mean |-> d.point, std |-> d.std,
      entry |-> Of("entry", Zero), pnl |-> Of("pnl", Zero), held |-> Of("held", 0),
      before |-> size, after |-> size + Signed(d.direction, d.lots),
      staleness |-> snapshot.staleness, multiplier |-> snapshot.multiplier,
      daily |-> snapshot.dailyRealized, limit |-> snapshot.positionLimit, velocity |-> d.lots]

\* BacktestEngine: only the action chosen has a value, and the regime is told.
DecisionContext(d, position, snapshot) ==
  LET chosen == ActionOf(d.direction)
  IN [common |-> CommonContext(d, position, snapshot),
      q |-> [a \in QActions |-> IF a = chosen THEN d.sampled ELSE Zero],
      final |-> <<d.sampled>>, sigmas |-> <<d.std>>, k |-> Zero,
      regime |-> {snapshot.regime}]

\* ForwardTestRunner: every action has the value sampled for it, and the uncertainty its
\* parts; the regime is left empty.  k is what compute_dynamic_k is asked, whose answer
\* DecisionPolicy has.
DecisionContextForward(d, position, snapshot) ==
  LET stability == MaxFrac(One -- MinFrac(d.volRatio, One), Zero)
      execution == AbsFrac(d.slippage)
  IN [common |-> CommonContext(d, position, snapshot),
      q |-> d.q, final |-> <<d.q["Buy"], d.q["Sell"], d.q["Hold"]>>,
      sigmas |-> <<d.std, execution, d.latency,
                   SquareRoot((execution ** execution) ++ (d.latency ** d.latency))>>,
      k |-> [base |-> One, volatility |-> d.volatility, stability |-> stability],
      regime |-> {}]

\* emit_decision_event and emit_trade_skip_event: the event takes the next number of its stream.
EmitDecision(sequencer, d, reason, context) ==
  [sequencer |-> Numbered(sequencer, "strategy"),
   event |-> [header |-> DecisionEvent(sequencer, d.strategy, ActionOf(d.direction), d.lots, reason),
              context |-> context]]

EmitSkip(sequencer, strategy, reason) ==
  [sequencer |-> Numbered(sequencer, "strategy"), event |-> SkipEvent(sequencer, strategy, reason)]

\* The reason a forward decision gives: that it holds, or none
HoldReason(d) == IF d.direction = {} THEN {"hold"} ELSE {}

\* maybe_emit_snapshot_event
MaybeSnapshot(sequencer, version, force) ==
  IF ~force /\ version % SnapshotInterval # 0 THEN [sequencer |-> sequencer, events |-> {}]
  ELSE [sequencer |-> Numbered(sequencer, "state"),
        events |-> {[stream |-> "state", seq |-> NextNumber(sequencer, "state"), version |-> version]}]

\* build_runtime_execution_event: the header of the gateway's event is replaced.
Renumbered(sequencer, event) ==
  [sequencer |-> Numbered(sequencer, "execution"),
   event |-> [event EXCEPT !.seq = NextNumber(sequencer, "execution"), !.stream = "execution"]]

-----------------------------------------------------------------------------
(* The ticks of a backtest, as observed                                       *)

VARIABLES
  observability, \* RuntimeObservabilityState
  seen,          \* posterior_snapshots: of each strategy, its last weights
  manager,       \* ObservabilityManager
  observed       \* history: the decisions and the metrics of each tick

telemetryVars == <<observability, seen, manager, observed>>

TelemetryInit ==
  /\ observability = NewObservability
  /\ seen = [s \in {"A", "B", "C"} |-> {}]
  /\ manager = NewManager
  /\ observed = <<>>

\* update_runtime_observability, collect_pre_failure_metrics and the tick of the manager
TickObserved(decisions, now) ==
  /\ Len(observed) < ObservedTicks
  /\ \E u \in {UpdateObservability(observability, seen, decisions)} :
       /\ observability' = u.state /\ seen' = u.seen
       /\ \E metrics \in {PreFailureMetrics(now, u.state)} :
            /\ manager' = TickMetrics(manager, metrics)
            /\ observed' = Append(observed, [decisions |-> decisions, metrics |-> metrics])

\* At most one fill a tick, as a bound
FillObserved(drift, slippage, estimated) ==
  /\ Len(observability.execDrift) < Len(observed)
  /\ observability' = RecordExecutionFill(observability, drift, slippage, estimated)
  /\ UNCHANGED <<seen, manager, observed>>

TelemetryNext ==
  \/ \E decisions \in ObservedDecisions, now \in Situations : TickObserved(decisions, now)
  \/ \E estimated \in {{}, {Frac(1, 2)}} : FillObserved(Frac(1, 2), Frac(1, 4), estimated)

-----------------------------------------------------------------------------
(* Properties *)

\* Every decision so far, the oldest first
AllObserved == FoldLeft(LAMBDA q, t : q \o t.decisions, <<>>, observed)

\* An alert is what the ticks earned: on the last tick a metric alerts exactly when it has been
\* at its warning level or beyond for as many ticks on end as the debounce asks, that tick
\* among them, and the totals count every such tick.  And the frequency of adjustments is that
\* of the decisions that moved away from the previous one of the same strategy, however many
\* ticks before.
AlertsEarned ==
  LET n == Len(observed)
      Beyond(i, t) == t.warning \preceq AbsFrac(observed[i].metrics[t.metric])
      Due(i, t) == i >= DebounceTicks /\ \A j \in i - DebounceTicks + 1 .. i : Beyond(j, t)
      all == AllObserved
      Moved(i) == \E j \in 1 .. i - 1 :
                    /\ all[j].strategy = all[i].strategy
                    /\ \A k \in j + 1 .. i - 1 : all[k].strategy # all[i].strategy
                    /\ Adjusted(all[j].scores, all[i].scores)
      from == IF Len(all) > ObsWindow THEN Len(all) - ObsWindow + 1 ELSE 1
  IN /\ n > 0 => {a.metric : a \in ToSet(manager.alerts)}
                   = {t.metric : t \in {u \in ToSet(Thresholds) : Due(n, u)}}
     /\ manager.criticals + manager.warnings
          = Cardinality({p \in (1 .. n) \X ToSet(Thresholds) : Due(p[1], p[2])})
     /\ all # <<>> => MeanFrac(observability.adjustments)
                        = Frac(Cardinality({i \in from .. Len(all) : Moved(i)}), Len(all) - from + 1)
=============================================================================
