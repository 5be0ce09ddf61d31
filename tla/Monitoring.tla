----------------------------- MODULE Monitoring -----------------------------
(***************************************************************************)
(* What watches a run: AlertEvaluator and AlertSystem (forward/alert.rs),   *)
(* PerformanceTracker (forward/tracker.rs), ObservabilityManager with its   *)
(* AnomalyDetector (core/observability.rs), and the comparison of a forward *)
(* test with a backtest (forward/comparison.rs, forward/report.rs).  Values *)
(* are fractions; messages and log lines are left out.                      *)
(***************************************************************************)
EXTENDS BacktestData

CONSTANTS AlertInterval,                                  \* debounce_interval
          RiskThreshold, DriftThreshold, SharpeThreshold, \* thresholds of AlertEvaluator
          TrackerWindow,                                  \* rolling_window
          Thresholds,      \* AnomalyConfig.thresholds: metric, warning and critical, in order
          DebounceTicks, StatsWindow,
          Amounts,         \* the profits a trade may have, and the values of open positions
          DayLosses,       \* the losses of a day, of a limit of one
          Marks, Evaluations, Times   \* bounds: fills and reports, evaluations and their clock

\* Durations are numbers, and the other values are fractions.
ASSUME AlertingAssumption ==
  /\ AlertInterval \in Nat /\ Times \in Nat
  /\ IsFrac(RiskThreshold) /\ \A loss \in DayLosses : IsFrac(loss)

AlertKinds == {"RiskLimit", "ExecutionDrift", "KillSwitch", "SharpeDegradation", "StrategyCulled",
               "FeedAnomaly"}

-----------------------------------------------------------------------------
(* AlertEvaluator: debounce is the time of the last alert of each kind *)

NewEvaluator == [k \in AlertKinds |-> {}]

\* saturating_sub: a time before the last alert is within the interval.
Debounced(evaluator, kind, time) ==
  \E last \in evaluator[kind] : time - last < AlertInterval

\* Fault: an alert that is suppressed starts the interval again.
RaiseExtending(evaluator, kind, severity, time) ==
  [evaluator |-> [evaluator EXCEPT ![kind] = {time}],
   alert |-> IF Debounced(evaluator, kind, time) THEN {}
             ELSE {[kind |-> kind, severity |-> severity, time |-> time]}]

\* Raise an alert unless it is debounced; only one that is raised moves the time.
Raise(evaluator, kind, severity, time) ==
  IF Debounced(evaluator, kind, time) THEN [evaluator |-> evaluator, alert |-> {}]
  ELSE [evaluator |-> [evaluator EXCEPT ![kind] = {time}],
        alert |-> {[kind |-> kind, severity |-> severity, time |-> time]}]

Quiet(evaluator) == [evaluator |-> evaluator, alert |-> {}]

EvaluateRiskLimit(evaluator, loss, maxLoss, time) ==
  LET ratio == AbsFrac(loss) // maxLoss
  IN IF maxLoss \preceq Zero THEN Quiet(evaluator)
     ELSE IF ratio \prec RiskThreshold THEN Quiet(evaluator)
     ELSE Raise(evaluator, "RiskLimit", IF One \preceq ratio THEN "Critical" ELSE "Warning", time)

EvaluateDrift(evaluator, mean, std, time) ==
  LET z == IF std = Zero THEN Zero ELSE AbsFrac(mean) // std
  IN IF z \prec DriftThreshold THEN Quiet(evaluator)
     ELSE Raise(evaluator, "ExecutionDrift", "Warning", time)

EvaluateSharpe(evaluator, current, baseline, time) ==
  IF baseline \preceq Zero THEN Quiet(evaluator)
  ELSE IF ((baseline -- current) // baseline) \prec SharpeThreshold THEN Quiet(evaluator)
  ELSE Raise(evaluator, "SharpeDegradation", "Warning", time)

KillSwitchAlert(evaluator, time) == Raise(evaluator, "KillSwitch", "Critical", time)
CulledAlert(evaluator, time)     == Raise(evaluator, "StrategyCulled", "Warning", time)
FeedAlert(evaluator, time)       == Raise(evaluator, "FeedAnomaly", "Warning", time)

\* AlertSystem::send: a channel that fails does not keep the others from it.
SentTo(channels, failing) == channels \ failing

-----------------------------------------------------------------------------
(* PerformanceTracker *)

NewTracker == [realized |-> Zero, unrealized |-> Zero, peak |-> Zero, maxDrawdown |-> Zero,
               curve |-> <<>>, pnls |-> <<>>, drifts |-> <<>>, trades |-> 0, wins |-> 0,
               sharpe |-> Zero, driftMean |-> Zero, driftStd |-> Zero]

Kept(q, v) == LET all == Append(q, v) IN IF Len(all) > TrackerWindow THEN Tail(all) ELSE all

SampleVariance(q) ==
  LET mean == MeanFrac(q)
  IN IF Len(q) < 2 THEN Zero
     ELSE SumFrac(SubSeq([i \in 1 .. Len(q) |-> (q[i] -- mean) ** (q[i] -- mean)], 1, Len(q)))
            // Whole(Len(q) - 1)

\* compute_rolling_sharpe: of the trades kept, not of the equity; the factor is left out.
Sharpe(t) ==
  LET std == SquareRoot(SampleVariance(t.pnls))
  IN IF Len(t.pnls) < 2 THEN t.sharpe ELSE IF std = Zero THEN Zero ELSE MeanFrac(t.pnls) // std

\* Fault: the peak is the largest equity that is still in the window.
UpdateTrackerWindowed(t, realized, unrealized) ==
  LET equity == realized ++ unrealized
      curve == Kept(t.curve, equity)
      peak == FoldLeft(LAMBDA a, e : MaxFrac(a, e), Zero, curve)
  IN [t EXCEPT !.realized = realized, !.unrealized = unrealized, !.curve = curve,
               !.peak = peak, !.maxDrawdown = MaxFrac(@, peak -- equity), !.sharpe = Sharpe(t)]

UpdateTracker(t, realized, unrealized) ==
  LET equity == realized ++ unrealized
      peak == MaxFrac(t.peak, equity)
  IN [t EXCEPT !.realized = realized, !.unrealized = unrealized, !.curve = Kept(@, equity),
               !.peak = peak, !.maxDrawdown = MaxFrac(@, peak -- equity), !.sharpe = Sharpe(t)]

RecordTrade(t, pnl) ==
  LET after == [t EXCEPT !.trades = @ + 1, !.wins = @ + (IF Zero \prec pnl THEN 1 ELSE 0),
                         !.pnls = Kept(@, pnl)]
  IN [after EXCEPT !.sharpe = Sharpe(after)]

WinRate(t) == IF t.trades = 0 THEN Zero ELSE Frac(t.wins, t.trades)

RecordDrift(t, drift) ==
  LET drifts == Kept(t.drifts, drift)
  IN [t EXCEPT !.drifts = drifts, !.driftMean = MeanFrac(drifts),
               !.driftStd = SquareRoot(SampleVariance(drifts))]

-----------------------------------------------------------------------------
(* AnomalyDetector and ObservabilityManager *)

MetricNames == {Thresholds[i].metric : i \in DOMAIN Thresholds}

NewManager ==
  [consecutive |-> [m \in MetricNames |-> 0], rolling |-> [m \in MetricNames |-> <<>>],
   alerts |-> <<>>, ticks |-> 0, criticals |-> 0, warnings |-> 0]

\* The sign does not count: a gain as large as a limit is an anomaly too.
LevelOf(threshold, value) ==
  IF threshold.critical \preceq AbsFrac(value) THEN {"Critical"}
  ELSE IF threshold.warning \preceq AbsFrac(value) THEN {"Warning"} ELSE {}

RollStats(q, v) == Append(IF Len(q) >= StatsWindow THEN Tail(q) ELSE q, v)

\* Fault: an alert starts the count again.
EvaluateOneRestarting(m, threshold, metrics) ==
  LET name == threshold.metric
      level == LevelOf(threshold, metrics[name])
      count == m.consecutive[name] + 1
      fires == level # {} /\ count >= DebounceTicks
  IN IF name \notin DOMAIN metrics THEN m
     ELSE [m EXCEPT
            !.rolling[name] = RollStats(@, AbsFrac(metrics[name])),
            !.consecutive[name] = IF level = {} \/ fires THEN 0 ELSE count,
            !.alerts = @ \o (IF fires
                             THEN <<[metric |-> name, severity |-> CHOOSE l \in level : TRUE]>>
                             ELSE <<>>)]

\* One threshold of the list; a metric the snapshot does not have is passed over.
EvaluateOne(m, threshold, metrics) ==
  LET name == threshold.metric
      level == LevelOf(threshold, metrics[name])
      count == m.consecutive[name] + 1
  IN IF name \notin DOMAIN metrics THEN m
     ELSE [m EXCEPT
            !.rolling[name] = RollStats(@, AbsFrac(metrics[name])),
            !.consecutive[name] = IF level = {} THEN 0 ELSE count,
            !.alerts = @ \o (IF level # {} /\ count >= DebounceTicks
                             THEN <<[metric |-> name, severity |-> CHOOSE l \in level : TRUE]>>
                             ELSE <<>>)]

OfSeverity(alerts, severity) == Len(SelectSeq(alerts, LAMBDA a : a.severity = severity))

\* ObservabilityManager::tick
TickMetrics(m, metrics) ==
  LET after == FoldLeft(LAMBDA acc, threshold : EvaluateOne(acc, threshold, metrics),
                        [m EXCEPT !.alerts = <<>>], Thresholds)
  IN [after EXCEPT !.ticks = @ + 1,
                   !.criticals = @ + OfSeverity(after.alerts, "Critical"),
                   !.warnings = @ + OfSeverity(after.alerts, "Warning")]

-----------------------------------------------------------------------------
(* ComparisonEngine: a difference is none, the set of a fraction, or not comparable *)

Incomparable == {}

RelativeDiff(a, b) ==
  IF a = Zero /\ b = Zero THEN {Zero}
  ELSE IF a = Zero THEN Incomparable ELSE {AbsFrac(b -- a) // AbsFrac(a)}

Relative == {"pnl", "drawdown"}

Difference(metric, backtest, forward) ==
  IF metric \in Relative THEN RelativeDiff(backtest[metric], forward[metric])
  ELSE {AbsFrac(forward[metric] -- backtest[metric])}

\* An infinite difference passes no threshold.
Passes(metric, backtest, forward, limits) ==
  \E d \in Difference(metric, backtest, forward) : d \preceq limits[metric]

OverallPass(backtest, forward, limits) ==
  \A metric \in DOMAIN limits : Passes(metric, backtest, forward, limits)

\* What the parts of the decomposition add up to is the difference, by the residual.
Decomposition(backtest, forward, trades) ==
  LET total == forward["pnl"] -- backtest["pnl"]
      execution == (CHOOSE d \in Difference("slippage", backtest, forward) : TRUE) ** Whole(trades)
      latency == (CHOOSE d \in Difference("pnl", backtest, forward) : TRUE)
                   ** (backtest["pnl"] ** Frac(1, 10))
      impact == (CHOOSE d \in Difference("fill_rate", backtest, forward) : TRUE)
                  ** (AbsFrac(total) ** Frac(1, 20))
  IN [execution |-> execution, latency |-> latency, impact |-> impact,
      residual |-> ((total -- execution) -- latency) -- impact]

\* ReportGenerator::generate: the files of a format, up to the write that fails
FilesOf(format, failing) ==
  LET order == CASE format = "Json" -> <<"session_report.json">>
                 [] format = "Csv" -> <<"performance_summary.csv">>
                 [] format = "Both" -> <<"session_report.json", "performance_summary.csv">>
      bad == {i \in DOMAIN order : order[i] \in failing}
  IN {order[i] : i \in {j \in DOMAIN order : \A b \in bad : j < b}}

-----------------------------------------------------------------------------
(* A session seen by the tracker: it is told of every fill, and of the       *)
(* equity once at the end of a tick, or not at all when the tick is skipped. *)

VARIABLES
  trades,     \* the fills so far
  marks,      \* history: the equity at each report, the fills before it, the open profit in it
  tracker

trackingVars == <<trades, marks, tracker>>

TrackingInit == trades = <<>> /\ marks = <<>> /\ tracker = NewTracker

\* A fill that closes no position has no profit.
TradeFills(strategy, pnl, closes) ==
  /\ Len(trades) + Len(marks) < Marks
  /\ closes \/ pnl = Zero
  /\ trades' = Append(trades, [time |-> Len(marks) + 1, strategy |-> strategy, pnl |-> pnl,
                              closes |-> closes])
  /\ tracker' = RecordTrade(tracker, pnl)
  /\ UNCHANGED marks

TickReported(open) ==
  /\ Len(trades) + Len(marks) < Marks
  /\ marks' = Append(marks, [equity |-> SumFrac(Profits(trades)) ++ open, trades |-> Len(trades),
                            open |-> open])
  /\ tracker' = UpdateTracker(tracker, SumFrac(Profits(trades)), open)
  /\ UNCHANGED trades

TrackingNext ==
  \E pnl \in Amounts \cup {Zero} :
    \/ \E strategy \in {"A", "B"}, closes \in BOOLEAN : TradeFills(strategy, pnl, closes)
    \/ TickReported(pnl)

(* The loss of the day, evaluated from time to time *)

VARIABLES
  evaluator,
  evaluations \* history: the loss, the time, and the alert, if one was raised

alertingVars == <<evaluator, evaluations>>

AlertingInit == evaluator = NewEvaluator /\ evaluations = <<>>

LossEvaluated(loss, time) ==
  /\ Len(evaluations) < Evaluations
  /\ \A i \in DOMAIN evaluations : evaluations[i].time <= time
  /\ \E r \in {EvaluateRiskLimit(evaluator, loss, One, time)} :
       /\ evaluator' = r.evaluator
       /\ evaluations' = Append(evaluations, [loss |-> loss, time |-> time, alert |-> r.alert])

AlertingNext == \E loss \in DayLosses, time \in 1 .. Times : LossEvaluated(loss, time)

-----------------------------------------------------------------------------
(* Properties *)

\* The deepest fall from an equity, or from the zero before them all, to a later one
DeepestFall(equities) ==
  LET from == <<Zero>> \o equities
      Later == {from[p[1]] -- from[p[2]] :
                  p \in {q \in (DOMAIN from) \X (DOMAIN from) : q[1] <= q[2]}}
  IN CHOOSE d \in Later : \A e \in Later : e \preceq d

EquitiesOf(q) == SubSeq([i \in DOMAIN q |-> q[i].equity], 1, Len(q))

\* Every fill had a report of its own, with no position open.
ReportedAlone ==
  \A k \in DOMAIN trades : \E i \in DOMAIN marks : marks[i].trades = k /\ marks[i].open = Zero

\* The two drawdowns that are compared with each other are each what they are said to be: that
\* of the tracker is the deepest fall of the equity it was told of, however small its window,
\* and that of the summary the deepest fall over the fills, found in its equity curve too.
\* Fills between two reports may fall deeper than the tracker was told; when each had a report
\* of its own, the summary's is never the deeper one.  The parts of the breakdown add up.
DrawdownsAgree ==
  LET s == Summary(trades)
      parts == Breakdown(trades)
      curve == EquityCurve(trades)
  IN /\ tracker.maxDrawdown = DeepestFall(EquitiesOf(marks))
     /\ s.maxDrawdown = DeepestFall(EquitiesOf(curve))
     /\ ReportedAlone => s.maxDrawdown \preceq tracker.maxDrawdown
     /\ \A i \in DOMAIN curve : curve[i].drawdown \preceq s.maxDrawdown
     /\ curve # <<>> => Last(curve).equity = s.pnl
     /\ s.pnl = SumFrac([i \in 1 .. 2 |-> LET of == <<"A", "B">>[i] IN
                          IF of \in DOMAIN parts THEN parts[of].pnl ELSE Zero])
     /\ tracker.trades = s.trades /\ WinRate(tracker) = s.winRate

\* A loss beyond the threshold that goes on is reported again and again: whenever it is
\* evaluated, an alert of its kind is raised or has been within the interval; and no two
\* alerts are raised within one interval.
PersistingReported ==
  \A i \in DOMAIN evaluations :
    LET Raised(j) == evaluations[j].alert # {}
        Recent(j) == evaluations[i].time - evaluations[j].time < AlertInterval
    IN /\ RiskThreshold \preceq AbsFrac(evaluations[i].loss)
            => \E j \in 1 .. i : Raised(j) /\ Recent(j)
       /\ Raised(i) => \A j \in 1 .. i - 1 : Raised(j) => ~Recent(j)
=============================================================================
