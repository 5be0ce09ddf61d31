----------------------------- MODULE MCServices -----------------------------
(***************************************************************************)
(* Small inputs for the parts of Services.  The functions of the real       *)
(* numbers stand for those of the code and keep what is used of them: a     *)
(* root and an entropy of no spread are none.  Below are facts of the        *)
(* functions that no state machine of Services runs through.                *)
(***************************************************************************)
EXTENDS Services

McHalf  == Frac(1, 2)
McTenth == Frac(1, 10)
McTwo   == Whole(2)
\* A square root, to the next half: small fractions stay small.
McRoot(a) == IF a \preceq Zero THEN Zero ELSE Frac(1 + (2 * a[1]) \div a[2], 2)

\* The files of a feed, with stamps of several forms and rows that are no ticks
McStamp(kind, t) == [kind |-> kind, value |-> t, offset |-> 2]
McRows ==
  {<<McStamp("eet", t), 1, 2, "x">> : t \in 5 .. 7}
    \cup {<<McStamp(kind, 6), 1, 2, "x">> : kind \in {"gmt", "digits", "other"}}
    \cup {<<McStamp("digits", 6), 2, 2, "x">>, <<McStamp("digits", 7), EmptyCell, 2, "x">>,
          <<McStamp("digits", 7), 1>>}
McFiles ==
  {[headers |-> <<"time_(eet)", "bid", "ask", "symbol">>, rows |-> r] : r \in SeqOf(McRows, 3)}
\* The second period begins after the first tick a file may have.
McPeriods == {[start |-> 1, end |-> 2], [start |-> 4, end |-> 9]}

\* The tracker and the alerts
McAmounts == {Whole(1), Whole(-1), Whole(2)}
McLosses  == {Frac(-1, 4), Frac(-1, 2), Whole(-1)}

\* The metrics: an adjustment rate, a share of a limit and a cost error are watched.
McThreshold(metric, warning, critical) ==
  [metric |-> metric, warning |-> warning, critical |-> critical]
McThresholds ==
  <<McThreshold("q_value_adjustment_frequency", McHalf, Frac(3, 4)),
    McThreshold("daily_pnl_vs_limit", Frac(3, 5), Frac(4, 5)),
    McThreshold("dynamic_cost_estimate_error", Frac(1, 4), One)>>
McSoft(scores) == AbsFrac(scores["Buy"])
McDistance(a, b) == AbsFrac(a -- b)
McDecision(s, n) ==
  [strategy |-> s, scores |-> [Buy |-> Whole(n), Sell |-> Whole(1), Hold |-> Zero],
   weights |-> <<Whole(n), Zero, Zero>>, impact |-> McHalf, depthChange |-> Zero]
McDecisions ==
  {<<>>} \cup {<<McDecision("A", n)>> : n \in {1, 2}}
    \cup {<<McDecision("A", 1), McDecision("B", 2)>>}
McSituation(daily) ==
  [intervalStd |-> Zero, kl |-> Zero, staleness |-> 0, entropy |-> Zero, hiddenSigma |-> Zero,
   position |-> Zero, positionLimit |-> One, rejectionRate |-> Zero, adversarial |-> Zero,
   daily |-> daily, dailyLimit |-> One, weekly |-> Zero, weeklyLimit |-> One,
   monthly |-> Zero, monthlyLimit |-> Zero, recalibration |-> Zero]
McSituations == {McSituation(Zero), McSituation(Frac(-7, 10))}

\* The features: a quote moves by a unit, the hours follow the time.
McHours      == <<8, 16, 20, 22>>
McHoursOf(t) == (7 + t) % 24
McReturn(a, b) == (b -- a) // a
McExpOf(t)     == Frac(1, 1 + t)
McPLogP(p)     == p ** (One -- p)
McExpScore(s)  == One // (One -- s)
McFound == {{}, {[dim |-> 38, regimes |-> 2]}, {[dim |-> 6, regimes |-> 2]}}
McQuote(bid, bidSize, askSize) ==
  [time |-> 0, bid |-> Whole(bid), ask |-> Whole(4), bidSize |-> Whole(bidSize),
   askSize |-> Whole(askSize)]
McQuotes  == {McQuote(2, 1, 1), McQuote(3, 1, 3)}
McFills   == {[time |-> 0, filled |-> f, slippage |-> McHalf, drift |-> Zero, size |-> One] :
                f \in BOOLEAN}
McAnswers == {{}, {<<McHalf, Frac(1, 4)>>}}

\* The models of the market: an order refused, one of a limit, one at the market
McDecay(distance) == IF distance = Zero THEN One ELSE McHalf
McOrder(direction, size, profit, urgent) ==
  [direction |-> direction, size |-> size, vol |-> McTenth, mid |-> One, profit |-> profit,
   urgent |-> urgent]
McOrders ==
  {McOrder("Buy", Zero, One, FALSE), McOrder("Buy", One, One, FALSE),
   McOrder("Sell", One, Zero, TRUE)}
McSlippages   == {McTenth, One, Whole(-1)}
McHiddenDraws == {Zero, McTenth}

\* Tier 1: two events of one number, from two runs, and one of another
McEvent(id, seq) == [id |-> id, stream |-> "state", seq |-> seq]
McTier1Events == {McEvent(1, 1), McEvent(2, 1), McEvent(3, 2)}

\* The commands: with and without a snapshot to start from, a range refused, three sources
McConfig(learning) ==
  [strategies |-> {"A", "B", "C"}, start |-> 0, end |-> 9, learning |-> learning, seed |-> 42]
McBacktest(learning, import, export, dump, start) ==
  [command |-> "backtest", config |-> McConfig(learning),
   args |-> [import |-> import, dump |-> dump, export |-> export, strategies |-> {<<"a", "B">>},
             start |-> start, end |-> {[kind |-> "digits", value |-> 5]},
             noLearn |-> dump, seed |-> {}]]
McForward(source) ==
  [command |-> "forward-test", config |-> [source |-> [kind |-> "Recorded", path |-> "events"]],
   args |-> [source |-> source, dataPath |-> {}, provider |-> {"p"}, credentials |-> {"key"}]]
McRequests ==
  {McBacktest(TRUE, import, "json", FALSE, {}) : import \in BOOLEAN}
    \cup {McBacktest(TRUE, FALSE, "txt", TRUE, {}),
          McBacktest(FALSE, FALSE, "json", FALSE, {[kind |-> "rfc3339", value |-> 7]}),
          [command |-> "validate", config |-> McConfig(TRUE), args |-> [export |-> ""]]}
    \cup {McForward(source) : source \in {{}, {"recorded"}, {"external"}}}

-----------------------------------------------------------------------------
(* Facts of the functions, over all small inputs; TLC evaluates them before the run. *)

\* Sequences of at most n elements of S
UpTo(S, n) == UNION {[1 .. k -> S] : k \in 0 .. n}

-----------------------------------------------------------------------------
(* The staleness barrier *)

Ages == 0 .. StalenessLimit + 1
Refused(age) == ValidateOrder(age) # {}

\* Staler data never trades more: the lot does not grow with the age, an age refused stays
\* refused, and what is allowed is between the least and the largest lot (barrier.rs).
ASSUME BarrierTightens ==
  /\ \A a, b \in Ages : a <= b =>
       /\ EvaluateBarrier(b).lot <= EvaluateBarrier(a).lot
       /\ Refused(a) => Refused(b)
  /\ \A a \in Ages : ~Refused(a) => EvaluateBarrier(a).lot \in BarrierMinLot .. BarrierMaxLot

-----------------------------------------------------------------------------
(* Results of orders *)

OrderRequest(direction) == [direction |-> direction, size |-> One, mid |-> Whole(2)]
Chosen == [type |-> "Limit", distance |-> Frac(1, 4), lp |-> CHOOSE lp \in Providers : TRUE]

Results ==
  {<<request, Outcome(Chosen, request, filled, looked, slippage)>> :
     request \in {OrderRequest(d) : d \in {"Buy", "Sell"}},
     filled \in BOOLEAN, looked \in BOOLEAN, slippage \in Slippages}

\* The event and the paper result of an order say the same: a size has the sign of its side, a
\* slippage that costs moves the price against it, and what was rejected has neither a price
\* nor a size (gateway.rs build_execution_event, paper.rs to_paper_result).
ASSUME ResultsAgree ==
  \A r \in Results :
    LET event == ExecutionEvent(r[1], r[2])
        paper == PaperResult(r[1], r[2])
        sign  == IF r[1].direction = "Buy" THEN One ELSE Whole(-1)
    IN /\ event.size = sign ** paper.lots /\ event.drift = sign ** event.slippage
       /\ paper.rejected <=> event.status = "Rejected"
       /\ paper.rejected => event.size = Zero /\ paper.price = {} /\ event.reason # {}
       /\ ~paper.rejected => paper.price = {event.price} /\ event.reason = {}

\* The share of rejections and the score of an LP are between none and all (gateway.rs
\* aggregate_rejection_rate, active_lp_adversarial_score).
ASSUME RatesAreShares ==
  /\ \A counts \in UpTo({[requests |-> r, rejections |-> j] : r \in 0 .. 2, j \in 0 .. 2}, 2) :
       (\A i \in DOMAIN counts : counts[i].rejections <= counts[i].requests)
         => RejectionRate(counts) \preceq One
  /\ \A flag \in BOOLEAN, a \in {Zero, Frac(1, 2), One}, b \in {Zero, Frac(1, 2), One} :
       LET score == AdversarialScore(flag, a, b)
       IN Zero \preceq score /\ score \preceq One /\ (flag => score = One)

-----------------------------------------------------------------------------
(* Schemas and numbers of events *)

Schemas   == SUBSET {[type |-> "x", version |-> v] : v \in 0 .. 3}
Upcasters == SUBSET {[type |-> "x", from |-> v, to |-> v + 1] : v \in 0 .. 2}

\* What is upcast stays where it is when it is upcast again, and every version on the way
\* leads to the same one (schema.rs upcast_to_latest).
ASSUME UpcastSettles ==
  \A schemas \in Schemas, upcasters \in Upcasters, from \in 0 .. 3 :
    \A to \in UpcastToLatest(schemas, upcasters, "x", from) :
      /\ from <= to
      /\ \A between \in from .. to : UpcastToLatest(schemas, upcasters, "x", between) = {to}

Registrations == [type : {"x", "y"}, version : 0 .. 2]

\* Registering never takes the latest version of a type back.
ASSUME LatestGrows ==
  \A schemas \in Schemas, s \in Registrations :
    \A v \in LatestVersion(schemas, "x") :
      \E w \in LatestVersion(Registered(schemas, s), "x") : v <= w

\* What a runner emits, one after the other, each with the number it takes
Emit(acc, what) ==
  LET decision == [strategy |-> "A", direction |-> {"Buy"}, lots |-> 1]
      done == CASE what = "decision" -> EmitDecision(acc.sequencer, decision, {}, <<>>)
                [] what = "skip" -> EmitSkip(acc.sequencer, "A", "unknown_regime")
                [] what = "execution" -> Renumbered(acc.sequencer, [seq |-> 0, stream |-> "strategy"])
      taken == IF what = "decision" THEN done.event.header ELSE done.event
      snapshot == MaybeSnapshot(acc.sequencer, Len(acc.numbers), what = "forced")
  IN IF what \in {"forced", "due"}
       THEN [sequencer |-> snapshot.sequencer,
             numbers |-> acc.numbers \o SetToSeq({[stream |-> e.stream, seq |-> e.seq] :
                                                    e \in snapshot.events})]
       ELSE [sequencer |-> done.sequencer,
             numbers |-> Append(acc.numbers, [stream |-> taken.stream, seq |-> taken.seq])]

\* The events of every stream are numbered from one on without a gap, whatever is emitted on
\* the others in between (runtime.rs next_header, runner.rs and engine.rs emit functions).
ASSUME NumbersWithoutGaps ==
  \A emitted \in UpTo({"decision", "skip", "execution", "forced", "due"}, 4) :
    LET numbers == FoldLeft(Emit, [sequencer |-> NewSequencer, numbers |-> <<>>], emitted).numbers
    IN \A s \in StreamIds :
         LET mine == SelectSeq(numbers, LAMBDA e : e.stream = s)
         IN \A i \in DOMAIN mine : mine[i].seq = i

\* Tier 3 under any four calls, at the times 0, 2, 4 and 6 with a ttl below two
Tier3Calls == [call : {"store", "remove", "archive"}, event : 1 .. 2]

Tier3Event(n) == [id |-> n, stream |-> "state", seq |-> 3 - n]

Tier3Step(acc, c) ==
  LET e == Tier3Event(c.event)
  IN [now |-> acc.now + 2,
      store |-> CASE c.call = "store" -> StoreTier3(acc.store, e, acc.now)
                  [] c.call = "remove" -> RemoveTier3(acc.store, e.id)
                  [] c.call = "archive" -> ArchiveExpired(acc.store, acc.now, TRUE),
      kept |-> CASE c.call = "store" -> acc.kept \cup {e}
                 [] c.call = "remove" -> acc.kept \ {e}
                 [] c.call = "archive" -> acc.kept]

\* While the cold storage can be written, an event that was stored and not removed is in memory
\* or in a file, and a replay gives those not yet stale, by their numbers (tier3.rs).
ASSUME Tier3Keeps ==
  \A calls4 \in UpTo(Tier3Calls, 4) :
    LET end == FoldLeft(Tier3Step, [now |-> 0, store |-> NewTier3, kept |-> {}], calls4)
        replay == ReplayTier3(end.store, "state", 0, end.now)
    IN /\ end.kept \subseteq {x.event : x \in end.store.events} \cup end.store.cold
       /\ \A i, j \in DOMAIN replay : i < j => replay[i].seq <= replay[j].seq
       /\ ToSet(replay) = {x.event : x \in {y \in end.store.events : ~Stale(y, end.now)}}

\* Every id a decision is stored with is read back (runtime.rs parse_strategy_id).
ASSUME StrategyIdsRead ==
  \A s \in {"A", "B", "C"} : \A prefix \in {"", "STRATEGY_", "Strategy"} :
    ParseStrategyId(prefix \o s) = {s}

-----------------------------------------------------------------------------
(* The configuration file *)

Default ==
  [kill_switch |-> [enabled |-> TRUE, z_score_threshold |-> 3, min_samples |-> 5],
   strategy_max_positions |-> [s \in {"A", "B", "C"} |-> 10]]

Entry(type, value) == [type |-> type, value |-> value]
KillSwitchTables ==
  {[z_score_threshold |-> z, min_samples |-> n, bogus |-> Entry("float", 1)] :
     z \in {Entry("float", 2), Entry("integer", 2)},
     n \in {Entry("integer", 7), Entry("integer", -1), Entry("float", 7)}}
ConfigFiles ==
  {<<>>} \cup {[kill_switch |-> t] : t \in KillSwitchTables}
    \cup {[strategy_max_positions |-> [A |-> a]] : a \in {Entry("float", 1), Entry("integer", 1)}}

\* A configuration as a file that names all of it
Dumped(config) ==
  [kill_switch |-> [k \in DOMAIN config.kill_switch |->
                      Entry(TomlType(Sections["kill_switch"][k]), config.kill_switch[k])],
   strategy_max_positions |-> [s \in DOMAIN config.strategy_max_positions |->
                                 Entry("float", config.strategy_max_positions[s])]]

\* A file that names all that was loaded loads the same again; what it does not name, names in
\* another type or does not know has its default, but the limits, which are replaced together;
\* and a number below zero has wrapped (config.rs load_backtest_config).
ASSUME ConfigLoads ==
  \A file0 \in ConfigFiles :
    LET loaded == LoadedConfig(file0, Default)
    IN /\ LoadedConfig(Dumped(loaded), Default) = loaded
       /\ loaded.kill_switch.enabled = Default.kill_switch.enabled
       /\ loaded.kill_switch.z_score_threshold \in {2, 3}
       /\ loaded.kill_switch.min_samples \in {5, 7, Word64 - 1}
       /\ DOMAIN loaded.strategy_max_positions \in {{"A"}, {"A", "B", "C"}}

Values9 == [f \in Positive \cup Share \cup AtLeast0 |-> 1]
ForwardConfigs ==
  {[strategies |-> {"A"}, values |-> [Values9 EXCEPT ![f] = v], duration |-> {},
    source |-> [kind |-> "Recorded", speed |-> 0], webhooks |-> {}] :
     f \in Positive \cup Share \cup AtLeast0, v \in {-1, 0, 101}}

\* A forward configuration that is valid gives limits below zero, and one that is not would
\* still give limits that are not above it (forward/config.rs validate, to_risk_limits_config).
ASSUME LimitsBelowZero ==
  \A config \in ForwardConfigs :
    LET limits == ToRiskLimits(config.values)
    IN \A f \in DOMAIN limits : limits[f] <= 0 /\ (ValidConfig(config) => limits[f] < 0)

-----------------------------------------------------------------------------
(* Feeds *)

CredentialLines == [key : {"api_key", "secret"}, value : {1, 2}]

\* An API feed connects exactly with a key, the last of the file, keeps it when it connects
\* again with a file without one, and subscribes only while connected (feed.rs).
ASSUME ApiNeedsKey ==
  \A lines \in UpTo(CredentialLines, 2) :
    LET feed0 == ConnectApi(NewApi, "credentials", lines)
        again == ConnectApi(feed0, "credentials", <<>>)
    IN /\ feed0.connected <=> \E i \in DOMAIN lines : lines[i].key = "api_key"
       /\ feed0.key = Credentials(lines) /\ again = feed0
       /\ (SubscribeApi(feed0, {"x"}).symbols = {"x"}) <=> feed0.connected
       /\ DisconnectApi(again) = NewApi

\* The time between the ticks a monitor was told of adds up to that from the first to the
\* last, and a feed is healthy at its last tick, and not for ever (fix.rs).
ASSUME HealthAddsUp ==
  \A times \in UpTo(1 .. 4, 3) :
    (\A i \in 1 .. Len(times) - 1 : times[i] <= times[i + 1]) =>
      LET h == FoldLeft(RecordTick, NewHealth, times)
      IN times # <<>> =>
           /\ h.total = Last(times) - Head(times) /\ h.count = Len(times)
           /\ IsHealthy(h, Last(times), 1, 2) /\ ~IsHealthy(h, Last(times) + 3, 1, 2)

-----------------------------------------------------------------------------
(* Results *)

Decisions0 ==
  [strategy : {"A", "B"}, triggered : {TRUE}, direction : {{}, {"Buy"}}, reason : {{}, {1}, {2}}]
Trades0 == [time : {1, 2}, strategy : {"A", "B"}, pnl : {One, Whole(-1)}, closes : BOOLEAN]

Sum0(counts) == FoldLeft(LAMBDA n, c : n + c.count, 0, counts)

\* Every decision is an attempt or a hold; every reason is counted once, for its strategy and
\* in all, the most frequent first (output.rs backtest_decision_diagnostics).
ASSUME DiagnosticsAddUp ==
  \A decisions \in UpTo(Decisions0, 3) :
    LET d == Diagnostics(decisions, <<>>)
        OfStrategy(s) == IF s \in DOMAIN d.byStrategy THEN Sum0(d.byStrategy[s]) ELSE 0
        skipped == SelectSeq(decisions, LAMBDA x : x.reason # {})
    IN /\ d.attempts + d.holds = d.recorded /\ d.filled <= d.attempts
       /\ Sum0(d.reasons) = Len(skipped) /\ OfStrategy("A") + OfStrategy("B") = Len(skipped)
       /\ \A i \in 1 .. Len(d.reasons) - 1 : d.reasons[i].count >= d.reasons[i + 1].count

Counts0 == [f \in FunnelSteps |-> [s \in {"A"} |-> 1]]
ResultOf(trades0) ==
  [summary |-> Summary(trades0), trades |-> trades0, breakdown |-> Breakdown(trades0),
   counts |-> Counts0, decisions |-> <<>>, execution |-> {}, ticks |-> 1, decisionTicks |-> 1,
   strategies |-> {"A"}]

\* The risk metrics that are written use the returns the ratios of the summary use; the number
\* of closes and the rows of the table are those of the trades; and a strategy that never
\* counted is in the funnel with nothing (output.rs).
ASSUME ResultsWrittenAgree ==
  \A trades0 \in UpTo(Trades0, 2) :
    LET json == ResultJson(ResultOf(trades0))
        rows == TradeRows(trades0)
    IN /\ json.bridge.risk.returns = Profits(RiskTrades(trades0))
       /\ json.closes = Cardinality({i \in DOMAIN rows : rows[i].closes})
       /\ json.trades = Len(rows) /\ json.bridge.funnel["B"]["filled"] = 0

Outcomes0 ==
  {[EmptyOutcome EXCEPT !.trades = <<n>>, !.ticks = n, !.funnel["A"] = n] : n \in 1 .. 2}

\* Batches put together in any grouping give the same result, and an empty batch nothing
\* (engine.rs merge_run_result).
ASSUME BatchesMerge ==
  \A a, b, c \in Outcomes0 :
    /\ Merged(Merged(a, b), c) = Merged(a, Merged(b, c))
    /\ Merged(EmptyOutcome, a) = a /\ Merged(a, EmptyOutcome) = a

Metrics0 == [pnl : {Zero, One, Whole(2)}, drawdown : {Zero, One}, slippage : {Zero},
             fill_rate : {One}]
Limits0 == [m \in {"pnl", "drawdown", "slippage", "fill_rate"} |-> Frac(1, 2)]

\* A forward test that is its backtest passes; one that earned where the backtest earned nothing
\* never does; the parts of a difference add up to it (comparison.rs).
ASSUME ComparisonSound ==
  \A backtest, forward \in Metrics0 :
    /\ OverallPass(backtest, backtest, Limits0)
    /\ backtest.pnl = Zero /\ forward.pnl # Zero => ~OverallPass(backtest, forward, Limits0)
    /\ backtest.pnl # Zero /\ (backtest.drawdown # Zero \/ forward.drawdown = Zero) =>
         LET d == Decomposition(backtest, forward, 2)
         IN (d.execution ++ d.latency) ++ (d.impact ++ d.residual) = forward.pnl -- backtest.pnl

\* Of the files of a report none follows one that could not be written (report.rs).
ASSUME ReportStops ==
  \A format \in {"Json", "Csv", "Both"} :
    \A failing \in SUBSET {"session_report.json", "performance_summary.csv"} :
      /\ FilesOf(format, failing) \cap failing = {}
      /\ format = "Both" /\ "session_report.json" \in failing => FilesOf(format, failing) = {}

\* Alerts of different kinds do not hold each other back, and a channel that fails does not
\* keep an alert from the others (alert.rs).
ASSUME AlertKindsApart ==
  LET first == KillSwitchAlert(NewEvaluator, 1)
  IN /\ first.alert # {}
     /\ KillSwitchAlert(first.evaluator, 1).alert = {}
     /\ CulledAlert(first.evaluator, 1).alert # {} /\ FeedAlert(first.evaluator, 1).alert # {}
     /\ EvaluateSharpe(first.evaluator, Whole(-1), One, 1).alert # {}
     /\ EvaluateDrift(first.evaluator, Whole(9), One, 1).alert # {}
     /\ SentTo({"log", "webhook"}, {"webhook"}) = {"log"}

\* The mean of the drift a tracker tells is that of the last ones of its window (tracker.rs
\* record_execution_drift), and it is none where there is no drift.
ASSUME DriftOfWindow ==
  \A drifts \in UpTo({Zero, One, Whole(-2)}, TrackerWindow + 1) :
    LET t == FoldLeft(RecordDrift, NewTracker, drifts)
        n == IF Len(drifts) < TrackerWindow THEN Len(drifts) ELSE TrackerWindow
        kept == SubSeq(drifts, Len(drifts) - n + 1, Len(drifts))
    IN t.driftMean = MeanFrac(kept) /\ (Cardinality(ToSet(kept)) = 1 => t.driftStd = Zero)

-----------------------------------------------------------------------------
(* The context of a decision *)

ContextOf(direction, size) ==
  LET q == [Buy |-> Whole(2), Sell |-> One, Hold |-> Zero]
      d == [features |-> <<>>, point |-> One, std |-> One, direction |-> direction, lots |-> 2,
            sampled |-> q[ActionOf(direction)], q |-> q, volRatio |-> One, slippage |-> Zero,
            latency |-> One, volatility |-> One]
      position == IF size = 0 THEN {} ELSE {[size |-> size, entry |-> One, pnl |-> Zero, held |-> 1]}
      snapshot == [staleness |-> 0, multiplier |-> One, dailyRealized |-> Zero,
                   positionLimit |-> 4, regime |-> 1]
  IN [backtest |-> DecisionContext(d, position, snapshot),
      forward |-> DecisionContextForward(d, position, snapshot),
      action |-> ActionOf(direction), reason |-> HoldReason(d)]

\* Both programs write the same of a decision but for the values of the actions not chosen,
\* the parts of the uncertainty and the regime, which only a backtest tells; an order that is
\* not held moves the position it states; and only the forward test gives holding as a reason
\* (decision_event_context of engine.rs and of runner.rs).
ASSUME ContextsAgree ==
  \A direction \in {{}, {"Buy"}, {"Sell"}}, size \in {-2, 0, 2} :
    LET c == ContextOf(direction, size)
    IN /\ c.backtest.common = c.forward.common
       /\ c.backtest.q[c.action] = c.forward.q[c.action]
       /\ (c.forward.common.after = size) <=> c.reason # {}

-----------------------------------------------------------------------------
(* Features and regimes *)

\* What is said between ticks of the last tick is what it brought; a gap held changes no
\* feature (extractor.rs).
ASSUME ExtractorReads ==
  \A m \in Quotes : \E x \in {ProcessMarket(NewExtractor, [m EXCEPT !.time = 1])} :
    /\ CurrentObi(x) = Obi(m) /\ CurrentSpreadZ(x) = ZScore(x.spreads, Spread(m))
    /\ Extract(SetGapHold(x, TRUE), m, Flat, 1) = Extract(x, m, Flat, 1)

\* A posterior of weights is a distribution with the order of the scores (regime.rs
\* update_from_weights).
ASSUME WeightsNormalize ==
  \A a, b \in {Zero, One} :
    LET weights == [k \in 1 .. NRegimes |-> <<IF k = 1 THEN a ELSE b>>]
        p == FromWeights(<<One>>, weights, [k \in 1 .. NRegimes |-> Zero])
    IN SumFrac(p) = One /\ (a \preceq b <=> p[1] \preceq p[2])
=============================================================================
