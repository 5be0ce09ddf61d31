-------------------------- MODULE FeatureExtraction --------------------------
(***************************************************************************)
(* FeatureExtractor (strategy/extractor.rs) and FeatureVector (strategy/   *)
(* features.rs): what the market and the executions leave in the windows,   *)
(* and the features read from them.  Values are fractions; the square root, *)
(* the logarithm of a return and the exponential are constants.  An event   *)
(* that does not decode changes nothing, as in the code.                    *)
(***************************************************************************)
EXTENDS Fractions, FiniteSets

CONSTANTS SpreadWindow, ObiWindow, VolWindow, VolLongWindow,   \* FeatureExtractorConfig
          IntensityWindow, ExecutionLag, TypicalLot,
          SessionHours, HoursOf(_),       \* session_hours_utc, and the UTC hour of a time
          MidCapacity, SpikeSamples, SpikeWindow, SpikeFactor, NoSpike, SpikeSpan,
          ExecAlpha,                      \* weight of an execution in the averages
          Root(_), LogReturn(_, _), ExpOf(_)

Sign(a) == Whole(IF a[1] < 0 THEN -1 ELSE IF a[1] > 0 THEN 1 ELSE 0)
Ratio(a, b, otherwise) == IF Zero \prec b THEN a // b ELSE otherwise

-----------------------------------------------------------------------------
(* RollingWindow *)

NewWindow == [values |-> <<>>, sum |-> Zero, sumSq |-> Zero]

\* Fault: the value that leaves the window stays in the sum of squares.
RollKeepingSquares(w, capacity, v) ==
  LET out == IF Len(w.values) >= capacity THEN Head(w.values) ELSE Zero
  IN [values |-> Append(IF Len(w.values) >= capacity THEN Tail(w.values) ELSE w.values, v),
      sum |-> (w.sum -- out) ++ v, sumSq |-> w.sumSq ++ (v ** v)]

Roll(w, capacity, v) ==
  LET out == IF Len(w.values) >= capacity THEN Head(w.values) ELSE Zero
  IN [values |-> Append(IF Len(w.values) >= capacity THEN Tail(w.values) ELSE w.values, v),
      sum |-> (w.sum -- out) ++ v, sumSq |-> (w.sumSq -- (out ** out)) ++ (v ** v)]

WindowMean(w) == IF w.values = <<>> THEN Zero ELSE w.sum // Whole(Len(w.values))

WindowVariance(w) ==
  LET n == Whole(Len(w.values))
      mean == WindowMean(w)
  IN IF Len(w.values) < 2 THEN Zero ELSE (w.sumSq -- (n ** (mean ** mean))) // (n -- One)

ZScore(w, v) ==
  LET std == Root(WindowVariance(w))
  IN IF std = Zero THEN Zero ELSE (v -- WindowMean(w)) // std

Latest(w) == IF w.values = <<>> THEN Zero ELSE Last(w.values)
Previous(w, otherwise) ==
  IF Len(w.values) >= 2 THEN w.values[Len(w.values) - 1] ELSE otherwise

-----------------------------------------------------------------------------
(* LaggedExecutionStats *)

NewStats == [fillRate |-> Zero, slippage |-> Zero, rejectRate |-> Zero, drift |-> Zero,
             counts |-> <<>>, volumes |-> <<>>, first |-> {}]

Smoothed(average, v) == average ++ (ExecAlpha ** (v -- average))

UpdateStats(s, fill) ==
  LET part == Whole(IF fill.filled THEN 1 ELSE 0)
  IN [fillRate |-> Smoothed(s.fillRate, part),
      slippage |-> Smoothed(s.slippage, AbsFrac(fill.slippage)),
      rejectRate |-> Smoothed(s.rejectRate, One -- part),
      drift |-> Smoothed(s.drift, fill.drift),
      counts |-> Append(s.counts, [time |-> fill.time, value |-> part]),
      volumes |-> Append(s.volumes, [time |-> fill.time, value |-> fill.size ** part]),
      first |-> IF s.first = {} THEN {fill.time} ELSE s.first]

\* Entries are dropped from the front, until one that is young enough.
PrunedFrom(q, cutoff) ==
  LET young == {i \in DOMAIN q : q[i].time >= cutoff}
  IN IF young = {} THEN <<>>
     ELSE SubSeq(q, CHOOSE i \in young : \A j \in young : i <= j, Len(q))

Prune(s, cutoff) ==
  [s EXCEPT !.counts = PrunedFrom(@, cutoff), !.volumes = PrunedFrom(@, cutoff)]

Total(q) == SumFrac([i \in DOMAIN q |-> q[i].value])

-----------------------------------------------------------------------------
(* Session and VolatilityState *)

SessionOf(time) ==
  LET hour == HoursOf(time)
  IN CASE hour >= SessionHours[4] -> "Sydney"
       [] hour < SessionHours[4] /\ hour >= SessionHours[3] -> "NewYork"
       [] hour < SessionHours[3] /\ hour >= SessionHours[2] -> "London"
       [] OTHER -> "Tokyo"

OneHot(session) == [s \in {"Tokyo", "London", "NewYork", "Sydney"} |->
                      IF s = session THEN One ELSE Zero]
Numeric(session) == Whole(CASE session = "Tokyo" -> 0 [] session = "London" -> 1
                            [] session = "NewYork" -> 2 [] OTHER -> 3)

PushMid(mids, mid) ==
  LET all == Append(mids, mid) IN IF Len(all) > MidCapacity THEN Tail(all) ELSE all

Returns(mids, n) ==
  SubSeq([i \in 1 .. n |->
            LET k == Len(mids) - n + i
            IN IF Zero \prec mids[k - 1] THEN LogReturn(mids[k - 1], mids[k]) ELSE Zero], 1, n)

Deviation(q, mean) ==
  Root(MeanFrac(SubSeq([i \in DOMAIN q |-> (q[i] -- mean) ** (q[i] -- mean)], 1, Len(q))))

DeviationOf(q) == Deviation(q, MeanFrac(q))

\* Standard deviation of the log returns of the last prices
RealizedVolatility(mids, window) ==
  LET n == IF window < Len(mids) - 1 THEN window ELSE Len(mids) - 1
  IN IF n < 1 THEN Zero ELSE DeviationOf(Returns(mids, n))

-----------------------------------------------------------------------------
(* FeatureExtractor *)

NewExtractor ==
  [spreads |-> NewWindow, obis |-> NewWindow, mids |-> <<>>, prevVol |-> Zero,
   volEmaLong |-> Zero, stats |-> NewStats, prevObi |-> Zero, lastSpike |-> 0,
   lastDepth |-> Zero, prevDepth |-> Zero, open |-> 0, active |-> {}, gapHold |-> FALSE]

Depth(m) == m.bidSize ++ m.askSize
Obi(m)   == Ratio(m.askSize -- m.bidSize, Depth(m), Zero)
Spread(m) == m.ask -- m.bid
Mid(m)   == (m.bid ++ m.ask) // Whole(2)

Cutoff(time) == IF time < IntensityWindow THEN 0 ELSE time - IntensityWindow

\* Nothing assigns vol_ema_long, so that no spike is ever found.
Spike(x, spreads, mids) ==
  /\ Len(spreads.values) >= SpikeSamples /\ Zero \prec x.volEmaLong
  /\ (x.volEmaLong ** SpikeFactor) \prec RealizedVolatility(mids, SpikeWindow)

\* process_market_event, with its windows
Moved(x, m, spreads, obis, mids) ==
  [x EXCEPT !.spreads = spreads, !.obis = obis, !.mids = mids,
            !.prevVol = RealizedVolatility(x.mids, VolWindow),
            !.prevObi = Previous(obis, Obi(m)),
            !.prevDepth = x.lastDepth, !.lastDepth = Depth(m),
            !.lastSpike = IF Spike(x, spreads, mids) THEN m.time ELSE @,
            !.open = IF x.active = {SessionOf(m.time)} THEN @ ELSE m.time,
            !.active = {SessionOf(m.time)},
            !.stats = Prune(@, Cutoff(m.time))]

ProcessMarket(x, m) ==
  Moved(x, m, Roll(x.spreads, SpreadWindow, Spread(m)), Roll(x.obis, ObiWindow, Obi(m)),
        PushMid(x.mids, Mid(m)))

ProcessExecution(x, fill) == [x EXCEPT !.stats = UpdateStats(@, fill)]
SetGapHold(x, hold) == [x EXCEPT !.gapHold = hold]

CurrentObi(x) == Latest(x.obis)
CurrentSpreadZ(x) == IF x.spreads.values = <<>> THEN Zero ELSE ZScore(x.spreads, Latest(x.spreads))
CurrentVol(x) == RealizedVolatility(x.mids, VolWindow)

-----------------------------------------------------------------------------
(* The terms computed from other features *)

SelfImpact(size, vol) == (AbsFrac(size) // TypicalLot) ** vol
TimeDecay(held) == IF held <= 0 THEN One ELSE ExpOf(held)
DynamicCost(spread, vol, obi) ==
  spread ++ MaxFrac((AbsFrac(obi) ** spread) // Whole(2), Zero) ++ ((vol ** spread) ** Whole(10))
Unit(v) == Clamp(v, Zero, One)

PRevert(z, obi, depthChange) ==
  LET drop == IF depthChange \prec Frac(-1, 5) THEN One ELSE Zero
  IN Unit((MinFrac(AbsFrac(z) // Whole(3), One) ** Frac(2, 5))
            ++ (MinFrac(AbsFrac(obi) ** Whole(2), One) ** Frac(3, 10))
            ++ (drop ** Frac(3, 10)))

PContinue(volRatio, intensity) ==
  LET volSignal == IF One \prec volRatio THEN MinFrac((volRatio -- One) ** Whole(2), One) ELSE Zero
  IN Unit((volSignal ** Frac(3, 5)) ++ (MinFrac(intensity // Whole(20), One) ** Frac(2, 5)))

SessionBias(session) ==
  CASE session = "London" -> Frac(1, 10) [] session = "NewYork" -> Frac(3, 20)
    [] session = "Tokyo" -> Frac(-1, 20) [] OTHER -> Zero
PTrend(session, obi) == Unit((Frac(1, 2) ++ SessionBias(session)) ++ (obi ** Frac(3, 10)))

-----------------------------------------------------------------------------
(* extract: position is that of the strategy asking *)

LagExpired(x, now) == \E first \in x.stats.first : now - first >= ExecutionLag

\* The averages are hidden until the lag since the FIRST execution is over; the windows never.
Executions(x, now) ==
  LET Visible(v) == IF LagExpired(x, now) THEN v ELSE Zero
  IN [recentFillRate |-> Visible(x.stats.fillRate), recentSlippage |-> Visible(x.stats.slippage),
      recentRejectRate |-> Visible(x.stats.rejectRate), driftTrend |-> Visible(x.stats.drift),
      tradeIntensity |-> Total(x.stats.counts), signedVolume |-> Total(x.stats.volumes)]

Volatilities(x) ==
  LET vol == CurrentVol(x)
      long == RealizedVolatility(x.mids, VolLongWindow)
  IN [realizedVol |-> vol, volRatio |-> Ratio(vol, long, One),
      volDecay |-> Ratio(vol -- x.prevVol, x.prevVol, Zero)]

Since(from, time, otherwise) == IF from > 0 /\ time > from THEN time - from ELSE otherwise

\* The groups of features, in the order of FeatureVector::flattened
Micro(x, m, size, z, obi) ==
  <<Spread(m), z, obi, obi -- x.prevObi, Ratio(Depth(m) -- x.prevDepth, x.prevDepth, Zero),
    IF Zero \prec m.bidSize THEN MinFrac(AbsFrac(size) // m.bidSize, One) ELSE Zero>>

SpikeAge(x, m) == Since(x.lastSpike, m.time, NoSpike)

Clock(x, m, held) ==
  LET hot == OneHot(SessionOf(m.time))
  IN <<hot["Tokyo"], hot["London"], hot["NewYork"], hot["Sydney"],
       Whole(Since(x.open, m.time, 0)), Whole(SpikeAge(x, m)), Whole(held)>>

Orders(execs) ==
  <<execs.tradeIntensity, execs.signedVolume, execs.recentFillRate, execs.recentSlippage,
    execs.recentRejectRate, execs.driftTrend>>

Terms(m, micro, vols, intensity, impact, held) ==
  <<impact, TimeDecay(held), DynamicCost(Spread(m), vols.realizedVol, micro[3]),
    PRevert(micro[2], micro[3], micro[5]), PContinue(vols.volRatio, intensity),
    PTrend(SessionOf(m.time), micro[3])>>

Products(m, micro, vol, size, age, impact) ==
  <<micro[2] ** vol, micro[3] ** Numeric(SessionOf(m.time)),
    IF age < SpikeSpan THEN micro[5] ELSE Zero,
    AbsFrac(size) ** vol, micro[3] ** vol, micro[2] ** impact>>

Assembled(x, m, position, micro, vols, execs, impact) ==
  micro \o <<vols.realizedVol, vols.volRatio, vols.volDecay>> \o Clock(x, m, position.held)
    \o <<position.size, Sign(position.size), position.entry, position.pnl>> \o Orders(execs)
    \o Terms(m, micro, vols, execs.tradeIntensity, impact, position.held)
    \o Products(m, micro, vols.realizedVol, position.size, SpikeAge(x, m), impact)

Extract(x, m, position, now) ==
  Assembled(x, m, position, Micro(x, m, position.size, ZScore(x.spreads, Spread(m)), Obi(m)),
            Volatilities(x), Executions(x, now), SelfImpact(position.size, CurrentVol(x)))

\* Places of the features in the flattened vector
DIM == 38
TimeSinceOpen == 14
TimeSinceLastSpike == 15
HoldingTime == 16

\* An infinity or NaN: a fraction over zero
Finite(v) == v[2] # 0

\* flattened_for_regime_model: what is not finite is replaced, the times are bounded.
ForRegimeModel(phi) ==
  [i \in 1 .. DIM |->
     CASE i \in {TimeSinceOpen, HoldingTime} -> IF Finite(phi[i]) THEN MaxFrac(phi[i], Zero) ELSE Zero
       [] i = TimeSinceLastSpike ->
            IF Finite(phi[i]) THEN Clamp(phi[i], Zero, Whole(NoSpike)) ELSE Whole(NoSpike)
       [] OTHER -> IF Finite(phi[i]) THEN phi[i] ELSE Zero]

ZeroFeatures == [i \in 1 .. DIM |-> IF i \in 30 .. 32 THEN Frac(1, 2) ELSE Zero]
=============================================================================
