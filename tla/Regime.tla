-------------------------------- MODULE Regime --------------------------------
(***************************************************************************)
(* RegimeCache (strategy/regime.rs) and the update of the engine           *)
(* (BacktestEngine::update_regime): a model that may be missing, or fail,   *)
(* or the scores of four features; the posterior, its entropy and its       *)
(* divergence from the uniform one.  The model is external.  PLogP(p) is    *)
(* -p ln p, and ExpScore(s) the exponential of a score that is not positive. *)
(***************************************************************************)
EXTENDS FeatureExtraction

CONSTANTS NRegimes, RegimeDim,        \* n_regimes and feature_dim of RegimeConfig
          UnknownThreshold, ArCoeff,
          LnRegimes,                  \* the logarithm of n_regimes
          PLogP(_), ExpScore(_),
          Hosts,                      \* the program: the backtest, or the forward test
          Found,                      \* the models that may be found: none, or the set of one
          Quotes, Steps, Fills,       \* what the market shows, its pauses, and executions
          Answers,                    \* what inference may give: none, or the set of a posterior
          MaxQuotes, MaxFills         \* bounds

Uniform == [k \in 1 .. NRegimes |-> Frac(1, NRegimes)]
NoDrift == [d \in 1 .. RegimeDim |-> Zero]

\* RegimeState::new, and what reset goes back to
NewRegime ==
  [posterior |-> Uniform, entropy |-> LnRegimes, kl |-> Zero, drift |-> NoDrift,
   unknown |-> FALSE, updated |-> 0, initialized |-> FALSE]

\* A model that does not load, or of another shape, is left out.
LoadedModel(found) ==
  {model \in found : model.dim = RegimeDim /\ model.regimes = NRegimes}

\* predict: an inference that fails, or answers with another length, is none.
Predicted(models, phi, answer) ==
  IF models # {} /\ Len(phi) = RegimeDim
    THEN {p \in answer : Len(p) = NRegimes} ELSE {}

Entropy(p) == SumFrac(SubSeq([k \in 1 .. Len(p) |-> PLogP(p[k])], 1, Len(p)))

\* Sum of p ln(p / uniform)
KlDivergence(p) == (LnRegimes ** SumFrac(p)) -- Entropy(p)

Shares(parts, sum) == SubSeq([k \in 1 .. Len(parts) |-> parts[k] // sum], 1, Len(parts))
Normalized(p)      == Shares(p, SumFrac(p))

StoredRegime(regime, p, now) ==
  [regime EXCEPT !.posterior = p, !.entropy = Entropy(p), !.kl = KlDivergence(p),
                 !.unknown = UnknownThreshold \prec Entropy(p),
                 !.updated = now, !.initialized = TRUE]

\* update_from_posterior
Updated(regime, p, now) == StoredRegime(regime, Normalized(p), now)

\* compute_drift: the features are not used, so that a drift of zero stays zero.
Drifted(regime) ==
  [regime EXCEPT !.drift =
     [d \in 1 .. RegimeDim |-> SumFrac(SubSeq([k \in 1 .. NRegimes |->
        regime.posterior[k] ** (ArCoeff ** regime.drift[d])], 1, NRegimes))]]

Best(scores) ==
  CHOOSE s \in {scores[k] : k \in DOMAIN scores} : \A k \in DOMAIN scores : scores[k] \preceq s

Exponentials(scores, best) ==
  SubSeq([k \in 1 .. Len(scores) |-> ExpScore(scores[k] -- best)], 1, Len(scores))

Softmax(scores) == Normalized(Exponentials(scores, Best(scores)))

\* update_from_weights
FromWeights(features, weights, bias) ==
  Softmax(SubSeq([k \in 1 .. NRegimes |-> SumFrac(SubSeq([i \in 1 .. Len(features) |->
     weights[k][i] ** features[i]], 1, Len(features))) ++ bias[k]], 1, NRegimes))

\* How near the features are to calm, normal, turbulent and crisis, padded with zeros
Scores(z, vol, volRatio) ==
  LET Near(v, at) == AbsFrac(v -- at)
      Score(k, volAt) == Zero -- ((Near(z, Whole(k)) ++ (Near(vol, volAt) ** Whole(10)))
                                    ++ (Near(volRatio, Whole(k)) ** Whole(2)))
      four == <<Score(0, Zero), Score(1, Frac(1, 100)), Score(2, Frac(3, 100)),
                Score(3, Frac(1, 20))>>
  IN SubSeq([k \in 1 .. NRegimes |-> IF k <= 4 THEN four[k] ELSE Zero], 1, NRegimes)

\* update_regime: the drift follows a prediction only, the features of strategy A being fewer.
RegimeOnTick(regime, models, phi, answer, now) ==
  LET predicted == Predicted(models, ForRegimeModel(phi), answer)
  IN IF predicted # {}
       THEN Drifted(Updated(regime, CHOOSE p \in predicted : TRUE, now))
       ELSE Updated(regime, Softmax(Scores(AbsFrac(phi[2]), phi[7], phi[8])), now)

\* The forward runner (run): with a model there are no scores to fall back on.
RegimeOnTickForward(regime, models, phi, answer, now) ==
  LET predicted == Predicted(models, ForRegimeModel(phi), answer)
  IN IF predicted # {}
       THEN Drifted(Updated(regime, CHOOSE p \in predicted : TRUE, now))
     ELSE IF models # {} THEN regime
     ELSE Updated(regime, Softmax(Scores(AbsFrac(phi[2]), phi[7], phi[8])), now)

-----------------------------------------------------------------------------
(* Ticks and executions, in the order they come: features are extracted and  *)
(* the regime is updated on every tick, of a strategy that is flat.          *)

VARIABLES
  host,
  models,      \* the model that was loaded
  extractor, regime,
  features,    \* those of the last tick
  quotes, fills \* history

regimeVars == <<host, models, extractor, regime, features, quotes, fills>>

RegimeInit(hosts, searches) ==
  /\ host \in hosts
  /\ \E found \in searches : models = LoadedModel(found)
  /\ extractor = NewExtractor /\ regime = NewRegime /\ features = ZeroFeatures
  /\ quotes = <<>> /\ fills = <<>>

Flat == [size |-> Zero, entry |-> Zero, pnl |-> Zero, held |-> 0]
Now  == IF quotes = <<>> THEN 0 ELSE Last(quotes).time

TickArrives(quote, step, answer) ==
  /\ Len(quotes) < MaxQuotes
  /\ \E m \in {[quote EXCEPT !.time = Now + step]} :
       \E x \in {ProcessMarket(extractor, m)} :
         \E phi \in {Extract(x, m, Flat, m.time)} :
           /\ extractor' = x /\ features' = phi
           /\ quotes' = Append(quotes, m)
           /\ regime' = IF host = "backtest" THEN RegimeOnTick(regime, models, phi, answer, m.time)
                        ELSE RegimeOnTickForward(regime, models, phi, answer, m.time)
  /\ UNCHANGED <<host, models, fills>>

ExecutionArrives(fill) ==
  /\ quotes # <<>> /\ Len(fills) < MaxFills
  /\ \E f \in {[fill EXCEPT !.time = Now]} :
       /\ extractor' = ProcessExecution(extractor, f)
       /\ fills' = Append(fills, f)
  /\ UNCHANGED <<host, models, regime, features, quotes>>

RegimeNext ==
  \/ \E quote \in Quotes, step \in Steps, answer \in Answers : TickArrives(quote, step, answer)
  \/ \E fill \in Fills : ExecutionArrives(fill)

-----------------------------------------------------------------------------
(* Properties *)

LastOf(q, n) == SubSeq(q, IF Len(q) > n THEN Len(q) - n + 1 ELSE 1, Len(q))
Each(q, Value(_)) == SubSeq([i \in DOMAIN q |-> Value(q[i])], 1, Len(q))

\* A window is the last values, and its running sums are theirs.
Holds(window, values) ==
  /\ window.values = values /\ window.sum = SumFrac(values)
  /\ window.sumSq = SumFrac(Each(values, LAMBDA v : v ** v))

\* What features are read from is what has happened: the windows, kept by adding and taking
\* away, hold the last quotes; the executions kept are those of the intensity window before
\* the last tick; the posterior is a distribution, its entropy its own.  In a backtest it is
\* that of the last tick, whatever the model does.
FeaturesCurrent ==
  LET kept == {i \in DOMAIN fills : fills[i].time >= Now - IntensityWindow}
  IN /\ Holds(extractor.spreads, LastOf(Each(quotes, Spread), SpreadWindow))
     /\ Holds(extractor.obis, LastOf(Each(quotes, Obi), ObiWindow))
     /\ extractor.mids = LastOf(Each(quotes, Mid), MidCapacity)
     /\ Total(extractor.stats.counts) = Whole(Cardinality({i \in kept : fills[i].filled}))
     /\ Len(extractor.stats.volumes) = Cardinality(kept)
     /\ SumFrac(regime.posterior) = One
     /\ regime.initialized => regime.entropy = Entropy(regime.posterior)
     /\ host = "backtest" => regime.updated = Now
=============================================================================
