------------------------------ MODULE Learning ------------------------------
(***************************************************************************)
(* How the policies learn: the episodes of one policy and the updates they *)
(* bring, its decisions and the inflation of its posterior, the change      *)
(* point detector, strategies B and C deciding about a position, and the    *)
(* export and import of the learned state.  A behaviour interleaves the     *)
(* operations of one scenario, so that the state spaces of unrelated        *)
(* operations add up instead of multiplying.                                *)
(***************************************************************************)
EXTENDS McEvaluator, ChangePoint, StrategyCore, QState

CONSTANTS Phis, Equities, Samples,         \* features, starts and steps of an episode
          MaxSteps, MaxEpisodes,           \* bounds: transitions, and episodes
          RawValues, States,               \* sampled values, and snapshots of the limits
          InflationCap,                    \* bound: the variance of a coordinate
          FeatureValues, MaxObservations,  \* values of a feature, and bound of observations
          BFeatures, CFeatures, Kls,       \* features and divergences for B and C
          MaxNow,                          \* bound: time
          Observations,                    \* what a strategy learns from, finite or not
          Extensions, MaxUpdates           \* extensions of the files, and bound of updates

VARIABLES
  scenario,
  policy,      \* a ThompsonSamplingPolicy
  episode,     \* its active EpisodeBuffer, or none
  closed,      \* its completed episodes: the inputs of their steps
  perFeature,  \* per_feature_monitoring
  detector,    \* a ChangePointDetector
  quiet,       \* observations of each feature since its last change or reset
  changes,     \* changes since the retraining flag was last cleared
  strategies,  \* strategies B and C
  size, now,   \* the position they see, and the time
  qs, file, exported,  \* the engine's Q-functions, a file, and what was exported to it
  restored     \* the last operation was an import that did not fail

episodeVars  == <<policy, episode, closed>>
detectorVars == <<perFeature, detector, quiet, changes>>
strategyVars == <<strategies, size, now>>
stateVars    == <<qs, file, exported, restored>>
vars == <<scenario, episodeVars, detectorVars, strategyVars, stateVars>>

Init ==
  /\ scenario \in {"episodes", "decisions", "detector", "strategies", "state"}
  /\ policy = NewPolicy /\ episode = {} /\ closed = <<>>
  /\ perFeature \in (IF scenario = "detector" THEN BOOLEAN ELSE {TRUE})
  /\ detector = NewDetector /\ quiet = [i \in Features |-> GracePeriod] /\ changes = 0
  /\ strategies = [s \in {"B", "C"} |-> IF s = "B" THEN NewStrategyB ELSE NewStrategyC]
  /\ size = [s \in {"B", "C"} |-> 0] /\ now = 0
  /\ qs = [s \in StrategyId |-> NewQ] /\ file = {} /\ exported = {} /\ restored = FALSE

-----------------------------------------------------------------------------
(* Episodes *)

Steps == Len(FlattenSeq([i \in DOMAIN closed |-> closed[i].steps]))

StartEpisodeStep ==
  /\ scenario = "episodes" /\ episode = {} /\ Len(closed) < MaxEpisodes
  /\ \E equity \in Equities :
       /\ episode' = {NewBuffer(0, equity)}
       /\ closed' = Append(closed, [from |-> equity, steps |-> <<>>, over |-> FALSE])
  /\ UNCHANGED <<scenario, policy, detectorVars, strategyVars, stateVars>>

RecordStep ==
  /\ scenario = "episodes" /\ Steps < MaxSteps
  /\ \E buffer \in episode, a \in QAction, s \in Samples :
       /\ episode' = {Recorded(buffer, 0, a, s.phi, s.equity, s.lots, s.volSq)}
       /\ closed' = [closed EXCEPT ![Len(closed)].steps =
                       Append(@, [action |-> a, phi |-> s.phi, equity |-> s.equity,
                                  risk |-> (s.lots ** s.lots) ** s.volSq])]
  /\ UNCHANGED <<scenario, policy, detectorVars, strategyVars, stateVars>>

\* end_episode_and_update
EndEpisodeStep ==
  /\ scenario = "episodes"
  /\ \E buffer \in episode, reason \in {"PositionClosed"} :
       policy' = [policy EXCEPT !.q = Learned(@, EpisodeResult("A", buffer, reason, 0))]
  /\ episode' = {}
  /\ closed' = [closed EXCEPT ![Len(closed)].over = TRUE]
  /\ UNCHANGED <<scenario, detectorVars, strategyVars, stateVars>>

-----------------------------------------------------------------------------
(* Decisions of the policy *)

DecideStep ==
  /\ scenario = "decisions"
  /\ \E raw \in RawValues, state \in States, volRatio \in {Zero, Frac(3, 4)} :
       LET k == DynamicK(NonModelK, Zero, Stability(volRatio))
           f == [selfImpact |-> Zero, dynamicCost |-> Frac(1, 4)]
           v == Penalized(raw, TradePenalty(f, k, One, One))
           after == Decide(policy, v, state).policy
       IN /\ after.q["Buy"].aInv[1][1] \preceq InflationCap
          /\ policy' = after
  /\ UNCHANGED <<scenario, episode, closed, detectorVars, strategyVars, stateVars>>

ResetTrackerStep ==
  /\ scenario = "decisions"
  /\ policy' = ResetTracker(policy)
  /\ UNCHANGED <<scenario, episode, closed, detectorVars, strategyVars, stateVars>>

-----------------------------------------------------------------------------
(* The detector *)

ObserveStep ==
  /\ scenario = "detector" /\ now < MaxObservations
  /\ now' = now + 1
  /\ \E values \in [Features -> FeatureValues] :
       \E seen \in {Observe(detector, values, perFeature, now)} :
          /\ detector' = seen.detector
          /\ policy' = [policy EXCEPT !.q = RespondedTo(@, seen.change)]
          /\ quiet' = [i \in Features |->
               CASE \E c \in seen.change : c.feature = i -> 0
                 [] seen.detector.adwin[i].since = detector.adwin[i].since -> quiet[i]
                 [] OTHER -> quiet[i] + 1]
          /\ changes' = changes + Cardinality(seen.change)
  /\ UNCHANGED <<scenario, perFeature, episode, closed, strategies, size, stateVars>>

ClearStep ==
  /\ scenario = "detector"
  /\ detector' = ClearRetraining(detector) /\ changes' = 0
  /\ UNCHANGED <<scenario, perFeature, quiet, episodeVars, strategyVars, stateVars>>

DecayStep ==
  /\ scenario = "detector"
  /\ detector' = Decayed(detector)
  /\ UNCHANGED <<scenario, perFeature, quiet, changes, episodeVars, strategyVars, stateVars>>

ResetFeatureStep ==
  /\ scenario = "detector"
  /\ \E i \in Features :
       /\ detector' = ResetFeature(detector, i)
       /\ quiet' = [quiet EXCEPT ![i] = GracePeriod]
  /\ UNCHANGED <<scenario, perFeature, changes, episodeVars, strategyVars, stateVars>>

ResetDetectorStep ==
  /\ scenario = "detector"
  /\ detector' = ResetDetector(detector)
  /\ quiet' = [i \in Features |-> GracePeriod] /\ changes' = 0
  /\ UNCHANGED <<scenario, perFeature, episodeVars, strategyVars, stateVars>>

-----------------------------------------------------------------------------
(* Strategies B and C decide on a tick; what their orders come to is not theirs to know. *)

TickStep ==
  /\ scenario = "strategies" /\ now < MaxNow
  /\ now' = now + 1
  /\ \E b \in BFeatures, c \in CFeatures, kl \in Kls, raw \in RawValues, state \in States,
       held \in [{"B", "C"} -> {-1, 0, 1}] :
       /\ size' = held
       /\ strategies' =
            [s \in {"B", "C"} |->
               IF s = "B"
                 THEN DecideB(strategies["B"], b, kl, raw, One, Zero, state, held["B"], now').strategy
                 ELSE DecideC(strategies["C"], c, kl, raw, One, Zero, state, held["C"], now').strategy]
  /\ UNCHANGED <<scenario, episodeVars, detectorVars, stateVars>>

-----------------------------------------------------------------------------
(* Export and import *)

\* Strategy sid learns something: an observation goes into the model as it is, finite or not.
UpdateStep ==
  /\ scenario = "state"
  /\ \E sid \in StrategyId, a \in {"Buy"}, o \in Observations :
       /\ qs["A"][a].n + qs["B"][a].n + qs["C"][a].n < MaxUpdates
       /\ \E m \in UpdatesOf(qs[sid][a], o.phi, o.y) : qs' = [qs EXCEPT ![sid][a] = m]
  /\ restored' = FALSE
  /\ UNCHANGED <<scenario, episodeVars, detectorVars, strategyVars, file, exported>>

ExportStep ==
  /\ scenario = "state"
  /\ \E extension \in Extensions, diskOk \in BOOLEAN :
       LET written == Written(ExportedQ(qs), extension, diskOk)
       IN /\ file' = IF written = {} THEN file ELSE written
          /\ exported' = IF written = {} THEN exported ELSE {qs}
  /\ restored' = FALSE
  /\ UNCHANGED <<scenario, episodeVars, detectorVars, strategyVars, qs>>

\* The file comes from another version of the program, or from a set of other strategies.
Tampered(set) ==
  {[set EXCEPT !.version = 2], [set EXCEPT !.strategies = Tail(@)],
   [set EXCEPT !.strategies[3].id = "A"], [set EXCEPT !.strategies[2].q.dim = Dim + 1],
   [set EXCEPT !.strategies[3].q.actions =
      {[e EXCEPT !.model.lambdaReg = Zero] : e \in @}]}

TamperStep ==
  /\ scenario = "state" /\ exported # {}
  /\ \E f \in file, set \in UNION {Tampered(g.set) : g \in file} :
       file' = {[f EXCEPT !.set = set]}
  /\ exported' = {} /\ restored' = FALSE
  /\ UNCHANGED <<scenario, episodeVars, detectorVars, strategyVars, qs>>

ImportStep ==
  /\ scenario = "state"
  /\ \E extension \in Extensions, set \in ReadBack(file, "json") \cup ReadBack(file, "bin") :
       /\ set \in ReadBack(file, extension)
       /\ qs' = Imported(qs, set)
       /\ restored' = ImportOk(set)
  /\ UNCHANGED <<scenario, episodeVars, detectorVars, strategyVars, file, exported>>

-----------------------------------------------------------------------------
Next ==
  \/ StartEpisodeStep \/ RecordStep \/ EndEpisodeStep
  \/ DecideStep \/ ResetTrackerStep
  \/ ObserveStep \/ ClearStep \/ DecayStep \/ ResetFeatureStep \/ ResetDetectorStep
  \/ TickStep
  \/ UpdateStep \/ ExportStep \/ TamperStep \/ ImportStep

Spec == Init /\ [][Next]_vars

-----------------------------------------------------------------------------
(* Properties *)

\* The reward of step k of an episode by its definition: the profit of the step, less the
\* penalties for risk and for the distance to the best equity before it
RewardOf(e, k) ==
  LET equity(j) == IF j = 0 THEN e.from ELSE e.steps[j].equity
      before    == {equity(j) : j \in 0 .. k - 1}
      peak      == CHOOSE p \in before : \A q \in before : q \preceq p
      dd        == MaxFrac((peak -- equity(k)) // PnlScale, Zero)
  IN (((equity(k) -- equity(k - 1)) // PnlScale) -- (LambdaRisk ** e.steps[k].risk))
       -- (LambdaDd ** MinFrac(dd, DdCap))

Power(f, n) == LET power[k \in 0 .. n] == IF k = 0 THEN One ELSE power[k - 1] ** f IN power[n]

\* The sum of the first n values, as a tuple, the elements of which TLC evaluates once
SumOver(n, values) == SumFrac(SubSeq(values, 1, n))

ReturnOf(e, t) ==
  LET n == Len(e.steps) - t + 1
  IN SumOver(n, [i \in 1 .. n |-> Power(Gamma, i - 1) ** RewardOf(e, t + i - 1)])

\* A value summed over the steps of the completed episodes that took action a
OverSteps(a, Value(_, _)) ==
  SumOver(Len(closed), [n \in 1 .. Len(closed) |->
    SumOver(Len(closed[n].steps), [k \in 1 .. Len(closed[n].steps) |->
      IF closed[n].over /\ closed[n].steps[k].action = a THEN Value(closed[n], k) ELSE Zero])])

\* The weights of every action solve the regularized least squares problem of the discounted
\* returns of all completed episodes, to which the optimistic bias was added (bayesian_lr.rs
\* update, mc_eval.rs record and compute_returns).
RegressionExact ==
  scenario = "episodes" =>
    \A a \in QAction : \A i \in Coords :
      LET w    == policy.q[a].w
          bias == IF a = "Hold" THEN Zero ELSE LambdaReg ** OptimisticBias
      IN ((LambdaReg ** w[i]) ++ OverSteps(a, LAMBDA e, k : e.steps[k].phi[i] ** Dot(e.steps[k].phi, w)))
           = (bias ++ OverSteps(a, LAMBDA e, k : e.steps[k].phi[i] ** ReturnOf(e, k)))

\* A policy that keeps deciding, and from some point on trades often enough, comes back to no
\* inflation (thompson_sampling.rs 286-292).
LevelRecovers ==
  ([]<><<DecideStep>>_vars /\ <>[]~HoldDegenerate(policy)) => <>[](policy.inflation = One)

\* Two changes of a feature are a grace period of its observations apart, whatever other features
\* do in between (change_point.rs push and observe).
GraceKept ==
  [][\A i \in Features :
       detector'.adwin[i].consecutive > detector.adwin[i].consecutive
         => quiet[i] + 1 >= GracePeriod]_vars

\* The retraining flag is up only after as many changes as it takes since it was last cleared, and
\* while they have not all decayed (change_point.rs observe, decay_recent_changes).
RetrainingJustified ==
  detector.retraining => changes >= RetrainThreshold /\ detector.recent > 0

\* After a decision a strategy has an episode only of a position, or of the entry it decided
\* just now, and one that is not out of time (strategy_b.rs and strategy_c.rs decide).
EpisodesTracked ==
  \A s \in {"B", "C"} : \A entry \in strategies[s].episode :
    /\ now - entry < (IF s = "B" THEN MaxHoldB ELSE MaxHoldC)
    /\ entry = now \/ size[s] # 0

\* A model as an import brings back the one that was exported: a finite one is the same, but for
\* an average of the squared residuals below the floor, which the file raises to it.  Of one that
\* is not, the count of observations and the finite numbers of b and of the matrix remain, the
\* others are zero, and the weights follow from these.
BroughtBack(old, new) ==
  /\ FiniteModel(new) /\ new.n = old.n
  /\ \A i \in Coords :
       /\ new.b[i] = (IF old.b[i] = NotFinite THEN Zero ELSE old.b[i])
       /\ \A j \in Coords :
            new.aInv[i][j] = (IF old.aInv[i][j] = NotFinite THEN Zero ELSE old.aInv[i][j])
  /\ new.w = Apply(new.aInv, new.b)
  /\ FiniteModel(old) => new = [old EXCEPT !.ema = MaxFrac(@, SigmaFloor)]

\* An import that ends without an error leaves all three strategies with finite numbers: with the
\* state that was exported where that was finite, and with zeros in place of the numbers that
\* were not, which is another state than the exported one (engine.rs import_q_state, q_state.rs
\* from_vec, from_column_major, sanitize, write_to_path and read_from_path).
ImportRestores ==
  restored => \E e \in exported : \A sid \in StrategyId : \A a \in QAction :
                BroughtBack(e[sid][a], qs[sid][a])
=============================================================================
