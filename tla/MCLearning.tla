----------------------------- MODULE MCLearning -----------------------------
(***************************************************************************)
(* Values for Learning.  Fractions are given by definitions, because a      *)
(* configuration file cannot hold a tuple of an operator.                   *)
(***************************************************************************)
EXTENDS Learning

Half    == Frac(1, 2)
Quarter == Frac(1, 4)
Tiny    == Frac(1, 1000)
Two     == Whole(2)
Level   == Frac(3, 2)
Level2  == Frac(11, 10)
Cap     == Whole(4)
OneOver == Frac(1, 20)

\* ln(4 c / delta) for a delta of nine tenths
Logs    == <<Frac(3, 2), Frac(11, 5), Frac(13, 5), Frac(29, 10)>>
Decays  == [t \in 1 .. 9 |-> Frac(1, t + 1)]

TwoPhis     == {<<One, Zero>>, <<One, One>>}
\* Two that are finite, a return that is not, and a feature that is not
FourObservations ==
  {[phi |-> phi, y |-> One] : phi \in TwoPhis}
    \cup {[phi |-> <<One, Zero>>, y |-> NotFinite], [phi |-> <<One, NotFinite>>, y |-> One]}
TwoEquities == {Zero, Two}
ThreeSamples ==
  {[phi |-> <<One, Zero>>, equity |-> Two, lots |-> One, volSq |-> Zero],
   [phi |-> <<One, One>>, equity |-> Zero, lots |-> One, volSq |-> Zero],
   [phi |-> <<One, One>>, equity |-> Whole(3), lots |-> Two, volSq |-> One]}
TwoKls      == {Zero, One}
TwoValues   == {Zero, Two}

\* Buy is best, both look alike, holding is best
ThreeRaws ==
  {[Buy |-> Two, Sell |-> Zero, Hold |-> One], [Buy |-> Two, Sell |-> Two, Hold |-> Zero],
   [Buy |-> Zero, Sell |-> One, Hold |-> Two]}
TwoStates == {[global |-> 0, limit |-> 1, multiplier |-> One],
              [global |-> 1, limit |-> 1, multiplier |-> Half]}

FeaturesOfB ==
  {[volRatio |-> Two, volDecay |-> Zero -- One, obi |-> o, selfImpact |-> Zero,
    dynamicCost |-> Zero, held |-> 0] : o \in {One}}
FeaturesOfC ==
  {[tokyo |-> Zero, london |-> One, ny |-> Zero, sydney |-> Zero, obi |-> One, sinceOpen |-> t,
    selfImpact |-> Zero, dynamicCost |-> Zero, held |-> 0] : t \in {0}}

-----------------------------------------------------------------------------
(* Facts of the functions the scenarios do not run through, over all small inputs *)

Grid == {Whole(-2), Whole(-1), Frac(-1, 2), Zero, Frac(1, 2), One, Whole(3)}

\* The three signals are shares, whatever the market does (compute_p_revert_a,
\* compute_p_continue_b, compute_p_trend_c), and the time decay of an episode only falls.
ASSUME SignalsAreShares ==
  LET Share(v) == Zero \preceq v /\ v \preceq One
  IN \A a, b, c \in Grid :
       /\ Share(PRevertA([spreadZ |-> a, depthChange |-> b, volRatio |-> c]))
       /\ Share(PContinueB([volDecay |-> a, obi |-> b, intensity |-> MaxFrac(c, Zero)]))
       /\ \A t \in 0 .. 3 :
            Share(PTrendC([obi |-> a, tokyo |-> Zero, london |-> Clamp(b, Zero, One), ny |-> Zero,
                           sydney |-> Zero, sinceOpen |-> t]))
       /\ \A t \in 0 .. 3 : TimeDecay(t + 1, DecayRateA) \preceq TimeDecay(t, DecayRateA)

Market(obi, held) ==
  [spreadZ |-> Whole(3), obi |-> obi, selfImpact |-> One, depthChange |-> Zero -- One,
   volRatio |-> Two, volDecay |-> Zero -- One, volatility |-> Half, deltaObi |-> Half,
   intensity |-> One, signedVolume |-> One, queuePosition |-> Half, tokyo |-> Zero,
   london |-> One, ny |-> Zero, sydney |-> Zero, sinceOpen |-> 1, held |-> held]

\* Each strategy appends five features, none of which depends on the side of the position, and
\* the longer a position is held the smaller is one of them, the rest being the same; A is
\* triggered by this shock whatever the imbalance (extract_features, is_triggered).
ASSUME FeaturesAppended ==
  \A obi \in Grid, held \in 0 .. 3 :
    LET new == Market(obi, held)
        old == Market(obi, held + 1)
    IN /\ IsTriggeredA(new, Zero) /\ ~IsTriggeredA(new, One)
       /\ \A p \in {<<ExtractFeaturesA(new), ExtractFeaturesA(old)>>,
                    <<ExtractFeaturesB(new), ExtractFeaturesB(old)>>,
                    <<ExtractFeaturesC(new), ExtractFeaturesC(old)>>} :
            /\ Len(p[1]) = 5
            /\ \A i \in 1 .. 5 : IF i = 4 THEN p[2][i] \prec p[1][i] ELSE p[2][i] = p[1][i]

\* Time is left exactly while an episode need not end (remaining_hold_time_ms).
ASSUME RemainingAgrees ==
  \A entry \in 0 .. 4, t \in 0 .. 8 : entry <= t =>
    LET s == StartEpisode(NewStrategy, entry)
    IN /\ (RemainingB(s, t) = 0) <=> ShouldEndB(s, t)
       /\ (RemainingC(s, t) = 0) <=> ShouldEndC(s, t)
       /\ RemainingB(EndEpisode(s), t) = 0

TwoUpdates(phi, psi) == QUpdated(QUpdated(NewQ, "Buy", phi, One), "Buy", psi, Two)
Certainty(q, phi) == Dot(phi, Apply(q["Buy"].aInv, phi))

\* Learning keeps the posterior a posterior: the covariance stays positive definite, what was
\* seen is more certain than before, whatever direction it was seen in, and only the action
\* that was updated has changed, its strategy by no other way (bayesian_lr.rs update,
\* QFunction update, strategy update_q_function).
ASSUME LearningIsCertain ==
  \A phi, psi \in Phis :
    LET q == TwoUpdates(phi, psi)
    IN /\ PositiveDefinite(q["Buy"].aInv)
       /\ \A x \in {phi, psi} : Certainty(q, x) \prec Certainty(NewQ, x)
       /\ \A a \in {"Sell", "Hold"} : q[a] = NewQ[a]
       /\ \A a \in QAction : Zero \preceq QVariances(q, phi)[a]
       /\ UpdateB(UpdateB(NewStrategyB, "Buy", phi, One), "Buy", psi, Two).q = q
       /\ UpdateC(UpdateC(NewStrategyC, "Buy", phi, One), "Buy", psi, Two).q = q

\* A model that met a feature without a number comes back from a file with a matrix of zeros: it
\* predicts zero with no variance, and nothing it observes from then on changes that
\* (bayesian_lr.rs update, from_snapshot; q_state.rs from_column_major).
ASSUME LostMatrixNeverLearns ==
  \A phi, psi \in Phis : \A m \in UpdatesOf(Updated(Biased(NewModel), phi, One), <<One, NotFinite>>, One) :
    LET back == Restored(SanitizedModel(Snapshot(m)))
        next == Updated(back, psi, One)
    IN /\ Accepted(SanitizedModel(Snapshot(m)))
       /\ \A x \in {back, next} :
            /\ FiniteModel(x) /\ Predict(x, phi) = Zero /\ PosteriorVariance(x, phi) = Zero
            /\ x.aInv = back.aInv /\ x.w = back.w

\* A reset forgets what was learned but for the noise, of one action or of all; a full reset
\* forgets the noise too; and a policy that was reset samples around its prior (bayesian_lr.rs
\* reset, reset_full; thompson_sampling.rs reset_action, reset_all).
ASSUME ResetForgets ==
  \A phi, psi \in Phis :
    LET q == TwoUpdates(phi, psi)
        Noiseless(m) == [m EXCEPT !.sigma2 = Zero, !.ema = Zero]
    IN /\ ResetAllFull(q) = NewQ
       /\ ResetAll(q) = ResetAction(q, "Buy")
       /\ Noiseless(ResetAll(q)["Buy"]) = Noiseless(NewQ["Buy"])
       /\ SampledQ(ResetAll(q)["Buy"], phi, {Zero}) = {Predict(NewQ["Buy"], phi)}

\* The rewards of an episode and their average add up to its total, whatever ended it, and an
\* episode of no steps has none (mc_eval.rs compute_episode_result, avg_reward).
ASSUME RewardsAverage ==
  \A reason \in TerminalReason, s \in Samples :
    LET one  == Recorded(NewBuffer(0, Zero), 1, "Buy", s.phi, s.equity, s.lots, s.volSq)
        two  == Recorded(one, 2, "Buy", s.phi, Zero, s.lots, s.volSq)
        done == EpisodeResult("A", two, reason, 3)
    IN /\ AvgReward(done) ** Whole(done.steps) = done.total
       /\ done.g0 = done.returns[1] /\ done.returns[2] = two.transitions[2].reward
       /\ AvgReward(EpisodeResult("A", NewBuffer(5, Zero), reason, 3)) = Zero
       /\ EpisodeResult("A", NewBuffer(5, Zero), reason, 3).duration = 0
=============================================================================
