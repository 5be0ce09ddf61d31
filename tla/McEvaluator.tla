----------------------------- MODULE McEvaluator -----------------------------
(***************************************************************************)
(* McEvaluator (strategy/mc_eval.rs): the transitions of an episode with    *)
(* their rewards, the discounted returns when it ends, and the updates of   *)
(* the Q-function by them.                                                  *)
(***************************************************************************)
EXTENDS QFunction

CONSTANTS LambdaRisk, LambdaDd, DdCap, Gamma, PnlScale   \* RewardConfig

ASSUME RewardAssumption ==
  /\ IsFrac(LambdaRisk) /\ IsFrac(LambdaDd) /\ IsFrac(DdCap) /\ IsFrac(Gamma)
  /\ IsFrac(PnlScale) /\ Zero \prec PnlScale

TerminalReason == {"PositionClosed", "MaxHoldTimeExceeded", "DailyHardLimit", "WeeklyHardLimit",
                   "MonthlyHardLimit", "WeekendHalt", "UnknownRegime"}

\* EpisodeBuffer::new
NewBuffer(now, equity) ==
  [start |-> now, transitions |-> <<>>, prevEquity |-> equity, equityPeak |-> equity]

\* The reward of a step of the buffer, before the peak is raised to the step's own equity
Reward(buffer, equity, size, volSq) ==
  LET deltaPnl == (equity -- buffer.prevEquity) // PnlScale
      variance == (size ** size) ** volSq
      drawdown == MaxFrac((buffer.equityPeak -- equity) // PnlScale, Zero)
  IN (deltaPnl -- (LambdaRisk ** variance)) -- (LambdaDd ** MinFrac(drawdown, DdCap))

\* Fault: the equity before the step is not advanced.
RecordedFromStart(buffer, now, action, phi, equity, size, volSq) ==
  [buffer EXCEPT
     !.transitions = Append(@, [at |-> now, action |-> action, phi |-> phi,
                                reward |-> Reward(buffer, equity, size, volSq)]),
     !.equityPeak = MaxFrac(@, equity)]

\* EpisodeBuffer::record
Recorded(buffer, now, action, phi, equity, size, volSq) ==
  [buffer EXCEPT
     !.transitions = Append(@, [at |-> now, action |-> action, phi |-> phi,
                                reward |-> Reward(buffer, equity, size, volSq)]),
     !.equityPeak = MaxFrac(@, equity),
     !.prevEquity = equity]

\* compute_returns: from the last reward back
Returns(rewards) ==
  LET n == Len(rewards)
      g[k \in 0 .. n] == IF k = 0 THEN Zero ELSE rewards[n - k + 1] ++ (Gamma ** g[k - 1])
  IN [i \in 1 .. n |-> g[n - i + 1]]

\* compute_episode_result
EpisodeResult(strategy, buffer, reason, now) ==
  LET rewards == [i \in DOMAIN buffer.transitions |-> buffer.transitions[i].reward]
      returns == Returns(rewards)
  IN [strategy |-> strategy, reason |-> reason, steps |-> Len(rewards),
      total |-> SumFrac(rewards),
      g0 |-> IF returns = <<>> THEN Zero ELSE returns[1],
      duration |-> IF now < buffer.start THEN 0 ELSE now - buffer.start,
      returns |-> returns, transitions |-> buffer.transitions]

\* avg_reward of a result
AvgReward(result) == IF result.steps = 0 THEN Zero ELSE result.total // Whole(result.steps)

\* update_q_function: one update for each transition, in order
Learned(q, result) ==
  LET f[k \in 0 .. Len(result.transitions)] ==
        IF k = 0 THEN q
        ELSE QUpdated(f[k - 1], result.transitions[k].action, result.transitions[k].phi,
                      result.returns[k])
  IN f[Len(result.transitions)]
=============================================================================
