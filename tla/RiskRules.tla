------------------------------ MODULE RiskRules ------------------------------
(***************************************************************************)
(* The rules an order passes before it is sent, and the book a fill is     *)
(* entered in: the loss limits (risk/limits.rs), the position constraint   *)
(* across strategies (risk/global_position.rs), the position arithmetic    *)
(* (events/projector.rs) and the culling rule (risk/lifecycle.rs).  All of *)
(* them are functions of their arguments; BacktestEngine is the state      *)
(* machine that calls them.                                                *)
(*                                                                         *)
(* Amounts are integers: a position is counted in currency units, an order *)
(* in the same units, and LotUnit of them are one unit of the global       *)
(* limit, so that the code's quotients become products here.               *)
(***************************************************************************)
EXTENDS Integers, FiniteSets

CONSTANTS LotSize,           \* default_lot_size of every strategy
          LotUnit,           \* lot_unit_size of GlobalPositionConfig
          MinLot,            \* min_lot_size of GlobalPositionConfig
          BarrierLot,        \* effective lot of the staleness barrier at 0 ms
          GlobalLimit,       \* compute_global_limit of the configuration
          MtmDivisor,        \* 1 / daily_mtm_lot_fraction
          QThreshold,        \* daily_mtm_q_threshold
          MaxDailyMtm, MaxDailyRealized, MaxWeekly, MaxMonthly,
          MinEpisodes,       \* min_episodes_for_eval
          DeathWindows       \* consecutive_death_windows

ASSUME SizesAssumption ==
  /\ LotSize \in Nat \ {0} /\ LotUnit \in Nat \ {0} /\ MtmDivisor \in Nat \ {0}
  /\ MinLot \in Nat /\ BarrierLot \in Nat /\ GlobalLimit \in Nat
  /\ QThreshold \in Nat
  /\ MinEpisodes \in Nat /\ DeathWindows \in Nat \ {0}

\* The limits are losses: negative thresholds that a PnL falls below.
ASSUME LossesAssumption ==
  /\ MaxDailyMtm \in Int /\ MaxDailyRealized \in Int
  /\ MaxWeekly \in Int /\ MaxMonthly \in Int

-----------------------------------------------------------------------------
Strategies == {"A", "B", "C"}

\* StrategyId::stable_index, the tie-break of every ordering by Q-value.
StableIndex == [s \in Strategies |-> IF s = "A" THEN 0 ELSE IF s = "B" THEN 1 ELSE 2]

\* The first of S in the order of StrategyId::all
First(S) == CHOOSE s \in S : \A x \in S : StableIndex[s] <= StableIndex[x]

Magnitude(x) == IF x < 0 THEN -x ELSE x
Sign(x) == IF x > 0 THEN 1 ELSE IF x < 0 THEN -1 ELSE 0
Least(x, y) == IF x < y THEN x ELSE y

-----------------------------------------------------------------------------
(* The position book of StateProjector. *)

Position == [size : Int, entry : Int, since : Nat, realized : Int, unrealized : Int]

NoPosition == [size |-> 0, entry |-> 0, since |-> 0, realized |-> 0, unrealized |-> 0]

FlatBook == [s \in Strategies |-> NoPosition]

IsOpen(p) == p.size # 0

\* update_position_from_fill: open, add to (at the average price), or reduce.
\* A reduction through zero keeps the old entry price and timestamp.
UpdatePositionFromFill(p, size, price, time) ==
  LET closed == Least(Magnitude(size), Magnitude(p.size))
      gain   == (price - p.entry) * Sign(p.size) * closed
      total  == Magnitude(p.size) + Magnitude(size)
  IN CASE size = 0 -> p
       [] size # 0 /\ p.size = 0 ->
            [p EXCEPT !.size = size, !.entry = price, !.since = time]
       [] size # 0 /\ p.size # 0 /\ Sign(size) = Sign(p.size) ->
            [p EXCEPT !.size = @ + size,
                      !.entry = (@ * Magnitude(p.size) + price * Magnitude(size)) \div total]
       [] size # 0 /\ p.size # 0 /\ Sign(size) # Sign(p.size) ->
            IF p.size + size = 0
            THEN [NoPosition EXCEPT !.realized = p.realized + gain]
            ELSE [p EXCEPT !.size = @ + size, !.realized = @ + gain]

\* recompute_unrealized_pnl, for one position
MarkToMarket(p, mid) ==
  [p EXCEPT !.unrealized = IF IsOpen(p) THEN (mid - p.entry) * p.size ELSE 0]

NetSize(book)       == book["A"].size + book["B"].size + book["C"].size
NetRealized(book)   == book["A"].realized + book["B"].realized + book["C"].realized
NetUnrealized(book) == book["A"].unrealized + book["B"].unrealized + book["C"].unrealized

-----------------------------------------------------------------------------
(* HierarchicalRiskLimiter *)

LimitState == [dailyMtm : Int, dailyRealized : Int, weekly : Int, monthly : Int]

NoLosses == [dailyMtm |-> 0, dailyRealized |-> 0, weekly |-> 0, monthly |-> 0]

\* evaluate: the strictest limit that is broken, months before weeks before days.
Evaluate(l) ==
  CASE l.monthly < MaxMonthly -> "monthly_halt"
    [] l.monthly >= MaxMonthly /\ l.weekly < MaxWeekly -> "weekly_halt"
    [] /\ l.monthly >= MaxMonthly /\ l.weekly >= MaxWeekly
       /\ l.dailyRealized < MaxDailyRealized -> "daily_realized_halt"
    [] /\ l.monthly >= MaxMonthly /\ l.weekly >= MaxWeekly
       /\ l.dailyRealized >= MaxDailyRealized ->
         IF l.dailyMtm < MaxDailyMtm THEN "mtm_limited" ELSE "clear"

HardBreach(l) == Evaluate(l) \notin {"mtm_limited", "clear"}
MtmLimited(l) == Evaluate(l) = "mtm_limited"

\* passes_q_threshold: either of the two values is enough.
PassesQThreshold(l, qBuy, qSell) ==
  MtmLimited(l) => Magnitude(qBuy) >= QThreshold \/ Magnitude(qSell) >= QThreshold

-----------------------------------------------------------------------------
(* GlobalPositionChecker *)

\* The rank of s among the strategies that decided this tick, by |Q|.
PriorityRank(s, q, decided) ==
  Cardinality({x \in decided :
                 \/ Magnitude(q[x]) > Magnitude(q[s])
                 \/ /\ Magnitude(q[x]) = Magnitude(q[s])
                    /\ StableIndex[x] < StableIndex[s]})

\* compute_priority_lot_factor is 1 / RankDivisor(rank); three strategies, three ranks.
RankDivisor(rank) == IF rank = 0 THEN 1 ELSE IF rank = 1 THEN 2 ELSE 4

\* Fault: the constraint looks at the order alone.
WithinGlobalLimitPerOrder(net, delta) ==
  Magnitude(delta) <= GlobalLimit * LotUnit

\* |global_position + delta| <= P_max, and the position held is within it already.
WithinGlobalLimit(net, delta) ==
  /\ Magnitude(net * LotUnit + delta) <= GlobalLimit * LotUnit
  /\ Magnitude(net) <= GlobalLimit

\* At 70 % of the limit and above, all but the first in rank are reduced.
LotDivisor(net, rank) ==
  IF rank = 0 \/ (GlobalLimit > 0 /\ 10 * Magnitude(net) < 7 * GlobalLimit)
  THEN 1 ELSE RankDivisor(rank)

GlobalCheckPasses(net, delta, rank) ==
  /\ WithinGlobalLimit(net, delta)
  /\ LotDivisor(net, rank) > 1 => LotSize >= MinLot * LotDivisor(net, rank)

\* The lots sent: reduced for rank and for the daily MTM stage, capped by the
\* barrier, truncated to whole units.
EffectiveLots(l, net, rank) ==
  Least(LotSize \div (LotDivisor(net, rank) * (IF MtmLimited(l) THEN MtmDivisor ELSE 1)),
        BarrierLot)

-----------------------------------------------------------------------------
(* LifecycleManager *)

Life == [alive : BOOLEAN, episodes : Nat, badWindows : Nat]

Newborn == [alive |-> TRUE, episodes |-> 0, badWindows |-> 0]

\* record_episode: sharpeBad and pnlBreach say how the rolling Sharpe ratio and
\* the regime PnL compare with their floors.  Counters stop at the values past
\* which nothing depends on them.
RecordEpisode(l, sharpeBad, pnlBreach) ==
  LET episodes  == Least(l.episodes + 1, MinEpisodes)
      evaluated == l.episodes + 1 >= MinEpisodes
      bad       == CASE ~evaluated -> l.badWindows
                     [] evaluated /\ sharpeBad -> Least(l.badWindows + 1, DeathWindows)
                     [] evaluated /\ ~sharpeBad -> 0
  IN [alive      |-> l.alive /\ ~(evaluated /\ (bad >= DeathWindows \/ pnlBreach)),
      episodes   |-> episodes,
      badWindows |-> bad]

\* revive, called for the culled strategies only
Revive(l) == IF l.alive THEN l ELSE Newborn
=============================================================================
