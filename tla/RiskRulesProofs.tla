--------------------------- MODULE RiskRulesProofs ---------------------------
(***************************************************************************)
(* Lemmas about the operators of RiskRules and PeriodicLimits, which both  *)
(* engines are built from, for every value of their constants.             *)
(***************************************************************************)
EXTENDS PeriodicLimits, TLAPS

-----------------------------------------------------------------------------
(* Positions, orders and episodes *)

\* The loops of Phases 1 and 2 visit a member of the set that is left.
LEMMA FirstIsMember ==
  ASSUME NEW S \in SUBSET Strategies, S # {}
  PROVE  First(S) \in S
<1> DEFINE Leads(s) == \A x \in S : StableIndex[s] <= StableIndex[x]
<1>1. \E s \in S : Leads(s)
  <2>1. CASE "A" \in S
    BY <2>1 DEF Strategies, StableIndex
  <2>2. CASE "A" \notin S /\ "B" \in S
    BY <2>2 DEF Strategies, StableIndex
  <2>3. CASE "A" \notin S /\ "B" \notin S
    <3>1. S = {"C"}
      BY <2>3 DEF Strategies
    <3> QED BY <3>1 DEF Strategies, StableIndex
  <2> QED BY <2>1, <2>2, <2>3
<1> QED BY <1>1 DEF First

LEMMA MagnitudeType ==
  ASSUME NEW x \in Int
  PROVE  /\ Magnitude(x) \in Nat
         /\ Magnitude(x) = 0 <=> x = 0
         /\ Sign(x) \in {-1, 0, 1}
BY DEF Magnitude, Sign

\* A fill leaves a position a position.
LEMMA FillType ==
  ASSUME NEW p \in Position, NEW size \in Int, NEW price \in Int, NEW time \in Nat
  PROVE  UpdatePositionFromFill(p, size, price, time) \in Position
<1> DEFINE closed == Least(Magnitude(size), Magnitude(p.size))
           gain   == (price - p.entry) * Sign(p.size) * closed
           total  == Magnitude(p.size) + Magnitude(size)
<1>1. /\ p.size \in Int /\ p.entry \in Int /\ p.since \in Nat
      /\ p.realized \in Int /\ p.unrealized \in Int
  BY DEF Position
<1>2. closed \in Int /\ gain \in Int
  BY <1>1, MagnitudeType DEF Least
<1>3. CASE size = 0
  BY <1>3 DEF UpdatePositionFromFill
<1>4. CASE size # 0 /\ p.size = 0
  BY <1>1, <1>4 DEF UpdatePositionFromFill, Position
<1>5. CASE size # 0 /\ p.size # 0 /\ Sign(size) = Sign(p.size)
  <2> DEFINE cost == p.entry * Magnitude(p.size) + price * Magnitude(size)
  <2>1. total \in Nat \ {0} /\ cost \in Int
    BY <1>1, <1>5, MagnitudeType
  <2>2. cost \div total \in Int
    <3> HIDE DEF cost, total
    <3> QED BY <2>1
  <2>3. UpdatePositionFromFill(p, size, price, time) =
          [p EXCEPT !.size = p.size + size, !.entry = cost \div total]
    BY <1>1, <1>5 DEF UpdatePositionFromFill
  <2>4. p.size + size \in Int
    BY <1>1
  <2> HIDE DEF cost, total
  <2> QED BY <1>1, <2>2, <2>3, <2>4 DEF Position
<1>6. CASE size # 0 /\ p.size # 0 /\ Sign(size) # Sign(p.size)
  <2>1. UpdatePositionFromFill(p, size, price, time) =
          IF p.size + size = 0
          THEN [NoPosition EXCEPT !.realized = p.realized + gain]
          ELSE [p EXCEPT !.size = p.size + size, !.realized = p.realized + gain]
    BY <1>1, <1>6 DEF UpdatePositionFromFill
  <2> HIDE DEF closed, gain
  <2>2. p.realized + gain \in Int /\ p.size + size \in Int
    BY <1>1, <1>2
  <2> DEFINE after == UpdatePositionFromFill(p, size, price, time)
  <2> HIDE DEF after
  <2>3. CASE p.size + size = 0
    <3>1. after = [NoPosition EXCEPT !.realized = p.realized + gain]
      BY <2>1, <2>3 DEF after
    <3> QED BY <3>1, <2>2 DEF Position, NoPosition, after
  <2>4. CASE p.size + size # 0
    <3>1. after = [p EXCEPT !.size = p.size + size, !.realized = p.realized + gain]
      BY <2>1, <2>4 DEF after
    <3>2. after \in Position
      BY <1>1, <3>1, <2>2 DEF Position
    <3> QED BY <3>2 DEF after
  <2> QED BY <2>3, <2>4
<1> QED BY <1>3, <1>4, <1>5, <1>6

\* A fill of the opposite size leaves the position flat.
LEMMA FullCloseIsFlat ==
  ASSUME NEW p \in Position, NEW size \in Int, p.size + size = 0,
         NEW price \in Int, NEW time \in Nat
  PROVE  UpdatePositionFromFill(p, size, price, time).size = 0
<1>1. p.size \in Int
  BY DEF Position
<1>2. CASE size = 0
  <2>1. UpdatePositionFromFill(p, size, price, time) = p
    BY <1>2 DEF UpdatePositionFromFill
  <2> QED BY <1>1, <1>2, <2>1
<1>3. CASE size # 0
  <2> DEFINE after == UpdatePositionFromFill(p, size, price, time)
             gain  == (price - p.entry) * Sign(p.size)
                        * Least(Magnitude(size), Magnitude(p.size))
  <2>1. p.size # 0 /\ Sign(size) # Sign(p.size)
    BY <1>1, <1>3 DEF Sign
  <2>2. after = [NoPosition EXCEPT !.realized = p.realized + gain]
    BY <1>3, <2>1 DEF UpdatePositionFromFill
  <2> HIDE DEF after, gain
  <2>3. after.size = 0
    BY <2>2 DEF NoPosition
  <2> QED BY <2>3 DEF after
<1> QED BY <1>2, <1>3

\* A fill on a flat position opens one of the size filled.
LEMMA FillOpens ==
  ASSUME NEW p \in Position, p.size = 0, NEW size \in Int, size # 0,
         NEW price \in Int, NEW time \in Nat
  PROVE  UpdatePositionFromFill(p, size, price, time).size = size
BY DEF UpdatePositionFromFill, Position

LEMMA LotsType ==
  ASSUME NEW l \in LimitState, NEW net \in Int, NEW rank
  PROVE  EffectiveLots(l, net, rank) \in Int
<1> DEFINE divisor == LotDivisor(net, rank) * (IF MtmLimited(l) THEN MtmDivisor ELSE 1)
<1>1. divisor \in Nat \ {0}
  BY SizesAssumption DEF LotDivisor, RankDivisor
<1>2. LotSize \div divisor \in Int
  <2> HIDE DEF divisor
  <2> QED BY <1>1, SizesAssumption
<1> HIDE DEF divisor
<1>3. EffectiveLots(l, net, rank) = Least(LotSize \div divisor, BarrierLot)
  BY DEF EffectiveLots, divisor
<1> QED BY <1>2, <1>3, SizesAssumption DEF Least

LEMMA RecordEpisodeType ==
  ASSUME NEW l \in Life, NEW bad \in BOOLEAN, NEW breach \in BOOLEAN
  PROVE  RecordEpisode(l, bad, breach) \in Life
BY SizesAssumption DEF RecordEpisode, Life, Least

LEMMA MarkToMarketType ==
  ASSUME NEW p \in Position, NEW price \in Int
  PROVE  /\ MarkToMarket(p, price) \in Position
         /\ MarkToMarket(p, price).size = p.size
BY DEF MarkToMarket, Position, IsOpen

LEMMA PeriodKeyType ==
  ASSUME NEW p \in Periods, NEW t \in Nat
  PROVE  PeriodKey(p, t) \in Int /\ PeriodKey(p, t) # NoKey
<1> DEFINE days == t \div DayTicks
<1>1. days \in Nat /\ t \div (7 * DayTicks) \in Nat
  BY CalendarAssumption
<1> HIDE DEF days
<1>2. (days + MonthOffset) \div MonthDays \in Nat
  BY <1>1, CalendarAssumption
<1> QED BY <1>1, <1>2 DEF PeriodKey, Periods, NoKey, days

\* The aggregates of a book of positions are integers.
LEMMA NetType ==
  ASSUME NEW b \in [Strategies -> Position]
  PROVE  NetSize(b) \in Int /\ NetRealized(b) \in Int /\ NetUnrealized(b) \in Int
<1>1. \A s \in Strategies : b[s].size \in Int /\ b[s].realized \in Int /\ b[s].unrealized \in Int
  BY DEF Position
<1> QED BY <1>1 DEF NetSize, NetRealized, NetUnrealized, Strategies

\* The limits follow from the totals, and each period's base stays a number.
LEMMA RollType ==
  ASSUME NEW t \in [Periods -> Period], NEW time \in Nat, NEW realized \in Int
  PROVE  Roll(t, time, realized) \in [Periods -> Period]
BY PeriodKeyType DEF Roll, Period

LEMMA LimitsType ==
  ASSUME NEW t \in [Periods -> Period], NEW realized \in Int, NEW unrealized \in Int
  PROVE  LimitsOf(t, realized, unrealized) \in LimitState
<1>1. \A p \in Periods : t[p].start \in Int
  BY DEF Period
<1> QED BY <1>1 DEF LimitsOf, LimitState, Periods

\* A hard limit is broken when one of the realised losses is below its floor.
LEMMA BreachMeans ==
  ASSUME NEW l \in LimitState
  PROVE  HardBreach(l) <=> \/ l.monthly < MaxMonthly \/ l.weekly < MaxWeekly
                           \/ l.dailyRealized < MaxDailyRealized
BY LossesAssumption DEF HardBreach, Evaluate, LimitState

\* The first order of a book that is flat is reduced for the daily MTM stage at most.
LEMMA FirstLots ==
  ASSUME NEW l \in LimitState, NEW rank, GlobalLimit > 0
  PROVE  EffectiveLots(l, 0, rank) >= Least(LotSize \div MtmDivisor, BarrierLot)
<1> DEFINE reduced == LotSize \div MtmDivisor
<1>1. LotDivisor(0, rank) = 1
  BY SizesAssumption DEF LotDivisor, Magnitude
<1>2. reduced \in Nat /\ reduced <= LotSize
  BY SizesAssumption
<1>3. LotSize \div 1 = LotSize
  BY SizesAssumption
<1>4. EffectiveLots(l, 0, rank) \in {Least(LotSize, BarrierLot), Least(reduced, BarrierLot)}
  BY <1>1, <1>3, SizesAssumption DEF EffectiveLots
<1> HIDE DEF reduced
<1>5. Least(LotSize, BarrierLot) >= Least(reduced, BarrierLot)
      /\ Least(reduced, BarrierLot) \in Int
  BY <1>2, SizesAssumption DEF Least
<1> QED BY <1>4, <1>5 DEF reduced

\* A position beyond the global limit leaves no room for another order.
LEMMA NoRoomBeyondLimit ==
  ASSUME NEW net \in Int, NEW delta, NEW rank, GlobalCheckPasses(net, delta, rank)
  PROVE  ~(Magnitude(net) > GlobalLimit)
<1>1. Magnitude(net) <= GlobalLimit
  BY DEF GlobalCheckPasses, WithinGlobalLimit
<1> QED BY <1>1, MagnitudeType, SizesAssumption

\* The first order passes only where there is a limit to pass.
LEMMA PassingNeedsLimit ==
  ASSUME NEW delta \in Int, delta # 0, NEW rank, GlobalCheckPasses(0, delta, rank)
  PROVE  GlobalLimit > 0
<1>1. Magnitude(0 * LotUnit + delta) <= GlobalLimit * LotUnit
  BY DEF GlobalCheckPasses, WithinGlobalLimit
<1>2. 0 * LotUnit + delta = delta
  BY SizesAssumption
<1>3. Magnitude(delta) > 0
  BY DEF Magnitude
<1>4. CASE GlobalLimit = 0
  <2>1. 0 * LotUnit = 0
    BY SizesAssumption
  <2>2. Magnitude(delta) <= 0
    BY <1>1, <1>2, <1>4, <2>1
  <2> QED BY <1>3, <2>2, MagnitudeType
<1> QED BY <1>4, SizesAssumption

\* A broken hard limit asks for a halt until the end of one of the periods.
LEMMA BreachHalts ==
  ASSUME NEW l \in LimitState, HardBreach(l), NEW time \in Nat
  PROVE  \E p \in Periods : HaltFor(l, time) = [period |-> p, key |-> PeriodKey(p, time)]
<1>1. CASE Evaluate(l) = "monthly_halt"
  <2>1. HaltFor(l, time) = [period |-> "month", key |-> PeriodKey("month", time)]
    BY <1>1 DEF HaltFor, HardBreach
  <2> QED BY <2>1 DEF Periods
<1>2. CASE Evaluate(l) = "weekly_halt"
  <2>1. HaltFor(l, time) = [period |-> "week", key |-> PeriodKey("week", time)]
    BY <1>2 DEF HaltFor, HardBreach
  <2> QED BY <2>1 DEF Periods
<1>3. CASE Evaluate(l) = "daily_realized_halt"
  <2>1. HaltFor(l, time) = [period |-> "day", key |-> PeriodKey("day", time)]
    BY <1>3 DEF HaltFor, HardBreach
  <2> QED BY <2>1 DEF Periods
<1>4. Evaluate(l) \in {"monthly_halt", "weekly_halt", "daily_realized_halt"}
  BY LossesAssumption DEF HardBreach, Evaluate, LimitState
<1> QED BY <1>1, <1>2, <1>3, <1>4
=============================================================================
