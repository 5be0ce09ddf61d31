---------------------------- MODULE PeriodicLimits ----------------------------
(***************************************************************************)
(* The losses of the day, the week and the month, on which the hard limits *)
(* are judged: the PeriodicLimitTracker of the replay engine and the one of*)
(* the forward runner, which do the same, and the forward runner's         *)
(* TradingHaltState.  Timestamps are counted in ticks of a clock of DayTicks*)
(* to the day, time 0 is the first instant of a Monday, and a month is     *)
(* MonthDays days, the first of which have passed MonthOffset days before. *)
(***************************************************************************)
EXTENDS RiskRules

CONSTANTS DayTicks, MonthDays, MonthOffset

ASSUME CalendarAssumption ==
  /\ DayTicks \in Nat \ {0} /\ MonthDays \in Nat \ {0}
  /\ MonthOffset \in Nat

-----------------------------------------------------------------------------
NoKey == -1

Periods == {"day", "week", "month"}
Period == [key : Int, start : Int]

FreshTracker == [p \in Periods |-> [key |-> NoKey, start |-> 0]]

Weekday(t) == (t \div DayTicks) % 7
PeriodKey(p, t) ==
  CASE p = "day"   -> t \div DayTicks
    [] p = "week"  -> t \div (7 * DayTicks)
    [] p = "month" -> (t \div DayTicks + MonthOffset) \div MonthDays

\* PeriodicLimitTracker::update: a period whose key changed starts again from
\* the PnL realised so far.
Roll(t, time, realized) ==
  [p \in Periods |->
     IF t[p].key = PeriodKey(p, time) THEN t[p]
     ELSE [key |-> PeriodKey(p, time), start |-> realized]]

LimitsOf(t, realized, unrealized) ==
  [dailyMtm      |-> realized - t["day"].start + unrealized,
   dailyRealized |-> realized - t["day"].start,
   weekly        |-> realized - t["week"].start,
   monthly       |-> realized - t["month"].start]

-----------------------------------------------------------------------------
(* TradingHaltState: a halt lasts as long as the period it was set in. *)

Halt == [period : Periods \cup {"none"}, key : Int]
NoHalt == [period |-> "none", key |-> NoKey]

HaltActive(h, time) == h.period \in Periods /\ h.key = PeriodKey(h.period, time)

\* The halt that the strictest of the broken limits asks for
HaltFor(l, time) ==
  LET p == CASE Evaluate(l) = "monthly_halt"        -> "month"
             [] Evaluate(l) = "weekly_halt"         -> "week"
             [] Evaluate(l) = "daily_realized_halt" -> "day"
             [] ~HardBreach(l)                      -> "none"
  IN [period |-> p, key |-> IF p = "none" THEN NoKey ELSE PeriodKey(p, time)]
=============================================================================
