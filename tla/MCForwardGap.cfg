\* A feed that loses three ticks at a time, as many as a severe gap has.
CONSTANTS
  LotSize = 8
  LotUnit = 8
  MinLot = 1
  BarrierLot = 8
  GlobalLimit = 1
  SnapshotLimit = 1
  MtmDivisor = 4
  QThreshold = 2
  MaxDailyMtm <- Loss4
  MaxDailyRealized <- Loss9
  MaxWeekly <- Loss20
  MaxMonthly <- NoLimit
  MinEpisodes = 1
  DeathWindows = 1
  Enabled = {"A", "B"}
  MaxHold <- HoldTimes
  DayTicks = 4
  MonthDays = 30
  MonthOffset = 0
  StartTimes = {16}
  Steps = {1, 4}
  Prices = {10, 12}
  Slippages = {0}
  PointQs = {1}
  FillOutcomes = {TRUE}
  Anomalies = {FALSE}
  LostTicks = {0, 3}
  MinorTicks = 1
  SevereTicks = 3
  RegimeStates = {FALSE}
  FeedErrors = FALSE
  MaxTicks = 3
SPECIFICATION Spec
PROPERTY
  SevereGapHalts
