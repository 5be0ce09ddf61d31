\* Positions held together: one of them loses the week, another wins it back.
CONSTANTS
  LotSize = 4
  LotUnit = 4
  MinLot = 1
  BarrierLot = 4
  GlobalLimit = 5
  SnapshotLimit = 5
  MtmDivisor = 4
  QThreshold = 2
  MaxDailyMtm <- Loss4
  MaxDailyRealized <- NoLimit
  MaxWeekly <- Loss4
  MaxMonthly <- NoLimit
  MinEpisodes = 2
  DeathWindows = 1
  Enabled = {"A", "B"}
  Learning = TRUE
  KillSwitchEnabled = FALSE
  MaxHold = 2
  DayTicks = 4
  WeekendGap = 2
  MonthDays = 30
  MonthOffset = 0
  StartTimes = {16}
  Steps = {1}
  Prices = {10, 12}
  Slippages = {0}
  QValues = {2}
  FillOutcomes = {TRUE}
  Anomalies = {FALSE, TRUE}
  RegimeStates = {FALSE}
  UndecodableTicks = FALSE
  MaxTicks = 3
  MaxBatches = 2
SPECIFICATION Spec
PROPERTY HardHaltHolds
