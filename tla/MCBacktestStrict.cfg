\* Two strategies whose lot exceeds the global limit, as in the defaults: three
\* ticks of a Friday and the Monday after it, every gate and every rejection.
CONSTANTS
  LotSize = 8
  LotUnit = 8
  MinLot = 1
  BarrierLot = 8
  GlobalLimit = 1
  SnapshotLimit = 1
  MtmDivisor = 4
  QThreshold = 2
  MaxDailyMtm <- Loss4
  MaxDailyRealized <- Loss9
  MaxWeekly <- Loss20
  MaxMonthly <- NoLimit
  MinEpisodes = 1
  DeathWindows = 1
  Enabled = {"A", "B"}
  Learning = TRUE
  KillSwitchEnabled = TRUE
  MaxHold = 3
  DayTicks = 4
  WeekendGap = 2
  MonthDays = 30
  MonthOffset = 0
  StartTimes = {16}
  Steps = {1, 12}
  Prices = {10, 12}
  Slippages = {0}
  QValues = {1, 2}
  FillOutcomes = {TRUE, FALSE}
  Anomalies = {TRUE, FALSE}
  RegimeStates = {TRUE, FALSE}
  UndecodableTicks = TRUE
  MaxTicks = 3
  MaxBatches = 1
SPECIFICATION Spec
INVARIANTS
  EpisodeMatchesPosition
  CulledIsFlat
PROPERTIES
  EntryGated
  HardHaltHolds
