SPECIFICATION Spec
CONSTANTS
  Tasks = {t1, t2}
  Numbers = {1, 3}
  MaxFixCalls = 3
  Kinds = {"Logout"}
  Unparsable = Unparsable
  EmptyCell = EmptyCell
  Second = 1
  NanosFrom = 10
  Word = 1024
  Hour = 1
  SpringForward = 2
  FallBack = 6
  WindowSize = 2
  BatchSize = 2
  SquareRoot <- McRoot
  Files <- McFiles
  Periods <- McPeriods
  MaxRestarts = 1
  AlertInterval = 2
  RiskThreshold <- McHalf
  DriftThreshold <- McHalf
  SharpeThreshold <- McHalf
  TrackerWindow = 2
  Thresholds <- McThresholds
  DebounceTicks = 2
  StatsWindow = 2
  Amounts <- McAmounts
  DayLosses <- McLosses
  Marks = 4
  Evaluations = 4
  Times = 5
  Ttl = 1
  ObsWindow = 3
  ScoreFloor <- McHalf
  ScoreShare <- McHalf
  SnapshotInterval = 2
  SoftEntropy <- McSoft
  Distance <- McDistance
  Situations <- McSituations
  ObservedDecisions <- McDecisions
  ObservedTicks = 3
  SpreadWindow = 2
  ObiWindow = 2
  VolWindow = 2
  VolLongWindow = 3
  IntensityWindow = 2
  ExecutionLag = 2
  TypicalLot <- One
  SessionHours <- McHours
  HoursOf <- McHoursOf
  MidCapacity = 3
  SpikeSamples = 2
  SpikeWindow = 2
  SpikeFactor <- One
  NoSpike = 24
  SpikeSpan = 2
  ExecAlpha <- McHalf
  Root <- McRoot
  LogReturn <- McReturn
  ExpOf <- McExpOf
  NRegimes = 2
  RegimeDim = 38
  UnknownThreshold <- McHalf
  ArCoeff <- McHalf
  LnRegimes <- McHalf
  PLogP <- McPLogP
  ExpScore <- McExpScore
  Hosts = {"backtest", "forward"}
  Found <- McFound
  Quotes <- McQuotes
  Steps = {1, 3}
  Fills <- McFills
  Answers <- McAnswers
  MaxQuotes = 3
  MaxFills = 1
  StalenessLimit = 4
  WarningLimit = 2
  MinMultiplier <- McTenth
  BarrierDefaultLot = 10
  BarrierMaxLot = 8
  BarrierMinLot = 2
  PriorAlpha <- McTwo
  PriorBeta <- One
  VolPenalty <- McHalf
  MarketFill <- One
  LimitFill <- McHalf
  LimitDecay <- McDecay
  HiddenLiquidity <- McTenth
  SizeCost <- Zero
  RootCost <- McTenth
  VolCost <- McTenth
  SellImprovement <- Zero
  SizeRoot <- McRoot
  ProfitFloor <- McTenth
  FillFloor <- McHalf
  Providers = {"lp1", "lp2"}
  OrderRequests <- McOrders
  MaxOrders = 3
  Slippages <- McSlippages
  HiddenDraws <- McHiddenDraws
  Tier1Events <- McTier1Events
  MaxCalls = 2
  MaxCrashes = 2
  Word32 = 16
  Word64 = 256
  Requests <- McRequests
  MaxRuns = 3
INVARIANTS
  NumbersFresh FeedsAgree DrawdownsAgree PersistingReported AlertsEarned FeaturesCurrent
  StoreSurvives ModelsMatchHistory
PROPERTIES FixCallsReturn ExportFollowsResults
CHECK_DEADLOCK FALSE
