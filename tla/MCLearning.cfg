\* Two dimensions, three transitions in two episodes; windows of four to five values; a trade
\* window of two decisions; six ticks for strategies B and C.
CONSTANTS
  Dim = 2
  LambdaReg <- One
  EmaAlpha <- One
  InitialSigma2 <- One
  OptimisticBias <- One
  SigmaFloor <- Tiny
  WarmUp = 5
  LambdaRisk <- Half
  LambdaDd <- Half
  DdCap <- Half
  Gamma <- Half
  PnlScale <- Two
  NonModelK <- Quarter
  LatencyK <- Quarter
  MinFrequency <- Half
  TradeWindow = 2
  InflationTarget <- Level
  InflationDecay <- Half
  InflationFloor <- Level2
  MaxLot = 3
  MinLot = 2
  DefaultLot = 4
  Consistency <- OneOver
  ConfidentAfter = 0
  ExpMinus <- Decays
  SpreadZA <- Two
  DepthDropA <- Zero
  VolSpikeA <- One
  RegimeKlA <- One
  DecayRateA = 1
  VolSpikeB <- One
  VolDecayingB <- Zero
  ObiAlignmentB <- Half
  RegimeKlB <- One
  MaxHoldB = 2
  DecayRateB = 1
  SessionActiveC <- Half
  ObiSignificanceC <- Half
  MaxSessionOpenC = 2
  RegimeKlC <- One
  MaxHoldC = 3
  DecayRateC = 1
  SessionScale = 1
  NFeatures = 2
  MinWindow = 1
  MaxWindow = 3
  GracePeriod = 2
  LogCuts <- Logs
  MajorThreshold <- Level
  MinorInflation <- One
  MajorInflation <- One
  MajorFullReset = FALSE
  RetrainThreshold = 2
  Phis <- TwoPhis
  Equities <- TwoEquities
  Samples <- ThreeSamples
  MaxSteps = 3
  MaxEpisodes = 2
  RawValues <- ThreeRaws
  States <- TwoStates
  InflationCap <- Cap
  FeatureValues <- TwoValues
  MaxObservations = 4
  BFeatures <- FeaturesOfB
  CFeatures <- FeaturesOfC
  Kls <- TwoKls
  MaxNow = 4
  Observations <- FourObservations
  Extensions = {"json", "bin", "none", "txt"}
  MaxUpdates = 2
SPECIFICATION Spec
INVARIANTS
  RegressionExact
  RetrainingJustified
  EpisodesTracked
  ImportRestores
PROPERTIES
  GraceKept
  LevelRecovers
CHECK_DEADLOCK FALSE
