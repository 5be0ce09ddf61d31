\* Three LPs, averages in tenths with an alpha of a quarter, two reports and two
\* units of time to recalibrate.
CONSTANTS
  N = 3
  Scale = 10
  Weight = 4
  InitialRate = 8
  AdversarialRate = 6
  RecoveryRate = 8
  MinObservations = 1
  MaxRejections = 2
  MinRecalibration = 2
  MaxDuration = 2
SPECIFICATION LpSpec
INVARIANTS
  SafeModeIsOfActive
  AdversarialOnlyAsLastResort
PROPERTIES
  LeftForGood
  CompletionEarned
