\* One thread sets and lifts the mask, another reads and resets the statistics.
SPECIFICATION FairSpec
CONSTANTS
  Threads = {"runner", "monitor"}
  Calls <- OneRunner
  MaskDuration = 2
  MinSamples = 1
  MaxHistory = 2
  MaxTime = 3
  MaxCalls = 4
INVARIANTS MaskHolds HistoryCounted
PROPERTY CallsReturn
