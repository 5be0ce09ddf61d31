\* Five events, a base at every third, and two faults.
CONSTANTS
  ByteStrings <- SomePayloads
  BaseInterval = 3
  MaxSeq = 5
  MaxFaults = 2
SPECIFICATION Spec
INVARIANTS
  BaseHeals
  ReplayAgrees
PROPERTIES
  Durable
  IndexBacked
CHECK_DEADLOCK FALSE
