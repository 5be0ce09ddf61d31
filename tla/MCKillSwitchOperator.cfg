\* A runner that records ticks and validates orders, and an operator who triggers
\* the switch from another task.
SPECIFICATION Spec
CONSTANTS
  Threads = {"runner", "operator"}
  Calls <- WithOperator
  MaskDuration = 2
  MinSamples = 1
  MaxHistory = 2
  MaxTime = 4
  MaxCalls = 4
INVARIANT MaskHolds
