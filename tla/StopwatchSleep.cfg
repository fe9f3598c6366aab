\* The first tick may come before the sleep.
SPECIFICATION Spec
CONSTANTS
  TicksPerSecond = 1
  MaxTicker = 1
  MaxRuns = 1
  Signals = FALSE
  SleepsInTime = FALSE
  WorkInTime = TRUE
  CleanKey = FALSE
CHECK_DEADLOCK FALSE
PROPERTIES
  HaltTerminates
