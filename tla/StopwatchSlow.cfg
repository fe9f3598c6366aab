\* One run of the application that a signal may end, with handlers and work as slow
\* as can be.
SPECIFICATION Spec
CONSTANTS
  TicksPerSecond = 1
  MaxTicker = 1
  MaxRuns = 1
  Signals = TRUE
  SleepsInTime = TRUE
  WorkInTime = FALSE
  CleanKey = TRUE
CHECK_DEADLOCK FALSE
INVARIANTS
  LateTickBounded
  GoneIsQuiet
PROPERTIES
  HaltTerminates
