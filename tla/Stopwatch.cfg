\* Two runs of the application, with the timing the driver relies on.
SPECIFICATION Spec
CONSTANTS
  TicksPerSecond = 1
  MaxTicker = 2
  MaxRuns = 2
  Signals = FALSE
  SleepsInTime = TRUE
  WorkInTime = TRUE
  CleanKey = TRUE
CHECK_DEADLOCK FALSE
INVARIANTS
  TimerOwned
  DisplayCurrent
  HaltNeedsLongPress
