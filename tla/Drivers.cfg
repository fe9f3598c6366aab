\* The timer of hw2: two applications, options at their limits, inside and outside
\* the usage line, in two runs one after the other.  The kernel timer with three
\* writes, the memory driver with two sessions and five blocks, and two
\* processes that sleep in the interrupt driver.
SPECIFICATION DriversSpec
CONSTANTS
  Apps = {1, 2}
  Intervals = {100, 101}
  Cnts = {0, 1, 100}
  Inits = {0, 1, 80, 900, 1234, 8000, 16400}
  MaxRuns = 2
  Alone = TRUE
  OpensApart = TRUE
  Writers = {1, 2}
  Numbers = {0, 2, 257}
  MaxWrites = 3
  Clients = {1, 2}
  Texts = {"x"}
  Blocks = 5
  Sleepers = {1, 2}
CHECK_DEADLOCK FALSE
INVARIANTS
  DevicesFollowOptions
  BlinksAsAsked
  HeapSound
  FivePresses
PROPERTIES
  RunsItsCourse
  Terminates
  Wakes
