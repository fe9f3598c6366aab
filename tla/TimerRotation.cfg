\* The timer of hw2 alone, one run of one application with options of the usage line.
SPECIFICATION DriversSpec
CONSTANTS
  Apps = {1}
  Intervals = {1}
  Cnts = {20}
  Inits = {1, 80, 900, 1000}
  MaxRuns = 1
  Alone = TRUE
  OpensApart = TRUE
  Writers = {1}
  Numbers = {2}
  MaxWrites = 1
  Clients = {1}
  Texts = {"x"}
  Blocks = 2
  Sleepers = {1}
CHECK_DEADLOCK FALSE
PROPERTIES
  IndexThrough1To9
