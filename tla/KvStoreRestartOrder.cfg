\* A second start: the order of the tables.
SPECIFICATION Spec
CONSTANTS
  Keys = {1, 2}
  MEMORY_TABLE_SIZE = 2
  MERGE_TABLE_SIZE = 2
  MERGE_TRIGGER = 3
  META_LIST_CNT = 20
  MaxPuts = 8
  MaxStarts = 2
  MaxCrashes = 0
PROPERTIES
  RestartKeepsReads
CHECK_DEADLOCK FALSE
