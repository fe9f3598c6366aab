\* The program is started again after BACK and after being killed.
SPECIFICATION Spec
CONSTANTS
  Keys = {1, 2}
  MEMORY_TABLE_SIZE = 2
  MERGE_TABLE_SIZE = 2
  MERGE_TRIGGER = 3
  META_LIST_CNT = 20
  MaxPuts = 5
  MaxStarts = 3
  MaxCrashes = 1
INVARIANTS
  NoInvention
  TablesBounded
PROPERTIES
  OrderedRestartKeepsReads
CHECK_DEADLOCK FALSE
