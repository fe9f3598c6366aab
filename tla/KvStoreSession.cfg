\* One run of the program, from an empty directory to BACK: nine puts make three
\* tables of three pairs, with merges in the background and on request.
SPECIFICATION Spec
CONSTANTS
  Keys = {1, 2}
  MEMORY_TABLE_SIZE = 3
  MERGE_TABLE_SIZE = 2
  MERGE_TRIGGER = 3
  META_LIST_CNT = 20
  MaxPuts = 9
  MaxStarts = 1
  MaxCrashes = 0
INVARIANTS
  StoreSound
PROPERTIES
  ImplementsMap
  TablesImmutable
CHECK_DEADLOCK FALSE
