\* The timing the program relies on: the one-second sleep of run_motor is longer
\* than main needs to get from write_shm to P(merge_sem).
SPECIFICATION FairSpec
CONSTANTS
  MEMORY_TABLE_SIZE = 3
  MERGE_TRIGGER = 3
  META_LIST_CNT = 20
  QueueMax = 2
  MaxInputs = 8
  MotorOutlastsMain = TRUE
  CleanupOutlastsMain = TRUE
INVARIANTS
  TypeOK
  StoreExclusion
  MergeOnRequest
  TablesBounded
  NothingAfterBack
  UndoBounded
PROPERTIES
  BackTerminates
