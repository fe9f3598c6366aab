\* The merge process may die in any of its merges.  The io process: three switches,
\* of which 1 can be measured and 4 and 6 make a chord, two keys, and three polls in
\* a second.  LED processes of which one may be killed by someone else, and forks
\* that fail.  The list of tables: four nodes, equal indexes and a full list.
\* Processes may end, and the LEDs and the list may be left alone: the parts may stop.
SPECIFICATION PartsSpec
CONSTANTS
  MEMORY_TABLE_SIZE = 3
  MERGE_TRIGGER = 3
  META_LIST_CNT = 20
  QueueMax = 2
  MaxInputs = 8
  MotorOutlastsMain = TRUE
  CleanupOutlastsMain = TRUE
  Switches = {1, 4, 6}
  Keys = {"B", "+"}
  PerSecond = 3
  MaxEvents = 2
  Requests <- MainRequests
  Pids = {1, 2}
  ForkFails = TRUE
  MaxDeaths = 1
  LIST_CNT = 4
  Indexes = {1, 2, 3}
  Filenames = {a, b}
CHECK_DEADLOCK FALSE
INVARIANTS
  HeldIsSent
  LongPressTimed
  OneBlinker
  LedsFollowRequest
  LinksSound
PROPERTIES
  MainOutlivesMerge
  KeyArrives
  LedsBlink
  ImplementsTableList
