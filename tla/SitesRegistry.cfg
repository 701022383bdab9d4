CONSTANTS
  Actors = {"engine", "watch", "page", "lerd"}
  Procs = {"watcher", "ui", "cli"}
  ProcOf <- MCProcOf
  Daemons = {"watcher", "ui"}
  Does <- MCDoes
  First <- MCFirst
  Keep = 1
  MaxOps = 3
  MaxCrashes = 1
  MaxTicks = 1
SPECIFICATION FairSpec
INVARIANTS CacheIsHonest
PROPERTIES SavesWhatItRead UndoneByRestore LockComesFree
CHECK_DEADLOCK FALSE
