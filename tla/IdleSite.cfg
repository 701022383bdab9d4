SPECIFICATION FairSpec
CONSTANTS
  Sites = {"app"}
  Worktrees = {}
  ParentOf <- NoParents
  Workers = {"queue","mail","vite"}
  WorkersOf <- OneSite
  Vite = {"vite"}
  AppWorkers = {}
  Events = {"pin","deadline","crash"}
  MaxToggles = 1
  NoKey = "none"
INVARIANTS JobsExclusive OneLoop
PROPERTIES NothingLost WakesWhenActive PinnedWakes SleepsWhenQuiet MarkRestored
CHECK_DEADLOCK FALSE
