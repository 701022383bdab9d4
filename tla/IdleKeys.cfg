SPECIFICATION FairSpec
CONSTANTS
  Sites = {"app"}
  Worktrees = {"wt"}
  ParentOf <- OneParent
  Workers = {"queue", "assets"}
  WorkersOf <- SiteAndWorktree
  Vite = {"assets"}
  AppWorkers = {}
  Events = {"remove"}
  MaxToggles = 0
  NoKey = "none"
INVARIANT TypeOK
PROPERTIES NothingLost WakesWhenActive
CHECK_DEADLOCK FALSE
