SPECIFICATION FairPauseSpec
CONSTANTS
  Sites = {"app"}
  Worktrees = {}
  ParentOf <- NoParents
  Workers = {"queue"}
  WorkersOf <- OneSite
  Vite = {}
  AppWorkers = {}
  Events = {"start", "stop", "kill"}
  MaxToggles = 0
  MaxPauses = 1
  NoKey = "none"
PROPERTIES MarksEndTrue
