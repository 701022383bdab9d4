SPECIFICATION FairSpec
CONSTANTS
  Pages = {"page"}
  MaxKept = 1
  MaxLines = 2
  killAttempts = 2
  Runs = {"lerd"}
  Lerd = "lerd"
INVARIANTS FramesInOrder SleepsOnlyCaughtUp ToldTheEnd SweepSparesRuns StrangersSpared
PROPERTIES LeftoversEnd RunEnds
CHECK_DEADLOCK FALSE
