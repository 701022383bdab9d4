SPECIFICATION FairSpec
CONSTANTS
  Handlers = {h1}
  Tabs = {t1}
  Invalidator = inv
  SubCap = 1
  PeerCap = 1
  MaxWorld = 2
  MaxConnects = 2
  Nil = Nil
INVARIANTS TypeOK LeavesNothing RestsCurrent
PROPERTY ChangeShown
CHECK_DEADLOCK FALSE
