SPECIFICATION FairSpec
CONSTANTS
  Callers = {c1, c2}
  MaxWorld = 1
  MaxGen = 3
  Nil = Nil
INVARIANTS FreshCoversInvalidations BroadcastCoversCall GetAnswersUnlessBuildFailed
PROPERTY KeepsPromise
