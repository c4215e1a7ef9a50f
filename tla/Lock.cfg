SPECIFICATION FairSpec
CONSTANTS
  NoThread = NoThread
  Threads = {main, w1}
  Main = main
  Timeouts = {"neg"}
  HandlersRaise = FALSE
  Counting = TRUE
  MaxDepth = 2
  MaxSignals = 1
INVARIANTS
  Exclusion
PROPERTIES
  ImplementsMutex
  ReleasesOwn
  BlockedGetsLock
CHECK_DEADLOCK FALSE
