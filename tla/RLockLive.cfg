SPECIFICATION FairSpec
CONSTANTS
  NoThread = NoThread
  Threads = {main, w1}
  Main = main
  Timeouts = {"zero", "pos", "neg"}
  HandlersRaise = TRUE
  Counting = FALSE
  MaxDepth = 2
  MaxSignals = 1
PROPERTIES
  AcquisitionEnds
  BlockedGetsLock
