SPECIFICATION Spec
CONSTANTS
  NoThread = NoThread
  Threads = {main, w1}
  Main = main
  Timeouts = {"zero"}
  HandlersRaise = FALSE
  Counting = FALSE
  MaxDepth = 1
  MaxSignals = 0
INVARIANT
  AcquireAsserts
