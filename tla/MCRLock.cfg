SPECIFICATION Spec
CONSTANTS
  NoThread = NoThread
  Threads = {main, w1, w2}
  Main = main
  Timeouts = {"zero", "pos", "neg"}
  HandlersRaise = TRUE
  Counting = TRUE
  MaxDepth = 3
  MaxSignals = 1
SYMMETRY Interchangeable
INVARIANTS
  TypeOK
  OwnerExclusion
  FreshOwnership
  CountsHeldGuards
  Conserved
PROPERTY
  ImplementsMutex
