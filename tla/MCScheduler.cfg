CONSTANTS
  fStaticNumThreads = 2
  NumThreads = 2
  fDynAdapt = FALSE
  Threads = {0, 1}
  Task = {2, 3, 4, 5, 6, 7, 8}
  QueueSize = 9
  Back <- MixedBack
  fReadyTaskList <- TwoReady
  VecSize = 2
  Counts = {0, 3}
  XaddReturnsNew = TRUE
  BackToBack = FALSE
  MaxComputes = 2
SPECIFICATION FairSpec
INVARIANTS Inv NoSharedBody ReturnsComplete QueueContract
PROPERTIES ImplementsDag CyclesEnd
