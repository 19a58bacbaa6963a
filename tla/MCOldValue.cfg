CONSTANTS
  fStaticNumThreads = 1
  NumThreads = 1
  fDynAdapt = FALSE
  Threads = {0}
  Task = {2, 3, 4}
  QueueSize = 5
  Back <- JoinBack
  fReadyTaskList <- TwoReady
  VecSize = 2
  Counts = {2}
  XaddReturnsNew = FALSE
  BackToBack = FALSE
  MaxComputes = 1
SPECIFICATION FairSpec
PROPERTIES ComputeReturns
