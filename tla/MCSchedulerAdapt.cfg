CONSTANTS
  fStaticNumThreads = 3
  NumThreads = 3
  fDynAdapt = TRUE
  Threads = {0, 1, 2}
  Task = {2, 3, 4, 5}
  QueueSize = 6
  Back <- TripleBack
  fReadyTaskList <- ThreeReady
  VecSize = 2
  Counts = {0, 3}
  XaddReturnsNew = TRUE
  BackToBack = FALSE
  MaxComputes = 3
SPECIFICATION Spec
INVARIANTS QueueContract
PROPERTIES ImplementsDag
