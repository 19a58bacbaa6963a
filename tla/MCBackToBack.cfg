CONSTANTS
  fStaticNumThreads = 2
  NumThreads = 2
  fDynAdapt = FALSE
  Threads = {0, 1}
  Task = {2, 3, 4}
  QueueSize = 5
  Back <- JoinBack
  fReadyTaskList <- TwoReady
  VecSize = 2
  Counts = {2}
  XaddReturnsNew = TRUE
  BackToBack = TRUE
  MaxComputes = 2
SPECIFICATION Spec
PROPERTIES ImplementsDag
CHECK_DEADLOCK FALSE
