CONSTANTS
  Threads = {t1, t2}
  Task = {a, b}
  QueueSize = 3
SPECIFICATION Spec
SYMMETRY Symmetry
INVARIANTS NoTaskDuplicated Inv
PROPERTIES ImplementsDeque
