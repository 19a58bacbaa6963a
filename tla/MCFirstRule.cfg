SPECIFICATION Spec
CONSTANTS Loop = {0, 1, 2, 3, 4}
INVARIANTS FirstApplied
CHECK_DEADLOCK FALSE
