SPECIFICATION Spec
CONSTANTS Loop = {0, 1, 2, 3, 4}
INVARIANTS SlowReadIsMeaning
CHECK_DEADLOCK FALSE
