CONSTANTS
  Writer = {w1, w2}
  QueueLen = 1
  MaxWrite = 1
SPECIFICATION Spec
INVARIANTS
  PutNeverPanics
CHECK_DEADLOCK FALSE
