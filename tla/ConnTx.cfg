CONSTANTS
  Writer = {w1, w2}
  QueueLen = 1
  MaxWrite = 2
SPECIFICATION FairSpec
INVARIANTS
  FieldNeverClosed
  OneQueueWhileOpen
PROPERTIES
  LoopQuits
  WriteReturns
CHECK_DEADLOCK FALSE
