CONSTANTS
  Conn = {c1, c2}
  QueueLen = 1
  Cap = 2
  MaxWrite = 2
SPECIFICATION FairSpec
INVARIANTS
  PerConnOrder
PROPERTIES
  QueuedIsSent
  WriteReturns
CHECK_DEADLOCK FALSE
