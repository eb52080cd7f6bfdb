CONSTANTS
  Msg = {m1, m2}
  Nil = Nil
  Cap = 3
  QueueLen = 2
  MaxPut = 5
SPECIFICATION FairSpec
INVARIANTS
  NoPanic
  ReleasedAsSent
  NoLinger
PROPERTIES
  ImplementsLink
  ImplementsFairLink
CHECK_DEADLOCK FALSE
