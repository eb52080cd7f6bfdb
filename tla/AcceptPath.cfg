CONSTANTS
  ListenerNum = 2
  Caller = {a1, a2}
  LnCap = 1
  UdpCap = 1
  MaxConn = 2
SPECIFICATION FairSpec
INVARIANTS
  TypeOK
  InOrderOnce
  NoneAfterClose
PROPERTIES
  EachIsAccepted
CHECK_DEADLOCK FALSE
