CONSTANTS
  Addr = {a1, a2}
  NoAddr = NoAddr
  MaxConn = 2
  AcceptLen = 1
SPECIFICATION FairSpec
INVARIANTS
  TableOwned
  OneConnPerAddr
  CountMatchesTable
  DeleteFindsEntry
  ListCapacityValid
  SocketAccounted
PROPERTIES
  EntryRemovedByOwner
  CloseCompletes
CHECK_DEADLOCK FALSE
