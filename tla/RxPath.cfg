\* All four modes of a UDPConn: two Reads, batches of at most two packets.
CONSTANTS
  r1 = r1
  r2 = r2
  Reader = {r1, r2}
  Slice <- MCSlice
  NoReader = NoReader
  MaxBuffer = 5
  Batchs = 2
  QueueLen = 1
  Lens = {2}
  MaxPacket = 3
SPECIFICATION FairSpec
INVARIANTS
  TypeOK
  NoPanic
  SingleOwner
  ShortReadReported
  OnePacketPerRead
  StreamInOrder
PROPERTIES
  ReadReturns
CHECK_DEADLOCK FALSE
