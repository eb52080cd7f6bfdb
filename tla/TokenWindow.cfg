CONSTANTS
  c1 = c1
  c2 = c2
  Clients = {c1, c2}
  Hosts = {1, 2}
  Host <- MCHost
  Data = Data
  Empty = Empty
  Payload = {Data, Empty}
  PayloadSize <- MCPayloadSize
  Nothing = Nothing
  Hash <- CollidingHash
  Starts <- MCStarts
  Skews <- MCSynchronous
  Jumps <- MCShortJumps
  MaxSkew = 12
  MaxTicks = 3
  MaxSent = 3
  MaxWritten = 1
  MaxHeld = 1
SYMMETRY ClientSymmetry
SPECIFICATION Spec
INVARIANTS
  ValidForWindow
CHECK_DEADLOCK FALSE
