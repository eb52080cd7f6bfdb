CONSTANTS
  c1 = c1
  c2 = c2
  Clients = {c1, c2}
  Hosts = {1, 2}
  Host <- MCHost
  Data = Data
  Empty = Empty
  Payload = {Data, Empty}
  PayloadSize <- MCPayloadSize
  Nothing = Nothing
  Hash <- CollidingHash
  Starts <- MCStarts
  Skews <- MCSkews
  Jumps <- MCJumps
  MaxSkew = 12
  MaxTicks = 12
  MaxSent = 3
  MaxWritten = 1
  MaxHeld = 1
SYMMETRY ClientSymmetry
SPECIFICATION Spec
INVARIANTS
  ValidIsNear
  AgreedToken
PROPERTIES
  ForeignCaught
  DataKept
CHECK_DEADLOCK FALSE
