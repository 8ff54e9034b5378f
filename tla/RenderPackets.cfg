\* Every interleaving of the client and the worker.
SPECIFICATION FairSpec
CONSTANTS
  N = 2
  Modulus = 8
  Preroll = 1
  Outstanding = 2
  Cyclic = 1
  Fallback = 1
  Sources = 2
  MaxPacket = 2
  MaxClock = 1
INVARIANTS
  PacketsInv
  NothingOverwritten
PROPERTIES
  PositionHolds
  
