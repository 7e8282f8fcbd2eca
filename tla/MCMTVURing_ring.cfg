SPECIFICATION FairSpec
CONSTANTS
  buffer_size = 9
  Sizes = {2, 3, 5}
  Net = 1
  MaxSent = 8
INVARIANT PacketIntact
INVARIANT WaitVUDrains
PROPERTY InOrder
PROPERTY EeReturns
CONSTRAINT BeforeLap
