SPECIFICATION MCSpec
CONSTANTS
    FIFO_SIF_W = 8
    Words = {1, 6}
    MaxPackets = 3
    FifoQW = 2
    Lengths = {0, 2}
    MaxPackets1 = 2
INVARIANTS
    FifoInv
    SifIntact
    SifRendezvous
    
PROPERTIES
    SifCallsReturn
