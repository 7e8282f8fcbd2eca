CONSTANTS
    FLAG = 8
    Producers = {ee, vu}
    Waiter = ee
    WorkerOps = {"WaitForWork", "WaitForWorkTimed", "CheckForWork"}
    Spin = TRUE
    MaxQueue = 2
    MaxStray = 1
    ee = ee
    vu = vu
SPECIFICATION FairSpec
INVARIANT DrainBarrier
INVARIANT SyncInv
PROPERTY ImplementsContract
PROPERTY WaiterReleased
PROPERTY WorkProcessed
