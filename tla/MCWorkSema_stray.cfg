CONSTANTS
    FLAG = 8
    Producers = {ee}
    Waiter = ee
    WorkerOps = {"WaitForWorkTimed", "CheckForWork"}
    Spin = FALSE
    MaxQueue = 2
    MaxStray = 1
    ee = ee
    vu = vu
SPECIFICATION Spec
INVARIANT EmptyMeansDrained
