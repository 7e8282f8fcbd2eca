SPECIFICATION FairSpec
CONSTANTS
  max_size = 3
  MaxJobs = 5
INVARIANT RingInv
INVARIANT WakeInv
PROPERTY KeepsContract
PROPERTY JobsRun
