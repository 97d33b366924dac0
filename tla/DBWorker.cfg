SPECIFICATION FairSpec
CONSTANTS
    Loop = Loop
    Free = Free
    MaxQueue = 2
    MaxJobs = 4
INVARIANTS
    BoundedFifo
    Drained
    NoLostJob
CHECK_DEADLOCK FALSE
