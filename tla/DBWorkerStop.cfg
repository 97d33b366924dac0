SPECIFICATION FairSpec
CONSTANTS
    Loop = Loop
    Free = Free
    MaxQueue = 2
    MaxJobs = 1
PROPERTY
    StopReturns
CHECK_DEADLOCK FALSE
