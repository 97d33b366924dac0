SPECIFICATION FairSpec
CONSTANTS
    Loop = Loop
    Free = Free
    Producers = {a, b}
    MaxPush = 3
INVARIANTS
    TypeOK
    Fifo
    NoLostWakeUp
    OneMoreAtMost
PROPERTIES
    QuietOnceStopped
    EverythingHandled
    StopReturns
CHECK_DEADLOCK FALSE
