SPECIFICATION FairSpec
CONSTANTS
    Threads = {game, field}
    MaxSends = 2
    Header = 2
    Frames = 2
    Lengths = {0, 2}
INVARIANTS
    SentInOrder
    NoLostWakeUp
    FramesIntact
PROPERTY
    EverythingSent
CHECK_DEADLOCK FALSE
