SPECIFICATION Spec
CONSTANTS
    Players = {p1}
    None = None
    Far = 6
    Reach <- MCReach
    Sight <- MCSight
    Disengage <- MCDisengage
    FleeEnd <- MCFleeEnd
    Kite = 2
    Pace <- MCPace
    PlayerPace = 1
    ThinkTicks = 2
    AttackTicks = 3
    CdTicks = 3
    FleeThinks = 1
    PatrolThinks = {1}
    IdleThinks = {1}
    MaxHits = 2
    LowHits = 1
    Respawns = TRUE
    Leave = TRUE
INVARIANTS
    MonsterTypeOK
    AttackInReach
    ChaseInRange
    CorpseStill
    ClientsTold
PROPERTY
    StrikePace
