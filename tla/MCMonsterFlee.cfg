SPECIFICATION FairSpec
CONSTANTS
    Players = {p1}
    None = None
    Far = 6
    Reach <- MCReach
    Sight <- MCSight
    Disengage <- MCDisengage
    FleeEnd <- MCFleeEnd
    Kite = 2
    Pace <- MCPace
    PlayerPace = 1
    ThinkTicks = 1
    AttackTicks = 1
    CdTicks = 2
    FleeThinks = 1
    PatrolThinks = {1}
    IdleThinks = {1}
    MaxHits = 2
    LowHits = 1
    Respawns = FALSE
    Leave = FALSE
PROPERTY
    FleeingEnds
