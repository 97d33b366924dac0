SPECIFICATION FairSpec
CONSTANTS
    s1 = s1
    s2 = s2
    Sessions <- MCSessions
    f1 = f1
    f2 = f2
    Fields <- MCFields
    Wanted <- MCWanted
    None = None
    Anon = 1
    Loads <- MCLoads
    MaxPlayers = 2
    MaxAge = 1
INVARIANTS
    FlowTypeOK
    InFieldHasPlayer
    Reachable
    SkillAfterEntry
PROPERTIES
    OwnPlayerOnly
    ClosedRests
CHECK_DEADLOCK FALSE
