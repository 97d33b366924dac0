SPECIFICATION FieldSpec
CONSTANTS
    Players = {p1, p2}
    Monsters = {m1}
    Absent = Absent
    Positions <- MCPositions
    Entry <- MCEntry
    SpawnAt <- MCSpawnAt
    SectorSize = 2
    ViewRadius = 1
    MaxHits = 2
    RespawnDelay = 2
    ReEnter = TRUE
    Leave = TRUE
SYMMETRY Symmetry
INVARIANTS
    InViewKnown
    GoneForgotten
    OnlyViewersHear
