SPECIFICATION FieldSpec
CONSTANTS
    Players = {p1}
    Monsters = {m1}
    Absent = Absent
    Positions <- MCPositions
    Entry <- MCEntry
    SpawnAt <- MCSpawnAt
    SectorSize = 2
    ViewRadius = 1
    MaxHits = 1
    RespawnDelay = 0
    ReEnter = FALSE
    Leave = FALSE
PROPERTY
    DeathHeard
