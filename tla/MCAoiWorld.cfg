SPECIFICATION EventSpec
CONSTANTS
    Players = {p1, p2, p3}
    Monsters = {m1}
    Absent = Absent
    Positions <- MCPositions
    SectorSize = 2
    ViewRadius = 1
SYMMETRY Symmetry
INVARIANTS
    TypeOK
    OccupancyExact
    SubscriptionsExact
    ViewExact
PROPERTY
    Visible
