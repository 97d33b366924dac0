SPECIFICATION FairSpec
CONSTANTS
    Uids = {u1, u2}
    MaxChanges = 2
    MaxQueue = 1
    MaxBatch = 1
    PendingMod = 8
    Faults = TRUE
INVARIANTS
    NoLostUpdate
    PendingExact
    Downstream
PROPERTIES
    NoRegress
    SavedReachesMysql
    AcceptedReachesMysql
CHECK_DEADLOCK FALSE
