SPECIFICATION Spec
CONSTANTS
    Base = 10
    Databases <- MCDatabases
    NoExpiry = NoExpiry
    TicksPerMs = 2
    MaxStarts = 2
INVARIANT TypeOK
PROPERTIES
    SnapshotReadsBack
    TornSnapshotKept
CHECK_DEADLOCK FALSE
