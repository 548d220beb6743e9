SPECIFICATION Spec
CONSTANTS
    Base = 10
    Databases <- LongDatabases
    NoExpiry = NoExpiry
    TicksPerMs = 2
    MaxStarts = 1
PROPERTY SnapshotComplete
CHECK_DEADLOCK FALSE
