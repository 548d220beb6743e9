SPECIFICATION FairSpec
CONSTANTS
    MaxArray = 3
    p1 = p1
    p2 = p2
    Peers = {p1, p2}
    Readers = {p1}
    Scripts <- MCScripts
    QUIT <- Q
    Listen = Listen
    Null = Null
    ReadSize = 12
    SendRoom = 1
INVARIANTS
    TypeOK
    FragmentationInvisible
    CommandsExact
    RepliesInOrder
    MaskMatches
PROPERTIES
    ClosedForAReason
    Answered
    Closes
CHECK_DEADLOCK FALSE
