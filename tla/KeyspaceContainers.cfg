SPECIFICATION Spec
CONSTANTS
    k1 = k1
    k2 = k2
    all = all
    onlyK1 = onlyK1
    Patterns = {all, onlyK1}
    Matches <- MCMatches
    Elems <- MCElems
    Size <- MCSize
    Null = Null
    NoExpiry = NoExpiry
    Junk = Junk
    EX = EX
    PX = PX
    NX = NX
    XX = XX
    WITHSCORES = WITHSCORES
    PONG = PONG
    SecondMs = 2
    Keys = {k1}
    Commands <- ContainerCommands
    SampleSize = 1
    MaxLoops = 2
    CheckPeriod = 1
    MaxTime = 1
    MaxList = 2
PROPERTY NoEmptyContainer LazyExpiryInvisible CountsAgree ObjectsKept
CHECK_DEADLOCK FALSE
