SPECIFICATION StopSpec
CONSTANTS
    k1 = k1
    k2 = k2
    all = all
    onlyK1 = onlyK1
    Patterns = {all, onlyK1}
    Matches <- MCMatches
    Elems <- MCElems
    Size <- MCSize
    Null = Null
    NoExpiry = NoExpiry
    Junk = Junk
    EX = EX
    PX = PX
    NX = NX
    XX = XX
    WITHSCORES = WITHSCORES
    PONG = PONG
    SecondMs = 2
    Keys = {k1}
    Commands <- PushCommands
    SampleSize = 1
    MaxLoops = 2
    CheckPeriod = 1
    MaxTime = 0
    MaxList = 3
    MaxLog = 2
    MaxStarts = 1
INVARIANT RecoveryExact
CHECK_DEADLOCK FALSE
