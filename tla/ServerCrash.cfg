SPECIFICATION CrashSpec
CONSTANTS
    k1 = k1
    k2 = k2
    all = all
    onlyK1 = onlyK1
    Patterns = {all, onlyK1}
    Matches <- MCMatches
    Elems <- MCElems
    Size <- MCSize
    Null = Null
    NoExpiry = NoExpiry
    Junk = Junk
    EX = EX
    PX = PX
    NX = NX
    XX = XX
    WITHSCORES = WITHSCORES
    PONG = PONG
    SecondMs = 2
    Keys = {k1, k2}
    Commands <- DurableCommands
    SampleSize = 1
    MaxLoops = 2
    CheckPeriod = 1
    MaxTime = 0
    MaxList = 3
    MaxLog = 3
    MaxStarts = 2
INVARIANT ServerTypeOK RecoveryInv RecoveryExact ReplayRetraces
PROPERTY UnloggedHarmless
CHECK_DEADLOCK FALSE
