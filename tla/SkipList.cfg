SPECIFICATION FairSpec
CONSTANTS
    Keys = {k1}
    Elems <- MCElems
    Null = Null
    NoExpiry = NoExpiry
    Junk = Junk
    EX = EX
    PX = PX
    NX = NX
    XX = XX
    WITHSCORES = WITHSCORES
    SecondMs = 2
    ScoreSet <- MCScores
    Nodes = {n1, n2, n3}
    Header = Header
    MaxLevel = 2
INVARIANTS
    TypeOK
    LevelsLinked
    BackwardMirrors
    IndexAgrees
    ReadersAgree
PROPERTIES
    ImplementsSortedSet
    CallsReturn
