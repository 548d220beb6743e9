SPECIFICATION Spec
CONSTANTS
    Keys <- MCKeys
    Patterns <- MCPatterns
INVARIANTS
    NoFalseMatch
    MatchExact
PROPERTY Terminates
CHECK_DEADLOCK FALSE
