SPECIFICATION Spec
CONSTANTS
    MaxArray = 3
    Commands <- MCCommands
    Faults = {"refused", "torn", "power"}
    Null = Null
    MaxAppends = 2
    MaxFaults = 2
INVARIANT TypeOK
PROPERTIES
    IntactReplayed
    WritesSurvive
CHECK_DEADLOCK FALSE
