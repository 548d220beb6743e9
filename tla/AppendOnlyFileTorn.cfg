SPECIFICATION Spec
CONSTANTS
    MaxArray = 3
    Commands <- MCCommands
    Faults = {"torn"}
    Null = Null
    MaxAppends = 2
    MaxFaults = 2
PROPERTY AckedReplayed
CHECK_DEADLOCK FALSE
