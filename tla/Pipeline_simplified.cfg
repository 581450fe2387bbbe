SPECIFICATION FairSpec
CONSTANTS
    Sources = {s1}
    LateSources = {}
    Outputs = {o1}
    LateOutputs = {}
    Simplified = TRUE
    InCapacity = 1
    OutCapacity = 2
    MaxMade = 3
    MaxFaults = 0
    MaxCommands = 1
PROPERTIES ShutdownCompletes
CHECK_DEADLOCK FALSE
