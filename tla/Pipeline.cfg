SPECIFICATION FairSpec
CONSTANTS
    Sources = {s1, s2}
    LateSources = {s2}
    Outputs = {o1, o2}
    LateOutputs = {o2}
    Simplified = FALSE
    InCapacity = 1
    OutCapacity = 1
    MaxMade = 1
    MaxFaults = 2
    MaxCommands = 1
INVARIANTS
    EndToEnd
PROPERTIES
    ShutdownCompletes
    KeepsPromise
CHECK_DEADLOCK FALSE
