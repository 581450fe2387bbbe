SPECIFICATION IsolatedSpec
CONSTANTS
    Sources = {s1, s2}
    LateSources = {}
    Outputs = {o1, o2}
    LateOutputs = {}
    Simplified = FALSE
    InCapacity = 1
    OutCapacity = 1
    MaxMade = 2
    MaxFaults = 0
    MaxCommands = 1
PROPERTIES SourcesNeverBlocked
CHECK_DEADLOCK FALSE
