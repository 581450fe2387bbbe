SPECIFICATION AsyncFairSpec
CONSTANTS
    Capacity = 2
    MaxMessages = 2
    Commands = {"RunDiscard"}
    MaxCommands = 1
PROPERTIES StreamEnds
CHECK_DEADLOCK FALSE
