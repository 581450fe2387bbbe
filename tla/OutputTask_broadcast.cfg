SPECIFICATION FairSpec
CONSTANTS
    Kind = "broadcast"
    Capacity = 2
    MaxMessages = 4
    MaxCommands = 3
INVARIANTS WrittenInOrder Fates DoneMeansDrained
PROPERTIES ShutdownEnds RunConsumes
CHECK_DEADLOCK FALSE
