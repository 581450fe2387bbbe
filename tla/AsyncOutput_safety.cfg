SPECIFICATION AsyncFairSpec
CONSTANTS
    Capacity = 2
    MaxMessages = 4
    Commands = {"Run", "RunDiscard", "Pause", "StopFinish", "StopNow"}
    MaxCommands = 3
INVARIANTS DeliveredOrLagged SuspendedListens
PROPERTIES HeardIsObeyed
CHECK_DEADLOCK FALSE
