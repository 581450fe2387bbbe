SPECIFICATION FairSpec
CONSTANTS
    TriggerSpecs <- MCTriggers
    ChannelSize = 1
    CounterSize = 4
    MaxCommands = 2
    MaxMeasurements = 2
INVARIANTS NoLoss EndsFlushed NoLostWakeup UpdateBound
PROPERTIES OnlyAcksCompleteFlush ImplementsProducer StopObeyed FlushObeyed
CHECK_DEADLOCK FALSE
