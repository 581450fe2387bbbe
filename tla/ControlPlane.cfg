SPECIFICATION FairSpec
CONSTANTS
    Clients = {external, element}
    Elements = {element}
    Waiters = {external}
    Patient = {external}
    Capacity = 1
    MaxCalls = 2
    MaxElementCalls = 1
    MaxFaults = 1
    None = None
INVARIANTS OutcomeIsTrue NoErrorLost
PROPERTIES Answered ShutdownEnds
