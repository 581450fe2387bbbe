SPECIFICATION AttributionSpec
CONSTANTS
    AttributionSetups <- GapSetups
INVARIANTS NeededIsKept
CHECK_DEADLOCK FALSE
