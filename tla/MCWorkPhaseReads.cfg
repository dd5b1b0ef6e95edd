SPECIFICATION ConvSpec
CONSTANTS
    Files = {"deliverable"}
    Signals <- MCSignals
    Outside <- MCOutside
    Calls <- MCCalls
    MaxIterations = 2
    MaxToolCalls = 2
    ErrorThreshold = 3
    MaxRetries = 2
INVARIANTS
    ReadPathsWereRead
CHECK_DEADLOCK FALSE
