SPECIFICATION Spec
CONSTANTS
    Deliverables = {d1}
    CommandGates <- MCGates
    Outputs = {o1}
    Messages <- MCMessages
    MaxItems = 2
    MaxIterations = 2
    StallThreshold = 2
    MaxExtensions = 1
    MaxRuns = 2
    MaxStrays = 1
    Sticky = {"complete", "workComplete"}
INVARIANTS
    TypeOK
    ShipSignals
    ShipEarned
    FeedbackFresh
    ManifestFresh
    PhaseStartsClean
PROPERTIES
    StallDecided
    FollowsContract
    RunEnds
\* After the last run nothing more happens.
CHECK_DEADLOCK FALSE
