SPECIFICATION Spec
CONSTANTS
    Handlers <- MCHandlers
    SeriesCount = 2
    MaxPolls = 3
    MaxFaults = 1
INVARIANTS
    TypeOK
    NoDirtyRead
PROPERTIES
    ImplementsService
    ShutdownCompletes
CHECK_DEADLOCK FALSE
