SPECIFICATION Spec
CONSTANTS
    Word = 16
    MaxRetries = 3
    RetryDelay = 1
    PowerBound = 12
    SocBound = 10
    Quantities <- MCQuantities
    Null = Null
INVARIANTS
    TypeOK
    SampleIsReal
    NullIsExplained
CHECK_DEADLOCK FALSE
