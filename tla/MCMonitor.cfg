SPECIFICATION Spec
CONSTANTS
    Metrics = {"pv_power"}
    RollupBucket = 1
    DailyBucket = 2
    RawRetention = 1
    RollupRetention = 3
    DailyRetention = 5
    RollupInterval = 1
    DailyInterval = 2
    Times <- MCTimes
    MaxInserts = 12
    MaxFaults = 1
    MaxTime = 7
    MaxSleep = 1
    MaxMissed = 1
    MaxRestarts = 1
    MaxDown = 0
    MaxClockSteps = 1
    MaxDisturbances = 1
    DisturbedUntil = 3
INVARIANTS
    TypeOK
    RawAgeBounded
    RollupTimely
    SnapshotAge
PROPERTIES
    RolledUpBeforePruned
    SummarisedWithoutRestart
CHECK_DEADLOCK FALSE
CONSTRAINT Explored
