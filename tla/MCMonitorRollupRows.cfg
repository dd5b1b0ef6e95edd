SPECIFICATION Spec
CONSTANTS
    Metrics = {"pv_power"}
    RollupBucket = 2
    DailyBucket = 4
    RawRetention = 3
    RollupRetention = 6
    DailyRetention = 10
    RollupInterval = 2
    DailyInterval = 4
    Times <- MCTimes
    MaxInserts = 12
    MaxFaults = 0
    MaxTime = 6
    MaxSleep = 1
    MaxMissed = 0
    MaxRestarts = 0
    MaxDown = 0
    MaxClockSteps = 0
    MaxDisturbances = 1
    DisturbedUntil = 6
PROPERTIES
    RollupRowsNeverLose
CHECK_DEADLOCK FALSE
