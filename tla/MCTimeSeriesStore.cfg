SPECIFICATION StoreSpec
CONSTANTS
    Metrics = {"pv_power", "battery_soc"}
    RollupBucket = 2
    DailyBucket = 4
    RawRetention = 1
    RollupRetention = 3
    DailyRetention = 7
    Times <- MCTimes
    MaxInserts = 2
    MaxFaults = 2
INVARIANTS
    StoreTypeOK
    AckedDurable
    RollupSound
    RolledStaysVisible
    SummarisedStaysVisible
