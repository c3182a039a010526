\* One run, the threshold of the code.
CONSTANTS
    Kinds = {"CLEAN", "TOLERATED"}
    Threshold = 3
    Lookback = 7
    Retention = 90
    MaxTicks = 1
    MaxDay = 1
    MaxRuns = 1
    MaxFailures = 0
SPECIFICATION Spec
\* After MaxRuns workflow runs nothing more is scheduled.
CHECK_DEADLOCK FALSE
INVARIANTS
    ToleratedIsHealthy
