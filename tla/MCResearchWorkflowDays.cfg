\* Two runs within three days, windows of two ticks, and a step that fails of itself.
\* A tick that fails after CLEAN or TOLERATED ingestion leaves what one that failed
\* because of FAILED, DEGRADED or EMPTY ingestion leaves, and a bootstrap that failed
\* because of it is a failed step. An artifact of the first day has expired on the third.
CONSTANTS
    Kinds = {"CLEAN", "TOLERATED"}
    Threshold = 2
    Lookback = 2
    Retention = 1
    MaxTicks = 2
    MaxDay = 3
    MaxRuns = 2
    MaxFailures = 1
SPECIFICATION FairSpec
\* After MaxRuns workflow runs nothing more is scheduled.
CHECK_DEADLOCK FALSE
INVARIANTS
    DurableIsHealthy
PROPERTIES
    HistoryKept
    CompleteDayIsDurable
