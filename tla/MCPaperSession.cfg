\* Two symbols, any number of them with an instrument at the start, two retries.
CONSTANTS
    Universe = 2
    MaxRetries = 2
    Backoff <- MCBackoff
    AttemptTime = 1
    WorkTime = 1
    Interval = 5
    Nap = 2
    Open = 3
    Until = 14
    Outages <- MCOutages
SPECIFICATION FairSpec
\* The session ends.
CHECK_DEADLOCK FALSE
INVARIANTS
    EndsOnTime
    RateKept
    BlipsAreRiddenOut
    OutageIsNoticed
PROPERTIES
    SessionEnds
