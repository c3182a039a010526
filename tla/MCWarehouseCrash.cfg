\* Kills between (and inside) any two file operations, and a lost database; every
\* interrupted persist is retried.
CONSTANTS
    Order <- MCOrder
    TableOf <- MCTableOf
    Rows = {1, 2}
    InitialStamps = {4, 6}
    TornWrites = TRUE
    MaxCrashes = 2
    MaxLosses = 2
SPECIFICATION FairSpec
\* A warehouse that refuses to be restored, with no database left, is stuck.
CHECK_DEADLOCK FALSE
INVARIANTS
    DamageConfined
PROPERTIES
    ImplementsLedger
    StampOnlyWhenComplete
    RetryHeals
