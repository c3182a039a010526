\* One kill between the rename of a partition and the save of the manifest.
CONSTANTS
    Order <- MCOrder
    TableOf <- MCTableOf
    Rows = {1, 2}
    InitialStamps = {5}
    TornWrites = FALSE
    MaxCrashes = 1
    MaxLosses = 0
SPECIFICATION Spec
\* A warehouse that refuses to be restored, with no database left, is stuck.
CHECK_DEADLOCK FALSE
INVARIANTS
    NeverUnusable
