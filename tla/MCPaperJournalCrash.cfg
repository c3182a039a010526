\* One instrument, a trading date of two bars and the first bar of the next date, one interrupted job.
CONSTANTS
    i1 = i1
    i2 = i2
    Instruments = {i1}
    BarKinds = {"FLAT", "PINNED"}
    SignalActions = {"BUY"}
    MaxMinute = 4
    DayLength = 3
    SessionLength = 2
    MaxBarAge = 0
    MaxHolding = 1
    MaxCrashes = 1
    MaxRevisions = 1
SPECIFICATION FairSpec
INVARIANTS
    OneDecisionPerBar
    StaleNeverTraded
    OutcomeFollowsDecision
    JournalAgrees
    SnapshotIsDecision
    LearnedOnce
PROPERTIES
    JournalImmutable
    PendingEventuallyEvaluated
    EvaluatedEventuallySnapshotted
