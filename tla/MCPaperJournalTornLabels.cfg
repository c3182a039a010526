\* One interruption between the two inserts of the learning pipeline.
CONSTANTS
    i1 = i1
    i2 = i2
    Instruments = {i1}
    BarKinds = {"FALL"}
    SignalActions = {"BUY"}
    MaxMinute = 3
    DayLength = 3
    SessionLength = 3
    MaxBarAge = 1
    MaxHolding = 1
    MaxCrashes = 1
    MaxRevisions = 0
SPECIFICATION FairSpec
PROPERTIES
    EvaluatedEventuallyLabelled
