\* Histories of up to three bars, one more than the horizon.
CONSTANTS
    MaxHoldingBars = 2
    MaxBars = 3
    Bars <- MCBars
    Signals <- MCSignals
    Slippages = {0, 1}
SPECIFICATION ReplaySpec
\* A history ends after MaxBars bars.
CHECK_DEADLOCK FALSE
INVARIANTS
    PaperMatchesBacktest
    WaitsForHorizon
    ExcursionsBoundPnl
    LabelAgrees
