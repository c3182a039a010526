\* Histories of up to eight bars. The signal's windows have four rows (two behind, one
\* ahead), a snapshot's three: two pivots of either kind fit in.
CONSTANTS
    NaN = NaN
    None = None
    MinScore = 50
    MarketScore = 25
    BarValues <- MCBarValues
    Left = 2
    Right = 1
    AtrPeriod = 3
    MaxBars = 8
    MaxChanges = 1
    SnapLeft = 1
    SnapRight = 1
    LevelLookback = 4
SPECIFICATION Spec
\* A history ends after MaxBars.
CHECK_DEADLOCK FALSE
INVARIANTS
    LiveIsBacktest
    SignalGeometry
    NeverAgainstTrend
    LevelsNested
