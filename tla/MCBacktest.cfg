\* Two symbols, trades of up to two bars, slippage.
CONSTANTS
    MaxHoldingBars = 2
    Symbols = {1, 2}
    Histories <- MCHistories
    SignalSets <- MCSignalSets
    SlippagePoints = 1
SPECIFICATION Spec
\* A backtest ends.
CHECK_DEADLOCK FALSE
INVARIANTS
    OneTradeAtATime
    DrawdownIsDeepestFall
