\* Three symbols for two positions, four orders over two dates: losses, gaps and
\* wins of several positions in any order, before and after the night.
CONSTANTS
    s1 = s1
    s2 = s2
    s3 = s3
    Symbols = {s1, s2, s3}
    Prices = {0, 8, 10, 15}
    InitialCapital = 100
    RiskPerTrade = 50
    MaxOpenPositions = 2
    MaxDailyLoss = 30
    MaxPositionNotional = 250
    Slippage = 1
    MaxDate = 2
    MaxOrders = 4
SPECIFICATION Spec
SYMMETRY Symmetry
INVARIANTS
    BooksBalance
    HaltHasCause
PROPERTIES
    NoOpenAfterLossLimit
    OpenedWithinBudget
    TermsNeverChange
