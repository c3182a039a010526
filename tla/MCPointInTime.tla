---------------------------- MODULE MCPointInTime ----------------------------
\* Two wide bars, one higher than the other, and a narrow one between their levels, with
\* evidence for either side; decisions on the first are blocked.
EXTENDS MarketStructure

Each(vote) == [e \in Evidence |-> vote]
Momentum(vote) == [e \in Evidence |-> IF e \in {"emas", "vwap", "macd", "adx"} THEN vote ELSE 0]

Bar(high, low, close, atr, votes) ==
    [high |-> high, low |-> low, close |-> close, atr |-> atr,
     votes |-> votes, blocked |-> FALSE]

MCBarValues ==
    {[Bar(16, 10, 15, 2, Momentum(1)) EXCEPT !.blocked = TRUE],
     Bar(14, 7, 13, 1, Each(-1)), Bar(13, 11, 12, 3, Each(1))}

=============================================================================
