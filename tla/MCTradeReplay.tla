---------------------------- MODULE MCTradeReplay ----------------------------
\* Bars and signals over a few prices; a bar closes at one of its extremes.
EXTENDS TradeReplay

MCPrices == 1..3

MCBars ==
    {b \in [open : MCPrices, high : MCPrices, low : MCPrices, close : MCPrices] :
        /\ b.low <= b.open /\ b.open <= b.high
        /\ b.close \in {b.low, b.high}}

MCSignals ==
    {s \in [side : {"LONG", "SHORT"}, stop : MCPrices, target : MCPrices] :
        IF s.side = "LONG" THEN s.stop < s.target ELSE s.target < s.stop}

=============================================================================
