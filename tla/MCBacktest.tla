----------------------------- MODULE MCBacktest -----------------------------
\* Two symbols with up to four minutes of history and signals in the first three.
EXTENDS Backtest

Quiet == [open |-> 4, high |-> 4, low |-> 4, close |-> 4]
Rise  == [open |-> 4, high |-> 8, low |-> 4, close |-> 7]
Fallen == [open |-> 1, high |-> 1, low |-> 1, close |-> 1]
Kinds == {Quiet, Rise, Fallen}

\* The second symbol misses the third minute, or has no bars at all.
MCHistories ==
    {<<[times |-> <<1, 2, 3, 4>>, bars |-> <<Quiet>> \o first],
       [times |-> <<1, 2, 4>>, bars |-> <<Quiet>> \o second]>> :
            first \in Kinds \X Kinds \X Kinds, second \in Kinds \X Kinds}
    \cup {<<[times |-> <<1, 2>>, bars |-> <<Quiet, last>>]>> : last \in Kinds}

Order(symbol) ==
    IF symbol = 1 THEN [side |-> "LONG", stop |-> 3, target |-> 7]
    ELSE [side |-> "SHORT", stop |-> 7, target |-> 2]

SignalsOf(symbol, times) ==
    {[symbol |-> symbol, time |-> t, order |-> Order(symbol)] : t \in times}

MCSignalSets ==
    {SignalsOf(1, first) \cup SignalsOf(2, second) : first, second \in SUBSET (1..3)}

=============================================================================
