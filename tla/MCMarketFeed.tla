---------------------------- MODULE MCMarketFeed ----------------------------
(* Constants for the run of MarketFeed.                                     *)
EXTENDS MarketFeed

CONSTANTS s1, s2, k1, k2, a, b, crossed, negative, unpriced

\* No rows; rows in order; a revised first bar and a time given twice; a hole
\* and a bar after the session; a crossed bar, a negative volume, a missing price
\* and a missing time.
MCBodies ==
    LET row(t, bar) == [slot |-> t, bar |-> bar]
    IN  {<<>>,
         <<row(1, a), row(2, a)>>,
         <<row(1, b), row(2, a), row(2, b)>>,
         <<row(3, a), row(1, a)>>,
         <<row(2, crossed), row(NoTime, a)>>,
         <<row(1, negative), row(2, unpriced)>>}

=============================================================================
