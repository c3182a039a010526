---------------------------- MODULE MarketStructure ----------------------------
(***************************************************************************)
(* add_market_structure: the second definition of pivots, levels and trend *)
(* in the repository. Feature snapshots that are recomputed from candles   *)
(* use it; signals and captured snapshots use PointInTime's. The calls     *)
(* give the two windows of different sizes: 2 and 2 here, inside the 3 and *)
(* 3 of signals. So the structures may differ on one history; the levels   *)
(* of a snapshot stand in a relation to the signal's all the same.         *)
(* Definitions marked [defect] are broken variants of the next one.        *)
(***************************************************************************)
EXTENDS PointInTime, FiniteSets

CONSTANTS
    SnapLeft,       \* pivot_left of add_market_structure
    SnapRight,      \* pivot_right of add_market_structure
    LevelLookback   \* level_lookback: rows for which a confirmed pivot counts

ASSUME LookbackAssumption == LevelLookback \in Nat \ {0}
ASSUME SnapWindowAssumption == SnapLeft \in 1..Behind /\ SnapRight \in 1..Ahead

\* A pivot is the only one of its value in its window.
StrictHigh(frame, j) ==
    /\ SnapLeft < j /\ j + SnapRight <= Len(frame)
    /\ \A k \in ((j - SnapLeft)..(j + SnapRight)) \ {j} : frame[k].high < frame[j].high

StrictLow(frame, j) ==
    /\ SnapLeft < j /\ j + SnapRight <= Len(frame)
    /\ \A k \in ((j - SnapLeft)..(j + SnapRight)) \ {j} : frame[j].low < frame[k].low

\* Rows of the pivots that were confirmed on row i or at most LevelLookback - 1 before.
RecentRows(i) == {j \in 1..(i - SnapRight) : i - LevelLookback < j + SnapRight}
RecentHighs(frame, i) == {j \in RecentRows(i) : StrictHigh(frame, j)}
RecentLows(frame, i) == {j \in RecentRows(i) : StrictLow(frame, j)}

-----------------------------------------------------------------------------
(* Levels. *)

Largest(S) == CHOOSE x \in S : \A y \in S : y <= x

\* [defect] the lowest level on its side of the price
LowestLevel(values, onItsSide, close) ==
    IF onItsSide # {} THEN CHOOSE x \in onItsSide : \A y \in onItsSide : x <= y
    ELSE IF values # {} THEN Largest(values)
    ELSE close

\* _latest_level: the highest one on its side of the price, else the highest of
\* all, else the price itself.
LatestLevel(values, onItsSide, close) ==
    IF onItsSide # {} THEN Largest(onItsSide)
    ELSE IF values # {} THEN Largest(values)
    ELSE close

SnapshotSupport(frame, i) ==
    LET values == {frame[j].low : j \in RecentLows(frame, i)}
    IN  LatestLevel(values, {x \in values : x <= frame[i].close}, frame[i].close)

SnapshotResistance(frame, i) ==
    LET values == {frame[j].high : j \in RecentHighs(frame, i)}
    IN  LatestLevel(values, {x \in values : x >= frame[i].close}, frame[i].close)

-----------------------------------------------------------------------------
(* Trend. *)

\* The confirmed pivots in their order: by row, a high before a low.
Pivots(frame, i) ==
    (RecentHighs(frame, i) \X {"H"}) \cup (RecentLows(frame, i) \X {"L"})
Follows(p, q) == p[1] > q[1] \/ (p[1] = q[1] /\ p[2] = "L" /\ q[2] = "H")
LastEight(frame, i) ==
    {q \in Pivots(frame, i) :
        Cardinality({p \in Pivots(frame, i) : Follows(p, q)}) < 8}
RowsOf(pivots, kind) == {p[1] : p \in {q \in pivots : q[2] = kind}}

Rises(last, previous) == last > previous

ClassifyStructure(frame, highs, lows) ==
    LET lastHigh == frame[Latest(highs)].high
        previousHigh == frame[Latest(Earlier(highs))].high
        lastLow == frame[Latest(lows)].low
        previousLow == frame[Latest(Earlier(lows))].low
    IN  IF Cardinality(highs) < 2 \/ Cardinality(lows) < 2 THEN "UNKNOWN"
        ELSE IF Rises(lastHigh, previousHigh) /\ Rises(lastLow, previousLow) THEN "BULLISH"
        ELSE IF Rises(previousHigh, lastHigh) /\ Rises(previousLow, lastLow) THEN "BEARISH"
        ELSE "MIXED"

StructureAt(frame, i) ==
    LET pivots == LastEight(frame, i)
    IN  ClassifyStructure(frame, RowsOf(pivots, "H"), RowsOf(pivots, "L"))

-----------------------------------------------------------------------------
(* Properties. *)

\* No other bar of row j's window, the signal's, has its high, or its low.
OnlyHigh(frame, j) ==
    \A k \in ((j - Behind)..(j + Ahead)) \ {j} : frame[k].high # frame[j].high
OnlyLow(frame, j) ==
    \A k \in ((j - Behind)..(j + Ahead)) \ {j} : frame[k].low # frame[j].low

\* The last of the signal's pivots is not too old for a snapshot.
Remembered(S, i) == S # {} /\ Latest(S) \in RecentRows(i)

\* The two definitions of levels are nested: unless a tie hides the signal's pivot from
\* the snapshot, or it is too old, a signal's support is not above the support that is
\* recomputed for its snapshot, which is not above the price, and a signal's resistance
\* is not above the snapshot's (_latest_level against pivot_structure).
LevelsNested ==
    \A i \in DOMAIN bars :
        /\ Support(bars, i) # None /\ Remembered(Lows(bars, i), i)
                /\ OnlyLow(bars, Latest(Lows(bars, i))) =>
              SnapshotSupport(bars, i) \in Support(bars, i)..bars[i].close
        /\ Resistance(bars, i) # None /\ Remembered(Highs(bars, i), i)
                /\ OnlyHigh(bars, Latest(Highs(bars, i))) =>
              SnapshotResistance(bars, i) >= Resistance(bars, i)

\* "Features are based only on pivots that have already been confirmed": the snapshot of
\* a row is what the bars up to that row alone give (add_market_structure).
SnapshotOf(frame, i) ==
    <<SnapshotSupport(frame, i), SnapshotResistance(frame, i), StructureAt(frame, i)>>
SnapshotIsCausal ==
    \A i \in DOMAIN bars : SnapshotOf(bars, i) = SnapshotOf(SubSeq(bars, 1, i), i)

=============================================================================
