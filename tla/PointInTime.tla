------------------------------ MODULE PointInTime ------------------------------
(***************************************************************************)
(* Signals over a changing history: the observer decides on the last row   *)
(* of the bars stored so far (`live`), a backtest on every row of the      *)
(* whole history. Bars are added at the end, filled in between and         *)
(* revised. Pivots are found in a window that reaches into the future, and *)
(* moved to a later row, on which the window ought to be complete.         *)
(*                                                                         *)
(* A bar carries, besides its prices, the indicators of its row that look  *)
(* back only: the votes, the blockers and the average true range, which is *)
(* not a number on the first AtrPeriod - 1 rows.                           *)
(* Definitions marked [defect] are broken variants of the next one.        *)
(***************************************************************************)
EXTENDS SignalEngine, SequencesExt

CONSTANTS
    BarValues,      \* the bars that may arrive
    Left,           \* pivot_left
    Right,          \* pivot_right
    AtrPeriod,      \* period of the average true range
    MaxBars,        \* bound: bars in the history
    MaxChanges      \* bound: bars revised, or filled in before the last one

ASSUME BarValuesAssumption == \A bar \in BarValues :
    /\ DOMAIN bar = {"high", "low", "close", "atr", "votes", "blocked"}
    /\ bar.high \in Int /\ bar.low \in Int /\ bar.close \in Int /\ bar.atr \in Nat
    /\ bar.votes \in Votes /\ bar.blocked \in BOOLEAN
ASSUME WindowAssumption ==
    /\ Left \in Nat \ {0} /\ Right \in Nat \ {0} /\ AtrPeriod \in Nat \ {0}
    /\ MaxBars \in Nat /\ MaxChanges \in Nat

VARIABLES
    bars,           \* the stored bars of an instrument, in order
    live,           \* what was decided on a bar when it was the last one, for the
                    \* decisions whose bars, it and those before it, are as they were
    changes         \* bars revised and filled in so far

vars == <<bars, live, changes>>

-----------------------------------------------------------------------------
(* enrich_point_in_time *)

\* rolling(left + right + 1, center=True): the window lies evenly around its row,
\* however its length is made up, and of an even length one row more is behind.
Ahead == (Left + Right) \div 2
Behind == Left + Right - Ahead

\* The window around row j is complete, and j is its extreme.
PivotHigh(frame, j) ==
    /\ Behind < j /\ j + Ahead <= Len(frame)
    /\ \A k \in (j - Behind)..(j + Ahead) : frame[k].high <= frame[j].high

PivotLow(frame, j) ==
    /\ Behind < j /\ j + Ahead <= Len(frame)
    /\ \A k \in (j - Behind)..(j + Ahead) : frame[j].low <= frame[k].low

\* [defect] a pivot counts from its own row on, not from its confirmation
UnconfirmedRows(i) == 1..i

\* Rows whose pivots are moved to row i or a row before it: shift(right).
ConfirmedRows(i) == 1..(i - Right)

Highs(frame, i) == {j \in ConfirmedRows(i) : PivotHigh(frame, j)}
Lows(frame, i) == {j \in ConfirmedRows(i) : PivotLow(frame, j)}

IsLast(j, S) == j \in S /\ \A k \in S : k <= j
Latest(S) == CHOOSE j \in S : IsLast(j, S)
Earlier(S) == S \ {Latest(S)}

Support(frame, i) ==
    IF Lows(frame, i) # {} /\ frame[Latest(Lows(frame, i))].low <= frame[i].close
    THEN frame[Latest(Lows(frame, i))].low
    ELSE None

Resistance(frame, i) ==
    IF Highs(frame, i) # {} /\ frame[Latest(Highs(frame, i))].high >= frame[i].close
    THEN frame[Latest(Highs(frame, i))].high
    ELSE None

\* The last two confirmed highs and lows, both rising or both falling.
Trend(frame, i) ==
    LET highs == Highs(frame, i)
        lows == Lows(frame, i)
        lastHigh == frame[Latest(highs)].high
        previousHigh == frame[Latest(Earlier(highs))].high
        lastLow == frame[Latest(lows)].low
        previousLow == frame[Latest(Earlier(lows))].low
    IN  IF highs = {} \/ lows = {} \/ Earlier(highs) = {} \/ Earlier(lows) = {}
        THEN "SIDEWAYS"
        ELSE IF lastHigh > previousHigh /\ lastLow > previousLow THEN "UPTREND"
        ELSE IF lastHigh < previousHigh /\ lastLow < previousLow THEN "DOWNTREND"
        ELSE "SIDEWAYS"

\* The moving averages are not numbers before their periods are over: these four
\* kinds of evidence are silent at least as long as the true range is unknown.
SlowEvidence == {"emas", "rsi", "macd", "adx"}
RowVotes(frame, i) ==
    [e \in Evidence |-> IF i < AtrPeriod /\ e \in SlowEvidence THEN 0
                        ELSE frame[i].votes[e]]

\* ewm(min_periods = period)
Atr(frame, i) == IF i < AtrPeriod THEN NaN ELSE frame[i].atr

Row(frame, i) ==
    [close |-> frame[i].close, atr |-> Atr(frame, i),
     votes |-> RowVotes(frame, i), blocked |-> frame[i].blocked,
     trend |-> Trend(frame, i),
     support |-> Support(frame, i), resistance |-> Resistance(frame, i)]

\* generate_signals, one row of it.
SignalAt(frame, i) == GenerateSignal(Row(frame, i))

-----------------------------------------------------------------------------

Init ==
    /\ bars = <<>>
    /\ live = <<>>
    /\ changes = 0

\* The observer reads all stored bars and decides on the last one; of its earlier
\* decisions those on rows before the n-th saw the bars that are there now.
Decided(frame, n) ==
    [i \in (DOMAIN live \cap 1..(n - 1)) \cup {Len(frame)} |->
        IF i = Len(frame) THEN SignalAt(frame, i) ELSE live[i]]

\* A bar is stored after the others.
NewBar ==
    /\ Len(bars) < MaxBars
    /\ \E bar \in BarValues :
        /\ bars' = Append(bars, bar)
        /\ live' = Decided(Append(bars, bar), Len(bars) + 1)
    /\ UNCHANGED changes

\* A pass brings a stored bar with other values.
ReviseBar ==
    /\ changes < MaxChanges
    /\ \E n \in DOMAIN bars : \E bar \in BarValues \ {bars[n]} :
        /\ bars' = [bars EXCEPT ![n] = bar]
        /\ live' = Decided([bars EXCEPT ![n] = bar], n)
    /\ changes' = changes + 1

\* A pass brings a bar that was missing before the last one.
FillBar ==
    /\ changes < MaxChanges
    /\ Len(bars) < MaxBars
    /\ \E n \in DOMAIN bars, bar \in BarValues :
        /\ bars' = InsertAt(bars, n, bar)
        /\ live' = Decided(InsertAt(bars, n, bar), n)
    /\ changes' = changes + 1

Next == NewBar \/ ReviseBar \/ FillBar

Spec == Init /\ [][Next]_vars

-----------------------------------------------------------------------------
(* Properties. *)

\* The variables hold values of their domains, and the last bar has been decided on.
TypeOK ==
    /\ bars \in Seq(BarValues) /\ Len(bars) <= MaxBars
    /\ changes \in 0..MaxChanges
    /\ DOMAIN live \subseteq DOMAIN bars
    /\ bars # <<>> => Len(bars) \in DOMAIN live
    /\ \A i \in DOMAIN live :
        /\ live[i].action \in {"BUY", "SELL", "NO_TRADE"}
        /\ live[i].score \in -100..100
        /\ live[i].stop = None <=> live[i].action = "NO_TRADE"

\* A pivot's window is complete on the row that the pivot is moved to.
NothingAhead == Ahead <= Right

\* "Without using information after each row's timestamp": whatever bars are added,
\* filled in or revised behind a decision's bar, a backtest of the history repeats the
\* decision that was made live.
LiveIsBacktest == NothingAhead => \A i \in DOMAIN live : live[i] = SignalAt(bars, i)

\* With an average true range, a signal's stop and target enclose its entry, the
\* stop is not further away than allowed, and the target is half as far again.
Encloses(entry, atr, stop, target) ==
    /\ stop # entry
    /\ IF stop < entry
       THEN entry - stop <= MaxStopDistance(atr) /\ 2 * (target - entry) = 3 * (entry - stop)
       ELSE stop - entry <= MaxStopDistance(atr) /\ 2 * (entry - target) = 3 * (stop - entry)
SignalGeometry ==
    \A i \in DOMAIN live :
        live[i].action # "NO_TRADE" /\ i >= AtrPeriod =>
            /\ Encloses(Scale * bars[i].close, bars[i].atr, live[i].stop, live[i].target)
            /\ live[i].action = "BUY" <=> live[i].stop < Scale * bars[i].close

\* At a threshold above 46 no other evidence outvotes the confirmed structure: a
\* signal is never given against the trend (_score's weights).
NeverAgainstTrend ==
    NothingAhead /\ MinScore > 46 => \A i \in DOMAIN live :
        /\ Trend(bars, i) = "DOWNTREND" => live[i].action # "BUY"
        /\ Trend(bars, i) = "UPTREND" => live[i].action # "SELL"

=============================================================================
