----------------------------- MODULE SignalEngine -----------------------------
(***************************************************************************)
(* generate_signal: one row of features becomes a buy, a sell or no trade, *)
(* with its stop and target.                                               *)
(*                                                                         *)
(* The evidence of a row is reduced to its votes: each kind of evidence    *)
(* speaks for the long side (1), the short side (-1) or not at all (0).    *)
(* Prices are integers; the levels of a signal are in twentieths of their  *)
(* unit, in which every multiple of the configuration is a whole number.   *)
(* Definitions marked [defect] are broken variants of the next one, kept   *)
(* to show which property catches them; nothing uses them.                 *)
(***************************************************************************)
EXTENDS Integers

CONSTANTS
    MinScore,       \* buy_threshold, and -sell_threshold
    MarketScore,    \* the market context's score
    NaN,            \* a float that is not a number
    None            \* no value

ASSUME ScoreAssumption == MinScore \in Nat /\ MarketScore \in Int
ASSUME NotNumbersAssumption == NaN \notin Int /\ None \notin Int /\ NaN # None

Scale == 20
AtrStopDistance(atr) == Scale * atr             \* stop_atr_multiple = 1.0
StopBuffer(atr) == 2 * atr                      \* structural_stop_buffer_atr = 0.10
MaxStopDistance(atr) == 50 * atr                \* max_structural_stop_atr = 2.50
TargetDistance(risk) == (3 * risk) \div 2       \* target_atr_multiple = 1.5

-----------------------------------------------------------------------------
(* The score. *)

Evidence == {"emas", "vwap", "rsi", "macd", "adx", "volume", "opening", "candles"}
Votes == [Evidence -> {-1, 0, 1}]
Trends == {"UPTREND", "DOWNTREND", "SIDEWAYS"}

Clamp(bound, x) == IF x > bound THEN bound ELSE IF x < -bound THEN -bound ELSE x

\* The rows of this path have no structure_trend, so that the trend counts as
\* market structure too, and no double tops and bottoms.
TrendScore(trend) ==
    CASE trend = "UPTREND" -> 30
      [] trend = "DOWNTREND" -> -30
      [] OTHER -> 0

VoteScore(v) ==
    10 * v["emas"] + 8 * v["vwap"] + 8 * v["rsi"] + 7 * v["macd"] + 8 * v["adx"]
        + 7 * v["volume"] + 10 * v["opening"] + 8 * v["candles"]

\* [defect] the market context is not limited to ten points
UnboundedScore(row) == Clamp(100, TrendScore(row.trend) + VoteScore(row.votes) + MarketScore)

Score(row) ==
    Clamp(100, TrendScore(row.trend) + VoteScore(row.votes) + Clamp(10, MarketScore))

-----------------------------------------------------------------------------
(* The stop and the signal. *)

AtrStop(row, side) ==
    IF side = "LONG" THEN Scale * row.close - AtrStopDistance(row.atr)
                     ELSE Scale * row.close + AtrStopDistance(row.atr)

LevelStop(row, side) ==
    IF side = "LONG" THEN Scale * row.support - StopBuffer(row.atr)
                     ELSE Scale * row.resistance + StopBuffer(row.atr)

\* [defect] a stop may be as far away as its level is
AcceptableAtAnyRisk(row, side, stop) ==
    IF side = "LONG" THEN stop < Scale * row.close ELSE stop > Scale * row.close

\* On its own side of the entry, and not too far from it.
Acceptable(row, side, stop) ==
    IF side = "LONG"
    THEN stop < Scale * row.close /\ Scale * row.close - stop <= MaxStopDistance(row.atr)
    ELSE stop > Scale * row.close /\ stop - Scale * row.close <= MaxStopDistance(row.atr)

\* _structural_stop: None when the structural stop is refused. An ATR that is not
\* a number makes the stop one, and no comparison refuses that.
StructuralStop(row, side) ==
    IF row.atr = NaN THEN NaN
    ELSE IF (IF side = "LONG" THEN row.support ELSE row.resistance) = None
         THEN AtrStop(row, side)
    ELSE IF Acceptable(row, side, LevelStop(row, side))
         THEN LevelStop(row, side)
    ELSE None

Target(row, side, stop) ==
    IF stop = NaN THEN NaN
    ELSE IF side = "LONG"
         THEN Scale * row.close + TargetDistance(Scale * row.close - stop)
         ELSE Scale * row.close - TargetDistance(stop - Scale * row.close)

\* "atr <= 0" and "entry <= 0"; a comparison with NaN is false.
Blocked(row) == row.blocked \/ row.close <= 0 \/ (row.atr # NaN /\ row.atr <= 0)

SideOf(row) ==
    CASE ~Blocked(row) /\ Score(row) >= MinScore -> "LONG"
      [] ~Blocked(row) /\ Score(row) <= -MinScore -> "SHORT"
      [] OTHER -> "NONE"

NoTrade(row) ==
    [action |-> "NO_TRADE", score |-> Score(row), stop |-> None, target |-> None]

GenerateSignal(row) ==
    LET side == SideOf(row)
        stop == StructuralStop(row, side)
    IN  IF side = "NONE" \/ stop = None
        THEN NoTrade(row)
        ELSE [action |-> IF side = "LONG" THEN "BUY" ELSE "SELL",
              score |-> Score(row), stop |-> stop, target |-> Target(row, side, stop)]

=============================================================================
