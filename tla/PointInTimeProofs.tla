--------------------------- MODULE PointInTimeProofs ---------------------------
(***************************************************************************)
(* Proofs about PointInTime: decisions depend on no later bar wherever a  *)
(* pivot's window is complete on the row it is moved to, and a signal's    *)
(* levels lie as the configuration says, for every set of bars and every   *)
(* threshold; and about MarketStructure: a snapshot depends on no later    *)
(* bar either, and its levels enclose those of the signal.                 *)
(***************************************************************************)
EXTENDS MarketStructure, TLAPS, WellFoundedInduction, FiniteSetTheorems

Optional == Int \cup {None}

\* What generate_signal is given, and what it returns.
FeatureRows ==
    [close : Int, atr : Nat \cup {NaN}, votes : Votes, blocked : BOOLEAN,
     trend : Trends, support : Optional, resistance : Optional]
Signals ==
    [action : {"BUY", "SELL", "NO_TRADE"}, score : -100..100,
     stop : Int \cup {NaN, None}, target : Int \cup {NaN, None}]

-----------------------------------------------------------------------------
(* The last row of a set of rows. *)

\* A set of natural numbers has a smallest member.
LEMMA SmallestRow ==
    ASSUME NEW S \in SUBSET Nat, S # {}
    PROVE  \E t \in S : \A u \in S : t <= u
  <1>1. PICK t \in S : \A u \in S : ~(<<u, t>> \in OpToRel(<, Nat))
    BY NatLessThanWellFounded, WFMin
  <1>2. \A u \in S : ~(u < t)
    BY <1>1 DEF OpToRel
  <1> QED
    BY <1>2

\* A set of rows that is not empty has a last one, and Latest names it.
LEMMA LatestIsLast ==
    ASSUME NEW n \in Int, NEW S \in SUBSET (1..n), S # {}
    PROVE  Latest(S) \in S /\ \A u \in S : u <= Latest(S)
  <1> DEFINE mirror == {n - t : t \in S}
  <1>1. mirror \in SUBSET Nat /\ mirror # {}
    <2>1. \A t \in S : n - t \in Nat
      OBVIOUS
    <2> QED
      BY <2>1
  <1>2. PICK m \in mirror : \A u \in mirror : m <= u
    BY <1>1, SmallestRow
  <1>3. PICK t \in S : m = n - t
    OBVIOUS
  <1>4. \A u \in S : u <= t
    <2> SUFFICES ASSUME NEW u \in S PROVE u <= t
      OBVIOUS
    <2>1. n - t <= n - u
      BY <1>2, <1>3
    <2> QED
      BY <2>1
  <1>5. IsLast(t, S)
    BY <1>4 DEF IsLast
  <1> QED
    BY <1>5 DEF Latest, IsLast

-----------------------------------------------------------------------------
(* A row of features depends on the bars up to it only. *)

\* The two sides of a pivot's window.
LEMMA WindowIs == Ahead \in Nat /\ Behind \in Nat /\ Behind + Ahead = Left + Right
  <1>1. \A n \in Nat : n \div 2 \in Nat /\ n \div 2 <= n
    OBVIOUS
  <1>2. Left + Right \in Nat /\ Left \in Nat /\ Right \in Nat
    BY WindowAssumption
  <1>3. Ahead \in Nat /\ Ahead <= Left + Right
    BY <1>1, <1>2 DEF Ahead
  <1> QED
    BY <1>2, <1>3 DEF Behind

\* Histories that are the same up to a row have the same confirmed pivots there.
LEMMA SamePivots ==
    ASSUME NothingAhead, NEW frame \in Seq(BarValues), NEW other \in Seq(BarValues),
           NEW i \in 1..Len(frame), i <= Len(other), \A k \in 1..i : other[k] = frame[k]
    PROVE  /\ Highs(other, i) = Highs(frame, i) /\ Lows(other, i) = Lows(frame, i)
           /\ Highs(frame, i) \subseteq 1..(i - Right)
           /\ Lows(frame, i) \subseteq 1..(i - Right)
  <1>0. /\ Ahead \in Nat /\ Behind \in Nat /\ Right \in Nat /\ Ahead <= Right
        /\ Len(frame) \in Nat /\ Len(other) \in Nat /\ i \in Nat
    BY WindowIs, WindowAssumption DEF NothingAhead
  <1>1. ASSUME NEW j \in 1..(i - Right)
        PROVE  /\ PivotHigh(other, j) <=> PivotHigh(frame, j)
               /\ PivotLow(other, j) <=> PivotLow(frame, j)
    <2>1. j \in 1..i /\ j + Ahead <= i
      BY <1>0
    <2>2. j + Ahead <= Len(frame) /\ j + Ahead <= Len(other) /\ other[j] = frame[j]
      BY <1>0, <2>1
    <2>3. CASE Behind < j
      <3>1. \A k \in (j - Behind)..(j + Ahead) : other[k] = frame[k]
        BY <1>0, <2>1, <2>3
      <3> QED
        BY <2>2, <3>1 DEF PivotHigh, PivotLow
    <2>4. CASE ~(Behind < j)
      BY <2>4 DEF PivotHigh, PivotLow
    <2> QED
      BY <2>3, <2>4
  <1> QED
    BY <1>1 DEF Highs, Lows, ConfirmedRows

\* So they have the same levels and trend there, and with them the same row.
LEMMA SameRow ==
    ASSUME NothingAhead, NEW frame \in Seq(BarValues), NEW other \in Seq(BarValues),
           NEW i \in 1..Len(frame), i <= Len(other), \A k \in 1..i : other[k] = frame[k]
    PROVE  Row(other, i) = Row(frame, i)
  <1> DEFINE highs == Highs(frame, i)
             lows == Lows(frame, i)
  <1>0. Right \in Nat \ {0} /\ i \in Nat /\ i - Right \in Int
    BY WindowAssumption
  <1>1. other[i] = frame[i]
    OBVIOUS
  <1>2. Highs(other, i) = highs /\ Lows(other, i) = lows
    BY SamePivots
  <1>3. highs \subseteq 1..(i - Right) /\ lows \subseteq 1..(i - Right)
    BY SamePivots
  <1> HIDE DEF highs, lows
  <1>4. ASSUME NEW S \in SUBSET (1..(i - Right)), S # {}
        PROVE  other[Latest(S)] = frame[Latest(S)]
    <2>1. Latest(S) \in S
      BY <1>0, <1>4, LatestIsLast
    <2>2. Latest(S) \in 1..(i - Right)
      BY <2>1
    <2>3. Latest(S) \in 1..i
      BY <1>0, <2>2
    <2> QED
      BY <2>3
  <1>5. Support(other, i) = Support(frame, i)
    BY <1>1, <1>2, <1>3, <1>4 DEF Support, lows
  <1>6. Resistance(other, i) = Resistance(frame, i)
    BY <1>1, <1>2, <1>3, <1>4 DEF Resistance, highs
  <1>7. Trend(other, i) = Trend(frame, i)
    <2>1. CASE highs = {} \/ lows = {} \/ Earlier(highs) = {} \/ Earlier(lows) = {}
      BY <2>1, <1>2 DEF Trend, highs, lows
    <2>2. CASE ~(highs = {} \/ lows = {} \/ Earlier(highs) = {} \/ Earlier(lows) = {})
      <3>1. Earlier(highs) \subseteq 1..(i - Right) /\ Earlier(lows) \subseteq 1..(i - Right)
        BY <1>3 DEF Earlier
      <3>2. /\ other[Latest(highs)] = frame[Latest(highs)]
            /\ other[Latest(lows)] = frame[Latest(lows)]
            /\ other[Latest(Earlier(highs))] = frame[Latest(Earlier(highs))]
            /\ other[Latest(Earlier(lows))] = frame[Latest(Earlier(lows))]
        BY <1>3, <1>4, <2>2, <3>1
      <3> QED
        BY <3>2, <1>2 DEF Trend, highs, lows
    <2> QED
      BY <2>1, <2>2
  <1>8. Atr(other, i) = Atr(frame, i) /\ RowVotes(other, i) = RowVotes(frame, i)
    BY <1>1 DEF Atr, RowVotes
  <1> QED
    BY <1>1, <1>5, <1>6, <1>7, <1>8 DEF Row

-----------------------------------------------------------------------------
(* What generate_signal returns. *)

\* The evidence besides the trend is worth at most 66 points, the market 10.
LEMMA VotesBounded ==
    ASSUME NEW v \in Votes
    PROVE  VoteScore(v) \in -66..66
  <1>1. \A e \in Evidence : v[e] \in Int /\ -1 <= v[e] /\ v[e] <= 1
    BY DEF Votes
  <1>2. /\ v["emas"] \in -1..1 /\ v["vwap"] \in -1..1 /\ v["rsi"] \in -1..1
        /\ v["macd"] \in -1..1 /\ v["adx"] \in -1..1 /\ v["volume"] \in -1..1
        /\ v["opening"] \in -1..1 /\ v["candles"] \in -1..1
    BY <1>1 DEF Evidence
  <1> QED
    BY <1>2 DEF VoteScore

LEMMA ClampIs ==
    ASSUME NEW bound \in Nat, NEW x \in Int
    PROVE  /\ Clamp(bound, x) \in (-bound)..bound
           /\ \A y \in (-bound)..bound : x <= y => Clamp(bound, x) <= y
           /\ \A y \in (-bound)..bound : y <= x => y <= Clamp(bound, x)
  BY DEF Clamp

\* A score is limited, and the trend alone outweighs a vote of everything else
\* for more than 46 points.
LEMMA ScoreIs ==
    ASSUME NEW row \in FeatureRows
    PROVE  /\ Score(row) \in -100..100
           /\ row.trend = "DOWNTREND" => Score(row) <= 46
           /\ row.trend = "UPTREND" => -46 <= Score(row)
  <1>1. row.votes \in Votes /\ row.trend \in Trends
    BY DEF FeatureRows
  <1> DEFINE votes == VoteScore(row.votes)
             market == Clamp(10, MarketScore)
             sum == TrendScore(row.trend) + votes + market
  <1>2. votes \in -66..66
    BY <1>1, VotesBounded
  <1>3. market \in -10..10
    BY ClampIs, ScoreAssumption
  <1>4. /\ TrendScore(row.trend) \in {30, -30, 0}
        /\ row.trend = "DOWNTREND" => TrendScore(row.trend) = -30
        /\ row.trend = "UPTREND" => TrendScore(row.trend) = 30
    BY <1>1 DEF TrendScore, Trends
  <1> HIDE DEF votes, market
  <1>5. /\ sum \in Int
        /\ row.trend = "DOWNTREND" => sum <= 46
        /\ row.trend = "UPTREND" => -46 <= sum
    BY <1>2, <1>3, <1>4
  <1>6. Score(row) = Clamp(100, sum)
    BY DEF Score, votes, market
  <1> HIDE DEF sum
  <1> QED
    BY <1>5, <1>6 DEF Clamp

\* The distance of a stop is an even number of twentieths, so the target is
\* exactly half as far again.
LEMMA TargetIs ==
    ASSUME NEW half \in Int
    PROVE  2 * TargetDistance(2 * half) = 3 * (2 * half)
  <1>1. (3 * (2 * half)) \div 2 = 3 * half
    OBVIOUS
  <1> QED
    BY <1>1 DEF TargetDistance

\* A stop that is a number lies on the side's side of the entry, at an even
\* distance that is allowed.
LEMMA StopIs ==
    ASSUME NEW row \in FeatureRows, ~Blocked(row), row.atr # NaN,
           NEW side \in {"LONG", "SHORT"}, StructuralStop(row, side) # None
    PROVE  LET stop == StructuralStop(row, side)
               entry == Scale * row.close
               risk == IF side = "LONG" THEN entry - stop ELSE stop - entry
           IN  /\ stop \in Int
               /\ 0 < risk /\ risk <= MaxStopDistance(row.atr)
               /\ 2 * TargetDistance(risk) = 3 * risk
  <1> DEFINE stop == StructuralStop(row, side)
             level == IF side = "LONG" THEN row.support ELSE row.resistance
  <1>1. /\ row.close \in Int /\ row.atr \in Nat /\ 0 < row.atr
        /\ row.support \in Optional /\ row.resistance \in Optional
    BY DEF FeatureRows, Blocked
  <1>2. CASE level = None
    <2>1. stop = AtrStop(row, side)
      BY <1>2 DEF StructuralStop
    <2>2. CASE side = "LONG"
      <3>1. stop = 20 * row.close - 20 * row.atr
        BY <2>1, <2>2 DEF AtrStop, AtrStopDistance, Scale
      <3> DEFINE half == 10 * row.atr
      <3>3. half \in Int /\ 20 * row.close - stop = 2 * half
        BY <3>1, <1>1
      <3> HIDE DEF half
      <3>4. 2 * TargetDistance(2 * half) = 3 * (2 * half)
        BY <3>3, TargetIs
      <3> QED
        BY <3>1, <3>3, <3>4, <1>1, <2>2 DEF MaxStopDistance, Scale
    <2>3. CASE side = "SHORT"
      <3>1. stop = 20 * row.close + 20 * row.atr
        BY <2>1, <2>3 DEF AtrStop, AtrStopDistance, Scale
      <3> DEFINE half == 10 * row.atr
      <3>3. half \in Int /\ stop - 20 * row.close = 2 * half
        BY <3>1, <1>1
      <3> HIDE DEF half
      <3>4. 2 * TargetDistance(2 * half) = 3 * (2 * half)
        BY <3>3, TargetIs
      <3> QED
        BY <3>1, <3>3, <3>4, <1>1, <2>3 DEF MaxStopDistance, Scale
    <2> QED
      BY <2>2, <2>3
  <1>3. CASE level # None
    <2>1. stop = LevelStop(row, side) /\ Acceptable(row, side, LevelStop(row, side))
      BY <1>3 DEF StructuralStop
    <2>2. CASE side = "LONG"
      <3>1. stop = 20 * row.support - 2 * row.atr /\ row.support \in Int
        BY <1>1, <1>3, <2>1, <2>2 DEF LevelStop, StopBuffer, Scale, Optional
      <3>2. /\ stop < 20 * row.close
            /\ 20 * row.close - stop <= MaxStopDistance(row.atr)
        BY <2>1, <2>2 DEF Acceptable, Scale
      <3> DEFINE half == 10 * row.close - 10 * row.support + row.atr
      <3>3. half \in Int /\ 20 * row.close - stop = 2 * half
        BY <3>1, <1>1
      <3> HIDE DEF half
      <3>4. 2 * TargetDistance(2 * half) = 3 * (2 * half)
        BY <3>3, TargetIs
      <3> QED
        BY <3>1, <3>2, <3>3, <3>4, <1>1, <2>2 DEF Scale
    <2>3. CASE side = "SHORT"
      <3>1. stop = 20 * row.resistance + 2 * row.atr /\ row.resistance \in Int
        BY <1>1, <1>3, <2>1, <2>3 DEF LevelStop, StopBuffer, Scale, Optional
      <3>2. /\ stop > 20 * row.close
            /\ stop - 20 * row.close <= MaxStopDistance(row.atr)
        BY <2>1, <2>3 DEF Acceptable, Scale
      <3> DEFINE half == 10 * row.resistance - 10 * row.close + row.atr
      <3>3. half \in Int /\ stop - 20 * row.close = 2 * half
        BY <3>1, <1>1
      <3> HIDE DEF half
      <3>4. 2 * TargetDistance(2 * half) = 3 * (2 * half)
        BY <3>3, TargetIs
      <3> QED
        BY <3>1, <3>2, <3>3, <3>4, <1>1, <2>3 DEF Scale
    <2> QED
      BY <2>2, <2>3
  <1> QED
    BY <1>2, <1>3

\* Its target is then a number too; and whatever it is, the score and the action keep
\* their ranges and respect the trend.
LEMMA SignalIs ==
    ASSUME NEW row \in FeatureRows
    PROVE  LET signal == GenerateSignal(row)
           IN  /\ signal \in Signals
               /\ signal.stop = None <=> signal.action = "NO_TRADE"
               /\ row.trend = "DOWNTREND" /\ MinScore > 46 => signal.action # "BUY"
               /\ row.trend = "UPTREND" /\ MinScore > 46 => signal.action # "SELL"
               /\ signal.action # "NO_TRADE" /\ row.atr # NaN =>
                    /\ Encloses(Scale * row.close, row.atr, signal.stop, signal.target)
                    /\ signal.action = "BUY" <=> signal.stop < Scale * row.close
  <1> DEFINE signal == GenerateSignal(row)
             side == SideOf(row)
             stop == StructuralStop(row, side)
             target == Target(row, side, stop)
  <1>0. NaN \notin Int /\ None \notin Int /\ NaN # None /\ MinScore \in Nat
    BY NotNumbersAssumption, ScoreAssumption
  <1>1. /\ Score(row) \in -100..100
        /\ row.trend = "DOWNTREND" => Score(row) <= 46
        /\ row.trend = "UPTREND" => -46 <= Score(row)
    BY ScoreIs
  <1>2. /\ row.close \in Int
        /\ row.atr # NaN => row.atr \in Nat
    BY DEF FeatureRows
  <1>3. CASE side = "NONE" \/ stop = None
    <2>1. signal = [action |-> "NO_TRADE", score |-> Score(row), stop |-> None, target |-> None]
      BY <1>3 DEF GenerateSignal, NoTrade
    <2> QED
      BY <2>1, <1>1 DEF Signals
  <1>4. CASE side # "NONE" /\ stop # None
    <2>1. signal = [action |-> IF side = "LONG" THEN "BUY" ELSE "SELL",
                    score |-> Score(row), stop |-> stop, target |-> target]
      BY <1>4 DEF GenerateSignal
    <2>2. /\ side \in {"LONG", "SHORT"} /\ ~Blocked(row)
          /\ side = "LONG" => Score(row) >= MinScore
          /\ side = "SHORT" => Score(row) <= -MinScore
      BY <1>4, <1>1, <1>0 DEF SideOf
    <2>3. MinScore > 46 => /\ row.trend = "DOWNTREND" => side # "LONG"
                           /\ row.trend = "UPTREND" => side # "SHORT"
      BY <2>2, <1>0, <1>1
    <2>4. CASE row.atr = NaN
      <3>1. stop = NaN /\ target = NaN
        BY <2>4 DEF StructuralStop, Target
      <3> QED
        BY <3>1, <2>1, <2>2, <2>3, <2>4, <1>0, <1>1 DEF Signals
    <2>5. CASE row.atr # NaN
      <3> DEFINE entry == Scale * row.close
                 risk == IF side = "LONG" THEN entry - stop ELSE stop - entry
      <3>1. /\ stop \in Int
            /\ 0 < risk /\ risk <= MaxStopDistance(row.atr)
            /\ 2 * TargetDistance(risk) = 3 * risk
        BY <1>4, <2>2, <2>5, StopIs
      <3>2. target = IF side = "LONG" THEN entry + TargetDistance(entry - stop)
                                      ELSE entry - TargetDistance(stop - entry)
        BY <3>1, <1>0 DEF Target
      <3>3. entry \in Int /\ risk \in Int /\ TargetDistance(risk) \in Int
        BY <3>1, <1>2 DEF Scale, TargetDistance
      <3> HIDE DEF entry, stop
      <3>4. /\ side = "LONG" => target = entry + TargetDistance(risk) /\ stop < entry
            /\ side = "SHORT" => target = entry - TargetDistance(risk) /\ entry < stop
        BY <3>1, <3>2, <3>3
      <3>5. target \in Int
        BY <3>3, <3>4, <2>2
      <3>6. Encloses(entry, row.atr, stop, target)
        BY <3>1, <3>3, <3>4, <3>5, <2>2 DEF Encloses
      <3>7. signal.action = "BUY" <=> signal.stop < entry
        BY <2>1, <2>2, <3>1, <3>3, <3>4
      <3>8. signal \in Signals /\ signal.stop # None /\ signal.action # "NO_TRADE"
        BY <2>1, <2>2, <3>1, <3>5, <1>0, <1>1 DEF Signals
      <3> QED
        BY <2>1, <2>2, <2>3, <3>6, <3>7, <3>8 DEF entry
    <2> QED
      BY <2>4, <2>5
  <1> QED
    BY <1>3, <1>4

\* Every row of a history of bars is a row of features.
LEMMA RowIs ==
    ASSUME NEW frame \in Seq(BarValues), NEW i \in 1..Len(frame)
    PROVE  Row(frame, i) \in FeatureRows
  <1>0. Right \in Nat \ {0} /\ Len(frame) \in Nat /\ i - Right \in Int
    BY WindowAssumption
  <1>1. \A k \in 1..Len(frame) :
            /\ frame[k].high \in Int /\ frame[k].low \in Int /\ frame[k].close \in Int
            /\ frame[k].atr \in Nat /\ frame[k].votes \in Votes /\ frame[k].blocked \in BOOLEAN
    BY BarValuesAssumption
  <1>2. ASSUME NEW S \in SUBSET (1..(i - Right)), S # {}
        PROVE  Latest(S) \in 1..Len(frame)
    <2>1. Latest(S) \in S
      BY <1>0, <1>2, LatestIsLast
    <2>2. Latest(S) \in 1..(i - Right)
      BY <2>1
    <2> QED
      BY <2>2, <1>0
  <1>3. Support(frame, i) \in Optional
    BY <1>1, <1>2 DEF Support, Lows, ConfirmedRows, Optional
  <1>4. Resistance(frame, i) \in Optional
    BY <1>1, <1>2 DEF Resistance, Highs, ConfirmedRows, Optional
  <1>5. Trend(frame, i) \in Trends
    BY DEF Trend, Trends
  <1>6. RowVotes(frame, i) \in Votes
    BY <1>1 DEF RowVotes, Votes
  <1>7. Atr(frame, i) \in Nat \cup {NaN}
    BY <1>1 DEF Atr
  <1> QED
    BY <1>1, <1>3, <1>4, <1>5, <1>6, <1>7 DEF Row, FeatureRows

-----------------------------------------------------------------------------
(* The theorems. *)

\* A decision was made on a row of features with its bar's close and true range.
MadeOnRow(i) ==
    \E row \in FeatureRows :
        row.close = bars[i].close /\ row.atr = Atr(bars, i) /\ live[i] = GenerateSignal(row)

\* The decisions belong to bars that are there, and were made on their rows.
IInv ==
    /\ bars \in Seq(BarValues)
    /\ Len(bars) <= MaxBars
    /\ changes \in 0..MaxChanges
    /\ DOMAIN live \subseteq 1..Len(bars)
    /\ bars # <<>> => Len(bars) \in DOMAIN live
    /\ \A i \in DOMAIN live : MadeOnRow(i)
    /\ LiveIsBacktest

LEMMA InitIInv == Init => IInv
  BY WindowAssumption DEF Init, IInv, LiveIsBacktest

\* What the three actions do: the bars before the n-th stay, the decisions on them too,
\* and the last bar is decided on.
LEMMA DecidedKeepsIInv ==
    ASSUME IInv, NEW frame \in Seq(BarValues), Len(frame) <= MaxBars, NEW n \in 1..Len(frame),
           n - 1 <= Len(bars), \A k \in 1..(n - 1) : frame[k] = bars[k],
           bars' = frame, live' = Decided(frame, n), changes' \in 0..MaxChanges
    PROVE  IInv'
  <1> DEFINE last == Len(frame)
             kept == DOMAIN live \cap 1..(n - 1)
  <1>0. last \in Nat /\ last \in 1..Len(frame) /\ Len(bars) \in Nat /\ bars \in Seq(BarValues)
    BY DEF IInv
  <1>1. /\ DOMAIN live' = kept \cup {last}
        /\ live'[last] = SignalAt(frame, last)
        /\ \A i \in kept : i # last => live'[i] = live[i]
    BY DEF Decided
  <1>2. \A i \in kept : i \in 1..Len(frame) /\ i \in 1..Len(bars) /\ i < n /\ i # last
    BY <1>0
  <1> HIDE DEF last, kept
  <1>3. DOMAIN live' \subseteq 1..Len(frame) /\ Len(frame) \in DOMAIN live'
    BY <1>0, <1>1, <1>2 DEF last
  <1>4. ASSUME NEW i \in DOMAIN live'
        PROVE  MadeOnRow(i)'
    <2>1. CASE i = last
      <3>1. Row(frame, last) \in FeatureRows
        BY <1>0, RowIs
      <3>2. Row(frame, last).close = frame[last].close /\ Row(frame, last).atr = Atr(frame, last)
        BY DEF Row
      <3> QED
        BY <1>1, <2>1, <3>1, <3>2 DEF MadeOnRow, SignalAt, Atr
    <2>2. CASE i # last
      <3>1. i \in kept /\ live'[i] = live[i] /\ i \in DOMAIN live
        BY <1>1, <2>2 DEF kept
      <3>2. frame[i] = bars[i]
        BY <3>1, <1>2
      <3>3. PICK row \in FeatureRows :
              row.close = bars[i].close /\ row.atr = Atr(bars, i) /\ live[i] = GenerateSignal(row)
        BY <3>1 DEF IInv, MadeOnRow
      <3>4. row.close = frame[i].close /\ row.atr = Atr(frame, i) /\ live'[i] = GenerateSignal(row)
        BY <3>1, <3>2, <3>3 DEF Atr
      <3> QED
        BY <3>4 DEF MadeOnRow, Atr
    <2> QED
      BY <2>1, <2>2
  <1>5. ASSUME NothingAhead, NEW i \in DOMAIN live'
        PROVE  live'[i] = SignalAt(frame, i)
    <2>1. CASE i = last
      BY <1>1, <2>1
    <2>2. CASE i # last
      <3>1. i \in kept /\ live'[i] = live[i] /\ i \in DOMAIN live
        BY <1>1, <2>2 DEF kept
      <3>2. live[i] = SignalAt(bars, i)
        BY <3>1, <1>5 DEF IInv, LiveIsBacktest
      <3>3. i \in 1..Len(bars) /\ i <= Len(frame) /\ \A k \in 1..i : frame[k] = bars[k]
        BY <1>0, <1>2, <3>1
      <3>4. Row(frame, i) = Row(bars, i)
        BY <1>0, <1>5, <3>3, SameRow
      <3> QED
        BY <3>1, <3>2, <3>4 DEF SignalAt
    <2> QED
      BY <2>1, <2>2
  <1>6. LiveIsBacktest'
    <2>1. \A i \in DOMAIN live' : SignalAt(bars, i)' = SignalAt(frame, i)
      BY DEF SignalAt, Row, Atr, RowVotes, Trend, Support, Resistance, Highs, Lows,
             PivotHigh, PivotLow
    <2>2. NothingAhead' <=> NothingAhead
      BY DEF NothingAhead, Ahead
    <2> QED
      BY <1>5, <2>1, <2>2 DEF LiveIsBacktest
  <1> QED
    BY <1>3, <1>4, <1>6 DEF IInv

\* A bar among the others leaves those before it in their places.
LEMMA Inserted ==
    ASSUME NEW h \in Seq(BarValues), NEW n \in 1..Len(h), NEW b \in BarValues
    PROVE  /\ InsertAt(h, n, b) \in Seq(BarValues)
           /\ Len(InsertAt(h, n, b)) = Len(h) + 1
           /\ \A m \in 1..(n - 1) : InsertAt(h, n, b)[m] = h[m]
  <1> DEFINE before == SubSeq(h, 1, n - 1)
             left == before \o <<b>>
             after == SubSeq(h, n, Len(h))
  <1>1. Len(h) \in Nat /\ n \in Nat /\ n >= 1 /\ n <= Len(h)
    OBVIOUS
  <1>2. /\ before \in Seq(BarValues) /\ Len(before) = n - 1
        /\ \A m \in 1..(n - 1) : before[m] = h[m]
    BY <1>1
  <1>3. after \in Seq(BarValues) /\ Len(after) = Len(h) - n + 1
    BY <1>1
  <1>4. <<b>> \in Seq(BarValues) /\ Len(<<b>>) = 1
    OBVIOUS
  <1> HIDE DEF before, after
  <1>5. ASSUME NEW s \in Seq(BarValues), NEW t \in Seq(BarValues)
        PROVE  /\ s \o t \in Seq(BarValues) /\ Len(s \o t) = Len(s) + Len(t)
               /\ \A m \in 1..Len(s) : (s \o t)[m] = s[m]
    OBVIOUS
  <1>6. /\ left \in Seq(BarValues) /\ Len(left) = n
        /\ \A m \in 1..(n - 1) : left[m] = h[m]
    BY <1>1, <1>2, <1>4, <1>5
  <1> HIDE DEF left
  <1>7. /\ left \o after \in Seq(BarValues) /\ Len(left \o after) = n + Len(after)
        /\ \A m \in 1..n : (left \o after)[m] = left[m]
    BY <1>3, <1>5, <1>6
  <1>8. InsertAt(h, n, b) = left \o after
    BY DEF InsertAt, left, before, after
  <1>9. n + Len(after) = Len(h) + 1 /\ \A m \in 1..(n - 1) : m \in 1..n
    BY <1>1, <1>3
  <1> QED
    BY <1>6, <1>7, <1>8, <1>9

\* No step disturbs a decision whose bars stay.
LEMMA NextIInv == IInv /\ [Next]_vars => IInv'
  <1> SUFFICES ASSUME IInv, [Next]_vars PROVE IInv'
    OBVIOUS
  <1>0. MaxBars \in Nat /\ MaxChanges \in Nat /\ Len(bars) \in Nat /\ bars \in Seq(BarValues)
        /\ Len(bars) <= MaxBars /\ changes \in 0..MaxChanges
    BY WindowAssumption DEF IInv
  <1>1. CASE NewBar
    <2>1. PICK bar \in BarValues : /\ bars' = Append(bars, bar)
                                   /\ live' = Decided(Append(bars, bar), Len(bars) + 1)
      BY <1>1 DEF NewBar
    <2> DEFINE frame == Append(bars, bar)
    <2>2. /\ frame \in Seq(BarValues) /\ Len(frame) = Len(bars) + 1
          /\ \A k \in 1..Len(bars) : frame[k] = bars[k]
      BY <1>0
    <2>3. bars' = frame /\ live' = Decided(frame, Len(bars) + 1)
      BY <2>1
    <2> HIDE DEF frame
    <2>4. Len(frame) <= MaxBars /\ Len(bars) + 1 \in 1..Len(frame) /\ changes' \in 0..MaxChanges
      BY <1>0, <1>1, <2>2 DEF NewBar
    <2>5. (Len(bars) + 1) - 1 = Len(bars) /\ Len(bars) <= Len(bars)
      BY <1>0
    <2> QED
      BY <2>2, <2>3, <2>4, <2>5, DecidedKeepsIInv
  <1>2. CASE ReviseBar
    <2>1. PICK n \in DOMAIN bars, bar \in BarValues :
            /\ bars' = [bars EXCEPT ![n] = bar]
            /\ live' = Decided([bars EXCEPT ![n] = bar], n)
      BY <1>2 DEF ReviseBar
    <2> DEFINE frame == [bars EXCEPT ![n] = bar]
    <2>2. /\ frame \in Seq(BarValues) /\ Len(frame) = Len(bars)
          /\ \A k \in 1..(n - 1) : frame[k] = bars[k]
          /\ n \in 1..Len(bars)
      BY <1>0
    <2>3. bars' = frame /\ live' = Decided(frame, n)
      BY <2>1
    <2> HIDE DEF frame
    <2>4. Len(frame) <= MaxBars /\ n \in 1..Len(frame) /\ n - 1 <= Len(bars)
          /\ changes' \in 0..MaxChanges
      BY <1>0, <1>2, <2>2 DEF ReviseBar
    <2> QED
      BY <2>2, <2>3, <2>4, DecidedKeepsIInv
  <1>3. CASE FillBar
    <2>1. PICK n \in DOMAIN bars, bar \in BarValues :
            /\ bars' = InsertAt(bars, n, bar)
            /\ live' = Decided(InsertAt(bars, n, bar), n)
      BY <1>3 DEF FillBar
    <2> DEFINE frame == InsertAt(bars, n, bar)
    <2>2. n \in 1..Len(bars)
      BY <1>0
    <2>3. /\ frame \in Seq(BarValues) /\ Len(frame) = Len(bars) + 1
          /\ \A k \in 1..(n - 1) : frame[k] = bars[k]
      BY <1>0, <2>2, Inserted
    <2>4. bars' = frame /\ live' = Decided(frame, n)
      BY <2>1
    <2> HIDE DEF frame
    <2>5. Len(frame) <= MaxBars /\ n \in 1..Len(frame) /\ n - 1 <= Len(bars)
          /\ changes' \in 0..MaxChanges
      BY <1>0, <1>3, <2>2, <2>3 DEF FillBar
    <2> QED
      BY <2>3, <2>4, <2>5, DecidedKeepsIInv
  <1>4. CASE UNCHANGED vars
    <2>1. bars' = bars /\ live' = live /\ changes' = changes
      BY <1>4 DEF vars
    <2>2. \A i \in DOMAIN live : SignalAt(bars, i)' = SignalAt(bars, i)
      BY <2>1 DEF SignalAt, Row, Atr, RowVotes, Trend, Support, Resistance, Highs, Lows,
                  PivotHigh, PivotLow
    <2>3. \A i \in DOMAIN live : MadeOnRow(i)' <=> MadeOnRow(i)
      BY <2>1 DEF MadeOnRow, Atr
    <2>4. NothingAhead' <=> NothingAhead
      BY DEF NothingAhead, Ahead
    <2> QED
      BY <2>1, <2>2, <2>3, <2>4 DEF IInv, LiveIsBacktest
  <1> QED
    BY <1>1, <1>2, <1>3, <1>4 DEF Next

LEMMA AlwaysIInv == Spec => []IInv
  BY InitIInv, NextIInv, PTL DEF Spec

\* Histories and decisions keep their types; a decision without a stop is no trade.
THEOREM TypeCorrect == Spec => []TypeOK
  <1>1. IInv => TypeOK
    <2> SUFFICES ASSUME IInv PROVE TypeOK
      OBVIOUS
    <2>1. ASSUME NEW i \in DOMAIN live
          PROVE  /\ live[i].action \in {"BUY", "SELL", "NO_TRADE"}
                 /\ live[i].score \in -100..100
                 /\ live[i].stop = None <=> live[i].action = "NO_TRADE"
      <3>1. PICK row \in FeatureRows : live[i] = GenerateSignal(row)
        BY <2>1 DEF IInv, MadeOnRow
      <3> QED
        BY <3>1, SignalIs DEF Signals
    <2>2. DOMAIN bars = 1..Len(bars)
      BY DEF IInv
    <2> QED
      BY <2>1, <2>2 DEF IInv, TypeOK
  <1> QED
    BY <1>1, AlwaysIInv, PTL

\* Where the window of a pivot is complete on the row it is moved to, no decision
\* depends on a later bar, whether added, filled in or revised: a backtest of the whole
\* history repeats what was decided live (enrich_point_in_time).
THEOREM DecisionsAreCausal == Spec => []LiveIsBacktest
  <1>1. IInv => LiveIsBacktest
    BY DEF IInv
  <1> QED
    BY <1>1, AlwaysIInv, PTL

\* With as many bars to the right as to the left, and in general with at most one more
\* to the left, the window is complete on that row.
THEOREM EvenWindowsSuffice == Left <= Right + 1 => NothingAhead
  <1>1. ASSUME Left <= Right + 1 PROVE (Left + Right) \div 2 <= Right
    <2>1. Left + Right <= 2 * Right + 1 /\ Left + Right \in Nat /\ Right \in Nat
      BY <1>1, WindowAssumption
    <2> QED
      BY <2>1
  <1> QED
    BY <1>1 DEF NothingAhead, Ahead

\* With an average true range the levels of every signal enclose its entry at the
\* configured distances (_structural_stop, generate_signal).
THEOREM LevelsEnclose == Spec => []SignalGeometry
  <1>1. IInv => SignalGeometry
    <2> SUFFICES ASSUME IInv, NEW i \in DOMAIN live,
                        live[i].action # "NO_TRADE", i >= AtrPeriod
                 PROVE  /\ Encloses(Scale * bars[i].close, bars[i].atr,
                                    live[i].stop, live[i].target)
                        /\ live[i].action = "BUY" <=> live[i].stop < Scale * bars[i].close
      BY DEF SignalGeometry
    <2>1. PICK row \in FeatureRows :
            row.close = bars[i].close /\ row.atr = Atr(bars, i) /\ live[i] = GenerateSignal(row)
      BY DEF IInv, MadeOnRow
    <2>2. i \in 1..Len(bars) /\ bars[i] \in BarValues
      BY DEF IInv
    <2>3. row.atr = bars[i].atr
      BY <2>1, <2>2, WindowAssumption DEF Atr
    <2>4. row.atr # NaN
      BY <2>2, <2>3, BarValuesAssumption, NotNumbersAssumption
    <2> QED
      BY <2>1, <2>3, <2>4, SignalIs
  <1> QED
    BY <1>1, AlwaysIInv, PTL

\* At a threshold above 46 no signal is given against a confirmed trend (_score).
THEOREM TrendIsRespected == Spec => []NeverAgainstTrend
  <1>1. IInv => NeverAgainstTrend
    <2> SUFFICES ASSUME IInv, NothingAhead, MinScore > 46, NEW i \in DOMAIN live
                 PROVE  /\ Trend(bars, i) = "DOWNTREND" => live[i].action # "BUY"
                        /\ Trend(bars, i) = "UPTREND" => live[i].action # "SELL"
      BY DEF NeverAgainstTrend
    <2> DEFINE row == Row(bars, i)
    <2>1. i \in 1..Len(bars) /\ bars \in Seq(BarValues) /\ live[i] = GenerateSignal(row)
      BY DEF IInv, LiveIsBacktest, SignalAt
    <2>2. row \in FeatureRows
      BY <2>1, RowIs
    <2>3. row.trend = Trend(bars, i)
      BY DEF Row
    <2> HIDE DEF row
    <2> QED
      BY <2>1, <2>2, <2>3, SignalIs
  <1> QED
    BY <1>1, AlwaysIInv, PTL

-----------------------------------------------------------------------------
(* The structure of a snapshot. *)

\* Of rows with integer values one has the highest, and Largest names that value.
LEMMA HighestValue ==
    ASSUME NEW n \in Nat, NEW R \in SUBSET (1..n), R # {}, NEW h \in [R -> Int]
    PROVE  LET values == {h[j] : j \in R}
           IN  Largest(values) \in values /\ \A x \in values : x <= Largest(values)
  <1> DEFINE values == {h[j] : j \in R}
             Tops(t) == {j \in R : \A k \in R : t < k => h[k] <= h[j]}
             good == {t \in Nat : Tops(t) # {}}
  <1>1. n \in good
    OBVIOUS
  <1>2. PICK t \in good : \A u \in good : t <= u
    <2>1. good \in SUBSET Nat /\ good # {}
      BY <1>1
    <2> HIDE DEF good
    <2> QED
      BY <2>1, SmallestRow
  <1>3. PICK j \in R : \A k \in R : t < k => h[k] <= h[j]
    OBVIOUS
  <1>4. t = 0
    <2> SUFFICES ASSUME t # 0 PROVE FALSE
      OBVIOUS
    <2>0. t \in Nat /\ t - 1 \in Nat /\ ~(t <= t - 1)
      OBVIOUS
    <2> HIDE DEF good
    <2>1. t - 1 \notin good
      BY <1>2, <2>0
    <2> USE DEF good
    <2>2. \A k \in R : k \in Int /\ h[k] \in Int /\ (t - 1 < k => t < k \/ k = t)
      OBVIOUS
    <2>3. CASE t \in R /\ h[j] < h[t]
      <3>1. \A k \in R : t - 1 < k => h[k] <= h[t]
        BY <1>3, <2>2, <2>3
      <3>2. t \in Tops(t - 1)
        BY <3>1, <2>3
      <3> QED
        BY <3>2, <2>0, <2>1
    <2>4. CASE ~(t \in R /\ h[j] < h[t])
      <3>1. \A k \in R : t - 1 < k => h[k] <= h[j]
        BY <1>3, <2>2, <2>4
      <3>2. j \in Tops(t - 1)
        BY <3>1
      <3> QED
        BY <3>2, <2>0, <2>1
    <2> QED
      BY <2>3, <2>4
  <1>5. h[j] \in values /\ \A x \in values : x <= h[j]
    BY <1>3, <1>4
  <1> HIDE DEF values
  <1>6. Largest(values) \in values /\ \A x \in values : x <= Largest(values)
    BY <1>5 DEF Largest
  <1> QED
    BY <1>6 DEF values

\* Two rows are enough for an earlier one.
LEMMA TwoRows ==
    ASSUME NEW n \in Int, NEW S \in SUBSET (1..n), ~(Cardinality(S) < 2)
    PROVE  S # {} /\ Earlier(S) # {}
  <1>1. IsFiniteSet(S)
    <2>1. IsFiniteSet(1..n)
      BY FS_Interval
    <2> QED
      BY <2>1, FS_Subset
  <1>2. S # {}
    BY FS_EmptySet
  <1>3. Latest(S) \in S
    BY <1>2, LatestIsLast
  <1>4. /\ IsFiniteSet(Earlier(S)) /\ Cardinality(S) \in Nat
        /\ Cardinality(Earlier(S)) = Cardinality(S) - 1
    BY <1>1, <1>3, FS_RemoveElement, FS_CardinalityType DEF Earlier
  <1>5. Earlier(S) # {}
    BY <1>4, FS_EmptySet
  <1> QED
    BY <1>2, <1>5

\* A pivot of the signal that is alone in its window is one of the snapshot's.
LEMMA OnlyIsStrict ==
    ASSUME NEW frame \in Seq(BarValues), NEW j \in Int
    PROVE  /\ PivotHigh(frame, j) /\ OnlyHigh(frame, j) => StrictHigh(frame, j)
           /\ PivotLow(frame, j) /\ OnlyLow(frame, j) => StrictLow(frame, j)
  <1>0. /\ Ahead \in Nat /\ Behind \in Nat /\ Len(frame) \in Nat
        /\ SnapLeft \in 1..Behind /\ SnapRight \in 1..Ahead
    BY WindowIs, SnapWindowAssumption
  <1>1. \A k \in 1..Len(frame) : frame[k].high \in Int /\ frame[k].low \in Int
    BY BarValuesAssumption
  <1>2. ASSUME Behind < j, j + Ahead <= Len(frame)
        PROVE  /\ SnapLeft < j /\ j + SnapRight <= Len(frame) /\ j \in 1..Len(frame)
               /\ \A k \in (j - SnapLeft)..(j + SnapRight) :
                    k \in (j - Behind)..(j + Ahead) /\ k \in 1..Len(frame)
    BY <1>0, <1>2
  <1>3. ASSUME PivotHigh(frame, j), OnlyHigh(frame, j) PROVE StrictHigh(frame, j)
    <2>1. ASSUME NEW k \in ((j - SnapLeft)..(j + SnapRight)) \ {j}
          PROVE  frame[k].high < frame[j].high
      <3>1. frame[k].high <= frame[j].high /\ frame[k].high # frame[j].high
        BY <1>2, <1>3 DEF PivotHigh, OnlyHigh
      <3>2. frame[k].high \in Int /\ frame[j].high \in Int
        BY <1>1, <1>2, <1>3 DEF PivotHigh
      <3> QED
        BY <3>1, <3>2
    <2> QED
      BY <1>2, <1>3, <2>1 DEF PivotHigh, StrictHigh
  <1>4. ASSUME PivotLow(frame, j), OnlyLow(frame, j) PROVE StrictLow(frame, j)
    <2>1. ASSUME NEW k \in ((j - SnapLeft)..(j + SnapRight)) \ {j}
          PROVE  frame[j].low < frame[k].low
      <3>1. frame[j].low <= frame[k].low /\ frame[k].low # frame[j].low
        BY <1>2, <1>4 DEF PivotLow, OnlyLow
      <3>2. frame[k].low \in Int /\ frame[j].low \in Int
        BY <1>1, <1>2, <1>4 DEF PivotLow
      <3> QED
        BY <3>1, <3>2
    <2> QED
      BY <1>2, <1>4, <2>1 DEF PivotLow, StrictLow
  <1> QED
    BY <1>3, <1>4

\* A confirmed pivot that the snapshot remembers is among those it takes levels from.
LEMMA LevelsAgree ==
    ASSUME NEW frame \in Seq(BarValues), NEW i \in 1..Len(frame)
    PROVE  /\ Support(frame, i) # None /\ Remembered(Lows(frame, i), i)
                   /\ OnlyLow(frame, Latest(Lows(frame, i))) =>
                SnapshotSupport(frame, i) \in Support(frame, i)..frame[i].close
           /\ Resistance(frame, i) # None /\ Remembered(Highs(frame, i), i)
                   /\ OnlyHigh(frame, Latest(Highs(frame, i))) =>
                SnapshotResistance(frame, i) >= Resistance(frame, i)
  <1>0. /\ Right \in Nat /\ Len(frame) \in Nat /\ i - Right \in Int
        /\ SnapRight \in Nat
    BY WindowAssumption, WindowIs, SnapWindowAssumption
  <1>1. \A k \in 1..Len(frame) :
            frame[k].high \in Int /\ frame[k].low \in Int /\ frame[k].close \in Int
    BY BarValuesAssumption
  <1>2. RecentRows(i) \in SUBSET (1..Len(frame))
    BY <1>0 DEF RecentRows
  <1>3. ASSUME Support(frame, i) # None, Remembered(Lows(frame, i), i),
               OnlyLow(frame, Latest(Lows(frame, i)))
        PROVE  SnapshotSupport(frame, i) \in Support(frame, i)..frame[i].close
    <2> DEFINE last == Latest(Lows(frame, i))
               values == {frame[j].low : j \in RecentLows(frame, i)}
               below == {x \in values : x <= frame[i].close}
               R == {j \in RecentLows(frame, i) : frame[j].low <= frame[i].close}
               h == [j \in R |-> frame[j].low]
    <2>1. Support(frame, i) = frame[last].low /\ frame[last].low <= frame[i].close
      BY <1>3 DEF Support
    <2>2. last \in Lows(frame, i) /\ last \in RecentRows(i)
      BY <1>0, <1>3, LatestIsLast DEF Remembered, Lows, ConfirmedRows
    <2>3. StrictLow(frame, last)
      BY <1>3, <2>2, <1>2, OnlyIsStrict DEF Lows
    <2>4. last \in R
      BY <2>1, <2>2, <2>3 DEF RecentLows
    <2>5. R \in SUBSET (1..Len(frame))
      BY <1>2 DEF RecentLows
    <2>6. h \in [R -> Int]
      BY <1>1, <2>5
    <2>7. below = {h[j] : j \in R}
      OBVIOUS
    <2> HIDE DEF R, h, below, last
    <2>8. Largest(below) \in below /\ \A x \in below : x <= Largest(below)
      BY <1>0, <2>4, <2>5, <2>6, <2>7, HighestValue
    <2>9. frame[last].low \in below
      BY <2>4 DEF R, below
    <2>10. Largest(below) <= frame[i].close
      BY <2>8 DEF below
    <2>11. below \in SUBSET Int
      BY <2>6, <2>7
    <2>12. SnapshotSupport(frame, i) = Largest(below)
      BY <2>9 DEF SnapshotSupport, LatestLevel, below
    <2>13. /\ Largest(below) \in Int /\ Support(frame, i) \in Int /\ frame[i].close \in Int
           /\ Support(frame, i) <= Largest(below)
      BY <1>1, <2>1, <2>8, <2>9, <2>11
    <2> QED
      BY <2>10, <2>12, <2>13
  <1>4. ASSUME Resistance(frame, i) # None, Remembered(Highs(frame, i), i),
               OnlyHigh(frame, Latest(Highs(frame, i)))
        PROVE  SnapshotResistance(frame, i) >= Resistance(frame, i)
    <2> DEFINE last == Latest(Highs(frame, i))
               values == {frame[j].high : j \in RecentHighs(frame, i)}
               above == {x \in values : x >= frame[i].close}
               R == {j \in RecentHighs(frame, i) : frame[j].high >= frame[i].close}
               h == [j \in R |-> frame[j].high]
    <2>1. Resistance(frame, i) = frame[last].high /\ frame[last].high >= frame[i].close
      BY <1>4 DEF Resistance
    <2>2. last \in Highs(frame, i) /\ last \in RecentRows(i)
      BY <1>0, <1>4, LatestIsLast DEF Remembered, Highs, ConfirmedRows
    <2>3. StrictHigh(frame, last)
      BY <1>4, <2>2, <1>2, OnlyIsStrict DEF Highs
    <2>4. last \in R
      BY <2>1, <2>2, <2>3 DEF RecentHighs
    <2>5. R \in SUBSET (1..Len(frame))
      BY <1>2 DEF RecentHighs
    <2>6. h \in [R -> Int]
      BY <1>1, <2>5
    <2>7. above = {h[j] : j \in R}
      OBVIOUS
    <2> HIDE DEF R, h, above, last
    <2>8. Largest(above) \in above /\ \A x \in above : x <= Largest(above)
      BY <1>0, <2>4, <2>5, <2>6, <2>7, HighestValue
    <2>9. frame[last].high \in above
      BY <2>4 DEF R, above
    <2>10. above \in SUBSET Int
      BY <2>6, <2>7
    <2>11. SnapshotResistance(frame, i) = Largest(above)
      BY <2>9 DEF SnapshotResistance, LatestLevel, above
    <2> QED
      BY <2>1, <2>8, <2>9, <2>10, <2>11
  <1> QED
    BY <1>3, <1>4

\* A snapshot's levels enclose those of the signal, whose windows are wider
\* (add_market_structure against pivot_structure).
THEOREM LevelsAreNested == Spec => []LevelsNested
  <1>1. IInv => LevelsNested
    <2>1. ASSUME IInv PROVE bars \in Seq(BarValues) /\ DOMAIN bars = 1..Len(bars)
      BY <2>1 DEF IInv
    <2> QED
      BY <2>1, LevelsAgree DEF LevelsNested
  <1> QED
    BY <1>1, AlwaysIInv, PTL

\* Histories that are the same up to a row have the same pivots for its snapshot.
LEMMA SameRecent ==
    ASSUME NEW frame \in Seq(BarValues), NEW other \in Seq(BarValues),
           NEW i \in 1..Len(frame), i <= Len(other), \A k \in 1..i : other[k] = frame[k]
    PROVE  /\ RecentHighs(other, i) = RecentHighs(frame, i)
           /\ RecentLows(other, i) = RecentLows(frame, i)
           /\ RecentRows(i) \subseteq 1..i
  <1>0. /\ SnapLeft \in Nat /\ SnapRight \in Nat
        /\ Len(frame) \in Nat /\ Len(other) \in Nat /\ i \in Nat
    BY WindowIs, SnapWindowAssumption
  <1>1. ASSUME NEW j \in RecentRows(i)
        PROVE  /\ j \in 1..i
               /\ StrictHigh(other, j) <=> StrictHigh(frame, j)
               /\ StrictLow(other, j) <=> StrictLow(frame, j)
    <2>1. j \in 1..i /\ j + SnapRight <= i
      BY <1>0 DEF RecentRows
    <2>2. j + SnapRight <= Len(frame) /\ j + SnapRight <= Len(other) /\ other[j] = frame[j]
      BY <1>0, <2>1
    <2>3. CASE SnapLeft < j
      <3>1. \A k \in (j - SnapLeft)..(j + SnapRight) : other[k] = frame[k]
        BY <1>0, <2>1, <2>3
      <3> QED
        BY <2>1, <2>2, <3>1 DEF StrictHigh, StrictLow
    <2>4. CASE ~(SnapLeft < j)
      BY <2>1, <2>4 DEF StrictHigh, StrictLow
    <2> QED
      BY <2>3, <2>4
  <1> QED
    BY <1>1 DEF RecentHighs, RecentLows

\* So they have the same snapshot there.
LEMMA SameSnapshot ==
    ASSUME NEW frame \in Seq(BarValues), NEW other \in Seq(BarValues),
           NEW i \in 1..Len(frame), i <= Len(other), \A k \in 1..i : other[k] = frame[k]
    PROVE  SnapshotOf(other, i) = SnapshotOf(frame, i)
  <1>1. /\ RecentHighs(other, i) = RecentHighs(frame, i)
        /\ RecentLows(other, i) = RecentLows(frame, i)
        /\ RecentHighs(frame, i) \subseteq 1..i /\ RecentLows(frame, i) \subseteq 1..i
    BY SameRecent DEF RecentHighs, RecentLows
  <1>2. other[i] = frame[i] /\ i \in Int
    OBVIOUS
  <1>3. SnapshotSupport(other, i) = SnapshotSupport(frame, i)
    <2>1. {other[j].low : j \in RecentLows(other, i)} = {frame[j].low : j \in RecentLows(frame, i)}
      BY <1>1
    <2> QED
      BY <1>2, <2>1 DEF SnapshotSupport
  <1>4. SnapshotResistance(other, i) = SnapshotResistance(frame, i)
    <2>1. {other[j].high : j \in RecentHighs(other, i)} = {frame[j].high : j \in RecentHighs(frame, i)}
      BY <1>1
    <2> QED
      BY <1>2, <2>1 DEF SnapshotResistance
  <1>5. StructureAt(other, i) = StructureAt(frame, i)
    <2> DEFINE highs == RowsOf(LastEight(frame, i), "H")
               lows == RowsOf(LastEight(frame, i), "L")
    <2>1. LastEight(other, i) = LastEight(frame, i)
      BY <1>1 DEF LastEight, Pivots
    <2>2. highs \in SUBSET (1..i) /\ lows \in SUBSET (1..i)
      BY <1>1 DEF RowsOf, LastEight, Pivots
    <2> HIDE DEF highs, lows
    <2>3. ASSUME NEW S \in SUBSET (1..i), ~(Cardinality(S) < 2)
          PROVE  /\ other[Latest(S)] = frame[Latest(S)]
                 /\ other[Latest(Earlier(S))] = frame[Latest(Earlier(S))]
      <3>1. S # {} /\ Earlier(S) # {}
        BY <1>2, <2>3, TwoRows
      <3>2. Earlier(S) \in SUBSET (1..i)
        BY <2>3 DEF Earlier
      <3>3. Latest(S) \in 1..i /\ Latest(Earlier(S)) \in 1..i
        <4>1. Latest(S) \in S /\ Latest(Earlier(S)) \in Earlier(S)
          BY <1>2, <3>1, <3>2, LatestIsLast
        <4> QED
          BY <3>2, <4>1
      <3> QED
        BY <3>3
    <2>4. ClassifyStructure(other, highs, lows) = ClassifyStructure(frame, highs, lows)
      <3>1. CASE Cardinality(highs) < 2 \/ Cardinality(lows) < 2
        BY <3>1 DEF ClassifyStructure
      <3>2. CASE ~(Cardinality(highs) < 2) /\ ~(Cardinality(lows) < 2)
        <4>1. /\ other[Latest(highs)] = frame[Latest(highs)]
              /\ other[Latest(Earlier(highs))] = frame[Latest(Earlier(highs))]
              /\ other[Latest(lows)] = frame[Latest(lows)]
              /\ other[Latest(Earlier(lows))] = frame[Latest(Earlier(lows))]
          BY <2>2, <2>3, <3>2
        <4> QED
          BY <4>1 DEF ClassifyStructure
      <3> QED
        BY <3>1, <3>2
    <2> QED
      BY <2>1, <2>4 DEF StructureAt, highs, lows
  <1> QED
    BY <1>3, <1>4, <1>5 DEF SnapshotOf

\* No snapshot depends on a bar after its row, whatever the window's size
\* (add_market_structure).
THEOREM SnapshotsAreCausal == Spec => []SnapshotIsCausal
  <1>1. IInv => SnapshotIsCausal
    <2> SUFFICES ASSUME IInv, NEW i \in DOMAIN bars
                 PROVE  SnapshotOf(bars, i) = SnapshotOf(SubSeq(bars, 1, i), i)
      BY DEF SnapshotIsCausal
    <2> DEFINE prefix == SubSeq(bars, 1, i)
    <2>1. bars \in Seq(BarValues) /\ i \in 1..Len(bars) /\ Len(bars) \in Nat
      BY DEF IInv
    <2>2. /\ prefix \in Seq(BarValues) /\ Len(prefix) = i
          /\ \A k \in 1..i : prefix[k] = bars[k]
      BY <2>1
    <2> HIDE DEF prefix
    <2>3. i <= Len(prefix)
      BY <2>1, <2>2
    <2>4. SnapshotOf(prefix, i) = SnapshotOf(bars, i)
      BY <2>1, <2>2, <2>3, SameSnapshot
    <2> QED
      BY <2>4 DEF prefix
  <1> QED
    BY <1>1, AlwaysIInv, PTL

=============================================================================
