--------------------------- MODULE SimulatorProofs ---------------------------
(***************************************************************************)
(* Facts about the simulators, for every signal, history and horizon: they *)
(* make the same trade, at the first exit; evaluation is stable once it    *)
(* decided; excursions are what they are named for. Then the replay of one *)
(* paper signal, with the training label of its path, and the backtest of  *)
(* many signals, which rest on those facts.                                *)
(***************************************************************************)
EXTENDS TradeReplay, Backtest, FiniteSetTheorems, WellFoundedInduction, TLAPS

BarType == [open : Int, high : Int, low : Int, close : Int]
SignalType == [side : {"LONG", "SHORT"}, stop : Int, target : Int]

\* A nonempty set of naturals has a least element, and Min names it.
LEMMA MinIsLeast ==
    ASSUME NEW S \in SUBSET Nat, S # {}
    PROVE  Min(S) \in S /\ \A n \in S : Min(S) <= n
  <1>1. PICK m \in S : \A n \in S : ~(<<n, m>> \in OpToRel(<, Nat))
    BY NatLessThanWellFounded, WFMin
  <1>2. \A n \in S : ~(n < m)
    BY <1>1 DEF OpToRel
  <1>3. \E k \in S : \A n \in S : k <= n
    BY <1>2
  <1> QED
    BY <1>3 DEF Min

\* Whatever is least is Min.
LEMMA LeastIsMin ==
    ASSUME NEW S \in SUBSET Nat, NEW m \in S, \A n \in S : m <= n
    PROVE  Min(S) = m
  <1>1. Min(S) \in S /\ \A n \in S : Min(S) <= n
    BY MinIsLeast
  <1>2. Min(S) <= m /\ m <= Min(S)
    BY <1>1
  <1>3. Min(S) \in Nat /\ m \in Nat
    BY <1>1
  <1> QED
    BY <1>2, <1>3

\* The backtest looks no further than the horizon, nor than the history.
LEMMA LastPositionIs ==
    ASSUME NEW h \in Seq(BarType)
    PROVE  LastPosition(h) = IF MaxHoldingBars <= Len(h) THEN MaxHoldingBars ELSE Len(h)
  <1> DEFINE S == {MaxHoldingBars, Len(h)}
  <1>1. S \in SUBSET Nat /\ S # {}
    BY HoldingAssumption
  <1>2. Min(S) \in S /\ \A n \in S : Min(S) <= n
    BY <1>1, MinIsLeast
  <1>3. Min(S) <= MaxHoldingBars /\ Min(S) <= Len(h)
    BY <1>2
  <1>4. Min(S) = MaxHoldingBars \/ Min(S) = Len(h)
    BY <1>2
  <1> QED
    BY <1>3, <1>4, HoldingAssumption DEF LastPosition

\* An exit has a price, a trade that stays open none.
LEMMA ExitPriceType ==
    ASSUME NEW s \in SignalType, NEW b \in BarType, PaperExit(s, b) # NoExit
    PROVE  /\ PaperExit(s, b).price \in Int
           /\ PaperExit(s, b).outcome \in {"STOP_GAP", "TARGET_GAP", "STOP", "TARGET"}
  BY DEF PaperExit, NoExit, SignalType, BarType

-----------------------------------------------------------------------------
(* The two simulators agree on every history. *)

LEMMA SameExit ==
    ASSUME NEW s, NEW b
    PROVE  PaperExit(s, b) = BacktestExit(s, b)
  BY DEF PaperExit, BacktestExit

LEMMA SameExits ==
    ASSUME NEW s \in SignalType, NEW h \in Seq(BarType)
    PROVE  PaperExits(s, h) =
             {n \in 1..LastPosition(h) : BacktestExit(s, h[n]) # NoExit}
  BY LastPositionIs, SameExit, HoldingAssumption DEF PaperExits

\* A trade that left at n is the same record in both simulators, without slippage.
LEMMA SameWithoutSlippage ==
    ASSUME NEW side \in {"LONG", "SHORT"}, NEW b \in BarType, NEW p \in Int
    PROVE  FillPrice(side, b, 0) = b.open /\ ExitPrice(side, p, 0) = p
  BY DEF FillPrice, ExitPrice, BarType

\* evaluate_trade and _simulate_one make the same trade, whenever the first makes
\* one: "so both simulators make the same assumption" (backtest/engine.py).
THEOREM SimulatorsAgree ==
    ASSUME NEW s \in SignalType, NEW h \in Seq(BarType),
           EvaluateTrade(s, h) # NoTrade
    PROVE  SimulateOne(s, h, 0) = EvaluateTrade(s, h)
  <1> DEFINE exits == PaperExits(s, h)
             first == Min(exits)
  <1>1. h # <<>> /\ h[1].open # s.stop
    BY DEF EvaluateTrade
  <1>2. 1 \in DOMAIN h /\ h[1] \in BarType /\ s.side \in {"LONG", "SHORT"}
    BY <1>1 DEF SignalType
  <1>3. FillPrice(s.side, h[1], 0) = h[1].open
    BY <1>2, SameWithoutSlippage
  <1>4. exits = {n \in 1..LastPosition(h) : BacktestExit(s, h[n]) # NoExit}
    BY SameExits
  <1>5. CASE exits # {}
    <2>0. exits \in SUBSET Nat
      BY DEF PaperExits
    <2>1. first \in exits
      BY <1>5, <2>0, MinIsLeast
    <2>2. PaperExit(s, h[first]) # NoExit /\ h[first] \in BarType
      BY <2>1 DEF PaperExits
    <2>3. PaperExit(s, h[first]).price \in Int
      BY <2>2, ExitPriceType
    <2>4. ExitPrice(s.side, PaperExit(s, h[first]).price, 0) = PaperExit(s, h[first]).price
      BY <2>3, <1>2, SameWithoutSlippage
    <2>5. EvaluateTrade(s, h) = PaperTrade(s, h, first, PaperExit(s, h[first]))
      BY <1>1, <1>5 DEF EvaluateTrade
    <2> HIDE DEF exits
    <2>6. SimulateOne(s, h, 0) = PaperTrade(s, h, first, PaperExit(s, h[first]))
      BY <1>1, <1>3, <1>4, <1>5, <2>4, SameExit DEF SimulateOne, PaperTrade
    <2> QED
      BY <2>5, <2>6
  <1>6. CASE exits = {}
    <2>1. Len(h) >= MaxHoldingBars
      BY <1>1, <1>6, HoldingAssumption DEF EvaluateTrade
    <2>2. LastPosition(h) = MaxHoldingBars
      BY <2>1, LastPositionIs
    <2>3. MaxHoldingBars \in DOMAIN h
      BY <2>1, HoldingAssumption
    <2>4. h[MaxHoldingBars] \in BarType /\ h[MaxHoldingBars].close \in Int
      <3>1. h[MaxHoldingBars] \in BarType
        BY <2>3
      <3> QED
        BY <3>1 DEF BarType
    <2>5. ExitPrice(s.side, h[MaxHoldingBars].close, 0) = h[MaxHoldingBars].close
      BY <2>4, <1>2, SameWithoutSlippage
    <2>6. EvaluateTrade(s, h) =
            PaperTrade(s, h, MaxHoldingBars,
                       [outcome |-> "TIMEOUT", price |-> h[MaxHoldingBars].close])
      BY <1>1, <1>6, <2>1 DEF EvaluateTrade
    <2> HIDE DEF exits
    <2>7. SimulateOne(s, h, 0) =
            PaperTrade(s, h, MaxHoldingBars,
                       [outcome |-> "TIMEOUT", price |-> h[MaxHoldingBars].close])
      BY <1>1, <1>3, <1>4, <1>6, <2>2, <2>5 DEF SimulateOne, PaperTrade
    <2> QED
      BY <2>6, <2>7
  <1> QED
    BY <1>5, <1>6

-----------------------------------------------------------------------------
(* What the backtest's trade consists of. *)

Exits(s, h) == {n \in 1..LastPosition(h) : BacktestExit(s, h[n]) # NoExit}
LastBar(s, h) == IF Exits(s, h) # {} THEN Min(Exits(s, h)) ELSE LastPosition(h)
Left(s, h) ==
    IF Exits(s, h) # {} THEN BacktestExit(s, h[LastBar(s, h)])
    ELSE [outcome |-> "TIMEOUT", price |-> h[LastBar(s, h)].close]
Favourable(s, h, entry, n) == {Gain(s.side, entry, Best(s.side, h[m])) : m \in 1..n}
Adverse(s, h, entry, n) == {Gain(s.side, Worst(s.side, h[m]), entry) : m \in 1..n}

LEMMA SimulateOneIs ==
    ASSUME NEW s, NEW h, NEW slippage
    PROVE  SimulateOne(s, h, slippage) =
             LET entry == FillPrice(s.side, h[1], slippage)
                 exit == ExitPrice(s.side, Left(s, h).price, slippage)
             IN  IF h = <<>> \/ entry = s.stop THEN NoTrade
                 ELSE [outcome |-> Left(s, h).outcome, entry |-> entry, exit |-> exit,
                       pnl |-> Gain(s.side, entry, exit), risk |-> Distance(entry, s.stop),
                       holding |-> IF Exits(s, h) # {} THEN LastBar(s, h) ELSE MaxHoldingBars,
                       mfe |-> Largest(Favourable(s, h, entry, LastBar(s, h))),
                       mae |-> Largest(Adverse(s, h, entry, LastBar(s, h)))]
  BY DEF SimulateOne, Exits, LastBar, Left, Favourable, Adverse

\* The trade leaves within the history and the horizon, at its first exit.
LEMMA LastBarIs ==
    ASSUME NEW s \in SignalType, NEW h \in Seq(BarType), h # <<>>
    PROVE  /\ LastBar(s, h) \in 1..Len(h)
           /\ LastBar(s, h) <= MaxHoldingBars
           /\ Exits(s, h) # {} => LastBar(s, h) \in Exits(s, h)
           /\ \A n \in Exits(s, h) : LastBar(s, h) <= n
  <1>1. LastPosition(h) \in 1..Len(h) /\ LastPosition(h) <= MaxHoldingBars
    BY LastPositionIs, HoldingAssumption
  <1>2. Exits(s, h) \in SUBSET Nat
    BY <1>1 DEF Exits
  <1>3. ASSUME Exits(s, h) # {}
        PROVE  Min(Exits(s, h)) \in Exits(s, h) /\ \A n \in Exits(s, h) : Min(Exits(s, h)) <= n
    BY <1>2, <1>3, MinIsLeast
  <1>4. \A n \in Exits(s, h) : n \in 1..Len(h) /\ n <= MaxHoldingBars
    BY <1>1, HoldingAssumption DEF Exits
  <1> QED
    BY <1>1, <1>3, <1>4 DEF LastBar

\* Every trade leaves at an integer price, and so makes an integer number of points.
LEMMA PnlIsInteger ==
    ASSUME NEW s \in SignalType, NEW h \in Seq(BarType), NEW slippage \in Int,
           SimulateOne(s, h, slippage) # NoTrade
    PROVE  h # <<>> /\ SimulateOne(s, h, slippage).pnl \in Int
  <1> DEFINE b == h[LastBar(s, h)]
             entry == FillPrice(s.side, h[1], slippage)
             exit == ExitPrice(s.side, Left(s, h).price, slippage)
  <1>1. h # <<>> /\ SimulateOne(s, h, slippage).pnl = Gain(s.side, entry, exit)
    BY SimulateOneIs
  <1>2. LastBar(s, h) \in 1..Len(h) /\ 1 \in 1..Len(h)
    BY <1>1, LastBarIs
  <1>3. b \in BarType /\ h[1] \in BarType
    BY <1>2
  <1>4. Left(s, h).price \in Int
    <2>1. CASE Exits(s, h) = {}
      BY <1>3, <2>1 DEF Left, BarType
    <2>2. CASE Exits(s, h) # {}
      <3>1. BacktestExit(s, b) # NoExit
        BY <1>1, <2>2, LastBarIs DEF Exits
      <3>2. PaperExit(s, b).price \in Int
        BY <1>3, <3>1, SameExit, ExitPriceType
      <3> QED
        BY <2>2, <3>2, SameExit DEF Left
    <2> QED
      BY <2>1, <2>2
  <1>5. entry \in Int
    BY <1>3 DEF FillPrice, BarType
  <1>6. exit \in Int
    BY <1>4 DEF ExitPrice
  <1>7. Gain(s.side, entry, exit) \in Int
    <2> HIDE DEF entry, exit
    <2> QED
      BY <1>5, <1>6 DEF Gain
  <1> QED
    BY <1>1, <1>7

-----------------------------------------------------------------------------
(* Excursions. *)

\* The gains over the first n bars, with zero, have a largest one: the smallest n
\* that had none would follow one that has.
LEMMA LargestOfFirst ==
    ASSUME NEW n \in Nat, NEW f \in [1..n -> Int]
    PROVE  LET S == {0} \cup {f[m] : m \in 1..n}
           IN  \E x \in S : \A y \in S : y <= x
  <1> DEFINE S(k) == {0} \cup {f[m] : m \in 1..k}
             Has(k) == \E x \in S(k) : \A y \in S(k) : y <= x
             without == {k \in 0..n : ~Has(k)}
  <1>1. CASE without = {}
    <2>1. n \in 0..n
      OBVIOUS
    <2> QED
      BY <1>1, <2>1
  <1>2. CASE without # {}
    <2>1. without \in SUBSET Nat
      OBVIOUS
    <2>2. Min(without) \in without /\ \A k \in without : Min(without) <= k
      BY <1>2, <2>1, MinIsLeast
    <2>3. PICK least \in without : \A k \in without : least <= k
      BY <2>2
    <2>4. least # 0
      <3>1. Has(0)
        OBVIOUS
      <3> QED
        BY <3>1
    <2>5. least - 1 \in 0..n /\ least \in 1..n
      BY <2>4
    <2>6. Has(least - 1)
      <3> HIDE DEF Has
      <3>1. \A k \in 0..n : ~Has(k) => least <= k
        BY <2>3
      <3>2. ~(least <= least - 1)
        BY <2>5
      <3> QED
        BY <2>5, <3>1, <3>2
    <2>7. PICK x \in S(least - 1) : \A y \in S(least - 1) : y <= x
      BY <2>6
    <2>8. S(least) = S(least - 1) \cup {f[least]}
      <3>1. 1..least = (1..(least - 1)) \cup {least}
        BY <2>5
      <3> QED
        BY <3>1
    <2>9. x \in Int /\ f[least] \in Int
      BY <2>5
    <2>10. CASE x <= f[least]
      <3>1. \A y \in S(least) : y <= f[least]
        BY <2>5, <2>7, <2>8, <2>9, <2>10
      <3>2. Has(least)
        BY <3>1, <2>8
      <3> QED
        BY <3>2
    <2>11. CASE ~(x <= f[least])
      <3>1. \A y \in S(least) : y <= x
        BY <2>7, <2>8, <2>9, <2>11
      <3>2. Has(least)
        BY <3>1, <2>8, <2>7
      <3> QED
        BY <3>2
    <2> QED
      BY <2>10, <2>11
  <1> QED
    BY <1>1, <1>2

LEMMA LargestIs ==
    ASSUME NEW n \in Nat, NEW f \in [1..n -> Int]
    PROVE  /\ Largest({f[m] : m \in 1..n}) \in Nat
           /\ \A m \in 1..n : f[m] <= Largest({f[k] : k \in 1..n})
  <1> DEFINE S == {0} \cup {f[m] : m \in 1..n}
  <1>1. \E x \in S : \A y \in S : x >= y
    <2>1. PICK x \in S : \A y \in S : y <= x
      BY LargestOfFirst
    <2> QED
      BY <2>1
  <1>2. Max(S) \in S /\ \A y \in S : Max(S) >= y
    BY <1>1 DEF Max
  <1>3. Max(S) \in Int
    BY <1>2
  <1> QED
    BY <1>2, <1>3 DEF Largest

\* Both excursions are at least zero and at least what any bar reached.
LEMMA ExcursionsAre ==
    ASSUME NEW s \in SignalType, NEW h \in Seq(BarType), NEW entry \in Int,
           NEW n \in 1..Len(h)
    PROVE  /\ Largest(Favourable(s, h, entry, n)) \in Nat
           /\ Largest(Adverse(s, h, entry, n)) \in Nat
           /\ Gain(s.side, entry, Best(s.side, h[n])) <= Largest(Favourable(s, h, entry, n))
           /\ Gain(s.side, Worst(s.side, h[n]), entry) <= Largest(Adverse(s, h, entry, n))
  <1> DEFINE best == [m \in 1..n |-> Gain(s.side, entry, Best(s.side, h[m]))]
             worst == [m \in 1..n |-> Gain(s.side, Worst(s.side, h[m]), entry)]
  <1>1. \A m \in 1..n : h[m] \in BarType
    OBVIOUS
  <1>2. best \in [1..n -> Int] /\ worst \in [1..n -> Int]
    <2>1. \A m \in 1..n : Best(s.side, h[m]) \in Int /\ Worst(s.side, h[m]) \in Int
      BY <1>1 DEF BarType, Best, Worst
    <2>2. \A p, q \in Int : Gain(s.side, p, q) \in Int
      BY DEF Gain
    <2> QED
      BY <2>1, <2>2
  <1>3. Favourable(s, h, entry, n) = {best[m] : m \in 1..n}
    BY DEF Favourable
  <1>4. Adverse(s, h, entry, n) = {worst[m] : m \in 1..n}
    BY DEF Adverse
  <1>5. n \in Nat /\ n \in 1..n
    OBVIOUS
  <1>6. /\ Largest({best[m] : m \in 1..n}) \in Nat
        /\ best[n] <= Largest({best[m] : m \in 1..n})
    BY <1>2, <1>5, LargestIs
  <1>7. /\ Largest({worst[m] : m \in 1..n}) \in Nat
        /\ worst[n] <= Largest({worst[m] : m \in 1..n})
    BY <1>2, <1>5, LargestIs
  <1> QED
    BY <1>3, <1>4, <1>5, <1>6, <1>7

-----------------------------------------------------------------------------
(* When the paper evaluation waits, and why it is final. *)

\* The paper evaluation waits exactly where the backtest makes no trade, or only
\* times out because the history ends before the horizon.
THEOREM WaitingIsJustified ==
    ASSUME NEW s \in SignalType, NEW h \in Seq(BarType)
    PROVE  EvaluateTrade(s, h) = NoTrade <=>
             \/ SimulateOne(s, h, 0) = NoTrade
             \/ SimulateOne(s, h, 0).outcome = "TIMEOUT" /\ Len(h) < MaxHoldingBars
  <1>1. CASE h = <<>>
    BY <1>1, SimulateOneIs DEF EvaluateTrade
  <1>2. CASE h # <<>>
    <2>1. h[1] \in BarType /\ s.side \in {"LONG", "SHORT"}
      BY <1>2 DEF SignalType
    <2>2. FillPrice(s.side, h[1], 0) = h[1].open
      BY <2>1, SameWithoutSlippage
    <2>3. SimulateOne(s, h, 0) = NoTrade <=> h[1].open = s.stop
      BY <1>2, <2>2, SimulateOneIs DEF NoTrade, Left, BacktestExit, NoExit, Exits, LastBar
    <2>4. PaperExits(s, h) = Exits(s, h)
      BY SameExits DEF Exits
    <2>5. ASSUME h[1].open # s.stop
          PROVE  SimulateOne(s, h, 0).outcome = "TIMEOUT" <=> Exits(s, h) = {}
      <3>1. SimulateOne(s, h, 0).outcome = Left(s, h).outcome
        BY <1>2, <2>2, <2>5, SimulateOneIs
      <3>2. ASSUME Exits(s, h) # {} PROVE Left(s, h).outcome # "TIMEOUT"
        <4>1. BacktestExit(s, h[LastBar(s, h)]) # NoExit
          BY <1>2, <3>2, LastBarIs DEF Exits
        <4>2. Left(s, h) = BacktestExit(s, h[LastBar(s, h)])
          BY <3>2 DEF Left
        <4> QED
          BY <4>1, <4>2 DEF BacktestExit, NoExit
      <3>3. Exits(s, h) = {} => Left(s, h).outcome = "TIMEOUT"
        BY DEF Left
      <3> QED
        BY <3>1, <3>2, <3>3
    <2>6. \A n, exit : PaperTrade(s, h, n, exit) # NoTrade
      BY DEF PaperTrade, NoTrade
    <2>7. EvaluateTrade(s, h) = NoTrade <=>
            h[1].open = s.stop \/ (PaperExits(s, h) = {} /\ Len(h) < MaxHoldingBars)
      BY <1>2, <2>6 DEF EvaluateTrade
    <2> QED
      BY <2>3, <2>4, <2>5, <2>7
  <1> QED
    BY <1>1, <1>2

\* What decided a trade decides it again on every history that has the same bars up
\* to the exit.
LEMMA EvaluationIsStable ==
    ASSUME NEW s \in SignalType, NEW h \in Seq(BarType), NEW k \in Seq(BarType),
           EvaluateTrade(s, h) # NoTrade, Len(h) <= Len(k),
           \A n \in 1..Len(h) : n <= EvaluateTrade(s, h).holding => k[n] = h[n]
    PROVE  EvaluateTrade(s, k) = EvaluateTrade(s, h)
  <1> DEFINE o == EvaluateTrade(s, h)
  <1>1. h # <<>> /\ h[1].open # s.stop
    BY DEF EvaluateTrade
  <1>2. \A n, exit : PaperTrade(s, h, n, exit).holding = n
    BY DEF PaperTrade
  <1>3. PaperExits(s, h) \in SUBSET (1..Len(h)) /\ PaperExits(s, k) \in SUBSET (1..Len(k))
    BY DEF PaperExits
  <1>4. Len(h) \in Nat /\ Len(k) \in Nat /\ 1 \in 1..Len(h)
    BY <1>1
  <1>5. CASE PaperExits(s, h) # {}
    <2> DEFINE n == Min(PaperExits(s, h))
    <2>1. n \in PaperExits(s, h) /\ \A m \in PaperExits(s, h) : n <= m
      BY <1>3, <1>5, MinIsLeast
    <2>2. o = PaperTrade(s, h, n, PaperExit(s, h[n])) /\ o.holding = n
      BY <1>1, <1>2, <1>5 DEF EvaluateTrade
    <2>3. n \in 1..Len(h) /\ n \in 1..Len(k) /\ \A m \in 1..n : k[m] = h[m]
      BY <1>3, <1>4, <2>1, <2>2
    <2> HIDE DEF n
    <2>4. n \in PaperExits(s, k)
      BY <2>1, <2>3 DEF PaperExits
    <2>5. \A m \in PaperExits(s, k) : n <= m
      <3> SUFFICES ASSUME NEW m \in PaperExits(s, k), ~(n <= m) PROVE FALSE
        OBVIOUS
      <3>1. m \in 1..n /\ m \in 1..Len(h) /\ m # n
        BY <1>3, <2>3
      <3>2. m \in PaperExits(s, h)
        BY <2>3, <3>1 DEF PaperExits
      <3> QED
        BY <2>1, <2>3, <3>1, <3>2
    <2>6. Min(PaperExits(s, k)) = n
      BY <1>3, <2>4, <2>5, LeastIsMin
    <2>7. k # <<>> /\ k[1] = h[1] /\ k[n] = h[n]
      BY <1>4, <2>3
    <2>8. EvaluateTrade(s, k) = PaperTrade(s, k, n, PaperExit(s, k[n]))
      BY <1>1, <2>4, <2>6, <2>7 DEF EvaluateTrade
    <2>9. PaperTrade(s, k, n, PaperExit(s, k[n])) = PaperTrade(s, h, n, PaperExit(s, h[n]))
      BY <2>3, <2>7 DEF PaperTrade
    <2> QED
      BY <2>2, <2>8, <2>9
  <1>6. CASE PaperExits(s, h) = {}
    <2> DEFINE n == MaxHoldingBars
    <2>1. Len(h) >= n /\ n \in 1..Len(h) /\ n \in 1..Len(k)
      BY <1>1, <1>4, <1>6, HoldingAssumption DEF EvaluateTrade
    <2>2. o = PaperTrade(s, h, n, [outcome |-> "TIMEOUT", price |-> h[n].close]) /\ o.holding = n
      BY <1>1, <1>2, <1>4, <1>6, <2>1 DEF EvaluateTrade
    <2>3. \A m \in 1..n : k[m] = h[m]
      BY <2>1, <2>2
    <2>4. PaperExits(s, k) = {}
      <3> SUFFICES ASSUME NEW m \in PaperExits(s, k) PROVE FALSE
        OBVIOUS
      <3>1. m \in 1..n /\ m \in 1..Len(h)
        BY <2>1 DEF PaperExits
      <3> QED
        BY <1>6, <2>3, <3>1 DEF PaperExits
    <2>5. k # <<>> /\ k[1] = h[1] /\ k[n] = h[n] /\ ~(Len(k) < n)
      BY <1>4, <2>1, <2>3
    <2>6. EvaluateTrade(s, k) = PaperTrade(s, k, n, [outcome |-> "TIMEOUT", price |-> k[n].close])
      BY <1>1, <2>4, <2>5 DEF EvaluateTrade
    <2>7. PaperTrade(s, k, n, [outcome |-> "TIMEOUT", price |-> k[n].close])
            = PaperTrade(s, h, n, [outcome |-> "TIMEOUT", price |-> h[n].close])
      BY <2>3, <2>5 DEF PaperTrade
    <2> QED
      BY <2>2, <2>6, <2>7
  <1> QED
    BY <1>5, <1>6

-----------------------------------------------------------------------------
LEMMA InstanceTypes ==
    ASSUME NEW s \in Signals, NEW h \in Seq(Bars)
    PROVE  s \in SignalType /\ h \in Seq(BarType)
  <1>1. s \in SignalType
    BY SignalsAssumption DEF SignalType
  <1>2. Bars \subseteq BarType
    BY BarsAssumption DEF BarType
  <1>3. h \in [1..Len(h) -> Bars] /\ Len(h) \in Nat
    OBVIOUS
  <1>4. h \in [1..Len(h) -> BarType]
    BY <1>2, <1>3
  <1> QED
    BY <1>1, <1>3, <1>4

\* The price a trade leaves at, before slippage, is one its last bar traded at.
LEMMA LeftWithinBar ==
    ASSUME NEW s \in Signals, NEW h \in Seq(Bars), h # <<>>
    PROVE  /\ Left(s, h).price \in Int
           /\ h[LastBar(s, h)].low <= Left(s, h).price
           /\ Left(s, h).price <= h[LastBar(s, h)].high
  <1> DEFINE b == h[LastBar(s, h)]
  <1>1. s \in SignalType /\ h \in Seq(BarType)
    BY InstanceTypes
  <1>2. LastBar(s, h) \in 1..Len(h)
    BY <1>1, LastBarIs
  <1>3. b \in Bars /\ b \in BarType
    BY <1>1, <1>2
  <1>4. b.low <= b.open /\ b.open <= b.high /\ b.low <= b.close /\ b.close <= b.high
    BY <1>3, BarsAssumption
  <1>5. b.low \in Int /\ b.open \in Int /\ b.high \in Int /\ b.close \in Int
    BY <1>3 DEF BarType
  <1>6. CASE Exits(s, h) # {}
    <2>1. LastBar(s, h) \in Exits(s, h)
      BY <1>1, <1>6, LastBarIs
    <2>2. BacktestExit(s, b) # NoExit
      BY <2>1 DEF Exits
    <2>3. Left(s, h) = BacktestExit(s, b)
      BY <1>6 DEF Left
    <2>4. /\ BacktestExit(s, b).price \in Int
          /\ b.low <= BacktestExit(s, b).price /\ BacktestExit(s, b).price <= b.high
      <3> HIDE DEF b
      <3> QED
        BY <1>1, <1>4, <1>5, <2>2
        DEF BacktestExit, NoExit, StopReached, TargetReached, Best, Worst, SignalType
    <2> QED
      BY <2>3, <2>4
  <1>7. CASE Exits(s, h) = {}
    BY <1>4, <1>5, <1>7 DEF Left
  <1> QED
    BY <1>6, <1>7

\* No simulated exit is better than the best price since the entry, or worse than
\* the worst, but for the slippage of the exit (_simulate_one).
THEOREM PnlIsBounded ==
    ASSUME NEW s \in Signals, NEW h \in Seq(Bars), NEW slippage \in Nat,
           SimulateOne(s, h, slippage) # NoTrade
    PROVE  LET trade == SimulateOne(s, h, slippage)
           IN  trade.pnl <= trade.mfe - slippage /\ trade.pnl >= -trade.mae - slippage
  <1> DEFINE n == LastBar(s, h)
             entry == FillPrice(s.side, h[1], slippage)
             price == Left(s, h).price
             exit == ExitPrice(s.side, price, slippage)
             mfe == Largest(Favourable(s, h, entry, n))
             mae == Largest(Adverse(s, h, entry, n))
  <1>1. s \in SignalType /\ h \in Seq(BarType)
    BY InstanceTypes
  <1>2. h # <<>> /\ entry # s.stop
    BY SimulateOneIs
  <1>3. SimulateOne(s, h, slippage).pnl = Gain(s.side, entry, exit)
        /\ SimulateOne(s, h, slippage).mfe = mfe /\ SimulateOne(s, h, slippage).mae = mae
    BY <1>2, SimulateOneIs
  <1>4. n \in 1..Len(h)
    BY <1>1, <1>2, LastBarIs
  <1>5. h[1] \in BarType /\ h[n] \in BarType
    BY <1>1, <1>2, <1>4
  <1>6. entry \in Int
    BY <1>5 DEF FillPrice, BarType
  <1>7. price \in Int /\ h[n].low <= price /\ price <= h[n].high
    BY <1>2, LeftWithinBar
  <1>8. /\ mfe \in Nat /\ mae \in Nat
        /\ Gain(s.side, entry, Best(s.side, h[n])) <= mfe
        /\ Gain(s.side, Worst(s.side, h[n]), entry) <= mae
    BY <1>1, <1>4, <1>6, ExcursionsAre
  <1>9. s.side \in {"LONG", "SHORT"} /\ h[n].low \in Int /\ h[n].high \in Int
    BY <1>1, <1>5 DEF SignalType, BarType
  <1>10. Gain(s.side, entry, exit) <= mfe - slippage /\ Gain(s.side, entry, exit) >= -mae - slippage
    <2> HIDE DEF n, entry, price, mfe, mae
    <2> QED
      BY <1>6, <1>7, <1>8, <1>9 DEF Gain, Best, Worst, ExitPrice
  <1> QED
    BY <1>3, <1>10

\* Slippage changes neither which exit is taken nor when, and costs its amount
\* twice (_fill_price, _exit_price).
THEOREM SlippageCostsTwice ==
    ASSUME NEW s \in Signals, NEW h \in Seq(Bars), NEW slippage \in Nat,
           SimulateOne(s, h, 0) # NoTrade, SimulateOne(s, h, slippage) # NoTrade
    PROVE  /\ SimulateOne(s, h, slippage).outcome = SimulateOne(s, h, 0).outcome
           /\ SimulateOne(s, h, slippage).holding = SimulateOne(s, h, 0).holding
           /\ SimulateOne(s, h, slippage).pnl = SimulateOne(s, h, 0).pnl - 2 * slippage
  <1> DEFINE price == Left(s, h).price
             Pnl(slip) == Gain(s.side, FillPrice(s.side, h[1], slip), ExitPrice(s.side, price, slip))
  <1>1. s \in SignalType /\ h \in Seq(BarType)
    BY InstanceTypes
  <1>2. h # <<>>
    BY SimulateOneIs
  <1>3. \A slip \in {0, slippage} :
            /\ SimulateOne(s, h, slip).outcome = Left(s, h).outcome
            /\ SimulateOne(s, h, slip).holding =
                IF Exits(s, h) # {} THEN LastBar(s, h) ELSE MaxHoldingBars
            /\ SimulateOne(s, h, slip).pnl = Pnl(slip)
    BY SimulateOneIs
  <1>4. h[1].open \in Int /\ s.side \in {"LONG", "SHORT"}
    <2>1. h[1] \in BarType
      BY <1>1, <1>2
    <2> QED
      BY <1>1, <2>1 DEF BarType, SignalType
  <1>5. price \in Int
    BY <1>2, LeftWithinBar
  <1>6. Pnl(slippage) = Pnl(0) - 2 * slippage
    <2> HIDE DEF price
    <2> QED
      BY <1>4, <1>5 DEF Gain, FillPrice, ExitPrice
  <1> QED
    BY <1>3, <1>6

-----------------------------------------------------------------------------
(* The training label. *)

Touched(s, b) ==
    StopReached(s, Worst(s.side, b)) \/ TargetReached(s, Best(s.side, b))

\* A bar makes a trade exit exactly if its range touches a level.
LEMMA ExitIsTouch ==
    ASSUME NEW s \in Signals, NEW b \in Bars
    PROVE  /\ BacktestExit(s, b) # NoExit <=> Touched(s, b)
           /\ BacktestExit(s, b).outcome \in {"STOP", "STOP_GAP"} => StopReached(s, Worst(s.side, b))
           /\ BacktestExit(s, b).outcome = "TARGET" => ~StopReached(s, Worst(s.side, b))
           /\ BacktestExit(s, b).outcome # "TIMEOUT"
  <1>1. s.side \in {"LONG", "SHORT"} /\ s.stop \in Int /\ s.target \in Int
    BY SignalsAssumption
  <1>2. b.low \in Int /\ b.open \in Int /\ b.high \in Int
    BY BarsAssumption
  <1>3. b.low <= b.open /\ b.open <= b.high
    BY BarsAssumption
  <1> QED
    BY <1>1, <1>2, <1>3
    DEF BacktestExit, NoExit, Touched, StopReached, TargetReached, Best, Worst

\* The training label of a path names the exit the simulator takes, at the same bar;
\* the exception is an opening beyond the target that falls back to the stop.
THEOREM LabelNamesExit ==
    ASSUME NEW s \in Signals, NEW h \in Seq(Bars),
           SimulateOne(s, h, 0) # NoTrade
    PROVE  LET trade == SimulateOne(s, h, 0)
               label == LabelForwardPath(s, h)
           IN  /\ trade.outcome = "TIMEOUT" <=> label.reason = "TIMEOUT"
               /\ trade.outcome # "TIMEOUT" => label.bars = trade.holding
               /\ trade.outcome \in {"STOP", "STOP_GAP"} => label.reason = "STOP"
               /\ trade.outcome = "TARGET" => label.reason = "TARGET"
  <1> DEFINE trade == SimulateOne(s, h, 0)
             hits == {n \in 1..LastPosition(h) :
                        \/ StopReached(s, Worst(s.side, h[n]))
                        \/ TargetReached(s, Best(s.side, h[n]))}
             b == h[LastBar(s, h)]
  <1>1. s \in SignalType /\ h \in Seq(BarType)
    BY InstanceTypes
  <1>2. h # <<>>
    BY SimulateOneIs
  <1>3. trade.outcome = Left(s, h).outcome
        /\ trade.holding = IF Exits(s, h) # {} THEN LastBar(s, h) ELSE MaxHoldingBars
    BY SimulateOneIs
  <1>4. LastPosition(h) \in 1..Len(h)
    BY <1>1, <1>2, LastPositionIs, HoldingAssumption
  <1>5. \A n \in 1..LastPosition(h) : h[n] \in Bars
    BY <1>4
  <1>6. hits = Exits(s, h)
    BY <1>5, ExitIsTouch DEF Exits, Touched
  <1>7. CASE Exits(s, h) = {}
    <2>1. Left(s, h).outcome = "TIMEOUT"
      BY <1>7 DEF Left
    <2>2. LabelForwardPath(s, h).reason = "TIMEOUT"
      BY <1>6, <1>7 DEF LabelForwardPath
    <2> QED
      BY <1>3, <2>1, <2>2
  <1>8. CASE Exits(s, h) # {}
    <2>1. LastBar(s, h) = Min(Exits(s, h)) /\ LastBar(s, h) \in 1..Len(h)
      BY <1>1, <1>2, <1>8, LastBarIs DEF LastBar
    <2>2. Left(s, h) = BacktestExit(s, b) /\ b \in Bars
      BY <1>8, <2>1 DEF Left
    <2>3. LabelForwardPath(s, h) =
            [reason |-> IF StopReached(s, Worst(s.side, b)) THEN "STOP" ELSE "TARGET",
             bars |-> LastBar(s, h)]
      BY <1>6, <1>8, <2>1 DEF LabelForwardPath
    <2>4. /\ Left(s, h).outcome \in {"STOP", "STOP_GAP"} => StopReached(s, Worst(s.side, b))
          /\ Left(s, h).outcome = "TARGET" => ~StopReached(s, Worst(s.side, b))
          /\ Left(s, h).outcome # "TIMEOUT"
      BY <2>2, ExitIsTouch
    <2> HIDE DEF b
    <2> QED
      BY <1>3, <1>8, <2>3, <2>4
  <1> QED
    BY <1>7, <1>8

-----------------------------------------------------------------------------
(* The replay. *)

LEMMA EvaluationType ==
    ASSUME NEW s \in Signals, NEW h \in Seq(Bars), EvaluateTrade(s, h) # NoTrade
    PROVE  LET o == EvaluateTrade(s, h)
           IN  /\ o.outcome \in Outcomes
               /\ o.holding \in 1..MaxHoldingBars /\ o.holding <= Len(h)
               /\ o.mfe \in Nat /\ o.mae \in Nat
  <1>1. s \in SignalType /\ h \in Seq(BarType)
    BY InstanceTypes
  <1>2. SimulateOne(s, h, 0) = EvaluateTrade(s, h)
    BY <1>1, SimulatorsAgree
  <1>3. h # <<>>
    BY DEF EvaluateTrade
  <1>4. LastBar(s, h) \in 1..Len(h) /\ LastBar(s, h) <= MaxHoldingBars
    BY <1>1, <1>3, LastBarIs
  <1>5. /\ SimulateOne(s, h, 0).outcome = Left(s, h).outcome
        /\ SimulateOne(s, h, 0).holding =
            (IF Exits(s, h) # {} THEN LastBar(s, h) ELSE MaxHoldingBars)
        /\ SimulateOne(s, h, 0).mfe =
            Largest(Favourable(s, h, FillPrice(s.side, h[1], 0), LastBar(s, h)))
        /\ SimulateOne(s, h, 0).mae =
            Largest(Adverse(s, h, FillPrice(s.side, h[1], 0), LastBar(s, h)))
    BY <1>2, SimulateOneIs
  <1>6. FillPrice(s.side, h[1], 0) \in Int
    <2>1. h[1] \in BarType /\ s.side \in {"LONG", "SHORT"}
      BY <1>1, <1>3 DEF SignalType
    <2> QED
      BY <2>1, SameWithoutSlippage DEF BarType
  <1>7. SimulateOne(s, h, 0).mfe \in Nat /\ SimulateOne(s, h, 0).mae \in Nat
    BY <1>1, <1>4, <1>5, <1>6, ExcursionsAre
  <1>8. Exits(s, h) = {} => ~(Len(h) < MaxHoldingBars)
    BY <1>1, SameExits DEF EvaluateTrade, Exits
  <1>9. /\ SimulateOne(s, h, 0).holding \in 1..MaxHoldingBars
        /\ SimulateOne(s, h, 0).holding <= Len(h)
    BY <1>4, <1>5, <1>8, HoldingAssumption
  <1>10. Left(s, h).outcome \in Outcomes
    <2>1. CASE Exits(s, h) = {}
      BY <2>1 DEF Left, Outcomes
    <2>2. CASE Exits(s, h) # {}
      <3>1. BacktestExit(s, h[LastBar(s, h)]) # NoExit
        BY <1>1, <1>3, <2>2, LastBarIs DEF Exits
      <3>2. Left(s, h) = BacktestExit(s, h[LastBar(s, h)])
        BY <2>2 DEF Left
      <3> QED
        BY <3>1, <3>2 DEF BacktestExit, NoExit, Outcomes
    <2> QED
      BY <2>1, <2>2
  <1> QED
    BY <1>2, <1>5, <1>7, <1>9, <1>10

\* Until the bars it rests on change, an outcome is what evaluating again would give.
Final == outcome # NoTrade /\ ~changed => outcome = EvaluateTrade(signal, bars)
ReplayIInv == ReplayTypeOK /\ Final

LEMMA ReplayInitIInv == ReplayInit => ReplayIInv
  <1>1. <<>> \in Seq(Bars) /\ Len(<<>>) = 0 /\ 0 <= MaxBars
    BY ReplayAssumption
  <1> QED
    BY <1>1 DEF ReplayInit, ReplayIInv, ReplayTypeOK, Final

\* Evaluation does not change where the first bars, up to the exit, stay.
LEMMA FinalStays ==
    ASSUME ReplayIInv, NEW k \in Seq(Bars), Len(bars) <= Len(k), outcome # NoTrade, ~changed,
           \A n \in 1..Len(bars) : n <= outcome.holding => k[n] = bars[n]
    PROVE  outcome = EvaluateTrade(signal, k)
  <1>1. signal \in SignalType /\ bars \in Seq(BarType) /\ k \in Seq(BarType)
    BY InstanceTypes DEF ReplayIInv, ReplayTypeOK
  <1>2. outcome = EvaluateTrade(signal, bars)
    BY DEF ReplayIInv, Final
  <1> QED
    BY <1>1, <1>2, EvaluationIsStable

\* An inserted bar leaves the bars before it where they are.
LEMMA Inserted ==
    ASSUME NEW h \in Seq(Bars), NEW n \in 1..(Len(h) + 1), NEW b \in Bars
    PROVE  /\ InsertAt(h, n, b) \in Seq(Bars)
           /\ Len(InsertAt(h, n, b)) = Len(h) + 1
           /\ \A m \in 1..Len(h) : m < n => InsertAt(h, n, b)[m] = h[m]
  <1> DEFINE before == SubSeq(h, 1, n - 1)
             after == SubSeq(h, n, Len(h))
  <1>1. Len(h) \in Nat /\ n \in Nat /\ n >= 1 /\ n <= Len(h) + 1
    OBVIOUS
  <1>2. /\ before \in Seq(Bars) /\ Len(before) = n - 1
        /\ \A m \in 1..(n - 1) : before[m] = h[m]
    BY <1>1
  <1>3. after \in Seq(Bars) /\ Len(after) = Len(h) - n + 1
    BY <1>1
  <1>4. <<b>> \in Seq(Bars) /\ Len(<<b>>) = 1
    OBVIOUS
  <1> HIDE DEF before, after
  <1>0. ASSUME NEW s \in Seq(Bars), NEW t \in Seq(Bars)
        PROVE  /\ s \o t \in Seq(Bars) /\ Len(s \o t) = Len(s) + Len(t)
               /\ \A m \in 1..Len(s) : (s \o t)[m] = s[m]
    OBVIOUS
  <1>5. /\ before \o <<b>> \in Seq(Bars) /\ Len(before \o <<b>>) = n
        /\ \A m \in 1..(n - 1) : (before \o <<b>>)[m] = h[m]
    BY <1>0, <1>1, <1>2, <1>4
  <1>6. /\ (before \o <<b>>) \o after \in Seq(Bars)
        /\ Len((before \o <<b>>) \o after) = Len(h) + 1
        /\ \A m \in 1..(n - 1) : ((before \o <<b>>) \o after)[m] = h[m]
    <2>1. /\ (before \o <<b>>) \o after \in Seq(Bars)
          /\ Len((before \o <<b>>) \o after) = n + Len(after)
          /\ \A m \in 1..n : ((before \o <<b>>) \o after)[m] = (before \o <<b>>)[m]
      <3> DEFINE left == before \o <<b>>
      <3>1. left \in Seq(Bars) /\ Len(left) = n
        BY <1>5
      <3> HIDE DEF left
      <3>2. /\ left \o after \in Seq(Bars) /\ Len(left \o after) = n + Len(after)
            /\ \A m \in 1..n : (left \o after)[m] = left[m]
        BY <1>0, <1>3, <3>1
      <3> QED
        BY <3>2 DEF left
    <2>2. n + Len(after) = Len(h) + 1
      BY <1>1, <1>3
    <2>3. \A m \in 1..(n - 1) : m \in 1..n
      BY <1>1
    <2> QED
      BY <1>5, <2>1, <2>2, <2>3
  <1>7. InsertAt(h, n, b) = (before \o <<b>>) \o after
    BY DEF InsertAt, before, after
  <1> QED
    BY <1>1, <1>6, <1>7

LEMMA ReplayNextIInv == ReplayIInv /\ [ReplayNext]_replayVars => ReplayIInv'
  <1> SUFFICES ASSUME ReplayIInv, [ReplayNext]_replayVars PROVE ReplayIInv'
    OBVIOUS
  <1>0. /\ signal \in Signals /\ bars \in Seq(Bars) /\ Len(bars) \in Nat /\ Len(bars) <= MaxBars
        /\ outcome # NoTrade =>
            outcome.outcome \in Outcomes /\ outcome.holding \in 1..MaxHoldingBars
            /\ outcome.holding <= Len(bars) /\ outcome.mfe \in Nat /\ outcome.mae \in Nat
    BY DEF ReplayIInv, ReplayTypeOK
  <1>1. CASE BarArrives
    <2>1. PICK n \in 1..(Len(bars) + 1), b \in Bars : bars' = InsertAt(bars, n, b)
                /\ changed' = (changed \/ RestsOn(n))
      BY <1>1 DEF BarArrives
    <2>2. /\ bars' \in Seq(Bars) /\ Len(bars') = Len(bars) + 1
          /\ \A m \in 1..Len(bars) : m < n => bars'[m] = bars[m]
      BY <1>0, <2>1, Inserted
    <2>3. ReplayTypeOK'
      BY <1>0, <1>1, <2>1, <2>2, ReplayAssumption, HoldingAssumption
      DEF BarArrives, RestsOn, ReplayIInv, ReplayTypeOK
    <2>4. Final'
      <3> SUFFICES ASSUME outcome # NoTrade, ~changed' PROVE outcome = EvaluateTrade(signal, bars')
        BY <1>1 DEF BarArrives, Final
      <3>1. ~changed /\ ~(n <= outcome.holding) /\ outcome.holding \in Nat
        <4>1. ~changed /\ ~RestsOn(n)
          BY <2>1
        <4> QED
          BY <1>0, <4>1, HoldingAssumption DEF RestsOn
      <3>2. \A m \in 1..Len(bars) : m <= outcome.holding => bars'[m] = bars[m]
        BY <1>0, <2>2, <3>1
      <3> QED
        BY <1>0, <2>2, <3>1, <3>2, FinalStays
    <2> QED
      BY <2>3, <2>4 DEF ReplayIInv
  <1>2. CASE BarRevised
    <2>1. PICK n \in DOMAIN bars, b \in Bars : bars' = [bars EXCEPT ![n] = b]
                /\ changed' = (changed \/ RestsOn(n))
      BY <1>2 DEF BarRevised
    <2>2. /\ bars' \in Seq(Bars) /\ Len(bars') = Len(bars)
          /\ \A m \in 1..Len(bars) : m # n => bars'[m] = bars[m]
      BY <1>0, <2>1
    <2>3. ReplayTypeOK'
      BY <1>0, <1>2, <2>1, <2>2 DEF BarRevised, RestsOn, ReplayIInv, ReplayTypeOK
    <2>4. Final'
      <3> SUFFICES ASSUME outcome' # NoTrade, ~changed' PROVE outcome' = EvaluateTrade(signal', bars')
        BY DEF Final
      <3>1. outcome' = outcome /\ signal' = signal
        BY <1>2 DEF BarRevised
      <3>2. ~changed /\ ~(n <= outcome.holding) /\ outcome # NoTrade
        BY <2>1, <3>1 DEF RestsOn
      <3>3. \A m \in 1..Len(bars) : m <= outcome.holding => bars'[m] = bars[m]
        BY <2>2, <3>2
      <3> QED
        BY <1>0, <2>2, <3>1, <3>2, <3>3, FinalStays
    <2> QED
      BY <2>3, <2>4 DEF ReplayIInv
  <1>3. CASE Evaluate
    <2>1. EvaluateTrade(signal, bars) # NoTrade /\ outcome' = EvaluateTrade(signal, bars)
          /\ UNCHANGED <<signal, bars, changed>>
      BY <1>3 DEF Evaluate
    <2>2. ReplayTypeOK'
      BY <1>0, <2>1, EvaluationType DEF ReplayIInv, ReplayTypeOK
    <2>3. Final'
      BY <2>1 DEF Final
    <2> QED
      BY <2>2, <2>3 DEF ReplayIInv
  <1>4. CASE UNCHANGED replayVars
    BY <1>4 DEF replayVars, ReplayIInv, ReplayTypeOK, Final
  <1> QED
    BY <1>1, <1>2, <1>3, <1>4 DEF ReplayNext

LEMMA ReplayAlwaysIInv == ReplaySpec => []ReplayIInv
  BY ReplayInitIInv, ReplayNextIInv, PTL DEF ReplaySpec

\* Every variable keeps to its domain; no trade is held past the horizon or the bars.
THEOREM ReplayTypeCorrect == ReplaySpec => []ReplayTypeOK
  <1>1. ReplayIInv => ReplayTypeOK
    BY DEF ReplayIInv
  <1> QED
    BY <1>1, ReplayAlwaysIInv, PTL

\* The paper evaluation is the backtest's trade, whenever it ran and however much
\* history the backtest has, unless a bar up to the exit was revised or filled in
\* after the evaluation (evaluate_trade).
THEOREM PaperIsBacktest == ReplaySpec => []PaperMatchesBacktest
  <1>1. ReplayIInv => PaperMatchesBacktest
    <2> SUFFICES ASSUME ReplayIInv, outcome # NoTrade, ~changed
                 PROVE  SimulateOne(signal, bars, 0) = outcome
      BY DEF PaperMatchesBacktest
    <2>1. outcome = EvaluateTrade(signal, bars)
      BY DEF ReplayIInv, Final
    <2>2. signal \in SignalType /\ bars \in Seq(BarType)
      BY InstanceTypes DEF ReplayIInv, ReplayTypeOK
    <2> QED
      BY <2>1, <2>2, SimulatorsAgree
  <1> QED
    BY <1>1, ReplayAlwaysIInv, PTL

\* Waiting is justified in every state of the replay (evaluate_pending).
THEOREM AlwaysWaitsForHorizon == ReplaySpec => []WaitsForHorizon
  <1>1. ReplayIInv => WaitsForHorizon
    BY InstanceTypes, WaitingIsJustified DEF ReplayIInv, ReplayTypeOK, WaitsForHorizon
  <1> QED
    BY <1>1, ReplayAlwaysIInv, PTL

\* Excursions bound every simulated result, whatever the slippage (_simulate_one).
THEOREM AlwaysBounded == ReplaySpec => []ExcursionsBoundPnl
  <1>1. ReplayIInv => ExcursionsBoundPnl
    BY PnlIsBounded, ReplayAssumption DEF ReplayIInv, ReplayTypeOK, ExcursionsBoundPnl
  <1> QED
    BY <1>1, ReplayAlwaysIInv, PTL

\* Slippage is a cost and nothing else in every state of the replay.
THEOREM AlwaysCost == ReplaySpec => []SlippageIsCost
  <1>1. ReplayIInv => SlippageIsCost
    BY SlippageCostsTwice, ReplayAssumption DEF ReplayIInv, ReplayTypeOK, SlippageIsCost
  <1> QED
    BY <1>1, ReplayAlwaysIInv, PTL

\* Label and simulator agree in every state of the replay (label_forward_path).
THEOREM AlwaysLabelled == ReplaySpec => []LabelAgrees
  <1>1. ReplayIInv => LabelAgrees
    BY LabelNamesExit DEF ReplayIInv, ReplayTypeOK, LabelAgrees
  <1> QED
    BY <1>1, ReplayAlwaysIInv, PTL

-----------------------------------------------------------------------------
(* The backtest: one trade of a symbol at a time, no signal passed over    *)
(* without a reason.                                                       *)

\* Of the elements of a set, one has the least pair of keys.
LEMMA LeastPair ==
    ASSUME NEW S, S # {}, NEW f \in [S -> Nat], NEW g \in [S -> Nat]
    PROVE  \E x \in S : \A y \in S : f[x] < f[y] \/ (f[x] = f[y] /\ g[x] <= g[y])
  <1> DEFINE firsts == {f[x] : x \in S}
             least == Min(firsts)
             T == {x \in S : f[x] = least}
             seconds == {g[x] : x \in T}
  <1>1. firsts \in SUBSET Nat /\ firsts # {}
    OBVIOUS
  <1>2. least \in firsts /\ \A n \in firsts : least <= n
    BY <1>1, MinIsLeast
  <1> HIDE DEF least
  <1>3. T # {} /\ seconds \in SUBSET Nat /\ seconds # {}
    BY <1>2
  <1>4. Min(seconds) \in seconds /\ \A n \in seconds : Min(seconds) <= n
    BY <1>3, MinIsLeast
  <1>5. PICK x \in T : \A y \in T : g[x] <= g[y]
    BY <1>4
  <1>6. \A y \in S : f[x] <= f[y] /\ (f[x] = f[y] => y \in T)
    BY <1>2, <1>5
  <1>7. \A y \in S : f[x] \in Nat /\ f[y] \in Nat
    BY <1>5
  <1> QED
    BY <1>5, <1>6, <1>7

LEMMA MaxOfTwo ==
    ASSUME NEW m \in Int, NEW n \in Int
    PROVE  Max({m, n}) = IF m >= n THEN m ELSE n
  <1>1. \E x \in {m, n} : \A y \in {m, n} : x >= y
    OBVIOUS
  <1>2. Max({m, n}) \in {m, n} /\ \A y \in {m, n} : Max({m, n}) >= y
    BY <1>1 DEF Max
  <1>3. Max({m, n}) >= m /\ Max({m, n}) >= n /\ (Max({m, n}) = m \/ Max({m, n}) = n)
    BY <1>2
  <1> QED
    BY <1>3

LEMMA MinOfTwo ==
    ASSUME NEW m \in Nat, NEW n \in Nat
    PROVE  Min({m, n}) = IF m <= n THEN m ELSE n
  <1>1. Min({m, n}) \in {m, n} /\ \A y \in {m, n} : Min({m, n}) <= y
    BY MinIsLeast
  <1>2. Min({m, n}) <= m /\ Min({m, n}) <= n /\ (Min({m, n}) = m \/ Min({m, n}) = n)
    BY <1>1
  <1> QED
    BY <1>2

-----------------------------------------------------------------------------
(* The total of a set of trades. MapThenSumSet is defined by recursion over *)
(* subsets: that such a function exists, that it does not depend on the     *)
(* order of summing, follows from the smallest subset for which it fails.   *)

\* Of a family of subsets of a finite set, one has no smaller one in the family.
LEMMA SmallestSubset ==
    ASSUME NEW U, IsFiniteSet(U), NEW family \in SUBSET (SUBSET U), family # {}
    PROVE  \E s \in family : \A r \in SUBSET s : r # s => r \notin family
  <1> DEFINE sizes == {Cardinality(s) : s \in family}
  <1>1. \A s \in SUBSET U : IsFiniteSet(s) /\ Cardinality(s) \in Nat
    BY FS_Subset, FS_CardinalityType
  <1>2. sizes \in SUBSET Nat /\ sizes # {}
    BY <1>1
  <1>3. Min(sizes) \in sizes /\ \A n \in sizes : Min(sizes) <= n
    BY <1>2, MinIsLeast
  <1>4. PICK s \in family : \A r \in family : Cardinality(s) <= Cardinality(r)
    BY <1>3
  <1>5. ASSUME NEW r \in SUBSET s, r # s, r \in family PROVE FALSE
    <2>1. Cardinality(r) <= Cardinality(s) /\ Cardinality(r) # Cardinality(s)
      BY <1>1, <1>5, FS_Subset
    <2> QED
      BY <1>1, <1>4, <1>5, <2>1
  <1> QED
    BY <1>5

Chosen(s) == CHOOSE x \in s : TRUE

\* F sums the points of the trades in each set of the family.
SumsIn(F, family) ==
    F = [s \in family |-> IF s = {} THEN 0 ELSE Chosen(s).pnl + F[s \ {Chosen(s)}]]

Sums(F, U) == SumsIn(F, SUBSET U)

Total(S) == MapThenSumSet(LAMBDA u : u.pnl, S)

LEMMA TotalIsChosen ==
    ASSUME NEW S
    PROVE  Total(S) = (CHOOSE F : Sums(F, S))[S]
  BY DEF Total, MapThenSumSet, MapThenFoldSet, Sums, SumsIn, Chosen

LEMMA SumsExist ==
    ASSUME NEW U, IsFiniteSet(U)
    PROVE  \E F : Sums(F, U)
  <1> DEFINE Small(n) == {s \in SUBSET U : Cardinality(s) <= n}
             Has(n) == \E F : SumsIn(F, Small(n))
             without == {n \in Nat : ~Has(n)}
  <1>0. \A s \in SUBSET U : /\ IsFiniteSet(s) /\ Cardinality(s) \in Nat
                            /\ Cardinality(s) <= Cardinality(U)
    BY FS_Subset, FS_CardinalityType
  <1>1. CASE without = {}
    <2>1. Cardinality(U) \in Nat
      BY FS_CardinalityType
    <2>2. Has(Cardinality(U))
      BY <1>1, <2>1
    <2>3. Small(Cardinality(U)) = SUBSET U
      BY <1>0
    <2> QED
      BY <2>2, <2>3 DEF Sums
  <1>2. CASE without # {}
    <2>1. without \in SUBSET Nat
      OBVIOUS
    <2>2. PICK least \in without : \A n \in without : least <= n
      BY <1>2, <2>1, MinIsLeast
    <2>3. Small(0) = {{}}
      <3>1. \A s \in SUBSET U : Cardinality(s) <= 0 <=> s = {}
        BY <1>0, FS_EmptySet
      <3> QED
        BY <3>1
    <2>4. Has(0)
      <3>1. SumsIn([s \in {{}} |-> 0], {{}})
        BY DEF SumsIn
      <3> QED
        BY <2>3, <3>1
    <2>5. least - 1 \in Nat /\ least \in Nat
      BY <2>2, <2>4
    <2>6. Has(least - 1)
      <3> HIDE DEF Has
      <3> QED
        BY <2>2, <2>5
    <2>7. PICK F : SumsIn(F, Small(least - 1))
      BY <2>6
    <2> DEFINE G == [s \in Small(least) |-> IF s = {} THEN 0 ELSE Chosen(s).pnl + F[s \ {Chosen(s)}]]
    <2>8. ASSUME NEW s \in Small(least), s # {}
          PROVE  G[s \ {Chosen(s)}] = F[s \ {Chosen(s)}]
      <3> DEFINE r == s \ {Chosen(s)}
      <3>1. Chosen(s) \in s
        BY <2>8 DEF Chosen
      <3>2. Cardinality(r) = Cardinality(s) - 1
        BY <1>0, <3>1, FS_RemoveElement
      <3>3. r \in Small(least - 1) /\ r \in Small(least)
        BY <1>0, <2>5, <3>2
      <3> HIDE DEF r
      <3>4. F[r] = IF r = {} THEN 0 ELSE Chosen(r).pnl + F[r \ {Chosen(r)}]
        BY <2>7, <3>3 DEF SumsIn
      <3>5. G[r] = IF r = {} THEN 0 ELSE Chosen(r).pnl + F[r \ {Chosen(r)}]
        BY <3>3
      <3> QED
        BY <3>4, <3>5 DEF r
    <2>9. SumsIn(G, Small(least))
      <3>1. \A s \in Small(least) :
                G[s] = IF s = {} THEN 0 ELSE Chosen(s).pnl + G[s \ {Chosen(s)}]
        BY <2>8
      <3>2. G = [s \in Small(least) |-> G[s]]
        OBVIOUS
      <3> HIDE DEF G, Small
      <3> QED
        BY <3>1, <3>2 DEF SumsIn
    <2>10. Has(least)
      <3> HIDE DEF G
      <3> QED
        BY <2>9
    <2> QED
      BY <2>2, <2>10
  <1> QED
    BY <1>1, <1>2

\* Each such function gives a set its total.
LEMMA SumsGiveTotal ==
    ASSUME NEW U, IsFiniteSet(U), NEW F, Sums(F, U), NEW S \in SUBSET U
    PROVE  Total(S) = F[S]
  <1> DEFINE G == CHOOSE H : Sums(H, S)
             differ == {s \in SUBSET S : F[s] # G[s]}
  <1>1. IsFiniteSet(S)
    BY FS_Subset
  <1>2. Sums(G, S)
    BY <1>1, SumsExist
  <1> HIDE DEF G
  <1>3. CASE differ # {}
    <2>0. differ \in SUBSET (SUBSET S)
      OBVIOUS
    <2>1. PICK s \in differ : \A r \in SUBSET s : r # s => r \notin differ
      <3> HIDE DEF differ
      <3> QED
        BY <1>1, <1>3, <2>0, SmallestSubset
    <2>2. s \in SUBSET S /\ s \in SUBSET U /\ F[s] # G[s]
      OBVIOUS
    <2>3. /\ F[s] = IF s = {} THEN 0 ELSE Chosen(s).pnl + F[s \ {Chosen(s)}]
          /\ G[s] = IF s = {} THEN 0 ELSE Chosen(s).pnl + G[s \ {Chosen(s)}]
      BY <1>2, <2>2 DEF Sums, SumsIn
    <2>4. s # {}
      BY <2>2, <2>3
    <2>5. s \ {Chosen(s)} # s /\ s \ {Chosen(s)} \in SUBSET s
      BY <2>4 DEF Chosen
    <2>6. F[s \ {Chosen(s)}] = G[s \ {Chosen(s)}]
      BY <2>1, <2>2, <2>5
    <2> QED
      BY <2>2, <2>3, <2>4, <2>6
  <1>4. CASE differ = {}
    <2>1. F[S] = G[S]
      BY <1>4
    <2> QED
      BY <2>1, TotalIsChosen DEF G
  <1> QED
    BY <1>3, <1>4

\* What the recursion says of a total.
LEMMA TotalRecursion ==
    ASSUME NEW U, IsFiniteSet(U)
    PROVE  /\ Total({}) = 0
           /\ \A s \in SUBSET U : s # {} => Total(s) = Chosen(s).pnl + Total(s \ {Chosen(s)})
  <1>1. PICK F : Sums(F, U)
    BY SumsExist
  <1>2. \A s \in SUBSET U : Total(s) = F[s]
    BY <1>1, SumsGiveTotal
  <1>3. \A s \in SUBSET U :
            F[s] = IF s = {} THEN 0 ELSE Chosen(s).pnl + F[s \ {Chosen(s)}]
    BY <1>1 DEF Sums, SumsIn
  <1>4. {} \in SUBSET U /\ \A s \in SUBSET U : s \ {Chosen(s)} \in SUBSET U
    OBVIOUS
  <1> QED
    BY <1>2, <1>3, <1>4

LEMMA TotalType ==
    ASSUME NEW U, IsFiniteSet(U), \A x \in U : x.pnl \in Int
    PROVE  Total(U) \in Int
  <1> DEFINE wrong == {s \in SUBSET U : Total(s) \notin Int}
  <1>1. CASE wrong # {}
    <2>0. wrong \in SUBSET (SUBSET U)
      OBVIOUS
    <2>1. PICK s \in wrong : \A r \in SUBSET s : r # s => r \notin wrong
      <3> HIDE DEF wrong
      <3> QED
        BY <1>1, <2>0, SmallestSubset
    <2>2. s # {}
      <3>1. Total({}) = 0 /\ Total(s) \notin Int
        BY TotalRecursion
      <3> QED
        BY <3>1
    <2>3. Chosen(s) \in s
      BY <2>2 DEF Chosen
    <2>4. Total(s \ {Chosen(s)}) \in Int
      BY <2>1, <2>3
    <2>5. Total(s) = Chosen(s).pnl + Total(s \ {Chosen(s)})
      BY <2>2, TotalRecursion
    <2>6. Chosen(s).pnl \in Int
      BY <2>3
    <2> QED
      BY <2>4, <2>5, <2>6
  <1> QED
    BY <1>1

\* A total does not depend on the order of summing: any trade may be taken first.
LEMMA TotalWithout ==
    ASSUME NEW U, IsFiniteSet(U), \A x \in U : x.pnl \in Int, NEW x \in U
    PROVE  Total(U) = x.pnl + Total(U \ {x})
  <1> DEFINE Wrong(s) == \E y \in s : Total(s) # y.pnl + Total(s \ {y})
             wrong == {s \in SUBSET U : Wrong(s)}
  <1>1. CASE wrong # {}
    <2>0. wrong \in SUBSET (SUBSET U)
      OBVIOUS
    <2>1. PICK s \in wrong : \A r \in SUBSET s : r # s => r \notin wrong
      <3> HIDE DEF wrong
      <3> QED
        BY <1>1, <2>0, SmallestSubset
    <2>2. PICK y \in s : Total(s) # y.pnl + Total(s \ {y})
      OBVIOUS
    <2> DEFINE z == Chosen(s)
               both == (s \ {y}) \ {z}
    <2>3. z \in s
      BY <2>2 DEF Chosen
    <2> HIDE DEF z
    <2>4. Total(s) = z.pnl + Total(s \ {z})
      BY <2>2, TotalRecursion DEF z
    <2>5. y # z
      BY <2>2, <2>4
    <2>6. ~Wrong(s \ {z}) /\ ~Wrong(s \ {y})
      <3> HIDE DEF Wrong
      <3>1. s \ {z} \in SUBSET U /\ s \ {y} \in SUBSET U
        OBVIOUS
      <3>2. s \ {z} \notin wrong /\ s \ {y} \notin wrong
        BY <2>1, <2>2, <2>3
      <3> QED
        BY <3>1, <3>2
    <2>7. Total(s \ {z}) = y.pnl + Total(both)
      <3>1. y \in s \ {z} /\ (s \ {z}) \ {y} = both
        BY <2>2, <2>5
      <3> QED
        BY <2>6, <3>1
    <2>8. Total(s \ {y}) = z.pnl + Total(both)
      <3>1. z \in s \ {y}
        BY <2>3, <2>5
      <3> QED
        BY <2>6, <3>1
    <2>9. y.pnl \in Int /\ z.pnl \in Int /\ Total(both) \in Int
      <3>1. both \in SUBSET U /\ IsFiniteSet(both)
        BY FS_Subset
      <3>2. Total(both) \in Int
        BY <3>1, TotalType
      <3> QED
        BY <2>2, <2>3, <3>2
    <2> HIDE DEF both
    <2> QED
      BY <2>2, <2>4, <2>7, <2>8, <2>9
  <1>2. CASE wrong = {}
    <2>1. ~Wrong(U)
      BY <1>2
    <2> QED
      BY <2>1
  <1> QED
    BY <1>1, <1>2

-----------------------------------------------------------------------------
(* One signal. *)

Signal(s) ==
    /\ s.symbol \in Symbols /\ s.time \in Nat \ {0} /\ s.order \in SignalType

LEMMA SignalsAre ==
    ASSUME signals \in SignalSets
    PROVE  /\ \A s \in signals : Signal(s)
           /\ \A s, t \in signals : s.symbol = t.symbol /\ s.time = t.time => s = t
  BY SignalSetsAssumption DEF Signal, SignalType

\* Position names the last bar that is not after the signal.
LEMMA PositionIs ==
    ASSUME history \in Histories, NEW s, Signal(s), s.symbol \in DOMAIN history
    PROVE  /\ Position(s) \in 0..Len(history[s.symbol].bars)
           /\ \A n \in 1..Len(history[s.symbol].bars) :
                n > Position(s) => history[s.symbol].times[n] > s.time
  <1> DEFINE all == history[s.symbol].bars
             times == history[s.symbol].times
             L == Len(all)
             f == [n \in 1..L |-> IF times[n] <= s.time THEN n ELSE 0]
             S == {0} \cup {n \in DOMAIN times : times[n] <= s.time}
  <1>1. all \in Seq(BarType) /\ times \in [1..L -> Nat] /\ L \in Nat
    <2>1. all \in Seq(BarType) /\ times \in [DOMAIN all -> Nat]
      BY HistoriesAssumption DEF BarType
    <2> QED
      BY <2>1
  <1>2. s.time \in Nat
    BY DEF Signal
  <1>3. S = {0} \cup {f[n] : n \in 1..L}
    BY <1>1
  <1>4. f \in [1..L -> Int]
    OBVIOUS
  <1> HIDE DEF f
  <1>5. \E x \in S : \A y \in S : y <= x
    BY <1>1, <1>3, <1>4, LargestOfFirst
  <1>6. \E x \in S : \A y \in S : x >= y
    <2>1. PICK x \in S : \A y \in S : y <= x
      BY <1>5
    <2> QED
      BY <2>1
  <1>7. Max(S) \in S /\ \A y \in S : Max(S) >= y
    BY <1>6 DEF Max
  <1>8. Position(s) = Max(S)
    BY DEF Position
  <1> HIDE DEF S, L, times, all
  <1>9. Max(S) \in 0..L
    BY <1>1, <1>7 DEF S
  <1>10. \A n \in 1..L : n > Max(S) => times[n] > s.time
    <2> SUFFICES ASSUME NEW n \in 1..L, n > Max(S), ~(times[n] > s.time) PROVE FALSE
      OBVIOUS
    <2>1. n \in S
      BY <1>1, <1>2 DEF S
    <2> QED
      BY <1>1, <1>7, <1>9, <2>1
  <1> QED
    BY <1>8, <1>9, <1>10 DEF L, times, all

\* A simulated trade belongs to its signal, and exits after it.
LEMMA SimulatedIs ==
    ASSUME history \in Histories, NEW s, Signal(s), s.symbol \in DOMAIN history,
           Simulated(s) # NoTrade
    PROVE  /\ Simulated(s).signal = s
           /\ Simulated(s).pnl \in Int
           /\ Simulated(s).exit \in Nat
           /\ s.time < Simulated(s).exit
  <1> DEFINE all == history[s.symbol].bars
             times == history[s.symbol].times
             h == BarsAfter(s)
             result == SimulateOne(s.order, h, SlippagePoints)
             last == Position(s) + Min({result.holding, Len(h)})
  <1>1. all \in Seq(BarType) /\ times \in [1..Len(all) -> Nat]
    <2>1. all \in Seq(BarType) /\ times \in [DOMAIN all -> Nat]
      BY HistoriesAssumption DEF BarType
    <2> QED
      BY <2>1
  <1>2. Position(s) \in 0..Len(all) /\ \A n \in 1..Len(all) : n > Position(s) => times[n] > s.time
    BY PositionIs
  <1>3. h \in Seq(BarType) /\ Len(h) = Len(all) - Position(s)
    BY <1>1, <1>2 DEF BarsAfter
  <1>4. result # NoTrade
    BY DEF Simulated
  <1>5. s.order \in SignalType
    BY DEF Signal
  <1>6. h # <<>> /\ result.pnl \in Int
    BY <1>3, <1>4, <1>5, PnlIsInteger, SlippageAssumption
  <1>7. result.holding \in Nat \ {0}
    <2>1. result.holding = IF Exits(s.order, h) # {} THEN LastBar(s.order, h) ELSE MaxHoldingBars
      BY <1>4, SimulateOneIs
    <2>2. LastBar(s.order, h) \in 1..Len(h)
      BY <1>3, <1>5, <1>6, LastBarIs
    <2> QED
      BY <2>1, <2>2, HoldingAssumption
  <1>8. Len(h) \in Nat \ {0}
    BY <1>3, <1>6
  <1>9. Min({result.holding, Len(h)}) \in 1..Len(h)
    BY <1>7, <1>8, MinOfTwo
  <1>10. last \in 1..Len(all) /\ last > Position(s)
    <2> HIDE DEF h, result
    <2> QED
      BY <1>1, <1>2, <1>3, <1>9
  <1>11. /\ Simulated(s).signal = s /\ Simulated(s).pnl = result.pnl
         /\ Simulated(s).exit = times[last]
    BY <1>4 DEF Simulated
  <1>12. times[last] \in Nat /\ times[last] > s.time
    <2> HIDE DEF last
    <2> QED
      BY <1>1, <1>2, <1>10
  <1>13. s.time \in Nat
    BY DEF Signal
  <1> QED
    BY <1>6, <1>11, <1>12, <1>13

-----------------------------------------------------------------------------
(* The invariant: the signals looked at come before those that are left,   *)
(* active_until is the exit of the symbol's last trade.                    *)

TradesInv ==
    \A t \in trades :
        /\ t.signal \in signals \ todo
        /\ t.exit \in Nat /\ t.pnl \in Int
        /\ t.signal.time < t.exit /\ t.exit <= activeUntil[t.signal.symbol]

OrderInv == \A s \in signals \ todo, u \in todo : BySymbolAndTime(s, u)

ActiveInv ==
    \A y \in Symbols :
        activeUntil[y] # 0 => \E t \in trades : t.signal.symbol = y /\ t.exit = activeUntil[y]

\* The metrics begin when every signal is looked at, and take the trades in the
\* order of their exits.
CountedInv ==
    /\ IsFiniteSet(trades)
    /\ counted # {} => todo = {}
    /\ \A t \in counted, u \in trades \ counted : ByExit(t, u)

\* The falls of the realised equity after some of the trades.
Falls(taken) ==
    {0} \cup {-RealisedUpTo(t) : t \in taken}
        \cup {RealisedUpTo(p[1]) - RealisedUpTo(p[2]) :
                p \in {q \in taken \X taken : ByExit(q[1], q[2])}}

\* Equity, peak and drawdown are those of the trades taken in.
AccountInv ==
    /\ account.equity = Total(counted)
    /\ account.peak \in {0} \cup {RealisedUpTo(t) : t \in counted}
    /\ \A t \in counted : RealisedUpTo(t) <= account.peak
    /\ account.drawdown \in Falls(counted)
    /\ \A fall \in Falls(counted) : fall <= account.drawdown

IInv ==
    /\ history \in Histories /\ signals \in SignalSets
    /\ TypeOK /\ TradesInv /\ OrderInv /\ ActiveInv
    /\ OneTradeAtATime /\ UntradedHasReason
    /\ CountedInv /\ AccountInv

\* The loop takes the signals from the first on.
LEMMA NextSignalIs ==
    ASSUME signals \in SignalSets, todo \subseteq signals, todo # {}
    PROVE  /\ NextSignal \in todo
           /\ \A u \in todo \ {NextSignal} : BySymbolAndTime(NextSignal, u)
  <1> DEFINE f == [s \in todo |-> s.symbol]
             g == [s \in todo |-> s.time]
  <1>1. \A s \in todo : s.symbol \in Nat /\ s.time \in Nat
    BY SignalsAre, SymbolsAssumption DEF Signal
  <1>2. f \in [todo -> Nat] /\ g \in [todo -> Nat]
    BY <1>1
  <1>3. PICK s \in todo : \A u \in todo : f[s] < f[u] \/ (f[s] = f[u] /\ g[s] <= g[u])
    <2> HIDE DEF f, g
    <2> QED
      BY <1>2, LeastPair
  <1>4. ASSUME NEW u \in todo \ {s} PROVE BySymbolAndTime(s, u)
    <2>1. s.symbol < u.symbol \/ (s.symbol = u.symbol /\ s.time <= u.time)
      BY <1>3
    <2>2. s.symbol = u.symbol => s.time # u.time
      BY SignalsAre
    <2> QED
      BY <1>1, <2>1, <2>2 DEF BySymbolAndTime
  <1>5. \E x \in todo : \A u \in todo \ {x} : BySymbolAndTime(x, u)
    BY <1>4
  <1> QED
    BY <1>5 DEF NextSignal

\* No two trades are equal in the order of the metrics, so their first is known.
LEMMA NextTradeIs ==
    ASSUME IInv, counted # trades
    PROVE  /\ NextTrade \in trades \ counted
           /\ \A u \in (trades \ counted) \ {NextTrade} : ByExit(NextTrade, u)
  <1> DEFINE S == trades \ counted
             f == [t \in S |-> t.exit]
             g == [t \in S |-> t.signal.symbol]
  <1>1. S # {}
    BY DEF IInv, TypeOK
  <1>2. \A t \in S : /\ t.exit \in Nat /\ t.signal.symbol \in Nat /\ t.signal.time \in Nat
                     /\ t.signal.time < t.exit
    BY SignalsAre, SymbolsAssumption DEF Signal, IInv, TradesInv
  <1>3. f \in [S -> Nat] /\ g \in [S -> Nat]
    BY <1>2
  <1>4. PICK t \in S : \A u \in S : f[t] < f[u] \/ (f[t] = f[u] /\ g[t] <= g[u])
    <2> HIDE DEF f, g, S
    <2> QED
      BY <1>1, <1>3, LeastPair
  <1>5. ASSUME NEW u \in S \ {t} PROVE ByExit(t, u)
    <2>1. t.exit < u.exit \/ (t.exit = u.exit /\ t.signal.symbol <= u.signal.symbol)
      BY <1>4
    <2>2. t.signal.symbol = u.signal.symbol =>
            t.exit < u.signal.time \/ u.exit < t.signal.time
      BY DEF IInv, OneTradeAtATime
    <2> QED
      BY <1>2, <2>1, <2>2 DEF ByExit
  <1>6. \E x \in trades \ counted : \A u \in (trades \ counted) \ {x} : ByExit(x, u)
    BY <1>5
  <1> QED
    BY <1>6 DEF NextTrade

\* Before the metrics begin, nothing is realised.
LEMMA NothingCounted ==
    counted = {} => (AccountInv <=> /\ account.equity = 0 /\ account.peak = 0
                                    /\ account.drawdown = 0)
  <1> SUFFICES ASSUME counted = {}
               PROVE  AccountInv <=> /\ account.equity = 0 /\ account.peak = 0
                                     /\ account.drawdown = 0
    OBVIOUS
  <1>1. Total(counted) = 0
    BY FS_EmptySet, TotalRecursion
  <1>2. Falls(counted) = {0}
    BY DEF Falls
  <1> QED
    BY <1>1, <1>2 DEF AccountInv

LEMMA InitIInv == Init => IInv
  <1> SUFFICES ASSUME Init PROVE IInv
    OBVIOUS
  <1>1. TypeOK /\ TradesInv /\ OrderInv /\ ActiveInv /\ OneTradeAtATime /\ UntradedHasReason
    BY DEF Init, TypeOK, TradesInv, OrderInv, ActiveInv, OneTradeAtATime, UntradedHasReason
  <1>2. CountedInv
    BY FS_EmptySet DEF Init, CountedInv
  <1>3. AccountInv
    BY NothingCounted DEF Init
  <1> QED
    BY <1>1, <1>2, <1>3 DEF Init, IInv

\* While signals are left the account does not move.
LEMMA AccountWaits ==
    ASSUME IInv, todo # {}, UNCHANGED <<counted, account>>
    PROVE  counted = {} /\ AccountInv'
  <1>1. counted = {} /\ counted' = {}
    BY DEF IInv, CountedInv
  <1>2. account.equity = 0 /\ account.peak = 0 /\ account.drawdown = 0
    BY <1>1, NothingCounted DEF IInv
  <1>3. account'.equity = 0 /\ account'.peak = 0 /\ account'.drawdown = 0
    BY <1>2
  <1>4. (counted = {} => (AccountInv <=> /\ account.equity = 0 /\ account.peak = 0
                                         /\ account.drawdown = 0))'
    BY NothingCounted, PTL
  <1> QED
    BY <1>1, <1>3, <1>4

LEMMA TakeStep == IInv /\ TakeSignal => IInv'
  <1> SUFFICES ASSUME IInv, TakeSignal PROVE IInv'
    OBVIOUS
  <1> DEFINE s == NextSignal
             t == Simulated(s)
  <1>1. /\ s \in todo /\ s \in signals /\ Signal(s)
        /\ \A u \in todo \ {s} : BySymbolAndTime(s, u)
    BY NextSignalIs, SignalsAre DEF IInv, TypeOK, TakeSignal
  <1>2. t.signal = s /\ t.pnl \in Int /\ t.exit \in Nat /\ s.time < t.exit
    BY <1>1, SimulatedIs DEF IInv, TakeSignal, Tradable, Placed
  <1>3. activeUntil[s.symbol] < s.time /\ s.symbol \in Symbols /\ s.time \in Nat
    BY <1>1 DEF TakeSignal, Blocked, Signal, IInv, TypeOK
  <1>4. /\ trades' = trades \cup {t} /\ todo' = todo \ {s}
        /\ activeUntil' = [activeUntil EXCEPT ![s.symbol] = t.exit]
        /\ UNCHANGED <<history, signals, counted, account>>
    BY DEF TakeSignal
  <1> HIDE DEF s, t
  <1>5. activeUntil' \in [Symbols -> Nat] /\ \A y \in Symbols : activeUntil'[y] =
          IF y = s.symbol THEN t.exit ELSE activeUntil[y]
    BY <1>2, <1>3, <1>4 DEF IInv, TypeOK
  <1>6. \A u \in trades : /\ Signal(u.signal) /\ u.exit \in Nat /\ u.signal # s
                          /\ u.signal.symbol = s.symbol => u.exit < s.time
    <2> SUFFICES ASSUME NEW u \in trades
                 PROVE  /\ Signal(u.signal) /\ u.exit \in Nat /\ u.signal # s
                        /\ u.signal.symbol = s.symbol => u.exit < s.time
      OBVIOUS
    <2>1. u.signal \in signals \ todo /\ u.exit \in Nat /\ u.exit <= activeUntil[u.signal.symbol]
      BY DEF IInv, TradesInv
    <2>2. activeUntil[s.symbol] \in Nat
      BY <1>3 DEF IInv, TypeOK
    <2> QED
      BY <1>1, <1>3, <2>1, <2>2, SignalsAre DEF IInv
  <1>7. TypeOK'
    BY <1>1, <1>2, <1>4, <1>5 DEF IInv, TypeOK
  <1>8. TradesInv'
    <2> SUFFICES ASSUME NEW u \in trades'
                 PROVE  /\ u.signal \in signals' \ todo'
                        /\ u.exit \in Nat /\ u.pnl \in Int
                        /\ u.signal.time < u.exit /\ u.exit <= activeUntil'[u.signal.symbol]
      BY DEF TradesInv
    <2>1. CASE u = t
      BY <1>1, <1>2, <1>3, <1>4, <1>5, <2>1
    <2>2. CASE u \in trades
      <3>1. /\ u.signal \in signals \ todo /\ u.exit \in Nat /\ u.pnl \in Int
            /\ u.signal.time < u.exit /\ u.exit <= activeUntil[u.signal.symbol]
        BY <2>2 DEF IInv, TradesInv
      <3>2. u.signal.symbol \in Symbols /\ (u.signal.symbol = s.symbol => u.exit < s.time)
        BY <1>6, <2>2 DEF Signal
      <3>3. u.exit <= activeUntil'[u.signal.symbol]
        BY <1>2, <1>3, <1>5, <3>1, <3>2
      <3> QED
        BY <1>4, <3>1, <3>3
    <2> QED
      BY <1>4, <2>1, <2>2
  <1>9. OrderInv'
    BY <1>1, <1>4 DEF IInv, OrderInv
  <1>10. ActiveInv'
    <2> SUFFICES ASSUME NEW y \in Symbols, activeUntil'[y] # 0
                 PROVE  \E u \in trades' : u.signal.symbol = y /\ u.exit = activeUntil'[y]
      BY DEF ActiveInv
    <2>1. CASE y = s.symbol
      BY <1>2, <1>4, <1>5, <2>1
    <2>2. CASE y # s.symbol
      BY <1>4, <1>5, <2>2 DEF IInv, ActiveInv
    <2> QED
      BY <2>1, <2>2
  <1>11. OneTradeAtATime'
    <2> SUFFICES ASSUME NEW u \in trades', NEW v \in trades', u # v,
                        u.signal.symbol = v.signal.symbol
                 PROVE  u.exit < v.signal.time \/ v.exit < u.signal.time
      BY DEF OneTradeAtATime
    <2>1. CASE u \in trades /\ v \in trades
      BY <2>1 DEF IInv, OneTradeAtATime
    <2>2. CASE u = t /\ v \in trades
      BY <1>2, <1>6, <2>2
    <2>3. CASE v = t /\ u \in trades
      BY <1>2, <1>6, <2>3
    <2> QED
      BY <1>4, <2>1, <2>2, <2>3
  <1>12. UntradedHasReason'
    <2> SUFFICES ASSUME NEW u \in signals' \ todo'
                 PROVE  \/ \E v \in trades' : v.signal = u
                        \/ ~Tradable(u)'
                        \/ \E v \in trades' : /\ v.signal.symbol = u.symbol
                                              /\ v.signal.time <= u.time /\ u.time <= v.exit
      BY DEF UntradedHasReason
    <2>1. Tradable(u)' <=> Tradable(u)
      BY <1>4 DEF Tradable, Placed, Position, Simulated, BarsAfter
    <2>2. CASE u = s
      BY <1>2, <1>4, <2>2
    <2>3. CASE u \in signals \ todo
      BY <1>4, <2>1, <2>3 DEF IInv, UntradedHasReason
    <2> QED
      BY <1>4, <2>2, <2>3
  <1>13. AccountInv' /\ counted = {}
    BY <1>1, <1>4, AccountWaits
  <1>14. CountedInv'
    BY <1>4, <1>13, FS_AddElement DEF IInv, CountedInv
  <1> QED
    BY <1>4, <1>7, <1>8, <1>9, <1>10, <1>11, <1>12, <1>13, <1>14 DEF IInv

LEMMA SkipStep == IInv /\ SkipSignal => IInv'
  <1> SUFFICES ASSUME IInv, SkipSignal PROVE IInv'
    OBVIOUS
  <1> DEFINE s == NextSignal
  <1>1. /\ s \in todo /\ s \in signals /\ Signal(s)
        /\ \A u \in todo \ {s} : BySymbolAndTime(s, u)
    BY NextSignalIs, SignalsAre DEF IInv, TypeOK, SkipSignal
  <1>2. /\ Blocked(s) \/ ~Tradable(s)
        /\ todo' = todo \ {s}
        /\ UNCHANGED <<history, signals, activeUntil, trades, counted, account>>
    BY DEF SkipSignal
  <1> HIDE DEF s
  <1>3. TypeOK' /\ TradesInv' /\ ActiveInv' /\ OneTradeAtATime'
    BY <1>2 DEF IInv, TypeOK, TradesInv, ActiveInv, OneTradeAtATime
  <1>4. OrderInv'
    BY <1>1, <1>2 DEF IInv, OrderInv
  \* What blocks a signal is a trade of its symbol, signalled before it.
  <1>5. ASSUME Blocked(s)
        PROVE  \E v \in trades : v.signal.symbol = s.symbol /\ v.signal.time <= s.time /\ s.time <= v.exit
    <2>1. s.time <= activeUntil[s.symbol] /\ s.symbol \in Symbols /\ s.time \in Nat \ {0}
      BY <1>1, <1>5 DEF Blocked, Signal
    <2>2. activeUntil[s.symbol] # 0
      BY <2>1
    <2>3. PICK v \in trades : v.signal.symbol = s.symbol /\ v.exit = activeUntil[s.symbol]
      BY <2>1, <2>2 DEF IInv, ActiveInv
    <2>4. v.signal \in signals \ todo
      BY DEF IInv, TradesInv
    <2>5. BySymbolAndTime(v.signal, s) /\ Signal(v.signal)
      BY <1>1, <2>4, SignalsAre DEF IInv, OrderInv
    <2>6. v.signal.symbol \in Nat /\ v.signal.time \in Nat
      BY <2>5, SymbolsAssumption DEF Signal
    <2> QED
      BY <2>1, <2>3, <2>5, <2>6 DEF BySymbolAndTime
  <1>6. UntradedHasReason'
    <2> SUFFICES ASSUME NEW u \in signals' \ todo'
                 PROVE  \/ \E v \in trades' : v.signal = u
                        \/ ~Tradable(u)'
                        \/ \E v \in trades' : /\ v.signal.symbol = u.symbol
                                              /\ v.signal.time <= u.time /\ u.time <= v.exit
      BY DEF UntradedHasReason
    <2>1. Tradable(u)' <=> Tradable(u)
      BY <1>2 DEF Tradable, Placed, Position, Simulated, BarsAfter
    <2>2. CASE u = s
      BY <1>2, <1>5, <2>1, <2>2
    <2>3. CASE u \in signals \ todo
      BY <1>2, <2>1, <2>3 DEF IInv, UntradedHasReason
    <2> QED
      BY <1>2, <2>2, <2>3
  <1>7. AccountInv' /\ counted = {}
    BY <1>1, <1>2, AccountWaits
  <1>8. CountedInv'
    BY <1>2, <1>7 DEF IInv, CountedInv
  <1> QED
    BY <1>2, <1>3, <1>4, <1>6, <1>7, <1>8 DEF IInv

LEMMA RealisedIs ==
    \A x : RealisedUpTo(x) = Total({v \in trades : v = x \/ ByExit(v, x)})
  BY DEF RealisedUpTo, Total

LEMMA RealisedStays ==
    ASSUME UNCHANGED trades, NEW u
    PROVE  RealisedUpTo(u)' = RealisedUpTo(u)
  <1>1. (\A x : RealisedUpTo(x) = Total({v \in trades : v = x \/ ByExit(v, x)}))'
    BY RealisedIs, PTL
  <1>2. RealisedUpTo(u)' = Total({v \in trades' : v = u \/ ByExit(v, u)})
    BY <1>1
  <1> QED
    BY <1>2, RealisedIs

LEMMA RealisedType ==
    ASSUME IInv, NEW u
    PROVE  RealisedUpTo(u) \in Int
  <1> DEFINE upTo == {v \in trades : v = u \/ ByExit(v, u)}
  <1>1. IsFiniteSet(upTo)
    BY FS_Subset DEF IInv, CountedInv
  <1>2. \A v \in upTo : v.pnl \in Int
    BY DEF IInv, TradesInv
  <1>3. RealisedUpTo(u) = Total(upTo)
    BY DEF RealisedUpTo, Total
  <1> HIDE DEF upTo
  <1> QED
    BY <1>1, <1>2, <1>3, TotalType

\* What is realised up to the next trade is what is realised so far and its points.
LEMMA RealisedNext ==
    ASSUME IInv, CountTrade
    PROVE  /\ RealisedUpTo(NextTrade) = account.equity + NextTrade.pnl
           /\ RealisedUpTo(NextTrade) = Total(counted \cup {NextTrade})
           /\ \A u \in counted : ByExit(u, NextTrade) /\ ~ByExit(NextTrade, u)
           /\ ~ByExit(NextTrade, NextTrade)
  <1> DEFINE t == NextTrade
             upTo == {u \in trades : u = t \/ ByExit(u, t)}
  <1>1. t \in trades \ counted /\ \A u \in (trades \ counted) \ {t} : ByExit(t, u)
    BY NextTradeIs DEF CountTrade
  <1>2. counted \subseteq trades /\ \A u \in counted : ByExit(u, t)
    BY <1>1 DEF IInv, TypeOK, CountedInv
  <1>3. \A u \in trades : u.exit \in Nat /\ u.signal.symbol \in Nat /\ u.pnl \in Int
    BY SignalsAre, SymbolsAssumption DEF Signal, IInv, TradesInv
  <1> HIDE DEF t
  <1>4. \A u, v \in trades : ByExit(u, v) => ~ByExit(v, u)
    BY <1>3 DEF ByExit
  <1>5. upTo = counted \cup {t}
    BY <1>1, <1>2, <1>4
  <1>6. RealisedUpTo(t) = Total(upTo)
    BY DEF RealisedUpTo, Total
  <1>7. IsFiniteSet(upTo) /\ \A u \in upTo : u.pnl \in Int
    <2>1. IsFiniteSet(trades)
      BY DEF IInv, CountedInv
    <2> QED
      BY <1>3, <2>1, FS_Subset
  <1>8. t \in upTo /\ upTo \ {t} = counted
    BY <1>1, <1>5
  <1> HIDE DEF upTo
  <1>9. Total(upTo) = t.pnl + Total(counted)
    BY <1>7, <1>8, TotalWithout
  <1>10. Total(counted) = account.equity /\ account.equity \in Int /\ t.pnl \in Int
    BY <1>1, <1>3 DEF IInv, AccountInv, TypeOK
  <1> QED
    BY <1>1, <1>2, <1>4, <1>5, <1>6, <1>9, <1>10 DEF t

LEMMA CountStep == IInv /\ CountTrade => IInv'
  <1> SUFFICES ASSUME IInv, CountTrade PROVE IInv'
    OBVIOUS
  <1> DEFINE pnl == NextTrade.pnl
             equity == account.equity + pnl
             peak == Max({account.peak, equity})
             drawdown == Max({account.drawdown, peak - equity})
             wins == IF pnl > 0 THEN account.wins + 1 ELSE account.wins
  <1>1. NextTrade \in trades
    BY NextTradeIs DEF CountTrade
  <1>2. pnl \in Int
    BY <1>1 DEF IInv, TradesInv
  <1>3. /\ account' = [equity |-> equity, peak |-> peak, drawdown |-> drawdown, wins |-> wins]
        /\ counted' = counted \cup {NextTrade}
        /\ UNCHANGED <<history, signals, todo, activeUntil, trades>>
    BY DEF CountTrade, Fall
  <1>4. /\ account.equity \in Int /\ account.peak \in Nat /\ account.drawdown \in Nat
        /\ account.wins \in Nat
    BY DEF IInv, TypeOK
  <1> HIDE DEF pnl
  <1>5. equity \in Int
    BY <1>2, <1>4
  <1> HIDE DEF equity
  <1>6. peak \in Nat /\ equity <= peak
    BY <1>4, <1>5, MaxOfTwo
  <1> HIDE DEF peak
  <1>7. drawdown \in Nat /\ peak - equity <= drawdown
    BY <1>4, <1>5, <1>6, MaxOfTwo
  <1>8. wins \in Nat
    BY <1>2, <1>4
  <1> HIDE DEF drawdown, wins
  <1>9. TypeOK'
    BY <1>1, <1>3, <1>5, <1>6, <1>7, <1>8 DEF IInv, TypeOK
  <1>10. \A u : Tradable(u)' <=> Tradable(u)
    BY <1>3 DEF Tradable, Placed, Position, Simulated, BarsAfter
  <1>11. TradesInv' /\ OrderInv' /\ ActiveInv' /\ OneTradeAtATime'
    BY <1>3 DEF IInv, TradesInv, OrderInv, ActiveInv, OneTradeAtATime
  <1>12. UntradedHasReason'
    BY <1>3, <1>10 DEF IInv, UntradedHasReason
  <1>13. /\ NextTrade \in trades \ counted /\ todo = {}
         /\ \A u \in (trades \ counted) \ {NextTrade} : ByExit(NextTrade, u)
    BY NextTradeIs DEF CountTrade
  <1>14. CountedInv'
    BY <1>3, <1>13 DEF IInv, CountedInv
  <1>15. AccountInv'
    <2> DEFINE t == NextTrade
    <2>1. /\ RealisedUpTo(t) = equity /\ RealisedUpTo(t) = Total(counted')
          /\ \A u \in counted : ByExit(u, t) /\ ~ByExit(t, u)
          /\ ~ByExit(t, t)
      BY <1>3, RealisedNext DEF pnl, equity
    <2>2. \A u : RealisedUpTo(u)' = RealisedUpTo(u)
      BY <1>3, RealisedStays
    <2>3. account'.equity = equity /\ account'.peak = peak /\ account'.drawdown = drawdown
      BY <1>3
    <2>4. /\ account.peak \in {0} \cup {RealisedUpTo(u) : u \in counted}
          /\ \A u \in counted : RealisedUpTo(u) <= account.peak
          /\ account.drawdown \in Falls(counted)
          /\ \A fall \in Falls(counted) : fall <= account.drawdown
      BY DEF IInv, AccountInv
    <2>5. peak = IF account.peak >= equity THEN account.peak ELSE equity
      BY <1>4, <1>5, MaxOfTwo DEF peak
    <2>6. drawdown = IF account.drawdown >= peak - equity THEN account.drawdown ELSE peak - equity
      BY <1>4, <1>5, <1>6, MaxOfTwo DEF drawdown
    <2> HIDE DEF t
    <2>7. Falls(counted \cup {t}) =
            Falls(counted) \cup {-RealisedUpTo(t)}
                \cup {RealisedUpTo(u) - RealisedUpTo(t) : u \in counted}
      <3>1. \A u, v \in counted \cup {t} :
                ByExit(u, v) => u \in counted /\ (v \in counted \/ v = t)
        BY <2>1
      <3>2. {-RealisedUpTo(u) : u \in counted \cup {t}} =
              {-RealisedUpTo(u) : u \in counted} \cup {-RealisedUpTo(t)}
        OBVIOUS
      <3> DEFINE Pairs(C) == {q \in C \X C : ByExit(q[1], q[2])}
                 Fall2(p) == RealisedUpTo(p[1]) - RealisedUpTo(p[2])
      <3>3. Pairs(counted \cup {t}) = Pairs(counted) \cup {<<u, t>> : u \in counted}
        BY <2>1, <3>1
      <3>4. {Fall2(p) : p \in {<<u, t>> : u \in counted}} =
              {RealisedUpTo(u) - RealisedUpTo(t) : u \in counted}
        <4>1. \A u \in counted : Fall2(<<u, t>>) = RealisedUpTo(u) - RealisedUpTo(t)
          OBVIOUS
        <4> HIDE DEF Fall2
        <4> QED
          BY <4>1
      <3> HIDE DEF Pairs
      <3>5. {Fall2(p) : p \in Pairs(counted \cup {t})} =
              {Fall2(p) : p \in Pairs(counted)}
                \cup {RealisedUpTo(u) - RealisedUpTo(t) : u \in counted}
        BY <3>3, <3>4
      <3> QED
        BY <3>2, <3>5 DEF Falls, Pairs
    <2>8. Falls(counted)' = Falls(counted \cup {t})
      BY <1>3, <2>2 DEF Falls, t
    <2>9. \A u \in counted : RealisedUpTo(u) \in Int
      BY RealisedType DEF IInv, TypeOK
    <2>10. /\ peak \in {0} \cup {RealisedUpTo(u) : u \in counted \cup {t}}
           /\ \A u \in counted \cup {t} : RealisedUpTo(u) <= peak
      <3>1. RealisedUpTo(t) = equity
        BY <2>1
      <3>2. peak \in {0} \cup {RealisedUpTo(u) : u \in counted \cup {t}}
        BY <2>4, <2>5, <3>1
      <3>3. ASSUME NEW u \in counted PROVE RealisedUpTo(u) <= peak
        <4>1. RealisedUpTo(u) <= account.peak /\ RealisedUpTo(u) \in Int
          BY <2>4, <2>9
        <4> QED
          BY <1>4, <1>5, <2>5, <4>1
      <3> QED
        BY <1>6, <3>1, <3>2, <3>3
    <2>11. drawdown \in Falls(counted \cup {t})
      <3>1. CASE account.drawdown >= peak - equity
        BY <2>4, <2>6, <2>7, <3>1
      <3>2. CASE ~(account.drawdown >= peak - equity) /\ peak = equity
        BY <1>4, <1>5, <3>2
      <3>3. CASE ~(account.drawdown >= peak - equity) /\ peak # equity
        <4>1. drawdown = peak - equity /\ peak = account.peak
          BY <2>5, <2>6, <3>3
        <4>2. CASE account.peak = 0
          <5>1. drawdown = 0 - equity
            BY <4>1, <4>2
          <5>2. drawdown = -equity
            BY <1>5, <5>1
          <5>3. drawdown = -RealisedUpTo(t)
            BY <2>1, <5>2
          <5> QED
            BY <2>7, <5>3
        <4>3. CASE account.peak # 0
          <5>1. PICK u \in counted : account.peak = RealisedUpTo(u)
            BY <2>4, <4>3
          <5>2. drawdown = RealisedUpTo(u) - RealisedUpTo(t)
            BY <2>1, <4>1, <5>1
          <5> QED
            BY <2>7, <5>2
        <4> QED
          BY <4>2, <4>3
      <3> QED
        BY <3>1, <3>2, <3>3
    <2>12. ASSUME NEW fall \in Falls(counted \cup {t}) PROVE fall <= drawdown
      <3>1. CASE fall \in Falls(counted)
        <4>1. fall <= account.drawdown /\ fall \in Int
          <5>1. \A p \in counted \X counted : p[1] \in counted /\ p[2] \in counted
            OBVIOUS
          <5>2. Falls(counted) \subseteq Int
            BY <2>9, <5>1 DEF Falls
          <5> QED
            BY <2>4, <3>1, <5>2
        <4> QED
          BY <1>4, <1>5, <1>6, <1>7, <2>6, <4>1
      <3>2. CASE fall = -RealisedUpTo(t)
        BY <1>5, <1>6, <1>7, <2>1, <3>2
      <3>3. CASE \E u \in counted : fall = RealisedUpTo(u) - RealisedUpTo(t)
        <4>1. PICK u \in counted : fall = RealisedUpTo(u) - RealisedUpTo(t)
          BY <3>3
        <4>2. RealisedUpTo(u) <= peak /\ RealisedUpTo(u) \in Int
          BY <2>9, <2>10
        <4> QED
          BY <1>5, <1>6, <1>7, <2>1, <4>1, <4>2
      <3> QED
        BY <2>7, <3>1, <3>2, <3>3
    <2>13. counted' = counted \cup {t}
      BY <1>3 DEF t
    <2> QED
      BY <2>1, <2>2, <2>3, <2>8, <2>10, <2>11, <2>12, <2>13 DEF AccountInv
  <1> QED
    BY <1>3, <1>9, <1>11, <1>12, <1>14, <1>15 DEF IInv

LEMMA AlwaysIInv == Spec => []IInv
  <1>1. IInv /\ UNCHANGED vars => IInv'
    <2> SUFFICES ASSUME IInv, UNCHANGED vars PROVE IInv'
      OBVIOUS
    <2>1. \A u : Tradable(u)' <=> Tradable(u)
      BY DEF vars, Tradable, Placed, Position, Simulated, BarsAfter
    <2>2. UntradedHasReason'
      BY <2>1 DEF vars, IInv, UntradedHasReason
    <2>3. \A u : RealisedUpTo(u)' = RealisedUpTo(u)
      BY RealisedStays DEF vars
    <2>4. CountedInv' /\ AccountInv'
      BY <2>3 DEF vars, IInv, CountedInv, AccountInv, Falls
    <2> QED
      BY <2>2, <2>4 DEF vars, IInv, TypeOK, TradesInv, OrderInv, ActiveInv, OneTradeAtATime
  <1>2. IInv /\ [Next]_vars => IInv'
    BY <1>1, TakeStep, SkipStep, CountStep DEF Next
  <1> QED
    BY InitIInv, <1>2, PTL DEF Spec

-----------------------------------------------------------------------------

\* The state of a backtest has its types, and the drawdown covers the current fall.
THEOREM TypeCorrect == Spec => []TypeOK
  <1>1. IInv => TypeOK
    BY DEF IInv
  <1> QED
    BY AlwaysIInv, <1>1, PTL

\* backtest_signals never holds two trades of a symbol at once, gaps and truncated
\* histories included.
THEOREM AlwaysOneTrade == Spec => []OneTradeAtATime
  <1>1. IInv => OneTradeAtATime
    BY DEF IInv
  <1> QED
    BY AlwaysIInv, <1>1, PTL

\* backtest_signals drops a signal only for want of bars or of risk, or because a
\* trade of the same symbol was open.
THEOREM AlwaysForAReason == Spec => []UntradedHasReason
  <1>1. IInv => UntradedHasReason
    BY DEF IInv
  <1> QED
    BY AlwaysIInv, <1>1, PTL

\* The reported drawdown is the deepest fall of the realised equity, whatever the
\* number of trades and the order their signals came in (_metrics).
THEOREM AlwaysDeepestFall == Spec => []DrawdownIsDeepestFall
  <1>1. IInv => DrawdownIsDeepestFall
    <2> SUFFICES ASSUME IInv, counted = trades
                 PROVE  account.drawdown = Max(Falls(trades))
      BY DEF DrawdownIsDeepestFall, Falls
    <2> DEFINE S == Falls(trades)
               x == account.drawdown
    <2>1. x \in S /\ \A y \in S : y <= x
      BY DEF IInv, AccountInv
    <2>2. x \in Nat
      BY DEF IInv, TypeOK
    <2>3. \A u \in trades : RealisedUpTo(u) \in Int
      BY RealisedType DEF IInv
    <2>4. S \subseteq Int
      <3>1. \A p \in trades \X trades : p[1] \in trades /\ p[2] \in trades
        OBVIOUS
      <3> QED
        BY <2>3, <3>1 DEF Falls
    <2> HIDE DEF S, x
    <2>5. \A y \in S : x >= y
      BY <2>1, <2>2, <2>4
    <2>6. Max(S) \in S /\ \A y \in S : Max(S) >= y
      BY <2>1, <2>5 DEF Max
    <2>7. Max(S) >= x /\ x >= Max(S) /\ Max(S) \in Int
      BY <2>1, <2>4, <2>5, <2>6
    <2>8. Max(S) = x
      BY <2>2, <2>7
    <2> QED
      BY <2>8 DEF S, x
  <1> QED
    BY AlwaysIInv, <1>1, PTL

=============================================================================
