--------------------------- MODULE ExecutionModel ---------------------------
(***************************************************************************)
(* The two simulators that turn a signal and the bars after it into a      *)
(* trade, and the labeller of forward paths: evaluate_trade judges paper   *)
(* signals while the bars arrive, _simulate_one backtests them over a      *)
(* finished history, label_forward_path labels a path for training. Each   *)
(* is translated from its own code; none is defined by another.            *)
(*                                                                         *)
(* bars[1] is the bar after the signal bar. A signal has a side, a stop    *)
(* and a target. Prices are integers; r_multiple is kept as pnl and risk.  *)
(***************************************************************************)
EXTENDS Integers, FiniteSetsExt, SequencesExt

CONSTANT
    MaxHoldingBars  \* max_holding_bars, the horizon of every simulation

ASSUME HoldingAssumption == MaxHoldingBars \in Nat \ {0}

\* Price is at the stop, or beyond it.
StopReached(signal, price) ==
    IF signal.side = "LONG" THEN price <= signal.stop ELSE price >= signal.stop

TargetReached(signal, price) ==
    IF signal.side = "LONG" THEN price >= signal.target ELSE price <= signal.target

\* [defect] the extreme the bar closed at
BestAtClose(side, bar) == bar.close

Best(side, bar) == IF side = "LONG" THEN bar.high ELSE bar.low
Worst(side, bar) == IF side = "LONG" THEN bar.low ELSE bar.high

\* The points a position opened at one price has made at another.
Gain(side, from, to) == IF side = "LONG" THEN to - from ELSE from - to

Distance(p, q) == IF p < q THEN q - p ELSE p - q

\* The largest of the gains, a position that never gained counts zero.
Largest(gains) == Max({0} \cup gains)

NoExit == [outcome |-> "OPEN"]
NoTrade == [outcome |-> "NONE"]

-----------------------------------------------------------------------------
(* research/paper_outcomes.py *)

\* [defect] target before stop inside one bar
PaperExitOptimistic(signal, bar) ==
    IF StopReached(signal, bar.open) THEN [outcome |-> "STOP_GAP", price |-> bar.open]
    ELSE IF TargetReached(signal, Best(signal.side, bar))
         THEN [outcome |-> "TARGET", price |-> signal.target]
    ELSE IF StopReached(signal, Worst(signal.side, bar))
         THEN [outcome |-> "STOP", price |-> signal.stop]
    ELSE NoExit

\* A bar that opens beyond a level fills at its open; inside the bar the stop
\* is taken to come first.
PaperExit(signal, bar) ==
    IF StopReached(signal, bar.open) THEN [outcome |-> "STOP_GAP", price |-> bar.open]
    ELSE IF TargetReached(signal, bar.open)
         THEN [outcome |-> "TARGET_GAP", price |-> bar.open]
    ELSE IF StopReached(signal, Worst(signal.side, bar))
         THEN [outcome |-> "STOP", price |-> signal.stop]
    ELSE IF TargetReached(signal, Best(signal.side, bar))
         THEN [outcome |-> "TARGET", price |-> signal.target]
    ELSE NoExit

\* Positions at which the trade may exit.
PaperExits(signal, bars) ==
    {n \in 1..Len(bars) : n <= MaxHoldingBars /\ PaperExit(signal, bars[n]) # NoExit}

\* The trade that leaves at bar n.
PaperTrade(signal, bars, n, exit) ==
    LET side == signal.side
        entry == bars[1].open
    IN  [outcome |-> exit.outcome, entry |-> entry, exit |-> exit.price,
         pnl |-> Gain(side, entry, exit.price), risk |-> Distance(entry, signal.stop),
         holding |-> n,
         mfe |-> Largest({Gain(side, entry, Best(side, bars[m])) : m \in 1..n}),
         mae |-> Largest({Gain(side, Worst(side, bars[m]), entry) : m \in 1..n})]

\* [defect] times out on the bars there are, instead of waiting for the horizon
EvaluateTradeNow(signal, bars) ==
    IF bars = <<>> \/ bars[1].open = signal.stop THEN NoTrade
    ELSE IF PaperExits(signal, bars) # {}
         THEN LET n == Min(PaperExits(signal, bars))
              IN  PaperTrade(signal, bars, n, PaperExit(signal, bars[n]))
    ELSE PaperTrade(signal, bars, Len(bars), [outcome |-> "TIMEOUT", price |-> Last(bars).close])

\* evaluate_trade: NoTrade as long as it cannot be decided.
EvaluateTrade(signal, bars) ==
    IF bars = <<>> \/ bars[1].open = signal.stop THEN NoTrade
    ELSE IF PaperExits(signal, bars) # {}
         THEN LET n == Min(PaperExits(signal, bars))
              IN  PaperTrade(signal, bars, n, PaperExit(signal, bars[n]))
    ELSE IF Len(bars) < MaxHoldingBars THEN NoTrade
    ELSE PaperTrade(signal, bars, MaxHoldingBars,
                    [outcome |-> "TIMEOUT", price |-> bars[MaxHoldingBars].close])

-----------------------------------------------------------------------------
(* backtest/engine.py *)

\* _fill_price and _exit_price: slippage is paid on either side.
FillPrice(side, bar, slippage) ==
    IF side = "LONG" THEN bar.open + slippage ELSE bar.open - slippage

ExitPrice(side, price, slippage) ==
    IF side = "LONG" THEN price - slippage ELSE price + slippage

BacktestExit(signal, bar) ==
    IF StopReached(signal, bar.open) THEN [outcome |-> "STOP_GAP", price |-> bar.open]
    ELSE IF TargetReached(signal, bar.open)
         THEN [outcome |-> "TARGET_GAP", price |-> bar.open]
    ELSE IF StopReached(signal, Worst(signal.side, bar))
         THEN [outcome |-> "STOP", price |-> signal.stop]
    ELSE IF TargetReached(signal, Best(signal.side, bar))
         THEN [outcome |-> "TARGET", price |-> signal.target]
    ELSE NoExit

\* The last bar the simulation looks at.
LastPosition(bars) == Min({MaxHoldingBars, Len(bars)})

\* _simulate_one: a history that ends before the horizon times out on its last
\* bar, and counts as held for the whole horizon all the same.
SimulateOne(signal, bars, slippage) ==
    LET side == signal.side
        entry == FillPrice(side, bars[1], slippage)
        exits == {n \in 1..LastPosition(bars) : BacktestExit(signal, bars[n]) # NoExit}
        last == IF exits # {} THEN Min(exits) ELSE LastPosition(bars)
        left == IF exits # {} THEN BacktestExit(signal, bars[last])
                ELSE [outcome |-> "TIMEOUT", price |-> bars[last].close]
        exit == ExitPrice(side, left.price, slippage)
    IN  IF bars = <<>> \/ entry = signal.stop THEN NoTrade
        ELSE [outcome |-> left.outcome, entry |-> entry, exit |-> exit,
              pnl |-> Gain(side, entry, exit), risk |-> Distance(entry, signal.stop),
              holding |-> IF exits # {} THEN last ELSE MaxHoldingBars,
              mfe |-> Largest({Gain(side, entry, Best(side, bars[m])) : m \in 1..last}),
              mae |-> Largest({Gain(side, Worst(side, bars[m]), entry) : m \in 1..last})]

-----------------------------------------------------------------------------
(* ml/labels.py *)

\* [defect] the target is looked at first
LabelOptimistic(signal, bars) ==
    LET hits == {n \in 1..LastPosition(bars) :
                    \/ StopReached(signal, Worst(signal.side, bars[n]))
                    \/ TargetReached(signal, Best(signal.side, bars[n]))}
    IN  IF hits = {} THEN [reason |-> "TIMEOUT", bars |-> LastPosition(bars)]
        ELSE [reason |-> IF TargetReached(signal, Best(signal.side, bars[Min(hits)]))
                         THEN "TARGET" ELSE "STOP",
              bars |-> Min(hits)]

\* label_forward_path: only highs and lows are looked at, never the open, and
\* the stop wins inside a bar.
LabelForwardPath(signal, bars) ==
    LET hits == {n \in 1..LastPosition(bars) :
                    \/ StopReached(signal, Worst(signal.side, bars[n]))
                    \/ TargetReached(signal, Best(signal.side, bars[n]))}
    IN  IF hits = {} THEN [reason |-> "TIMEOUT", bars |-> LastPosition(bars)]
        ELSE [reason |-> IF StopReached(signal, Worst(signal.side, bars[Min(hits)]))
                         THEN "STOP" ELSE "TARGET",
              bars |-> Min(hits)]

=============================================================================
