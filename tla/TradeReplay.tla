----------------------------- MODULE TradeReplay -----------------------------
(***************************************************************************)
(* One paper signal while its bars arrive, late ones between stored ones:  *)
(* a stored bar may be revised by the exchange feed, and the evaluation of *)
(* pending signals runs at any moment. The first evaluation that decides   *)
(* is final. The backtest of the same signal may be run on the bars stored *)
(* at any time.                                                            *)
(***************************************************************************)
EXTENDS ExecutionModel

CONSTANTS
    Bars,           \* the bars that may arrive
    Signals,        \* the signals a decision may have recorded
    Slippages,      \* slippage_points of the backtests
    MaxBars         \* bound: bars after the signal bar

ASSUME BarsAssumption ==
    /\ Bars \subseteq [open : Int, high : Int, low : Int, close : Int]
    /\ \A b \in Bars :
        b.low <= b.open /\ b.open <= b.high /\ b.low <= b.close /\ b.close <= b.high
ASSUME SignalsAssumption ==
    /\ Signals \subseteq [side : {"LONG", "SHORT"}, stop : Int, target : Int]
    /\ \A s \in Signals :
        IF s.side = "LONG" THEN s.stop < s.target ELSE s.target < s.stop
ASSUME ReplayAssumption == Slippages \subseteq Nat /\ MaxBars \in Nat

VARIABLES
    signal,         \* the pending observation
    bars,           \* the stored bars after its bar_time
    outcome,        \* its row of paper_outcomes
    changed         \* history: the bars the outcome rests on changed after it

replayVars == <<signal, bars, outcome, changed>>

ReplayInit ==
    /\ signal \in Signals
    /\ bars = <<>>
    /\ outcome = NoTrade
    /\ changed = FALSE

\* Position n is among the bars that the trade was decided on.
RestsOn(n) == outcome # NoTrade /\ n <= outcome.holding

\* Ingestion inserts a bar: the newest one, or a missing minute between, or before,
\* the stored ones, which moves every later bar one position on.
BarArrives ==
    /\ Len(bars) < MaxBars
    /\ \E n \in 1..(Len(bars) + 1), b \in Bars :
        /\ bars' = InsertAt(bars, n, b)
        /\ changed' = (changed \/ RestsOn(n))
    /\ UNCHANGED <<signal, outcome>>

\* Ingestion returns a stored bar with other values, and replaces it.
BarRevised ==
    /\ \E n \in DOMAIN bars :
        /\ \E b \in Bars \ {bars[n]} : bars' = [bars EXCEPT ![n] = b]
        /\ changed' = (changed \/ RestsOn(n))
    /\ UNCHANGED <<signal, outcome>>

\* evaluate_pending: a signal that cannot be decided yet waits.
Evaluate ==
    /\ outcome = NoTrade
    /\ EvaluateTrade(signal, bars) # NoTrade
    /\ outcome' = EvaluateTrade(signal, bars)
    /\ UNCHANGED <<signal, bars, changed>>

ReplayNext == BarArrives \/ BarRevised \/ Evaluate

ReplaySpec == ReplayInit /\ [][ReplayNext]_replayVars

-----------------------------------------------------------------------------
(* Properties. *)

Outcomes == {"STOP_GAP", "TARGET_GAP", "STOP", "TARGET", "TIMEOUT"}

\* Every variable holds a value of its domain; a trade is never held longer than
\* the horizon.
ReplayTypeOK ==
    /\ signal \in Signals
    /\ bars \in Seq(Bars)
    /\ Len(bars) <= MaxBars
    /\ changed \in BOOLEAN
    /\ outcome # NoTrade =>
        /\ outcome.outcome \in Outcomes
        /\ outcome.holding \in 1..MaxHoldingBars
        /\ outcome.holding <= Len(bars)
        /\ outcome.mfe \in Nat /\ outcome.mae \in Nat

\* The paper evaluation and a backtest agree on the whole trade, whenever the
\* evaluation ran and however much history the backtest has, unless a bar up to the
\* exit was revised or filled in after the evaluation (evaluate_trade, _simulate_one).
PaperMatchesBacktest ==
    outcome # NoTrade /\ ~changed => SimulateOne(signal, bars, 0) = outcome

\* The paper evaluation waits exactly where the backtest makes no trade, or only
\* times out because the history ends before the horizon.
WaitsForHorizon ==
    LET trade == SimulateOne(signal, bars, 0)
    IN  EvaluateTrade(signal, bars) = NoTrade <=>
            \/ trade = NoTrade
            \/ trade.outcome = "TIMEOUT" /\ Len(bars) < MaxHoldingBars

\* No simulated exit is better than the best price since the entry, or worse than
\* the worst, but for the slippage of the exit.
ExcursionsBoundPnl ==
    \A slippage \in Slippages :
        LET trade == SimulateOne(signal, bars, slippage)
        IN  trade # NoTrade =>
                /\ trade.pnl <= trade.mfe - slippage
                /\ trade.pnl >= -trade.mae - slippage

\* Slippage changes neither which exit is taken nor when, and costs its amount
\* twice.
SlippageIsCost ==
    LET free == SimulateOne(signal, bars, 0)
    IN  \A slippage \in Slippages :
            LET trade == SimulateOne(signal, bars, slippage)
            IN  free # NoTrade /\ trade # NoTrade =>
                    /\ trade.outcome = free.outcome
                    /\ trade.holding = free.holding
                    /\ trade.pnl = free.pnl - 2 * slippage

\* The training label of the same path names the exit the simulators take, at the
\* same bar; the one exception is a bar that opened beyond the target and fell
\* back to the stop, which the label, blind to opens, calls a stop.
LabelAgrees ==
    LET trade == SimulateOne(signal, bars, 0)
        label == LabelForwardPath(signal, bars)
    IN  trade # NoTrade =>
            /\ trade.outcome = "TIMEOUT" <=> label.reason = "TIMEOUT"
            /\ trade.outcome # "TIMEOUT" => label.bars = trade.holding
            /\ trade.outcome \in {"STOP", "STOP_GAP"} => label.reason = "STOP"
            /\ trade.outcome = "TARGET" => label.reason = "TARGET"

=============================================================================
