------------------------------ MODULE Backtest ------------------------------
(***************************************************************************)
(* backtest_signals: signals in the order of symbol and time, one trade of *)
(* a symbol at a time, then the metrics over the trades in the order of    *)
(* their exits. Symbols are numbered in the order of their names; time 0   *)
(* is before every bar.                                                    *)
(***************************************************************************)
EXTENDS ExecutionModel

CONSTANTS
    Symbols,        \* numbers of the symbols
    Histories,      \* the histories a backtest may be given
    SignalSets,     \* the sets of BUY and SELL signals it may be given
    SlippagePoints  \* slippage_points

ASSUME SymbolsAssumption == Symbols \subseteq Nat
ASSUME SlippageAssumption == SlippagePoints \in Nat
ASSUME HistoriesAssumption ==
    \A h \in Histories :
        /\ DOMAIN h \subseteq Symbols
        /\ \A s \in DOMAIN h :
            /\ h[s].bars \in Seq([open : Int, high : Int, low : Int, close : Int])
            /\ h[s].times \in [DOMAIN h[s].bars -> Nat]
            /\ \A m, n \in DOMAIN h[s].times : m < n => h[s].times[m] < h[s].times[n]
ASSUME SignalSetsAssumption ==
    \A S \in SignalSets :
        /\ S \subseteq [symbol : Symbols, time : Nat \ {0},
                        order : [side : {"LONG", "SHORT"}, stop : Int, target : Int]]
        /\ \A s, t \in S : s.symbol = t.symbol /\ s.time = t.time => s = t

VARIABLES
    history,        \* the bars of each symbol that has any, and their times
    signals,        \* the signals given
    todo,           \* the signals not looked at yet
    activeUntil,    \* exit time of each symbol's last trade
    trades,         \* the trades made
    counted,        \* the trades the metrics have taken in
    account         \* equity, peak, max_drawdown and wins so far

vars == <<history, signals, todo, activeUntil, trades, counted, account>>

Init ==
    /\ history \in Histories
    /\ signals \in SignalSets
    /\ todo = signals
    /\ activeUntil = [s \in Symbols |-> 0]
    /\ trades = {}
    /\ counted = {}
    /\ account = [equity |-> 0, peak |-> 0, drawdown |-> 0, wins |-> 0]

BySymbolAndTime(s, t) == s.symbol < t.symbol \/ (s.symbol = t.symbol /\ s.time < t.time)

\* The first of ordered_signals that is left.
NextSignal == CHOOSE s \in todo : \A t \in todo \ {s} : BySymbolAndTime(s, t)

\* signal_position, counted from one: the symbol's last bar at or before the signal,
\* or zero.
Position(signal) ==
    LET times == history[signal.symbol].times
    IN  Max({0} \cup {n \in DOMAIN times : times[n] <= signal.time})

BarsAfter(signal) ==
    LET bars == history[signal.symbol].bars
    IN  SubSeq(bars, Position(signal) + 1, Len(bars))

\* The symbol has a bar at or before the signal.
Placed(signal) == signal.symbol \in DOMAIN history /\ Position(signal) > 0

\* [defect] a signal on the bar of the exit is taken
BlockedBeforeExit(signal) == signal.time < activeUntil[signal.symbol]

Blocked(signal) == signal.time <= activeUntil[signal.symbol]

Simulated(signal) ==
    LET bars == BarsAfter(signal)
        result == SimulateOne(signal.order, bars, SlippagePoints)
        last == Position(signal) + Min({result.holding, Len(bars)})
    IN  IF result = NoTrade THEN NoTrade
        ELSE [signal |-> signal, outcome |-> result.outcome, pnl |-> result.pnl,
              exit |-> history[signal.symbol].times[last]]

Tradable(signal) == Placed(signal) /\ Simulated(signal) # NoTrade

\* One turn of the loop, with a trade or without.
TakeSignal ==
    /\ todo # {}
    /\ ~Blocked(NextSignal)
    /\ Tradable(NextSignal)
    /\ trades' = trades \cup {Simulated(NextSignal)}
    /\ activeUntil' = [activeUntil EXCEPT ![NextSignal.symbol] = Simulated(NextSignal).exit]
    /\ todo' = todo \ {NextSignal}
    /\ UNCHANGED <<history, signals, counted, account>>

SkipSignal ==
    /\ todo # {}
    /\ Blocked(NextSignal) \/ ~Tradable(NextSignal)
    /\ todo' = todo \ {NextSignal}
    /\ UNCHANGED <<history, signals, activeUntil, trades, counted, account>>

ByExit(t, u) ==
    t.exit < u.exit \/ (t.exit = u.exit /\ t.signal.symbol < u.signal.symbol)

\* [defect] the trades stay in the order of their signals
NextTradeBySignal ==
    CHOOSE t \in trades \ counted :
        \A u \in (trades \ counted) \ {t} : BySymbolAndTime(t.signal, u.signal)

\* The first of the sorted trades that is not counted yet.
NextTrade ==
    CHOOSE t \in trades \ counted : \A u \in (trades \ counted) \ {t} : ByExit(t, u)

Fall(peak, equity) == peak - equity

\* _metrics: one turn of its loop.
CountTrade ==
    /\ todo = {}
    /\ counted # trades
    /\ LET pnl == NextTrade.pnl
           equity == account.equity + pnl
           peak == Max({account.peak, equity})
       IN  account' = [equity |-> equity, peak |-> peak,
                       drawdown |-> Max({account.drawdown, Fall(peak, equity)}),
                       wins |-> IF pnl > 0 THEN account.wins + 1 ELSE account.wins]
    /\ counted' = counted \cup {NextTrade}
    /\ UNCHANGED <<history, signals, todo, activeUntil, trades>>

Next == TakeSignal \/ SkipSignal \/ CountTrade

Spec == Init /\ [][Next]_vars

-----------------------------------------------------------------------------
(* Properties. *)

\* Every variable holds a value of its domain; the current fall is in the drawdown.
TypeOK ==
    /\ todo \subseteq signals
    /\ activeUntil \in [Symbols -> Nat]
    /\ {t.signal : t \in trades} \subseteq signals \ todo
    /\ counted \subseteq trades
    /\ account.equity \in Int /\ account.wins \in Nat
    /\ account.peak \in Nat /\ account.equity <= account.peak
    /\ account.drawdown \in Nat /\ account.peak - account.equity <= account.drawdown

\* A symbol has at most one trade at a time: from the signal of one to its exit,
\* both included, no other signal of the symbol is traded.
OneTradeAtATime ==
    \A t, u \in trades :
        t # u /\ t.signal.symbol = u.signal.symbol =>
            t.exit < u.signal.time \/ u.exit < t.signal.time

\* A signal is passed over only because nothing can be traded on it, or because a
\* trade of the same symbol was open: other symbols never cost a signal.
UntradedHasReason ==
    \A s \in signals \ todo :
        \/ \E t \in trades : t.signal = s
        \/ ~Tradable(s)
        \/ \E t \in trades :
            t.signal.symbol = s.symbol /\ t.signal.time <= s.time /\ s.time <= t.exit

\* The reported drawdown is the deepest fall of the equity realised so far, in the
\* order the trades were closed and not in the order they were signalled.
RealisedUpTo(t) ==
    MapThenSumSet(LAMBDA u : u.pnl, {u \in trades : u = t \/ ByExit(u, t)})
DrawdownIsDeepestFall ==
    todo = {} /\ counted = trades =>
        account.drawdown =
            Max({0} \cup {-RealisedUpTo(t) : t \in trades}
                \cup {RealisedUpTo(p[1]) - RealisedUpTo(p[2]) :
                        p \in {q \in trades \X trades : ByExit(q[1], q[2])}})

=============================================================================
