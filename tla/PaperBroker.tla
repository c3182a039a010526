---------------------------- MODULE PaperBroker -----------------------------
(***************************************************************************)
(* The in-memory paper broker: positions, capital and the daily loss halt. *)
(* Prices, capital and slippage are integers in one money unit; the rates  *)
(* of the constructor are in thousandths. Every operation first rolls the  *)
(* trading date, also when it then refuses the request. Definitions marked *)
(* [defect] are broken variants of the next one, kept to show which        *)
(* property catches them; nothing uses them.                               *)
(***************************************************************************)
EXTENDS Integers, FiniteSets

CONSTANTS
    Symbols,
    Prices,             \* prices a caller may pass, zero included
    InitialCapital,
    RiskPerTrade,       \* thousandths of capital
    MaxOpenPositions,   \* max_positions
    MaxDailyLoss,       \* thousandths of the day's starting capital
    MaxPositionNotional,\* thousandths of capital
    Slippage,           \* slippage_points
    MaxDate,            \* bound: trading dates
    MaxOrders           \* bound: positions opened in a behaviour

\* PaperBroker.__init__ raises for anything else.
ASSUME ConstructorAssumption ==
    /\ InitialCapital \in Int /\ InitialCapital > 0
    /\ RiskPerTrade \in 1..50
    /\ MaxOpenPositions \in Nat \ {0}
    /\ MaxDailyLoss \in 1..200
    /\ MaxPositionNotional \in 1..1000
    /\ Slippage \in Nat
ASSUME InputAssumption ==
    /\ IsFiniteSet(Symbols)
    /\ Prices \subseteq Nat
    /\ MaxDate \in Nat
    /\ MaxOrders \in Nat

VARIABLES
    capital, positions, realizedPnlToday, dayStartCapital, tradingDate, halted,
    orders,     \* positions opened so far
    lossDate    \* the last date on which a close reached the loss limit

account == <<capital, realizedPnlToday, dayStartCapital, tradingDate, halted>>
vars == <<account, positions, orders, lossDate>>

NoDate == 0
Dates == 1..MaxDate
Sides == {"LONG", "SHORT"}

Init ==
    /\ capital = InitialCapital
    /\ positions = [s \in {} |-> {}]
    /\ realizedPnlToday = 0
    /\ dayStartCapital = InitialCapital
    /\ tradingDate = NoDate
    /\ halted = FALSE
    /\ orders = 0
    /\ lossDate = NoDate

-----------------------------------------------------------------------------
(* Prices and sizes. *)

EffectiveEntry(side, price) == IF side = "LONG" THEN price + Slippage ELSE price - Slippage
EffectiveExit(side, price) == IF side = "LONG" THEN price - Slippage ELSE price + Slippage

\* realized <= -(dayStart * MaxDailyLoss)
DailyLossLimitHit(realized, dayStart) == realized * 1000 <= -(dayStart * MaxDailyLoss)

Distance(a, b) == IF a >= b THEN a - b ELSE b - a
Smaller(a, b) == IF a <= b THEN a ELSE b

\* int(budget / price), never below zero
Quantity(thousandths, price) ==
    IF capital > 0 THEN (capital * thousandths) \div (1000 * price) ELSE 0

\* [defect] the slippage is forgotten when the risk of a unit is computed
SizeWithoutSlippage(entry, stop, side) ==
    IF entry = stop THEN 0
    ELSE Smaller(Quantity(RiskPerTrade, Distance(entry, stop)),
                 Quantity(MaxPositionNotional, EffectiveEntry(side, entry)))

Size(entry, stop, side) ==
    LET effective == EffectiveEntry(side, entry)
    IN  IF effective = stop THEN 0
        ELSE Smaller(Quantity(RiskPerTrade, Distance(effective, stop)),
                     Quantity(MaxPositionNotional, effective))

Tradable(entry, stop, side) == Size(entry, stop, side) > 0

\* stop, effective entry and target are on the right sides of each other
LevelsInOrder(side, entry, stop, target) ==
    LET effective == EffectiveEntry(side, entry)
    IN  /\ entry > 0 /\ stop > 0 /\ target > 0
        /\ IF side = "LONG" THEN stop < effective /\ effective < target
                            ELSE target < effective /\ effective < stop

-----------------------------------------------------------------------------
(* The day roll every operation starts with. *)

\* [defect] the halt survives the night
RolledHaltedForever(d) == halted

RolledHalted(d) == IF d = tradingDate THEN halted ELSE FALSE
RolledRealized(d) == IF d = tradingDate THEN realizedPnlToday ELSE 0
RolledDayStart(d) == IF d = tradingDate THEN dayStartCapital ELSE capital

Roll(d) ==
    /\ tradingDate' = d
    /\ realizedPnlToday' = RolledRealized(d)
    /\ dayStartCapital' = RolledDayStart(d)

\* Requests arrive in the order of their timestamps.
Today == {d \in Dates : d >= tradingDate}

-----------------------------------------------------------------------------
(* Operations. *)

LossLimitReached(d) ==
    RolledHalted(d) \/ DailyLossLimitHit(RolledRealized(d), RolledDayStart(d))

\* [defect] an open position of the same symbol is replaced
HasRoomAnySymbol(s) == Cardinality(DOMAIN positions) < MaxOpenPositions

HasRoom(s) == Cardinality(DOMAIN positions) < MaxOpenPositions /\ s \notin DOMAIN positions

Open(s, side, entry, stop, target, d) ==
    /\ orders < MaxOrders
    /\ Roll(d)
    /\ LET ordered == LevelsInOrder(side, entry, stop, target)
           accepted == ordered /\ ~LossLimitReached(d) /\ HasRoom(s)
                            /\ Tradable(entry, stop, side)
       IN  /\ halted' = IF ordered /\ LossLimitReached(d) THEN TRUE ELSE RolledHalted(d)
           /\ IF accepted
              THEN /\ positions' =
                        [q \in DOMAIN positions \cup {s} |->
                            IF q = s
                            THEN [side |-> side, quantity |-> Size(entry, stop, side),
                                  entry |-> EffectiveEntry(side, entry),
                                  stop |-> stop, target |-> target]
                            ELSE positions[q]]
                   /\ orders' = orders + 1
              ELSE UNCHANGED <<positions, orders>>
    /\ UNCHANGED <<capital, lossDate>>

Pnl(p, price) ==
    LET exit == EffectiveExit(p.side, price)
    IN  IF p.side = "LONG" THEN (exit - p.entry) * p.quantity
                           ELSE (p.entry - exit) * p.quantity

\* [defect] the loss limit is left to the next open
CloseWithoutHalt(s, price, d) ==
    LET pnl == Pnl(positions[s], price)
        realized == RolledRealized(d) + pnl
        hit == DailyLossLimitHit(realized, RolledDayStart(d))
    IN  /\ tradingDate' = d
        /\ dayStartCapital' = RolledDayStart(d)
        /\ capital' = capital + pnl
        /\ realizedPnlToday' = realized
        /\ positions' = [q \in DOMAIN positions \ {s} |-> positions[q]]
        /\ halted' = RolledHalted(d)
        /\ lossDate' = IF hit THEN d ELSE lossDate
        /\ UNCHANGED orders

\* [defect] the profit or loss is booked to capital only
CloseUnrealized(s, price, d) ==
    /\ Roll(d)
    /\ capital' = capital + Pnl(positions[s], price)
    /\ positions' = [q \in DOMAIN positions \ {s} |-> positions[q]]
    /\ halted' = RolledHalted(d)
    /\ UNCHANGED <<orders, lossDate>>

\* What mark and force_close share once they exit a position.
Close(s, price, d) ==
    LET pnl == Pnl(positions[s], price)
        realized == RolledRealized(d) + pnl
        hit == DailyLossLimitHit(realized, RolledDayStart(d))
    IN  /\ tradingDate' = d
        /\ dayStartCapital' = RolledDayStart(d)
        /\ capital' = capital + pnl
        /\ realizedPnlToday' = realized
        /\ positions' = [q \in DOMAIN positions \ {s} |-> positions[q]]
        /\ halted' = (hit \/ RolledHalted(d))
        /\ lossDate' = IF hit THEN d ELSE lossDate
        /\ UNCHANGED orders

\* The request is refused, or is status(): only the date rolls.
OnlyRoll(d) ==
    /\ Roll(d)
    /\ halted' = RolledHalted(d)
    /\ UNCHANGED <<capital, positions, orders, lossDate>>

HitStop(p, price) == IF p.side = "LONG" THEN price <= p.stop ELSE price >= p.stop
HitTarget(p, price) == IF p.side = "LONG" THEN price >= p.target ELSE price <= p.target

Mark(s, price, d) ==
    IF s \in DOMAIN positions /\ price > 0
            /\ (HitStop(positions[s], price) \/ HitTarget(positions[s], price))
    THEN Close(s, price, d)
    ELSE OnlyRoll(d)

ForceClose(s, price, d) ==
    IF s \in DOMAIN positions /\ price > 0
    THEN Close(s, price, d)
    ELSE OnlyRoll(d)

StatusRequest(d) == OnlyRoll(d)

Next ==
    \E d \in Today :
        \/ \E s \in Symbols, side \in Sides, entry, stop, target \in Prices :
                Open(s, side, entry, stop, target, d)
        \/ \E s \in Symbols, price \in Prices : Mark(s, price, d)
        \/ \E s \in Symbols, price \in Prices : ForceClose(s, price, d)
        \/ StatusRequest(d)

Spec == Init /\ [][Next]_vars

-----------------------------------------------------------------------------
(* Properties. *)

Positions == [side : Sides, quantity : Nat \ {0}, entry : Int, stop : Int, target : Int]

\* Every variable holds a value of its domain; positions have a positive quantity.
TypeOK ==
    /\ capital \in Int
    /\ realizedPnlToday \in Int
    /\ dayStartCapital \in Int
    /\ tradingDate \in {NoDate} \cup Dates
    /\ halted \in BOOLEAN
    /\ orders \in 0..MaxOrders
    /\ lossDate \in {NoDate} \cup Dates
    /\ DOMAIN positions \subseteq Symbols
    /\ \A s \in DOMAIN positions : positions[s] \in Positions

\* The books balance: what the day realized is exactly what capital moved since
\* the day's start, over any mix of opens, stops, forced exits and nights.
BooksBalance == capital = dayStartCapital + realizedPnlToday

\* max_positions holds whatever the order of opens and closes.
PositionsWithinLimit == Cardinality(DOMAIN positions) <= MaxOpenPositions

\* "daily loss halt": once a close has reached the day's loss limit, the broker
\* is halted for the rest of the date, also when later closes win the loss back.
HaltedAfterLoss == lossDate = tradingDate /\ lossDate # NoDate => halted

\* The halt has a cause on the same date ("automatic reset of the daily loss
\* guard on the next trading day"): a loss, or a day begun without capital.
HaltHasCause == halted => lossDate = tradingDate \/ dayStartCapital <= 0

Opened == DOMAIN positions' \ DOMAIN positions

\* No new risk after the limit: no position is ever opened on a date on which a
\* close already reached the loss limit.
NoOpenAfterLossLimit == [][Opened # {} => lossDate # tradingDate']_vars

\* A position risks no more than its budget at the stop, slippage of the entry
\* included, and ties up no more than its share of capital (size, open).
WithinBudget ==
    \A s \in Opened :
        LET p == positions'[s]
        IN  /\ p.quantity * Distance(p.entry, p.stop) * 1000 <= capital * RiskPerTrade
            /\ p.quantity * p.entry * 1000 <= capital * MaxPositionNotional
OpenedWithinBudget == [][WithinBudget]_vars

\* An open position is never overwritten: it keeps its terms until it is closed.
TermsKept ==
    \A s \in DOMAIN positions \cap DOMAIN positions' : positions'[s] = positions[s]
TermsNeverChange == [][TermsKept]_vars

=============================================================================
