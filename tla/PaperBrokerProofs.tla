------------------------- MODULE PaperBrokerProofs --------------------------
(***************************************************************************)
(* For every set of symbols and prices, every starting capital and every   *)
(* admissible guardrail setting: the broker's books balance, its halt is   *)
(* sticky for the rest of the date, and no position is opened after it.    *)
(***************************************************************************)
EXTENDS PaperBroker, FiniteSetTheorems, TLAPS

\* The number of units a budget buys at a positive price is an integer.
LEMMA QuantityType ==
    ASSUME capital \in Int, NEW thousandths \in Nat, NEW price \in Int, price > 0
    PROVE  Quantity(thousandths, price) \in Int
  <1>1. 1000 * price \in Int /\ 1000 * price > 0
    OBVIOUS
  <1>2. capital * thousandths \in Int
    OBVIOUS
  <1>3. (capital * thousandths) \div (1000 * price) \in Int
    BY <1>1, <1>2
  <1> QED
    BY <1>3 DEF Quantity

\* A size asked for levels that are in order is an integer.
LEMMA SizeType ==
    ASSUME capital \in Int, NEW side \in Sides, NEW entry \in Prices,
           NEW stop \in Prices, NEW target \in Prices,
           LevelsInOrder(side, entry, stop, target)
    PROVE  Size(entry, stop, side) \in Int
  <1> DEFINE effective == EffectiveEntry(side, entry)
  <1>1. /\ effective \in Int /\ effective > 0
        /\ stop \in Int /\ effective # stop
    BY ConstructorAssumption, InputAssumption DEF LevelsInOrder, EffectiveEntry, Sides
  <1>2. Distance(effective, stop) \in Int /\ Distance(effective, stop) > 0
    BY <1>1 DEF Distance
  <1>3. Quantity(RiskPerTrade, Distance(effective, stop)) \in Int
    <2> HIDE DEF effective
    <2> QED BY <1>2, QuantityType, ConstructorAssumption
  <1>4. Quantity(MaxPositionNotional, effective) \in Int
    <2> HIDE DEF effective
    <2> QED BY <1>1, QuantityType, ConstructorAssumption
  <1> QED
    BY <1>3, <1>4 DEF Size, Smaller

\* What a close earns is an integer.
LEMMA PnlType ==
    ASSUME NEW p \in Positions, NEW price \in Prices
    PROVE  Pnl(p, price) \in Int
  <1>1. EffectiveExit(p.side, price) \in Int
    BY ConstructorAssumption, InputAssumption DEF EffectiveExit
  <1>2. p.entry \in Int /\ p.quantity \in Int
    BY DEF Positions
  <1> QED
    BY <1>1, <1>2 DEF Pnl

-----------------------------------------------------------------------------

\* A step of the broker, operation by operation: an accepted order, a close, or
\* nothing but the day roll and the halt.
LEMMA StepCases ==
    ASSUME TypeOK, Next
    PROVE  \E d \in Today :
              \/ \E s \in Symbols, side \in Sides, entry, stop, target \in Prices :
                    Open(s, side, entry, stop, target, d)
              \/ \E s \in DOMAIN positions, price \in Prices : Close(s, price, d)
              \/ OnlyRoll(d)
  BY DEF Next, Mark, ForceClose, StatusRequest

\* Rolling the date keeps the account's variables in their domains.
LEMMA RollType ==
    ASSUME TypeOK, NEW d \in Today
    PROVE  /\ d \in Dates
           /\ RolledRealized(d) \in Int
           /\ RolledDayStart(d) \in Int
           /\ RolledHalted(d) \in BOOLEAN
  <1>1. d \in Dates
    BY DEF Today
  <1>2. RolledRealized(d) \in Int /\ RolledDayStart(d) \in Int
    BY DEF TypeOK, RolledRealized, RolledDayStart
  <1>3. RolledHalted(d) \in BOOLEAN
    BY Zenon DEF TypeOK, RolledHalted
  <1> QED
    BY <1>1, <1>2, <1>3

\* Every request leaves every variable in its domain, and no position without a
\* positive quantity is ever held.
THEOREM TypeCorrect == Spec => []TypeOK
  <1>1. Init => TypeOK
    <2> SUFFICES ASSUME Init PROVE TypeOK
      OBVIOUS
    <2>1. DOMAIN positions = {}
      BY DEF Init
    <2>2. orders \in 0..MaxOrders
      BY InputAssumption DEF Init
    <2>3. capital \in Int /\ realizedPnlToday \in Int /\ dayStartCapital \in Int
      BY ConstructorAssumption DEF Init
    <2>4. /\ tradingDate \in {NoDate} \cup Dates /\ lossDate \in {NoDate} \cup Dates
          /\ halted \in BOOLEAN
      BY DEF Init
    <2> QED
      BY <2>1, <2>2, <2>3, <2>4 DEF TypeOK
  <1>2. TypeOK /\ [Next]_vars => TypeOK'
    <2> SUFFICES ASSUME TypeOK, [Next]_vars PROVE TypeOK'
      OBVIOUS
    <2>1. ASSUME NEW d \in Today, NEW s \in Symbols, NEW side \in Sides,
                 NEW entry \in Prices, NEW stop \in Prices, NEW target \in Prices,
                 Open(s, side, entry, stop, target, d)
          PROVE  TypeOK'
      <3>1. /\ capital' \in Int /\ realizedPnlToday' \in Int /\ dayStartCapital' \in Int
            /\ tradingDate' \in {NoDate} \cup Dates /\ halted' \in BOOLEAN
            /\ lossDate' \in {NoDate} \cup Dates
        BY <2>1, RollType DEF TypeOK, Open, Roll
      <3>2. CASE UNCHANGED <<positions, orders>>
        BY <3>1, <3>2 DEF TypeOK
      <3>3. CASE ~UNCHANGED <<positions, orders>>
        <4>1. /\ LevelsInOrder(side, entry, stop, target)
              /\ Size(entry, stop, side) > 0
              /\ positions' = [q \in DOMAIN positions \cup {s} |->
                    IF q = s
                    THEN [side |-> side, quantity |-> Size(entry, stop, side),
                          entry |-> EffectiveEntry(side, entry),
                          stop |-> stop, target |-> target]
                    ELSE positions[q]]
              /\ orders' = orders + 1
              /\ orders < MaxOrders
          BY <2>1, <3>3 DEF Open, Tradable
        <4>2. Size(entry, stop, side) \in Nat \ {0}
          BY <4>1, SizeType DEF TypeOK
        <4>3. EffectiveEntry(side, entry) \in Int /\ stop \in Int /\ target \in Int
          BY ConstructorAssumption, InputAssumption DEF EffectiveEntry
        <4>4. [side |-> side, quantity |-> Size(entry, stop, side),
               entry |-> EffectiveEntry(side, entry),
               stop |-> stop, target |-> target] \in Positions
          BY <4>2, <4>3 DEF Positions
        <4>5. /\ DOMAIN positions' \subseteq Symbols
              /\ \A q \in DOMAIN positions' : positions'[q] \in Positions
          BY <4>1, <4>4 DEF TypeOK
        <4>6. orders' \in 0..MaxOrders
          BY <4>1, InputAssumption DEF TypeOK
        <4> QED
          BY <3>1, <4>5, <4>6 DEF TypeOK
      <3> QED
        BY <3>2, <3>3
    <2>2. ASSUME NEW d \in Today, NEW s \in DOMAIN positions, NEW price \in Prices,
                 Close(s, price, d)
          PROVE  TypeOK'
      <3>1. Pnl(positions[s], price) \in Int
        BY PnlType DEF TypeOK
      <3> HIDE DEF Pnl
      <3>2. /\ capital' \in Int /\ realizedPnlToday' \in Int /\ dayStartCapital' \in Int
            /\ tradingDate' \in {NoDate} \cup Dates
            /\ lossDate' \in {NoDate} \cup Dates
        BY <2>2, <3>1, RollType DEF TypeOK, Close
      <3>3. halted' \in BOOLEAN
        BY <2>2, RollType DEF Close, DailyLossLimitHit
      <3>4. /\ DOMAIN positions' \subseteq Symbols
            /\ \A q \in DOMAIN positions' : positions'[q] \in Positions
            /\ orders' \in 0..MaxOrders
        BY <2>2 DEF TypeOK, Close
      <3> QED
        BY <3>2, <3>3, <3>4 DEF TypeOK
    <2>3. ASSUME NEW d \in Today, OnlyRoll(d)
          PROVE  TypeOK'
      BY <2>3, RollType DEF TypeOK, OnlyRoll, Roll
    <2>4. CASE UNCHANGED vars
      BY <2>4 DEF TypeOK, vars, account
    <2> QED
      BY <2>1, <2>2, <2>3, <2>4, StepCases
  <1> QED
    BY <1>1, <1>2, PTL DEF Spec

-----------------------------------------------------------------------------

\* Capital moves only by what is booked as realized today, through every roll of
\* the date: the daily loss limit is measured against the true loss.
THEOREM BooksAlwaysBalance == Spec => []BooksBalance
  <1>1. Init => BooksBalance
    BY ConstructorAssumption DEF Init, BooksBalance
  <1>2. TypeOK /\ BooksBalance /\ [Next]_vars => BooksBalance'
    <2> SUFFICES ASSUME TypeOK, BooksBalance, [Next]_vars PROVE BooksBalance'
      OBVIOUS
    <2>0. ASSUME NEW d \in Today
          PROVE  capital = RolledDayStart(d) + RolledRealized(d)
      BY DEF TypeOK, BooksBalance, RolledDayStart, RolledRealized
    <2>1. ASSUME NEW d \in Today, NEW s \in Symbols, NEW side \in Sides,
                 NEW entry \in Prices, NEW stop \in Prices, NEW target \in Prices,
                 Open(s, side, entry, stop, target, d)
          PROVE  BooksBalance'
      BY <2>0, <2>1 DEF Open, Roll, BooksBalance
    <2>2. ASSUME NEW d \in Today, NEW s \in DOMAIN positions, NEW price \in Prices,
                 Close(s, price, d)
          PROVE  BooksBalance'
      <3>1. Pnl(positions[s], price) \in Int
        BY PnlType DEF TypeOK
      <3> HIDE DEF Pnl
      <3>2. /\ capital' = capital + Pnl(positions[s], price)
            /\ realizedPnlToday' = RolledRealized(d) + Pnl(positions[s], price)
            /\ dayStartCapital' = RolledDayStart(d)
        BY <2>2 DEF Close
      <3> QED
        BY <2>0, <3>1, <3>2, RollType DEF TypeOK, BooksBalance
    <2>3. ASSUME NEW d \in Today, OnlyRoll(d)
          PROVE  BooksBalance'
      BY <2>0, <2>3 DEF OnlyRoll, Roll, BooksBalance
    <2>4. CASE UNCHANGED vars
      BY <2>4 DEF BooksBalance, vars, account
    <2> QED
      BY <2>1, <2>2, <2>3, <2>4, StepCases
  <1> QED
    BY <1>1, <1>2, TypeCorrect, PTL DEF Spec

-----------------------------------------------------------------------------

\* A loss is never dated after the broker's own trading date, so that a new date
\* starts without one: what makes HaltedAfterLoss inductive.
LossNotAhead == lossDate <= tradingDate

HaltInv == HaltedAfterLoss /\ LossNotAhead

LEMMA HaltStep == TypeOK /\ HaltInv /\ [Next]_vars => HaltInv'
  <1> SUFFICES ASSUME TypeOK, HaltInv, [Next]_vars PROVE HaltInv'
    OBVIOUS
  <1>0. ASSUME NEW d \in Today
        PROVE  /\ d \in Nat /\ d >= tradingDate
               /\ lossDate \in Nat /\ tradingDate \in Nat
               /\ lossDate <= d
               /\ lossDate = d /\ lossDate # NoDate => RolledHalted(d)
    BY InputAssumption DEF TypeOK, HaltInv, HaltedAfterLoss, LossNotAhead, Today, Dates, NoDate,
                           RolledHalted
  <1>1. ASSUME NEW d \in Today, NEW s \in Symbols, NEW side \in Sides,
               NEW entry \in Prices, NEW stop \in Prices, NEW target \in Prices,
               Open(s, side, entry, stop, target, d)
        PROVE  HaltInv'
    BY <1>0, <1>1 DEF Open, Roll, HaltInv, HaltedAfterLoss, LossNotAhead
  <1>2. ASSUME NEW d \in Today, NEW s \in DOMAIN positions, NEW price \in Prices,
               Close(s, price, d)
        PROVE  HaltInv'
    <2> DEFINE hit == DailyLossLimitHit(RolledRealized(d) + Pnl(positions[s], price),
                                        RolledDayStart(d))
    <2>1. /\ tradingDate' = d
          /\ halted' = (hit \/ RolledHalted(d))
          /\ lossDate' = IF hit THEN d ELSE lossDate
      BY <1>2 DEF Close
    <2> HIDE DEF hit
    <2>2. CASE hit
      <3>1. halted' /\ lossDate' = d
        BY <2>1, <2>2, Zenon
      <3> QED
        BY <1>0, <2>1, <3>1 DEF HaltInv, HaltedAfterLoss, LossNotAhead
    <2>3. CASE ~hit
      <3>1. lossDate' = lossDate /\ (RolledHalted(d) => halted')
        BY <2>1, <2>3, Zenon
      <3> QED
        BY <1>0, <2>1, <3>1 DEF HaltInv, HaltedAfterLoss, LossNotAhead
    <2> QED
      BY <2>2, <2>3
  <1>3. ASSUME NEW d \in Today, OnlyRoll(d)
        PROVE  HaltInv'
    BY <1>0, <1>3 DEF OnlyRoll, Roll, HaltInv, HaltedAfterLoss, LossNotAhead
  <1>4. CASE UNCHANGED vars
    BY <1>4 DEF HaltInv, HaltedAfterLoss, LossNotAhead, vars, account
  <1> QED
    BY <1>1, <1>2, <1>3, <1>4, StepCases

LEMMA HaltInvariant == Spec => []HaltInv
  <1>1. Init => HaltInv
    BY DEF Init, HaltInv, HaltedAfterLoss, LossNotAhead, NoDate
  <1> QED
    BY <1>1, HaltStep, TypeCorrect, PTL DEF Spec

\* Once a close has reached the day's loss limit the broker stays halted for the
\* rest of the date, whatever is won back.
THEOREM HaltIsSticky == Spec => []HaltedAfterLoss
  <1>1. HaltInv => HaltedAfterLoss
    BY DEF HaltInv
  <1> QED
    BY <1>1, HaltInvariant, PTL

\* No position is opened on a date on which a close already reached the limit.
THEOREM NoNewRiskAfterLossLimit == Spec => NoOpenAfterLossLimit
  <1>1. TypeOK /\ HaltInv /\ [Next]_vars => [Opened # {} => lossDate # tradingDate']_vars
    <2> SUFFICES ASSUME TypeOK, HaltInv, Next, Opened # {}
                 PROVE  lossDate # tradingDate'
      BY DEF vars
    <2>1. PICK d \in Today :
              \/ \E s \in Symbols, side \in Sides, entry, stop, target \in Prices :
                    Open(s, side, entry, stop, target, d)
              \/ \E s \in DOMAIN positions, price \in Prices : Close(s, price, d)
              \/ OnlyRoll(d)
      BY StepCases
    <2>2. ~\E s \in DOMAIN positions, price \in Prices : Close(s, price, d)
      BY DEF Close, Opened
    <2>3. ~OnlyRoll(d)
      BY DEF OnlyRoll, Opened
    <2>4. PICK s \in Symbols, side \in Sides, entry \in Prices, stop \in Prices,
               target \in Prices : Open(s, side, entry, stop, target, d)
      BY <2>1, <2>2, <2>3
    <2>5. tradingDate' = d /\ ~RolledHalted(d)
      BY <2>4 DEF Open, Roll, LossLimitReached, Opened
    <2>6. d # NoDate
      BY InputAssumption DEF Today, Dates, NoDate
    <2> QED
      BY <2>5, <2>6, InputAssumption
      DEF HaltInv, HaltedAfterLoss, LossNotAhead, RolledHalted, TypeOK, Today, Dates, NoDate
  <1> QED
    BY <1>1, TypeCorrect, HaltInvariant, PTL DEF Spec, NoOpenAfterLossLimit

-----------------------------------------------------------------------------

\* A limit that is reached now was reached by a close of the same date, or the
\* day began without capital: realizedPnlToday moves only in closes. It is what
\* lets an open that finds the limit reached set the halt.
LimitHasCause ==
    DailyLossLimitHit(realizedPnlToday, dayStartCapital)
        => lossDate = tradingDate \/ dayStartCapital <= 0

CauseInv == HaltHasCause /\ LimitHasCause

\* Rolling the date keeps the cause: on a new date nothing is realized, so only a
\* day without capital is at its limit.
LEMMA RollCause ==
    ASSUME TypeOK, CauseInv, NEW d \in Today
    PROVE  LossLimitReached(d) => lossDate = d \/ RolledDayStart(d) <= 0
  <1>1. CASE d = tradingDate
    BY <1>1 DEF CauseInv, HaltHasCause, LimitHasCause, LossLimitReached, RolledHalted,
                RolledRealized, RolledDayStart
  <1>2. CASE d # tradingDate
    <2>1. LossLimitReached(d) <=> DailyLossLimitHit(0, capital)
      BY <1>2 DEF LossLimitReached, RolledHalted, RolledRealized, RolledDayStart
    <2>2. DailyLossLimitHit(0, capital) => capital <= 0
      BY ConstructorAssumption DEF DailyLossLimitHit, TypeOK
    <2> QED
      BY <1>2, <2>1, <2>2 DEF RolledDayStart
  <1> QED
    BY <1>1, <1>2

LEMMA CauseStep == TypeOK /\ CauseInv /\ [Next]_vars => CauseInv'
  <1> SUFFICES ASSUME TypeOK, CauseInv, [Next]_vars PROVE CauseInv'
    OBVIOUS
  <1>1. ASSUME NEW d \in Today, NEW s \in Symbols, NEW side \in Sides,
               NEW entry \in Prices, NEW stop \in Prices, NEW target \in Prices,
               Open(s, side, entry, stop, target, d)
        PROVE  CauseInv'
    <2>1. /\ halted' => LossLimitReached(d)
          /\ DailyLossLimitHit(realizedPnlToday', dayStartCapital') => LossLimitReached(d)
          /\ tradingDate' = d /\ lossDate' = lossDate
          /\ dayStartCapital' = RolledDayStart(d)
      BY <1>1, Zenon DEF Open, Roll, LossLimitReached
    <2> QED
      BY <2>1, RollCause, Zenon DEF CauseInv, HaltHasCause, LimitHasCause, DailyLossLimitHit
  <1>2. ASSUME NEW d \in Today, NEW s \in DOMAIN positions, NEW price \in Prices,
               Close(s, price, d)
        PROVE  CauseInv'
    <2> DEFINE hit == DailyLossLimitHit(RolledRealized(d) + Pnl(positions[s], price),
                                        RolledDayStart(d))
    <2>1. /\ halted' => hit \/ LossLimitReached(d)
          /\ DailyLossLimitHit(realizedPnlToday', dayStartCapital') => hit
          /\ tradingDate' = d /\ lossDate' = IF hit THEN d ELSE lossDate
          /\ dayStartCapital' = RolledDayStart(d)
      BY <1>2, Zenon DEF Close, LossLimitReached
    <2> HIDE DEF hit
    <2>2. CASE hit
      BY <2>1, <2>2, Zenon DEF CauseInv, HaltHasCause, LimitHasCause, DailyLossLimitHit
    <2>3. CASE ~hit
      BY <2>1, <2>3, RollCause, Zenon
      DEF CauseInv, HaltHasCause, LimitHasCause, DailyLossLimitHit
    <2> QED
      BY <2>2, <2>3
  <1>3. ASSUME NEW d \in Today, OnlyRoll(d)
        PROVE  CauseInv'
    <2>1. /\ halted' => LossLimitReached(d)
          /\ DailyLossLimitHit(realizedPnlToday', dayStartCapital') => LossLimitReached(d)
          /\ tradingDate' = d /\ lossDate' = lossDate
          /\ dayStartCapital' = RolledDayStart(d)
      BY <1>3, Zenon DEF OnlyRoll, Roll, LossLimitReached
    <2> QED
      BY <2>1, RollCause, Zenon DEF CauseInv, HaltHasCause, LimitHasCause, DailyLossLimitHit
  <1>4. CASE UNCHANGED vars
    BY <1>4 DEF CauseInv, HaltHasCause, LimitHasCause, DailyLossLimitHit, vars, account
  <1> QED
    BY <1>1, <1>2, <1>3, <1>4, StepCases

\* A halted broker lost its limit on this very date, or began it without capital:
\* the halt of an earlier date never leaks into a new one.
THEOREM HaltAlwaysHasCause == Spec => []HaltHasCause
  <1>1. Init => CauseInv
    BY ConstructorAssumption
    DEF Init, CauseInv, HaltHasCause, LimitHasCause, DailyLossLimitHit, NoDate
  <1>2. CauseInv => HaltHasCause
    BY DEF CauseInv
  <1> QED
    BY <1>1, <1>2, CauseStep, TypeCorrect, PTL DEF Spec

-----------------------------------------------------------------------------

\* The number of open positions never exceeds max_positions, however opens and
\* closes interleave; finiteness of DOMAIN positions comes from TypeOK.
THEOREM LimitHolds == Spec => []PositionsWithinLimit
  <1>1. Init => PositionsWithinLimit
    <2> SUFFICES ASSUME Init PROVE PositionsWithinLimit
      OBVIOUS
    <2>1. DOMAIN positions = {}
      BY DEF Init
    <2> QED
      BY <2>1, FS_EmptySet, ConstructorAssumption DEF PositionsWithinLimit
  <1>2. TypeOK /\ PositionsWithinLimit /\ [Next]_vars => PositionsWithinLimit'
    <2> SUFFICES ASSUME TypeOK, PositionsWithinLimit, [Next]_vars
                 PROVE  PositionsWithinLimit'
      OBVIOUS
    <2>0. IsFiniteSet(DOMAIN positions) /\ Cardinality(DOMAIN positions) \in Nat
      BY InputAssumption, FS_Subset, FS_CardinalityType DEF TypeOK
    <2>1. ASSUME NEW d \in Today, NEW s \in Symbols, NEW side \in Sides,
                 NEW entry \in Prices, NEW stop \in Prices, NEW target \in Prices,
                 Open(s, side, entry, stop, target, d)
          PROVE  PositionsWithinLimit'
      <3>1. CASE UNCHANGED positions
        BY <3>1 DEF PositionsWithinLimit
      <3>2. CASE ~UNCHANGED positions
        <4>1. HasRoom(s) /\ DOMAIN positions' = DOMAIN positions \cup {s}
          BY <2>1, <3>2 DEF Open
        <4>2. Cardinality(DOMAIN positions \cup {s}) = Cardinality(DOMAIN positions) + 1
          BY <2>0, <4>1, FS_AddElement DEF HasRoom
        <4> QED
          BY <2>0, <4>1, <4>2, ConstructorAssumption DEF HasRoom, PositionsWithinLimit
      <3> QED
        BY <3>1, <3>2
    <2>2. ASSUME NEW d \in Today, NEW s \in DOMAIN positions, NEW price \in Prices,
                 Close(s, price, d)
          PROVE  PositionsWithinLimit'
      <3>1. DOMAIN positions' = DOMAIN positions \ {s}
        BY <2>2 DEF Close
      <3>2. Cardinality(DOMAIN positions \ {s}) = Cardinality(DOMAIN positions) - 1
        BY <2>0, FS_RemoveElement
      <3> QED
        BY <2>0, <3>1, <3>2, ConstructorAssumption DEF PositionsWithinLimit
    <2>3. ASSUME NEW d \in Today, OnlyRoll(d)
          PROVE  PositionsWithinLimit'
      BY <2>3 DEF OnlyRoll, PositionsWithinLimit
    <2>4. CASE UNCHANGED vars
      BY <2>4 DEF PositionsWithinLimit, vars, account
    <2> QED
      BY <2>1, <2>2, <2>3, <2>4, StepCases
  <1> QED
    BY <1>1, <1>2, TypeCorrect, PTL DEF Spec

\* An open position is never overwritten: a second order in its symbol is refused.
THEOREM TermsAreKept == Spec => TermsNeverChange
  <1>1. TypeOK /\ [Next]_vars => [TermsKept]_vars
    <2> SUFFICES ASSUME TypeOK, Next PROVE TermsKept
      BY DEF vars
    <2>1. ASSUME NEW d \in Today, NEW s \in Symbols, NEW side \in Sides,
                 NEW entry \in Prices, NEW stop \in Prices, NEW target \in Prices,
                 Open(s, side, entry, stop, target, d)
          PROVE  TermsKept
      BY <2>1 DEF Open, HasRoom, TermsKept
    <2>2. ASSUME NEW d \in Today, NEW s \in DOMAIN positions, NEW price \in Prices,
                 Close(s, price, d)
          PROVE  TermsKept
      BY <2>2 DEF Close, TermsKept
    <2>3. ASSUME NEW d \in Today, OnlyRoll(d)
          PROVE  TermsKept
      BY <2>3 DEF OnlyRoll, TermsKept
    <2> QED
      BY <2>1, <2>2, <2>3, StepCases
  <1> QED
    BY <1>1, TypeCorrect, PTL DEF Spec, TermsNeverChange

-----------------------------------------------------------------------------

\* A budget is never overspent by the quantity it buys: the division rounds down.
LEMMA QuantityWithinBudget ==
    ASSUME capital \in Int, NEW thousandths \in Nat, NEW price \in Int, price > 0
    PROVE  Quantity(thousandths, price) > 0
              => Quantity(thousandths, price) * price * 1000 <= capital * thousandths
  <1> DEFINE budget == capital * thousandths
             unit == 1000 * price
  <1>1. budget \in Int /\ unit \in Int /\ unit > 0
    OBVIOUS
  <1>2. ASSUME NEW a \in Int, NEW b \in Int, b > 0
        PROVE  (a \div b) \in Int /\ b * (a \div b) <= a
    BY <1>2
  <1> HIDE DEF budget, unit
  <1>3. (budget \div unit) \in Int /\ unit * (budget \div unit) <= budget
    BY <1>1, <1>2
  <1>4. \A m \in Int : m * price * 1000 = (1000 * price) * m
    OBVIOUS
  <1>5. (budget \div unit) * price * 1000 <= budget
    BY <1>3, <1>4 DEF unit
  <1> QED
    BY <1>5 DEF Quantity, budget, unit

\* No position is opened that risks more than its share of capital at its stop,
\* the slippage of its entry included, or that ties up more than its share.
THEOREM OpensWithinBudget == Spec => OpenedWithinBudget
  <1>1. TypeOK /\ [Next]_vars => [WithinBudget]_vars
    <2> SUFFICES ASSUME TypeOK, Next, NEW q \in Opened
                 PROVE  /\ positions'[q].quantity
                              * Distance(positions'[q].entry, positions'[q].stop) * 1000
                              <= capital * RiskPerTrade
                        /\ positions'[q].quantity * positions'[q].entry * 1000
                              <= capital * MaxPositionNotional
      BY DEF WithinBudget, vars
    <2>1. PICK d \in Today :
              \/ \E s \in Symbols, side \in Sides, entry, stop, target \in Prices :
                    Open(s, side, entry, stop, target, d)
              \/ \E s \in DOMAIN positions, price \in Prices : Close(s, price, d)
              \/ OnlyRoll(d)
      BY StepCases
    <2>2. PICK s \in Symbols, side \in Sides, entry \in Prices, stop \in Prices,
               target \in Prices : Open(s, side, entry, stop, target, d)
      BY <2>1 DEF Close, OnlyRoll, Opened
    <2> DEFINE effective == EffectiveEntry(side, entry)
               size == Size(entry, stop, side)
               perRisk == Quantity(RiskPerTrade, Distance(effective, stop))
               perNotional == Quantity(MaxPositionNotional, effective)
    <2>3. /\ LevelsInOrder(side, entry, stop, target) /\ size > 0
          /\ positions'[q].quantity = size
          /\ positions'[q].entry = effective
          /\ positions'[q].stop = stop
      BY <2>2 DEF Open, Tradable, Opened
    <2>4. effective \in Int /\ effective > 0 /\ stop \in Int /\ effective # stop
      BY <2>3, ConstructorAssumption, InputAssumption DEF LevelsInOrder, EffectiveEntry, Sides
    <2>5. Distance(effective, stop) \in Int /\ Distance(effective, stop) > 0
      <3> HIDE DEF effective
      <3> QED BY <2>4 DEF Distance
    <2>6. size = Smaller(perRisk, perNotional)
      BY <2>4 DEF Size
    <2>7. perRisk \in Int /\ perNotional \in Int
      <3> HIDE DEF effective
      <3> QED BY <2>4, <2>5, QuantityType, ConstructorAssumption DEF TypeOK
    <2>8. size \in Int /\ size <= perRisk /\ size <= perNotional
      <3> HIDE DEF perRisk, perNotional, size
      <3> QED BY <2>6, <2>7 DEF Smaller
    <2>9. /\ perRisk > 0 => perRisk * Distance(effective, stop) * 1000 <= capital * RiskPerTrade
          /\ perNotional > 0 => perNotional * effective * 1000 <= capital * MaxPositionNotional
      <3> HIDE DEF effective
      <3> QED BY <2>4, <2>5, QuantityWithinBudget, ConstructorAssumption DEF TypeOK
    <2>10. ASSUME NEW m \in Int, NEW bound \in Int, NEW price \in Int, NEW budget \in Int,
                  m > 0, m <= bound, price > 0,
                  bound > 0 => bound * price * 1000 <= budget
           PROVE  m * price * 1000 <= budget
      <3>1. m * price <= bound * price
        BY <2>10
      <3> QED
        BY <2>10, <3>1
    <2>11. capital * RiskPerTrade \in Int /\ capital * MaxPositionNotional \in Int
      BY ConstructorAssumption DEF TypeOK
    <2> HIDE DEF effective, size, perRisk, perNotional
    <2>12. size * Distance(effective, stop) * 1000 <= capital * RiskPerTrade
      BY <2>3, <2>5, <2>7, <2>8, <2>9, <2>10, <2>11
    <2>13. size * effective * 1000 <= capital * MaxPositionNotional
      BY <2>3, <2>4, <2>7, <2>8, <2>9, <2>10, <2>11
    <2> QED
      BY <2>3, <2>12, <2>13
  <1> QED
    BY <1>1, TypeCorrect, PTL DEF Spec, OpenedWithinBudget

=============================================================================
