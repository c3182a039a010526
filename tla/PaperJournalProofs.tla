------------------------- MODULE PaperJournalProofs -------------------------
(***************************************************************************)
(* For every set of instruments, calendar, holding period and number of    *)
(* interrupted jobs: the journal is append-only, an evaluated decision has *)
(* its outcome, a stale decision never becomes a trade, and every table    *)
(* derived from the outcomes tells their story once.                       *)
(***************************************************************************)
EXTENDS PaperJournal, WellFoundedInduction, SequenceTheorems, TLAPS

\* A nonempty set of naturals has a smallest element.
LEMMA SmallestOf ==
    ASSUME NEW S \in SUBSET Nat, S # {}
    PROVE  \E t \in S : \A u \in S : t <= u
  <1>1. PICK t \in S : \A u \in S : ~(<<u, t>> \in OpToRel(<, Nat))
    BY NatLessThanWellFounded, WFMin
  <1>2. \A u \in S : ~(u < t)
    BY <1>1 DEF OpToRel
  <1> QED
    BY <1>2

\* First and Last name the earliest and the latest minute of a nonempty set.
LEMMA FirstOf ==
    ASSUME NEW S, S \subseteq Minutes, S # {}
    PROVE  First(S) \in S /\ \A u \in S : First(S) <= u
  <1>1. \E t \in S : \A u \in S : t <= u
    BY SmallestOf DEF Minutes
  <1> QED
    BY <1>1 DEF First

LEMMA LastOf ==
    ASSUME NEW S, S \subseteq Minutes, S # {}
    PROVE  Last(S) \in S /\ \A u \in S : u <= Last(S)
  <1> DEFINE mirror == {MaxMinute - t : t \in S}
  <1>0. MaxMinute \in Nat /\ \A t \in S : t \in Nat /\ t <= MaxMinute
    BY CalendarAssumption DEF Minutes
  <1>1. mirror \in SUBSET Nat /\ mirror # {}
    <2>1. \A t \in S : MaxMinute - t \in Nat
      BY <1>0
    <2> QED
      BY <2>1
  <1>2. PICK m \in mirror : \A k \in mirror : m <= k
    BY <1>1, SmallestOf
  <1>3. PICK t \in S : m = MaxMinute - t
    OBVIOUS
  <1>4. \A u \in S : u <= t
    <2> SUFFICES ASSUME NEW u \in S PROVE u <= t
      OBVIOUS
    <2>1. MaxMinute - t <= MaxMinute - u
      BY <1>2, <1>3
    <2> QED
      BY <2>1, <1>0
  <1> QED
    BY <1>4 DEF Last

-----------------------------------------------------------------------------
(* What a tick computes. *)

\* A bar in the horizon is stored and strictly later than the decision bar.
LEMMA HorizonFacts ==
    ASSUME NEW bars, NEW b \in Minutes
    PROVE  Horizon(bars, b) \subseteq Minutes /\ \A t \in Horizon(bars, b) : b < t
  BY DEF Horizon, LaterBars, Minutes

\* An outcome is on the decision's side, enters after the decision bar and
\* leaves no earlier than it entered.
OutcomeFits(o, row) ==
    /\ row \in Outcomes
    /\ row.side = Side(o.action)
    /\ o.bar < row.entry
    /\ row.entry <= row.exit

LEMMA OutcomeIsFit ==
    ASSUME NEW o, o.bar \in Minutes, NEW bars, Evaluable(o, bars)
    PROVE  OutcomeFits(o, Outcome(o, bars))
  <1> DEFINE horizon == Horizon(bars, o.bar)
             exits == Exits(o, bars)
             exit == IF exits # {} THEN First(exits) ELSE Last(horizon)
             ended == IF exits # {} THEN ExitBy(Side(o.action), bars[exit])
                                    ELSE "TIMEOUT"
  <1>1. horizon \subseteq Minutes /\ horizon # {} /\ exits \subseteq horizon
    BY HorizonFacts DEF Evaluable, Exits
  <1>2. First(horizon) \in horizon /\ \A u \in horizon : First(horizon) <= u
    <2> HIDE DEF horizon
    <2> QED BY <1>1, FirstOf
  <1>3. exit \in horizon /\ (exits # {} => exit \in exits)
    <2> HIDE DEF horizon, exits
    <2> QED BY <1>1, FirstOf, LastOf
  <1>4. ended \in {"STOP", "STOP_GAP", "TARGET", "TIMEOUT"}
    <2>1. CASE exits # {}
      <3>1. ExitBy(Side(o.action), bars[exit]) # "NONE"
        BY <1>3, <2>1 DEF Exits
      <3> QED
        BY <2>1, <3>1 DEF ExitBy
    <2>2. CASE ~(exits # {})
      BY <2>2
    <2> QED
      BY <2>1, <2>2
  <1>5. Outcome(o, bars) = [side |-> Side(o.action), entry |-> First(horizon),
                            exit |-> exit, outcome |-> ended]
    BY DEF Outcome
  <1>6. Side(o.action) \in {"LONG", "SHORT"}
    BY DEF Side
  <1>7. o.bar < First(horizon)
    BY <1>2, HorizonFacts
  <1> HIDE DEF horizon, exits, exit, ended
  <1> QED
    BY <1>1, <1>2, <1>3, <1>4, <1>5, <1>6, <1>7 DEF OutcomeFits, Outcomes

\* A feature vector is a sequence as long as its decision bar is late.
LEMMA FeatureFacts ==
    ASSUME NEW bars \in [Minutes -> Bars], NEW b \in Minutes
    PROVE  /\ DOMAIN FeatureVector(bars, b) = 1..b
           /\ FeatureVector(bars, b) \in Seq(Bars)
  <1>1. \A t \in 1..b : bars[t] \in Bars
    BY CalendarAssumption DEF Minutes
  <1>2. FeatureVector(bars, b) \in [1..b -> Bars]
    BY <1>1 DEF FeatureVector
  <1>3. b \in Nat
    BY DEF Minutes
  <1> QED
    BY <1>2, <1>3, SeqDef

-----------------------------------------------------------------------------
(* The rows of paper_observations. *)

\* A row is stored under its own key; a stale one is marked so, a traded one has
\* a side, and a captured feature vector ends with the decision bar.
RowFits(id, o) ==
    /\ id = DecisionId(o.instrument, o.bar, o.version)
    /\ o.stale # "NONE" => o.status = "STALE_DATA"
    /\ o.status \in {"SIGNAL_PENDING", "EVALUATED"} => o.action \in {"BUY", "SELL"}
    /\ o.features # NotCaptured => DOMAIN o.features = 1..o.bar

RowsInv == \A id \in DOMAIN observations : RowFits(id, observations[id])

\* What the observer builds for a candidate with candles.
LEMMA ObservationFits ==
    ASSUME TypeOK, NEW i \in Instruments, HasBars(i), NEW action \in SignalActions
    PROVE  LET id == DecisionId(i, LatestBar(i), "current")
               o == Observation(i, LatestBar(i), action)
           IN  /\ id \in Ids /\ o \in Rows /\ RowFits(id, o)
               /\ o.status # "EVALUATED"
  <1> DEFINE b == LatestBar(i)
             stale == StaleReason(b, now)
             o == Observation(i, b, action)
  <1>1. b \in Minutes
    <2> DEFINE stored == {t \in Minutes : Stored(candles[i][t])}
    <2>1. stored \subseteq Minutes /\ stored # {}
      BY DEF HasBars
    <2>2. b = Last(stored)
      BY DEF LatestBar
    <2> HIDE DEF stored, b
    <2> QED BY <2>1, <2>2, LastOf
  <1>2. stale \in StaleReasons
    BY DEF StaleReason, StaleReasons
  <1>3. /\ Status(action, stale) \in {"STALE_DATA", "SIGNAL_PENDING", "NO_SIGNAL"}
        /\ stale # "NONE" => Status(action, stale) = "STALE_DATA"
        /\ Status(action, stale) = "SIGNAL_PENDING" => action \in {"BUY", "SELL"}
    BY DEF Status, Actionable
  <1>4. /\ DOMAIN FeatureVector(candles[i], b) = 1..b
        /\ FeatureVector(candles[i], b) \in Seq(Bars)
    BY <1>1, FeatureFacts DEF TypeOK
  <1>5. o = [instrument |-> i, bar |-> b, version |-> "current",
             stale |-> stale, action |-> action, status |-> Status(action, stale),
             features |-> FeatureVector(candles[i], b)]
    BY DEF Observation
  <1> HIDE DEF b, stale, o
  <1>6. o \in Rows
    BY <1>1, <1>2, <1>3, <1>4, <1>5 DEF Rows, Versions, Statuses
  <1>7. RowFits(DecisionId(i, b, "current"), o) /\ o.status # "EVALUATED"
    BY <1>3, <1>4, <1>5 DEF RowFits, NotCaptured
  <1>8. DecisionId(i, b, "current") \in Ids
    BY <1>1 DEF DecisionId, Ids, Versions
  <1> QED
    BY <1>6, <1>7, <1>8 DEF b, o

\* The rows of a tick, as ObserveOnce inserts them.
LEMMA TickRowsFit ==
    ASSUME TypeOK, NEW candidates \in SUBSET Instruments,
           \A i \in candidates : HasBars(i),
           NEW action \in [candidates -> SignalActions],
           NEW id \in DOMAIN TickRows(candidates, action)
    PROVE  /\ id \in Ids
           /\ TickRows(candidates, action)[id] \in Rows
           /\ RowFits(id, TickRows(candidates, action)[id])
           /\ TickRows(candidates, action)[id].status # "EVALUATED"
  <1>1. PICK i \in candidates : id = DecisionId(i, LatestBar(i), "current")
    BY DEF TickRows
  <1>2. id[1] = i
    BY <1>1 DEF DecisionId
  <1>3. TickRows(candidates, action)[id] = Observation(i, LatestBar(i), action[i])
    BY <1>2 DEF TickRows
  <1> QED
    BY <1>1, <1>3, ObservationFits

\* Marking a pending row evaluated changes nothing else about it.
LEMMA MarkedRow ==
    ASSUME NEW o \in Rows
    PROVE  LET marked == [o EXCEPT !.status = "EVALUATED"]
           IN  /\ marked \in Rows
               /\ marked.status = "EVALUATED"
               /\ marked.instrument = o.instrument /\ marked.bar = o.bar
               /\ marked.version = o.version /\ marked.stale = o.stale
               /\ marked.action = o.action /\ marked.features = o.features
  BY DEF Rows, Statuses

-----------------------------------------------------------------------------
(* The inductive invariant. *)

\* An outcome fits a decision that is pending or evaluated; an evaluated decision
\* has one; the failure analysis copies it.
FlowInv ==
    /\ \A id \in DOMAIN outcomes :
        /\ id \in DOMAIN observations
        /\ observations[id].status \in {"SIGNAL_PENDING", "EVALUATED"}
        /\ OutcomeFits(observations[id], outcomes[id])
    /\ EvaluatedHasOutcome
    /\ \A id \in DOMAIN failures :
        /\ id \in DOMAIN outcomes
        /\ failures[id].outcome = outcomes[id].outcome

\* A snapshot of a decision with a given row.
SnapshotFits(o, v) ==
    /\ DOMAIN v = 1..o.bar
    /\ o.features # NotCaptured => v = o.features

\* Learning data: none, or one snapshot, or one snapshot and its one label.
LearnInv ==
    \A id \in Ids :
        /\ \/ snapshots[id] = <<>>
           \/ /\ id \in DOMAIN outcomes
              /\ \E v : snapshots[id] = <<v>> /\ SnapshotFits(observations[id], v)
        /\ \/ labels[id] = <<>>
           \/ /\ snapshots[id] # <<>>
              /\ labels[id] = <<Label(outcomes[id])>>

\* What a job holds between two statements: pending decisions whose outcome is
\* stored, or labels whose snapshot is stored and which are not.
BatchInv ==
    /\ pc = "mark" => \A id \in DOMAIN batch : id \in Pending /\ id \in DOMAIN outcomes
    /\ pc = "labels" =>
        \A id \in DOMAIN batch :
            /\ id \in DOMAIN outcomes
            /\ batch[id] = Label(outcomes[id])
            /\ snapshots[id] # <<>>
            /\ labels[id] = <<>>

IInv == TypeOK /\ RowsInv /\ FlowInv /\ LearnInv /\ BatchInv

LEMMA InitIInv == Init => IInv
  <1> SUFFICES ASSUME Init PROVE IInv
    OBVIOUS
  <1>0. PICK first \in [Instruments -> Bars] :
            \E legacy \in SUBSET {i \in Instruments : Stored(first[i])} :
            \E action \in [legacy -> SignalActions \ {"NO_TRADE"}] :
                /\ candles = [i \in Instruments |->
                                [t \in Minutes |-> IF t = 1 THEN first[i] ELSE NoBar]]
                /\ observations =
                    [id \in {DecisionId(i, 1, "legacy") : i \in legacy} |->
                        LegacyObservation(id[1], action[id[1]])]
    BY DEF Init
  <1>1. PICK legacy \in SUBSET {i \in Instruments : Stored(first[i])} :
            \E action \in [legacy -> SignalActions \ {"NO_TRADE"}] :
                /\ candles = [i \in Instruments |->
                                [t \in Minutes |-> IF t = 1 THEN first[i] ELSE NoBar]]
                /\ observations =
                    [id \in {DecisionId(i, 1, "legacy") : i \in legacy} |->
                        LegacyObservation(id[1], action[id[1]])]
    BY <1>0
  <1>1b. PICK action \in [legacy -> SignalActions \ {"NO_TRADE"}] :
            /\ candles = [i \in Instruments |->
                            [t \in Minutes |-> IF t = 1 THEN first[i] ELSE NoBar]]
            /\ observations =
                [id \in {DecisionId(i, 1, "legacy") : i \in legacy} |->
                    LegacyObservation(id[1], action[id[1]])]
    BY <1>1
  <1>2. candles \in [Instruments -> [Minutes -> Bars]]
    <2>1. \A i \in Instruments : first[i] \in Bars
      BY DEF Bars
    <2> QED
      BY <1>1b, <2>1 DEF Bars
  <1>3. ASSUME NEW id \in DOMAIN observations
        PROVE  /\ id \in Ids /\ observations[id] \in Rows
               /\ RowFits(id, observations[id])
               /\ observations[id].status = "SIGNAL_PENDING"
    <2>1. PICK i \in legacy : id = DecisionId(i, 1, "legacy")
      BY <1>1b, <1>3
    <2>2. id[1] = i
      BY <2>1 DEF DecisionId
    <2>3. observations[id] = LegacyObservation(i, action[i])
      BY <1>1b, <1>3, <2>2
    <2>4. action[i] \in {"BUY", "SELL"} /\ action[i] \in SignalActions
      BY SignalAssumption
    <2>5. 1 \in Minutes
      BY CalendarAssumption DEF Minutes
    <2>6. NotCaptured \in Seq(Bars)
      BY DEF NotCaptured
    <2> QED
      BY <2>1, <2>3, <2>4, <2>5, <2>6
      DEF LegacyObservation, Rows, RowFits, DecisionId, Ids, Versions, StaleReasons, Statuses
  <1>4. /\ DOMAIN outcomes = {} /\ DOMAIN failures = {} /\ DOMAIN batch = {}
        /\ \A id \in Ids : snapshots[id] = <<>> /\ labels[id] = <<>>
        /\ DOMAIN snapshots = Ids /\ DOMAIN labels = Ids
    BY DEF Init, EmptyBatch
  <1>5. TypeOK
    <2>1. now \in Minutes /\ crashes \in 0..MaxCrashes /\ revisions <= MaxRevisions
      BY CalendarAssumption DEF Init, Minutes
    <2>2. pc = "idle" /\ job = "session"
      BY DEF Init
    <2> QED
      BY <1>2, <1>3, <1>4, <2>1, <2>2 DEF TypeOK
  <1>6. RowsInv
    BY <1>3 DEF RowsInv
  <1>7. FlowInv /\ LearnInv /\ BatchInv
    BY <1>3, <1>4 DEF FlowInv, EvaluatedHasOutcome, LearnInv, BatchInv, Init
  <1> QED
    BY <1>5, <1>6, <1>7 DEF IInv

\* Which statement changes which table.
LEMMA Frame ==
    ASSUME [Next]_vars
    PROVE  /\ ObserveOnce \/ MarkEvaluated \/ UNCHANGED observations
           /\ InsertOutcomes \/ UNCHANGED outcomes
           /\ BuildFailureAnalysis \/ UNCHANGED failures
           /\ InsertSnapshots \/ UNCHANGED snapshots
           /\ InsertLabels \/ UNCHANGED labels
           /\ \/ InsertOutcomes \/ InsertSnapshots
              \/ pc' \notin {"mark", "labels"}
              \/ UNCHANGED <<journal, pc, batch>>
  <1> USE DEF journal
  <1>1. CASE MinutePasses \/ RefreshCandles \/ Backfill \/ Crash
    BY <1>1 DEF MinutePasses, RefreshCandles, Backfill, Crash
  <1>2. CASE ObserveOnce
    BY <1>2 DEF ObserveOnce
  <1>3. CASE Finalize \/ StartClose
    BY <1>3 DEF Finalize, StartClose, StartEvaluation
  <1>4. CASE InsertOutcomes
    BY <1>4 DEF InsertOutcomes
  <1>5. CASE MarkEvaluated
    BY <1>5 DEF MarkEvaluated, AfterEvaluation
  <1>6. CASE BuildFailureAnalysis
    BY <1>6 DEF BuildFailureAnalysis
  <1>7. CASE InsertSnapshots
    BY <1>7 DEF InsertSnapshots
  <1>8. CASE InsertLabels
    BY <1>8 DEF InsertLabels
  <1>9. CASE UNCHANGED vars
    BY <1>9 DEF vars
  <1> QED
    BY <1>1, <1>2, <1>3, <1>4, <1>5, <1>6, <1>7, <1>8, <1>9 DEF Next

-----------------------------------------------------------------------------
(* What a step keeps. *)

\* Outcomes are only ever inserted, and INSERT OR IGNORE keeps the stored one.
LEMMA OutcomesStep == [Next]_vars => OutcomesKept
  <1> SUFFICES ASSUME [Next]_vars PROVE OutcomesKept
    OBVIOUS
  <1>1. CASE InsertOutcomes
    BY <1>1 DEF InsertOutcomes, InsertOrIgnore, OutcomesKept
  <1>2. CASE UNCHANGED outcomes
    BY <1>2 DEF OutcomesKept
  <1> QED
    BY <1>1, <1>2, Frame

\* Observations are only inserted or, when pending, marked evaluated.
LEMMA DecisionsStep == BatchInv /\ [Next]_vars => DecisionsKept
  <1> SUFFICES ASSUME BatchInv, [Next]_vars PROVE DecisionsKept
    OBVIOUS
  <1>1. CASE ObserveOnce
    <2>1. CASE UNCHANGED observations
      BY <2>1 DEF DecisionsKept
    <2>2. CASE ~UNCHANGED observations
      <3>1. \E rows : observations' = InsertOrIgnore(observations, rows)
        BY <1>1, <2>2 DEF ObserveOnce
      <3> QED
        BY <3>1 DEF InsertOrIgnore, DecisionsKept
    <2> QED
      BY <2>1, <2>2
  <1>2. CASE MarkEvaluated
    <2>1. \A id \in DOMAIN batch : observations[id].status = "SIGNAL_PENDING"
      BY <1>2 DEF MarkEvaluated, BatchInv, Pending
    <2> QED
      BY <1>2, <2>1 DEF MarkEvaluated, DecisionsKept
  <1>3. CASE UNCHANGED observations
    BY <1>3 DEF DecisionsKept
  <1> QED
    BY <1>1, <1>2, <1>3, Frame

\* What a kept row still says.
KeptRow(id) ==
    /\ id \in DOMAIN observations'
    /\ observations'[id].stale = observations[id].stale
    /\ observations'[id].bar = observations[id].bar
    /\ observations'[id].action = observations[id].action
    /\ observations'[id].features = observations[id].features
    /\ observations[id].status \in {"SIGNAL_PENDING", "EVALUATED"}
            => observations'[id].status \in {"SIGNAL_PENDING", "EVALUATED"}

LEMMA RowsKept ==
    ASSUME TypeOK, DecisionsKept, NEW id \in DOMAIN observations
    PROVE  KeptRow(id)
  <1>1. observations[id] \in Rows
    BY DEF TypeOK
  <1>2. CASE observations'[id] = observations[id]
    BY <1>2 DEF DecisionsKept, KeptRow
  <1>3. CASE /\ observations[id].status = "SIGNAL_PENDING"
             /\ observations'[id] = [observations[id] EXCEPT !.status = "EVALUATED"]
    BY <1>1, <1>3, MarkedRow DEF DecisionsKept, KeptRow
  <1> QED
    BY <1>2, <1>3 DEF DecisionsKept

\* The rows of the observations table, old and new.
LEMMA ObservationsStep ==
    ASSUME TypeOK, RowsInv, BatchInv, [Next]_vars
    PROVE  \A id \in DOMAIN observations' :
                id \in Ids /\ observations'[id] \in Rows /\ RowFits(id, observations'[id])
  <1> SUFFICES ASSUME NEW id \in DOMAIN observations'
               PROVE  /\ id \in Ids /\ observations'[id] \in Rows
                      /\ RowFits(id, observations'[id])
    OBVIOUS
  <1>1. CASE UNCHANGED observations
    BY <1>1 DEF TypeOK, RowsInv
  <1>2. CASE ObserveOnce /\ ~UNCHANGED observations
    <2>1. PICK candidates \in SUBSET Instruments :
            \E action \in [candidates -> SignalActions] :
                /\ \A i \in candidates : HasBars(i)
                /\ observations' = InsertOrIgnore(observations, TickRows(candidates, action))
      BY <1>2 DEF ObserveOnce
    <2>2. PICK action \in [candidates -> SignalActions] :
                /\ \A i \in candidates : HasBars(i)
                /\ observations' = InsertOrIgnore(observations, TickRows(candidates, action))
      BY <2>1
    <2>3. CASE id \in DOMAIN observations
      BY <2>2, <2>3 DEF InsertOrIgnore, TypeOK, RowsInv
    <2>4. CASE id \notin DOMAIN observations
      <3>1. /\ id \in DOMAIN TickRows(candidates, action)
            /\ observations'[id] = TickRows(candidates, action)[id]
        BY <2>2, <2>4 DEF InsertOrIgnore
      <3> QED
        BY <2>2, <3>1, TickRowsFit
    <2> QED
      BY <2>3, <2>4
  <1>3. CASE MarkEvaluated
    <2>1. /\ id \in DOMAIN observations
          /\ id \in Ids /\ observations[id] \in Rows /\ RowFits(id, observations[id])
      BY <1>3 DEF MarkEvaluated, TypeOK, RowsInv
    <2>2. CASE id \in DOMAIN batch
      <3>1. /\ observations'[id] = [observations[id] EXCEPT !.status = "EVALUATED"]
            /\ observations[id].status = "SIGNAL_PENDING"
        BY <1>3, <2>1, <2>2 DEF MarkEvaluated, BatchInv, Pending
      <3> QED
        BY <2>1, <3>1, MarkedRow DEF RowFits
    <2>3. CASE id \notin DOMAIN batch
      BY <1>3, <2>1, <2>3 DEF MarkEvaluated
    <2> QED
      BY <2>2, <2>3
  <1> QED
    BY <1>1, <1>2, <1>3, Frame

\* What persist_outcomes inserts fits the pending decisions it is computed from.
LEMMA BatchOutcomesFit ==
    ASSUME TypeOK, RowsInv, InsertOutcomes
    PROVE  /\ outcomes' = InsertOrIgnore(outcomes, batch')
           /\ \A id \in DOMAIN batch' :
                /\ id \in Pending
                /\ OutcomeFits(observations[id], batch'[id])
  <1> DEFINE done == {id \in Pending :
                        Evaluable(observations[id], candles[observations[id].instrument])}
  <1>1. /\ batch' = [id \in done |->
                Outcome(observations[id], candles[observations[id].instrument])]
        /\ outcomes' = InsertOrIgnore(outcomes, batch')
    BY DEF InsertOutcomes
  <1>2. ASSUME NEW id \in done
        PROVE  OutcomeFits(observations[id],
                           Outcome(observations[id], candles[observations[id].instrument]))
    <2>1. observations[id].bar \in Minutes
      BY DEF Pending, TypeOK, Rows
    <2> QED
      BY <2>1, OutcomeIsFit
  <1> QED
    BY <1>1, <1>2

LEMMA FlowStep ==
    ASSUME IInv, [Next]_vars
    PROVE  FlowInv'
  <1> USE DEF IInv
  <1>0. OutcomesKept /\ DecisionsKept
    BY OutcomesStep, DecisionsStep
  <1>1. ASSUME NEW id \in DOMAIN outcomes'
        PROVE  /\ id \in DOMAIN observations'
               /\ observations'[id].status \in {"SIGNAL_PENDING", "EVALUATED"}
               /\ OutcomeFits(observations'[id], outcomes'[id])
    <2>1. /\ id \in DOMAIN observations
          /\ observations[id].status \in {"SIGNAL_PENDING", "EVALUATED"}
          /\ OutcomeFits(observations[id], outcomes'[id])
      <3>1. CASE id \in DOMAIN outcomes
        BY <1>0, <3>1 DEF FlowInv, OutcomesKept
      <3>2. CASE id \notin DOMAIN outcomes
        <4>1. InsertOutcomes
          BY <3>2, Frame
        <4>2. id \in DOMAIN batch' /\ outcomes'[id] = batch'[id]
          BY <3>2, <4>1, BatchOutcomesFit DEF InsertOrIgnore
        <4> QED
          BY <4>1, <4>2, BatchOutcomesFit DEF Pending
      <3> QED
        BY <3>1, <3>2
    <2>2. KeptRow(id)
      BY <1>0, <2>1, RowsKept
    <2> QED
      BY <2>1, <2>2 DEF KeptRow, OutcomeFits
  <1>2. ASSUME NEW id \in DOMAIN observations', observations'[id].status = "EVALUATED"
        PROVE  id \in DOMAIN outcomes'
    <2>1. CASE id \in DOMAIN observations /\ observations[id].status = "EVALUATED"
      BY <1>0, <2>1 DEF FlowInv, EvaluatedHasOutcome, OutcomesKept
    <2>2. CASE id \in DOMAIN observations /\ observations[id].status # "EVALUATED"
      <3>1. observations'[id] # observations[id]
        BY <1>2, <2>2
      <3>2. MarkEvaluated
        <4>1. CASE ObserveOnce
          BY <2>2, <3>1, <4>1 DEF ObserveOnce, InsertOrIgnore
        <4> QED
          BY <3>1, <4>1, Frame
      <3>3. id \in DOMAIN batch
        BY <2>2, <3>1, <3>2 DEF MarkEvaluated
      <3> QED
        BY <1>0, <3>2, <3>3 DEF MarkEvaluated, BatchInv, OutcomesKept
    <2>3. CASE id \notin DOMAIN observations
      <3>1. ObserveOnce /\ ~UNCHANGED observations
        BY <1>2, <2>3, Frame DEF MarkEvaluated
      <3>2. PICK candidates \in SUBSET Instruments :
            \E action \in [candidates -> SignalActions] :
                /\ \A i \in candidates : HasBars(i)
                /\ observations' = InsertOrIgnore(observations, TickRows(candidates, action))
        BY <3>1 DEF ObserveOnce
      <3>3. PICK action \in [candidates -> SignalActions] :
                /\ \A i \in candidates : HasBars(i)
                /\ observations' = InsertOrIgnore(observations, TickRows(candidates, action))
        BY <3>2
      <3>4. /\ id \in DOMAIN TickRows(candidates, action)
            /\ observations'[id] = TickRows(candidates, action)[id]
        BY <1>2, <2>3, <3>3 DEF InsertOrIgnore
      <3> QED
        BY <1>2, <3>3, <3>4, TickRowsFit
    <2> QED
      BY <2>1, <2>2, <2>3
  <1>3. ASSUME NEW id \in DOMAIN failures'
        PROVE  id \in DOMAIN outcomes' /\ failures'[id].outcome = outcomes'[id].outcome
    <2>1. CASE id \in DOMAIN failures /\ failures'[id] = failures[id]
      BY <1>0, <2>1 DEF FlowInv, OutcomesKept
    <2>2. CASE ~(id \in DOMAIN failures /\ failures'[id] = failures[id])
      <3>1. BuildFailureAnalysis
        BY <1>3, <2>2, Frame
      <3>2. /\ id \in DOMAIN outcomes
            /\ failures'[id].outcome = outcomes[id].outcome
            /\ outcomes' = outcomes
        BY <1>3, <2>2, <3>1 DEF BuildFailureAnalysis, InsertOrIgnore
      <3> QED
        BY <3>2
    <2> QED
      BY <2>1, <2>2
  <1> QED
    BY <1>1, <1>2, <1>3 DEF FlowInv, EvaluatedHasOutcome

LEMMA BatchStep ==
    ASSUME IInv, [Next]_vars
    PROVE  BatchInv'
  <1> USE DEF IInv
  <1>1. CASE InsertOutcomes
    <2>1. \A id \in DOMAIN batch' : id \in Pending' /\ id \in DOMAIN outcomes'
      BY <1>1, BatchOutcomesFit DEF InsertOutcomes, InsertOrIgnore, Pending
    <2>2. pc' # "labels"
      BY <1>1 DEF InsertOutcomes, AfterEvaluation
    <2> QED
      BY <2>1, <2>2 DEF BatchInv
  <1>2. CASE InsertSnapshots
    <2> DEFINE made == {id \in Unprocessed : HasSnapshot(observations[id])}
    <2>1. /\ snapshots' = InsertRows(snapshots, [id \in made |-> SnapshotOf(observations[id])])
          /\ batch' = [id \in made |-> Label(outcomes[id])]
          /\ UNCHANGED <<outcomes, labels, observations>>
          /\ pc' # "mark"
      BY <1>2 DEF InsertSnapshots
    <2>2. ASSUME NEW id \in made
          PROVE  /\ id \in DOMAIN outcomes /\ id \in Ids
                 /\ snapshots[id] = <<>> /\ labels[id] = <<>>
      BY DEF Unprocessed, LearnInv, TypeOK
    <2>3. ASSUME NEW id \in made
          PROVE  snapshots'[id] # <<>>
      <3>1. snapshots'[id] = Append(<<>>, SnapshotOf(observations[id]))
        BY <2>1, <2>2, <2>3 DEF InsertRows
      <3>2. \A x : Append(<<>>, x) # <<>>
        OBVIOUS
      <3> QED
        BY <3>1, <3>2
    <2> QED
      BY <2>1, <2>2, <2>3 DEF BatchInv
  <1>3. CASE pc' \notin {"mark", "labels"}
    BY <1>3 DEF BatchInv
  <1>4. CASE UNCHANGED <<journal, pc, batch>>
    BY <1>4 DEF BatchInv, journal, Pending
  <1> QED
    BY <1>1, <1>2, <1>3, <1>4, Frame

LEMMA LearnStep ==
    ASSUME IInv, [Next]_vars
    PROVE  LearnInv'
  <1> USE DEF IInv
  <1>0. OutcomesKept /\ DecisionsKept
    BY OutcomesStep, DecisionsStep
  <1> SUFFICES ASSUME NEW id \in Ids
               PROVE  /\ \/ snapshots'[id] = <<>>
                         \/ /\ id \in DOMAIN outcomes'
                            /\ \E v : /\ snapshots'[id] = <<v>>
                                      /\ SnapshotFits(observations'[id], v)
                      /\ \/ labels'[id] = <<>>
                         \/ /\ snapshots'[id] # <<>>
                            /\ labels'[id] = <<Label(outcomes'[id])>>
    BY DEF LearnInv
  <1>1. ASSUME id \in DOMAIN outcomes
        PROVE  /\ id \in DOMAIN outcomes' /\ outcomes'[id] = outcomes[id]
               /\ \A v : SnapshotFits(observations[id], v) => SnapshotFits(observations'[id], v)
    <2>1. id \in DOMAIN observations
      BY <1>1 DEF FlowInv
    <2>2. KeptRow(id)
      BY <1>0, <2>1, RowsKept
    <2> QED
      BY <1>0, <1>1, <2>2 DEF OutcomesKept, KeptRow, SnapshotFits
  <1>2. CASE UNCHANGED <<snapshots, labels>>
    BY <1>1, <1>2 DEF LearnInv
  <1>3. CASE InsertSnapshots
    <2> DEFINE made == {q \in Unprocessed : HasSnapshot(observations[q])}
    <2>1. /\ snapshots' = InsertRows(snapshots, [q \in made |-> SnapshotOf(observations[q])])
          /\ UNCHANGED <<outcomes, labels, observations>>
      BY <1>3 DEF InsertSnapshots
    <2>2. CASE id \notin made
      BY <2>1, <2>2 DEF InsertRows, LearnInv
    <2>3. CASE id \in made
      <3>1. /\ id \in DOMAIN outcomes /\ id \in DOMAIN observations
            /\ snapshots[id] = <<>> /\ labels[id] = <<>>
        BY <2>3 DEF Unprocessed, LearnInv
      <3>2. snapshots'[id] = <<SnapshotOf(observations[id])>>
        <4>1. snapshots'[id] = Append(<<>>, SnapshotOf(observations[id]))
          BY <2>1, <2>3, <3>1 DEF InsertRows
        <4>2. \A x : Append(<<>>, x) = <<x>>
          OBVIOUS
        <4> QED
          BY <4>1, <4>2
      <3>3. SnapshotFits(observations[id], SnapshotOf(observations[id]))
        <4>1. /\ observations[id].bar \in Minutes
              /\ candles[observations[id].instrument] \in [Minutes -> Bars]
              /\ RowFits(id, observations[id])
          BY <3>1 DEF TypeOK, RowsInv, Rows
        <4> QED
          BY <4>1, FeatureFacts DEF SnapshotFits, SnapshotOf, RowFits
      <3> QED
        BY <2>1, <3>1, <3>2, <3>3
    <2> QED
      BY <2>2, <2>3
  <1>4. CASE InsertLabels
    <2>1. /\ labels' = InsertRows(labels, batch)
          /\ UNCHANGED <<outcomes, snapshots, observations>>
          /\ pc = "labels"
      BY <1>4 DEF InsertLabels
    <2>2. CASE id \notin DOMAIN batch
      BY <2>1, <2>2 DEF InsertRows, LearnInv
    <2>3. CASE id \in DOMAIN batch
      <3>1. /\ id \in DOMAIN outcomes /\ batch[id] = Label(outcomes[id])
            /\ snapshots[id] # <<>> /\ labels[id] = <<>>
        BY <2>1, <2>3 DEF BatchInv
      <3>2. labels'[id] = <<Label(outcomes[id])>>
        <4>1. labels'[id] = Append(<<>>, batch[id])
          BY <2>1, <2>3, <3>1 DEF InsertRows
        <4>2. \A x : Append(<<>>, x) = <<x>>
          OBVIOUS
        <4> QED
          BY <3>1, <4>1, <4>2
      <3> QED
        BY <2>1, <3>1, <3>2 DEF LearnInv
    <2> QED
      BY <2>2, <2>3
  <1> QED
    BY <1>2, <1>3, <1>4, Frame DEF InsertSnapshots, InsertLabels

LEMMA TypeStep ==
    ASSUME IInv, [Next]_vars
    PROVE  TypeOK'
  <1> USE DEF IInv
  <1>0. /\ DOMAIN observations' \subseteq Ids
        /\ \A id \in DOMAIN observations' : observations'[id] \in Rows
    BY ObservationsStep
  <1>1. /\ DOMAIN outcomes' \subseteq Ids
        /\ \A id \in DOMAIN outcomes' : outcomes'[id] \in Outcomes
    <2>1. FlowInv'
      BY FlowStep
    <2> QED
      BY <1>0, <2>1 DEF FlowInv, OutcomeFits
  <1>2. /\ DOMAIN failures' \subseteq Ids
        /\ \A id \in DOMAIN failures' : failures'[id].class \in {"STOP", "TIMEOUT", "WIN"}
    <2>1. CASE BuildFailureAnalysis
      <3>1. \A id \in DOMAIN outcomes : FailureClass(outcomes[id].outcome) \in {"STOP", "TIMEOUT", "WIN"}
        BY DEF FailureClass, TypeOK, Outcomes
      <3> QED
        BY <2>1, <3>1 DEF BuildFailureAnalysis, InsertOrIgnore, TypeOK
    <2>2. CASE UNCHANGED failures
      BY <2>2 DEF TypeOK
    <2> QED
      BY <2>1, <2>2, Frame
  <1>3. DOMAIN snapshots' = Ids /\ DOMAIN labels' = Ids
    BY Frame DEF InsertSnapshots, InsertLabels, InsertRows, TypeOK
  <1>4. candles' \in [Instruments -> [Minutes -> Bars]]
    <2>1. CASE RefreshCandles \/ Backfill
      <3>1. \E D : \E answer \in [D -> Bars] :
                candles' = Reconciled(answer) \/ candles' = FilledIn(answer)
        BY <2>1 DEF RefreshCandles, Backfill
      <3>2. PICK D : \E answer \in [D -> Bars] :
                candles' = Reconciled(answer) \/ candles' = FilledIn(answer)
        BY <3>1
      <3>3. PICK answer \in [D -> Bars] :
                candles' = Reconciled(answer) \/ candles' = FilledIn(answer)
        BY <3>2
      <3>4. ASSUME NEW i \in Instruments, NEW t \in Minutes, NEW bar,
                   bar = candles[i][t] \/ (<<i, t>> \in D /\ bar = answer[<<i, t>>])
            PROVE  bar \in Bars
        BY <3>4, <3>3 DEF TypeOK
      <3>5. Reconciled(answer) \in [Instruments -> [Minutes -> Bars]]
        BY <3>4, Zenon DEF Reconciled
      <3>6. FilledIn(answer) \in [Instruments -> [Minutes -> Bars]]
        BY <3>4, Zenon DEF FilledIn
      <3> QED
        BY <3>3, <3>5, <3>6
    <2>2. CASE UNCHANGED candles
      BY <2>2 DEF TypeOK
    <2>3. RefreshCandles \/ Backfill \/ UNCHANGED candles
      BY DEF Next, vars, MinutePasses, Crash, ObserveOnce, Finalize, StartClose, StartEvaluation,
             InsertOutcomes, MarkEvaluated, BuildFailureAnalysis, InsertSnapshots, InsertLabels
    <2> QED
      BY <2>1, <2>2, <2>3
  <1>5. /\ now' \in Minutes
        /\ pc' \in {"idle", "observe", "evaluate", "mark", "failures", "snapshots", "labels"}
        /\ job' \in {"session", "close"}
        /\ crashes' \in 0..MaxCrashes
        /\ revisions' <= MaxRevisions
        /\ DOMAIN batch' \subseteq Ids
    <2> USE DEF TypeOK
    <2>1. CASE MinutePasses
      BY <2>1, CalendarAssumption DEF MinutePasses, Minutes
    <2>2. CASE RefreshCandles \/ Backfill
      BY <2>2 DEF RefreshCandles, Backfill
    <2>3. CASE Crash
      BY <2>3, CalendarAssumption DEF Crash, EmptyBatch
    <2>4. CASE ObserveOnce
      BY <2>4 DEF ObserveOnce
    <2>5. CASE Finalize \/ StartClose
      BY <2>5 DEF Finalize, StartClose, StartEvaluation
    <2>6. CASE InsertOutcomes
      <3>1. DOMAIN batch' \subseteq Ids
        BY <2>6, BatchOutcomesFit DEF Pending
      <3> QED
        BY <2>6, <3>1 DEF InsertOutcomes, AfterEvaluation
    <2>7. CASE MarkEvaluated
      BY <2>7 DEF MarkEvaluated, AfterEvaluation, EmptyBatch
    <2>8. CASE BuildFailureAnalysis
      BY <2>8 DEF BuildFailureAnalysis
    <2>9. CASE InsertSnapshots
      BY <2>9 DEF InsertSnapshots, Unprocessed
    <2>10. CASE InsertLabels
      BY <2>10 DEF InsertLabels, EmptyBatch
    <2>11. CASE UNCHANGED vars
      BY <2>11 DEF vars
    <2> QED
      BY <2>1, <2>2, <2>3, <2>4, <2>5, <2>6, <2>7, <2>8, <2>9, <2>10, <2>11 DEF Next
  <1> QED
    BY <1>0, <1>1, <1>2, <1>3, <1>4, <1>5 DEF TypeOK

LEMMA Invariant == Spec => []IInv
  <1>1. IInv /\ [Next]_vars => IInv'
    <2> SUFFICES ASSUME IInv, [Next]_vars PROVE IInv'
      OBVIOUS
    <2>1. RowsInv'
      BY ObservationsStep DEF IInv, RowsInv
    <2> QED
      BY <2>1, TypeStep, FlowStep, LearnStep, BatchStep DEF IInv
  <1> QED
    BY <1>1, InitIInv, PTL DEF Spec

-----------------------------------------------------------------------------
(* The theorems. *)

\* Every table and job variable keeps its domain; in particular every outcome the
\* evaluator records is a well-formed trade.
THEOREM TypeCorrect == Spec => []TypeOK
  <1>1. IInv => TypeOK
    BY DEF IInv
  <1> QED
    BY <1>1, Invariant, PTL

\* A code version decides at most once on a bar of an instrument: the decision is
\* a function of the row's key.
THEOREM DecidedOnce == Spec => []OneDecisionPerBar
  <1>1. IInv => OneDecisionPerBar
    BY DEF IInv, RowsInv, RowFits, OneDecisionPerBar
  <1> QED
    BY <1>1, Invariant, PTL

\* Nothing downstream is ever written about a decision made on stale data.
THEOREM StaleIsNeverTraded == Spec => []StaleNeverTraded
  <1>1. IInv => StaleNeverTraded
    <2> SUFFICES ASSUME IInv, NEW id \in DOMAIN observations,
                        observations[id].stale # "NONE"
                 PROVE  /\ observations[id].status = "STALE_DATA"
                        /\ id \notin DOMAIN outcomes \cup DOMAIN failures
                        /\ snapshots[id] = <<>> /\ labels[id] = <<>>
      BY DEF StaleNeverTraded
    <2>1. id \in Ids /\ observations[id].status = "STALE_DATA"
      BY DEF IInv, TypeOK, RowsInv, RowFits
    <2>2. id \notin DOMAIN outcomes /\ id \notin DOMAIN failures
      BY <2>1 DEF IInv, FlowInv
    <2> QED
      BY <2>1, <2>2 DEF IInv, LearnInv
  <1> QED
    BY <1>1, Invariant, PTL

\* Every outcome belongs to a decision, on its side, and never looks at the
\* decision bar or before it.
THEOREM OutcomesFollowDecisions == Spec => []OutcomeFollowsDecision
  <1>1. IInv => OutcomeFollowsDecision
    BY DEF IInv, FlowInv, RowsInv, RowFits, OutcomeFits, OutcomeFollowsDecision
  <1> QED
    BY <1>1, Invariant, PTL

\* An EVALUATED observation always has its outcome row, which is inserted by the
\* statement before the one that changes the status; failure analysis and labels agree
\* with the outcomes they were copied from.
THEOREM JournalAlwaysAgrees == Spec => []JournalAgrees
  <1>1. IInv => JournalAgrees
    <2> SUFFICES ASSUME IInv PROVE JournalAgrees
      OBVIOUS
    <2>1. ASSUME NEW id \in Ids, NEW m \in DOMAIN labels[id]
          PROVE  id \in DOMAIN outcomes /\ labels[id][m] = Label(outcomes[id])
      <3>1. labels[id] # <<>>
        BY <2>1
      <3>2. id \in DOMAIN outcomes /\ labels[id] = <<Label(outcomes[id])>>
        BY <3>1 DEF IInv, LearnInv
      <3> QED
        BY <2>1, <3>2
    <2> QED
      BY <2>1 DEF IInv, FlowInv, JournalAgrees
  <1> QED
    BY <1>1, Invariant, PTL

\* A snapshot is what its decision saw, and reaches no further than its bar.
THEOREM SnapshotsAreDecisions == Spec => []SnapshotIsDecision
  <1>1. IInv => SnapshotIsDecision
    <2> SUFFICES ASSUME IInv, NEW id \in Ids, NEW m \in DOMAIN snapshots[id]
                 PROVE  SnapshotFits(observations[id], snapshots[id][m])
      BY DEF SnapshotIsDecision, SnapshotFits
    <2>1. snapshots[id] # <<>>
      OBVIOUS
    <2>2. PICK v : snapshots[id] = <<v>> /\ SnapshotFits(observations[id], v)
      BY <2>1 DEF IInv, LearnInv
    <2> QED
      BY <2>2
  <1> QED
    BY <1>1, Invariant, PTL

\* However often the close runs or is interrupted, an observation contributes at
\* most one snapshot and one label, and the label never without the snapshot.
THEOREM AlwaysLearnedOnce == Spec => []LearnedOnce
  <1>1. IInv => LearnedOnce
    <2> SUFFICES ASSUME IInv, NEW id \in Ids
                 PROVE  Len(labels[id]) <= Len(snapshots[id]) /\ Len(snapshots[id]) <= 1
      BY DEF LearnedOnce
    <2>0. Len(<<>>) = 0 /\ \A v : Len(<<v>>) = 1
      OBVIOUS
    <2>1. CASE snapshots[id] = <<>>
      <3>1. labels[id] = <<>>
        BY <2>1 DEF IInv, LearnInv
      <3>2. Len(labels[id]) = 0 /\ Len(snapshots[id]) = 0
        BY <2>0, <2>1, <3>1, Zenon
      <3> QED
        BY <3>2
    <2>2. CASE snapshots[id] # <<>>
      <3>1. PICK v : snapshots[id] = <<v>>
        BY <2>2 DEF IInv, LearnInv
      <3>2. labels[id] = <<>> \/ labels[id] = <<Label(outcomes[id])>>
        BY DEF IInv, LearnInv
      <3>3. Len(snapshots[id]) = 1
        BY <2>0, <3>1, Zenon
      <3>4. Len(labels[id]) = 0 \/ Len(labels[id]) = 1
        <4>1. CASE labels[id] = <<>>
          BY <2>0, <4>1, Zenon
        <4>2. CASE labels[id] = <<Label(outcomes[id])>>
          BY <2>0, <4>2, Zenon
        <4> QED
          BY <3>2, <4>1, <4>2
      <3>5. \A x, y : (x = 0 \/ x = 1) /\ y = 1 => x <= y /\ y <= 1
        OBVIOUS
      <3> QED
        BY <3>3, <3>4, <3>5, Zenon
    <2> QED
      BY <2>1, <2>2
  <1> QED
    BY <1>1, Invariant, PTL

\* The journal of decisions is append-only but for SIGNAL_PENDING to EVALUATED, and
\* an outcome stays as it was first recorded.
THEOREM NothingIsRewritten == Spec => JournalImmutable
  <1>1. IInv /\ [Next]_vars => [DecisionsKept /\ OutcomesKept]_vars
    BY DecisionsStep, OutcomesStep DEF IInv
  <1> QED
    BY <1>1, Invariant, PTL DEF Spec, JournalImmutable

=============================================================================
