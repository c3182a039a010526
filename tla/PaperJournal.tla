---------------------------- MODULE PaperJournal ----------------------------
(***************************************************************************)
(* The paper-trading journal: candles, paper observations, outcomes, the   *)
(* failure analysis, feature snapshots and training labels, all tables of  *)
(* one DuckDB file that survives the process writing it.                   *)
(*                                                                         *)
(* Every SQL statement of the code autocommits and every helper opens its  *)
(* own connection, so an action below is one statement that changes a      *)
(* table together with the reads and computation that precede it; a crash  *)
(* (a killed process, or an exception that skips the rest of the job) may  *)
(* come between any two of them.                                           *)
(*                                                                         *)
(* A price bar is reduced to what a trade can tell apart: whether it takes *)
(* out the level above or below, or opens exactly on the recorded stop.    *)
(* Definitions marked [defect] are broken variants of the one after them,  *)
(* kept to show which property catches them; nothing uses them.            *)
(***************************************************************************)
EXTENDS Naturals, FiniteSets, Sequences

CONSTANTS
    Instruments,    \* instrument keys of the universe
    BarKinds,       \* the kinds of bar the feed may deliver
    SignalActions,  \* what generate_signal may answer
    MaxMinute,      \* bound: the last minute of the modelled calendar
    DayLength,      \* minutes from one trading date to the next
    SessionLength,  \* minutes of a day in which the market trades
    MaxBarAge,      \* MAX_INTRADAY_BAR_AGE_MINUTES
    MaxHolding,     \* max_holding_bars
    MaxCrashes,     \* bound: interrupted jobs
    MaxRevisions    \* bound: stored bars that a later pass delivers changed

ASSUME InstrumentsAssumption == IsFiniteSet(Instruments)
ASSUME BarKindsAssumption == BarKinds \subseteq {"FLAT", "RISE", "FALL", "PINNED"}
ASSUME SignalAssumption == SignalActions \subseteq {"BUY", "SELL", "NO_TRADE"}
ASSUME CalendarAssumption ==
    /\ MaxMinute \in Nat \ {0, 1}
    /\ DayLength \in Nat \ {0}
    /\ SessionLength \in 1..DayLength
    /\ MaxBarAge \in Nat
    /\ MaxHolding \in Nat \ {0}
    /\ MaxCrashes \in Nat
    /\ MaxRevisions \in Nat

VARIABLES
    now,            \* the wall clock, in minutes
    candles,        \* table candles: instrument -> minute -> bar
    observations,   \* table paper_observations: id -> row
    outcomes,       \* table paper_outcomes: id -> row
    failures,       \* table paper_failure_analysis: id -> row
    snapshots,      \* table feature_snapshots (no key): id -> its rows
    labels,         \* table training_labels (no key): id -> its rows
    pc,             \* the statement the running job executes next
    job,            \* the script whose evaluation is running, "session" at rest
    batch,          \* the data frame a job holds between two statements
    crashes,        \* jobs interrupted so far
    revisions       \* stored bars changed so far

journal == <<observations, outcomes, failures, snapshots, labels>>
vars == <<now, candles, journal, pc, job, batch, crashes, revisions>>

-----------------------------------------------------------------------------
(* The calendar and the candles. *)

Minutes == 1..MaxMinute

First(S) == CHOOSE t \in S : \A u \in S : t <= u
Last(S) == CHOOSE t \in S : \A u \in S : u <= t

TradingDate(t) == (t - 1) \div DayLength
SessionOpen(t) == (t - 1) % DayLength < SessionLength

NoBar == "NONE"
Bars == BarKinds \cup {NoBar}
Stored(bar) == bar # NoBar

HasBars(i) == \E t \in Minutes : Stored(candles[i][t])
LatestBar(i) == Last({t \in Minutes : Stored(candles[i][t])})

\* The feature vector is a function of the bars up to and including bar b.
FeatureVector(bars, b) == [t \in 1..b |-> bars[t]]
NotCaptured == <<>>

-----------------------------------------------------------------------------
(* Rows and keys. *)

Versions == {"legacy", "current"}
StaleReasons == {"NONE", "PRIOR_DAY", "INTRADAY_STALE"}
Statuses == {"STALE_DATA", "SIGNAL_PENDING", "NO_SIGNAL", "EVALUATED"}

\* [defect] keyed by the tick instead of by the decision bar
DecisionIdByTick(i, b, v) == <<i, now, v>>

DecisionId(i, b, v) == <<i, b, v>>
Ids == Instruments \X Minutes \X Versions

\* [defect] INSERT OR REPLACE
InsertOrReplace(table, rows) ==
    [id \in DOMAIN table \cup DOMAIN rows |->
        IF id \in DOMAIN rows THEN rows[id] ELSE table[id]]

\* INSERT OR IGNORE into a table with a primary key: the stored row wins.
InsertOrIgnore(table, rows) ==
    [id \in DOMAIN table \cup DOMAIN rows |->
        IF id \in DOMAIN table THEN table[id] ELSE rows[id]]

\* INSERT into a table without a key: one more row for each id.
InsertRows(table, rows) ==
    [id \in Ids |-> IF id \in DOMAIN rows THEN Append(table[id], rows[id])
                                          ELSE table[id]]

EmptyBatch == <<>>

-----------------------------------------------------------------------------
(* The observer. *)

StaleReason(b, t) ==
    IF TradingDate(b) < TradingDate(t) THEN "PRIOR_DAY"
    ELSE IF SessionOpen(t) /\ t - b > MaxBarAge THEN "INTRADAY_STALE"
    ELSE "NONE"

Actionable(action, stale) == action \in {"BUY", "SELL"} /\ stale = "NONE"

\* [defect] the stale test is dropped
StatusIgnoringStale(action, stale) ==
    IF action \in {"BUY", "SELL"} THEN "SIGNAL_PENDING" ELSE "NO_SIGNAL"

Status(action, stale) ==
    IF stale # "NONE" THEN "STALE_DATA"
    ELSE IF Actionable(action, stale) THEN "SIGNAL_PENDING"
    ELSE "NO_SIGNAL"

Observation(i, b, action) ==
    LET stale == StaleReason(b, now)
    IN  [instrument |-> i, bar |-> b, version |-> "current",
         stale |-> stale, action |-> action,
         status |-> Status(action, stale),
         features |-> FeatureVector(candles[i], b)]

-----------------------------------------------------------------------------
(* The outcome evaluator. *)

Side(action) == IF action = "BUY" THEN "LONG" ELSE "SHORT"

\* [defect] the signal bar itself counts
LaterBarsInclusive(bars, b) == {t \in Minutes : t >= b /\ Stored(bars[t])}

LaterBars(bars, b) == {t \in Minutes : t > b /\ Stored(bars[t])}

\* The first MaxHolding stored bars after the signal bar.
Horizon(bars, b) ==
    LET later == LaterBars(bars, b)
    IN  {t \in later : Cardinality({u \in later : u <= t}) <= MaxHolding}

\* How a bar of a kind ends a trade, "NONE" when the trade runs on.
ExitBy(side, kind) ==
    CASE kind = "PINNED" -> "STOP_GAP"
      [] kind = "RISE" -> IF side = "LONG" THEN "TARGET" ELSE "STOP"
      [] kind = "FALL" -> IF side = "LONG" THEN "STOP" ELSE "TARGET"
      [] OTHER -> "NONE"

Exits(o, bars) ==
    {t \in Horizon(bars, o.bar) : ExitBy(Side(o.action), bars[t]) # "NONE"}

\* [defect] a timeout waits for a bar beyond the holding period
EvaluableLate(o, bars) ==
    LET horizon == Horizon(bars, o.bar)
    IN  /\ horizon # {}
        /\ bars[First(horizon)] # "PINNED"
        /\ Exits(o, bars) # {} \/ Cardinality(LaterBars(bars, o.bar)) > MaxHolding

\* evaluate_trade returns a row: there is a next bar, it does not open on the
\* stop (risk <= 0), and the trade ended or ran out of holding time.
Evaluable(o, bars) ==
    LET horizon == Horizon(bars, o.bar)
    IN  /\ \E t \in Minutes : t <= o.bar /\ Stored(bars[t])
        /\ horizon # {}
        /\ bars[First(horizon)] # "PINNED"
        /\ Exits(o, bars) # {} \/ Cardinality(horizon) = MaxHolding

Outcome(o, bars) ==
    LET horizon == Horizon(bars, o.bar)
        exits == Exits(o, bars)
        exit == IF exits # {} THEN First(exits) ELSE Last(horizon)
    IN  [side |-> Side(o.action), entry |-> First(horizon), exit |-> exit,
         outcome |-> IF exits # {}
                     THEN ExitBy(Side(o.action), bars[exit])
                     ELSE "TIMEOUT"]

Outcomes == [side : {"LONG", "SHORT"}, entry : Minutes, exit : Minutes,
             outcome : {"STOP", "STOP_GAP", "TARGET", "TIMEOUT"}]

Pending == {id \in DOMAIN observations : observations[id].status = "SIGNAL_PENDING"}

-----------------------------------------------------------------------------
(* Failure analysis and learning data. *)

FailureClass(outcome) ==
    CASE outcome \in {"STOP", "STOP_GAP"} -> "STOP"
      [] outcome = "TIMEOUT" -> "TIMEOUT"
      [] OTHER -> "WIN"

Label(row) == [entry |-> row.entry, label |-> IF row.outcome = "TARGET" THEN 1 ELSE 0]

\* [defect] no NOT EXISTS against feature_snapshots
UnprocessedOrNot ==
    {id \in DOMAIN observations \cap DOMAIN outcomes :
        observations[id].status = "EVALUATED"}

Unprocessed ==
    {id \in DOMAIN observations \cap DOMAIN outcomes :
        /\ observations[id].status = "EVALUATED"
        /\ snapshots[id] = <<>>}

\* [defect] always recomputed from the candles
SnapshotRecomputed(o) == FeatureVector(candles[o.instrument], o.bar)

\* The captured decision features; else, for a row that predates the capture,
\* the features of the stored candles at or before the observation's bar.
SnapshotOf(o) ==
    IF o.features # NotCaptured
    THEN o.features
    ELSE FeatureVector(candles[o.instrument], o.bar)

\* [defect] rows that predate the capture are always skipped
HasCapturedSnapshot(o) == o.features # NotCaptured

\* A recomputation is refused when the observation's own bar is not stored.
HasSnapshot(o) ==
    o.features # NotCaptured \/ Stored(candles[o.instrument][o.bar])

-----------------------------------------------------------------------------
(* Initial state: minute 1 is over and the journal may hold, for each       *)
(* instrument, one pending observation that predates feature capture.       *)

LegacyObservation(i, action) ==
    [instrument |-> i, bar |-> 1, version |-> "legacy", stale |-> "NONE",
     action |-> action, status |-> "SIGNAL_PENDING", features |-> NotCaptured]

Init ==
    /\ now = 2
    /\ \E first \in [Instruments -> Bars] :
       \E legacy \in SUBSET {i \in Instruments : Stored(first[i])} :
       \E action \in [legacy -> SignalActions \ {"NO_TRADE"}] :
            /\ candles = [i \in Instruments |->
                            [t \in Minutes |-> IF t = 1 THEN first[i] ELSE NoBar]]
            /\ observations =
                [id \in {DecisionId(i, 1, "legacy") : i \in legacy} |->
                    LegacyObservation(id[1], action[id[1]])]
    /\ outcomes = EmptyBatch
    /\ failures = EmptyBatch
    /\ snapshots = [id \in Ids |-> <<>>]
    /\ labels = [id \in Ids |-> <<>>]
    /\ pc = "idle"
    /\ job = "session"
    /\ batch = EmptyBatch
    /\ crashes = 0
    /\ revisions = 0

-----------------------------------------------------------------------------
(* The environment. *)

MinutePasses ==
    /\ now < MaxMinute
    /\ now' = now + 1
    /\ UNCHANGED <<candles, journal, pc, job, batch, crashes, revisions>>

SessionMinutes(date) == {t \in 1..now : TradingDate(t) = date /\ SessionOpen(t)}

\* upsert_candles: a bar that arrived is inserted or replaces the stored one.
Reconciled(answer) ==
    [i \in Instruments |-> [t \in Minutes |->
        IF <<i, t>> \in DOMAIN answer /\ Stored(answer[<<i, t>>])
        THEN answer[<<i, t>>] ELSE candles[i][t]]]

\* Stored bars that arrived with other values.
Changed(answer) ==
    {s \in DOMAIN answer : /\ Stored(candles[s[1]][s[2]])
                           /\ answer[s] \notin {NoBar, candles[s[1]][s[2]]}}

\* One ingestion pass. Each symbol is fetched on its own and may fail. What an ok
\* answer holds of today's session is the feed's affair: it may end minutes ago,
\* leave bars out, none may be left once unpriced bars are dropped, and any bar
\* may differ from what an earlier pass stored. The tick fails when fewer than
\* half of the symbols arrived.
RefreshCandles ==
    /\ pc = "idle"
    /\ SessionOpen(now)
    /\ \E ok \in SUBSET Instruments :
        /\ \E answer \in [ok \X SessionMinutes(TradingDate(now)) -> Bars] :
            /\ candles' = Reconciled(answer)
            /\ revisions' = revisions + Cardinality(Changed(answer))
            /\ revisions' <= MaxRevisions
        /\ pc' = IF 2 * Cardinality(ok) < Cardinality(Instruments)
                  THEN "idle" ELSE "observe"
    /\ UNCHANGED <<now, journal, job, batch, crashes>>

\* insert_candles, INSERT OR IGNORE: a bar that is already stored keeps its values.
FilledIn(answer) ==
    [i \in Instruments |-> [t \in Minutes |->
        IF <<i, t>> \in DOMAIN answer /\ ~Stored(candles[i][t])
        THEN answer[<<i, t>>] ELSE candles[i][t]]]

\* The morning backfill of an earlier date.
Backfill ==
    /\ pc = "idle"
    /\ \E date \in {TradingDate(t) : t \in 1..now} \ {TradingDate(now)} :
       \E answer \in [Instruments \X SessionMinutes(date) -> Bars] :
            candles' = FilledIn(answer)
    /\ candles' # candles
    /\ UNCHANGED <<now, journal, pc, job, batch, crashes, revisions>>

\* The running job is interrupted between two statements.
Crash ==
    /\ pc # "idle"
    /\ crashes < MaxCrashes
    /\ crashes' = crashes + 1
    /\ pc' = "idle"
    /\ job' = "session"
    /\ batch' = EmptyBatch
    /\ UNCHANGED <<now, candles, journal, revisions>>

-----------------------------------------------------------------------------
(* The statements of a tick. *)

\* The rows of one tick: an id per candidate, keyed by its latest stored bar.
TickRows(candidates, action) ==
    [id \in {DecisionId(i, LatestBar(i), "current") : i \in candidates} |->
        Observation(id[1], LatestBar(id[1]), action[id[1]])]

\* observe_once: score the candidates and INSERT OR IGNORE their rows. One
\* candidate without any stored bar aborts the tick before anything is written.
ObserveOnce ==
    /\ pc = "observe"
    /\ \E candidates \in SUBSET Instruments :
       \E action \in [candidates -> SignalActions] :
         IF \E i \in candidates : ~HasBars(i)
         THEN /\ pc' = "idle"
              /\ UNCHANGED observations
         ELSE LET rows == TickRows(candidates, action)
              IN  /\ observations' = InsertOrIgnore(observations, rows)
                  \* _check_tick_freshness: no row, or only stale ones
                  /\ pc' = IF \A id \in DOMAIN rows : rows[id].status = "STALE_DATA"
                           THEN "idle" ELSE "evaluate"
    /\ UNCHANGED <<now, candles, outcomes, failures, snapshots, labels, job, batch, crashes, revisions>>

\* The session's final evaluation, and the start of paper_close.
StartEvaluation(j) ==
    /\ pc = "idle"
    /\ pc' = "evaluate"
    /\ job' = j
    /\ UNCHANGED <<now, candles, journal, batch, crashes, revisions>>

Finalize == StartEvaluation("session")
StartClose == StartEvaluation("close")

AfterEvaluation == IF job = "close" THEN "failures" ELSE "idle"

\* evaluate_pending up to the first statement of persist_outcomes.
InsertOutcomes ==
    /\ pc = "evaluate"
    /\ LET done == {id \in Pending :
                        Evaluable(observations[id], candles[observations[id].instrument])}
       IN  /\ batch' = [id \in done |->
                            Outcome(observations[id], candles[observations[id].instrument])]
           /\ outcomes' = InsertOrIgnore(outcomes, batch')
           /\ pc' = IF done = {} THEN AfterEvaluation ELSE "mark"
    /\ UNCHANGED <<now, candles, observations, failures, snapshots, labels, job, crashes, revisions>>

\* [defect] the UPDATE is not restricted to the batch
MarkAllPending ==
    /\ pc = "mark"
    /\ observations' = [id \in DOMAIN observations |->
                            IF id \in Pending
                            THEN [observations[id] EXCEPT !.status = "EVALUATED"]
                            ELSE observations[id]]
    /\ batch' = EmptyBatch
    /\ pc' = AfterEvaluation
    /\ UNCHANGED <<now, candles, outcomes, failures, snapshots, labels, job, crashes, revisions>>

\* The second statement of persist_outcomes.
MarkEvaluated ==
    /\ pc = "mark"
    /\ observations' = [id \in DOMAIN observations |->
                            IF id \in DOMAIN batch
                            THEN [observations[id] EXCEPT !.status = "EVALUATED"]
                            ELSE observations[id]]
    /\ batch' = EmptyBatch
    /\ pc' = AfterEvaluation
    /\ UNCHANGED <<now, candles, outcomes, failures, snapshots, labels, job, crashes, revisions>>

-----------------------------------------------------------------------------
(* The statements of the close. *)

BuildFailureAnalysis ==
    /\ pc = "failures"
    /\ failures' = InsertOrIgnore(failures,
                      [id \in DOMAIN outcomes \cap DOMAIN observations |->
                        [outcome |-> outcomes[id].outcome,
                         class |-> FailureClass(outcomes[id].outcome)]])
    /\ pc' = "snapshots"
    /\ job' = "session"
    /\ UNCHANGED <<now, candles, observations, outcomes, snapshots, labels, batch, crashes, revisions>>

InsertSnapshots ==
    /\ pc = "snapshots"
    /\ LET made == {id \in Unprocessed : HasSnapshot(observations[id])}
       IN  /\ snapshots' = InsertRows(snapshots,
                             [id \in made |-> SnapshotOf(observations[id])])
           /\ batch' = [id \in made |-> Label(outcomes[id])]
           /\ pc' = IF made = {} THEN "idle" ELSE "labels"
    /\ UNCHANGED <<now, candles, observations, outcomes, failures, labels, job, crashes, revisions>>

InsertLabels ==
    /\ pc = "labels"
    /\ labels' = InsertRows(labels, batch)
    /\ batch' = EmptyBatch
    /\ pc' = "idle"
    /\ UNCHANGED <<now, candles, observations, outcomes, failures, snapshots, job, crashes, revisions>>

-----------------------------------------------------------------------------

Next ==
    \/ MinutePasses
    \/ RefreshCandles
    \/ Backfill
    \/ Crash
    \/ ObserveOnce
    \/ Finalize
    \/ StartClose
    \/ InsertOutcomes
    \/ MarkEvaluated
    \/ BuildFailureAnalysis
    \/ InsertSnapshots
    \/ InsertLabels

Spec == Init /\ [][Next]_vars

\* Time passes, a started job runs on, and the close is started again and again
\* (the workflow runs it every trading day). Nothing is assumed of the feed.
Fairness ==
    /\ WF_vars(MinutePasses)
    /\ SF_vars(StartClose)
    /\ WF_vars(ObserveOnce)
    /\ WF_vars(InsertOutcomes)
    /\ WF_vars(MarkEvaluated)
    /\ WF_vars(BuildFailureAnalysis)
    /\ WF_vars(InsertSnapshots)
    /\ WF_vars(InsertLabels)

FairSpec == Spec /\ Fairness

-----------------------------------------------------------------------------
(* Properties. *)

Rows == [instrument : Instruments, bar : Minutes, version : Versions,
         stale : StaleReasons, action : SignalActions, status : Statuses,
         features : Seq(Bars)]

\* Every table and job variable holds a value of its domain; paper_observations,
\* paper_outcomes and paper_failure_analysis are keyed by observation ids.
TypeOK ==
    /\ now \in Minutes
    /\ candles \in [Instruments -> [Minutes -> Bars]]
    /\ DOMAIN observations \subseteq Ids
    /\ \A id \in DOMAIN observations : observations[id] \in Rows
    /\ DOMAIN outcomes \subseteq Ids
    /\ \A id \in DOMAIN outcomes : outcomes[id] \in Outcomes
    /\ DOMAIN failures \subseteq Ids
    /\ \A id \in DOMAIN failures : failures[id].class \in {"STOP", "TIMEOUT", "WIN"}
    /\ DOMAIN snapshots = Ids
    /\ DOMAIN labels = Ids
    /\ pc \in {"idle", "observe", "evaluate", "mark", "failures", "snapshots", "labels"}
    /\ job \in {"session", "close"}
    /\ DOMAIN batch \subseteq Ids
    /\ crashes \in 0..MaxCrashes
    /\ revisions <= MaxRevisions

\* Replayed ticks never record a second economic decision: one code version
\* decides at most once on one bar of one instrument (_decision_observation_id).
OneDecisionPerBar ==
    \A a, b \in DOMAIN observations :
        /\ observations[a].instrument = observations[b].instrument
        /\ observations[a].bar = observations[b].bar
        /\ observations[a].version = observations[b].version
        => a = b

\* A decision made on stale data never becomes a trade: nothing is ever written
\* about it downstream, however the bar and the clock move on (build_observation).
StaleNeverTraded ==
    \A id \in DOMAIN observations :
        observations[id].stale # "NONE" =>
            /\ observations[id].status = "STALE_DATA"
            /\ id \notin DOMAIN outcomes \cup DOMAIN failures
            /\ snapshots[id] = <<>> /\ labels[id] = <<>>

\* No look-ahead and no orphan: an outcome belongs to a recorded decision, on
\* that decision's side, entered strictly after the decision bar and left no
\* earlier than it was entered (evaluate_trade).
OutcomeFollowsDecision ==
    \A id \in DOMAIN outcomes :
        /\ id \in DOMAIN observations
        /\ observations[id].action \in {"BUY", "SELL"}
        /\ outcomes[id].side = Side(observations[id].action)
        /\ observations[id].bar < outcomes[id].entry
        /\ outcomes[id].entry <= outcomes[id].exit

EvaluatedHasOutcome ==
    \A id \in DOMAIN observations :
        observations[id].status = "EVALUATED" => id \in DOMAIN outcomes

\* An observation is EVALUATED only once its outcome is durable, whichever statement
\* of persist_outcomes a crash follows, and the derived tables tell the same story
\* as the outcome table, although they are copies made by other jobs and candles are
\* revised in between.
JournalAgrees ==
    /\ EvaluatedHasOutcome
    /\ \A id \in DOMAIN failures :
        /\ id \in DOMAIN outcomes
        /\ failures[id].outcome = outcomes[id].outcome
    /\ \A id \in Ids : \A n \in DOMAIN labels[id] :
        /\ id \in DOMAIN outcomes
        /\ labels[id][n] = Label(outcomes[id])

\* A feature snapshot is what the decision saw when it was made, never a later
\* recomputation, and never anything after the decision bar (learning_pipeline).
SnapshotIsDecision ==
    \A id \in Ids : \A n \in DOMAIN snapshots[id] :
        /\ DOMAIN snapshots[id][n] = 1..observations[id].bar
        /\ observations[id].features # NotCaptured =>
              snapshots[id][n] = observations[id].features

\* Learning data is not duplicated by re-running the pipeline, and no label
\* exists without its snapshot.
LearnedOnce ==
    \A id \in Ids : Len(labels[id]) <= Len(snapshots[id]) /\ Len(snapshots[id]) <= 1

DecisionsKept ==
    \A id \in DOMAIN observations :
        /\ id \in DOMAIN observations'
        /\ \/ observations'[id] = observations[id]
           \/ /\ observations[id].status = "SIGNAL_PENDING"
              /\ observations'[id] = [observations[id] EXCEPT !.status = "EVALUATED"]

OutcomesKept ==
    \A id \in DOMAIN outcomes :
        id \in DOMAIN outcomes' /\ outcomes'[id] = outcomes[id]

\* What was decided and what happened are never rewritten: an observation only
\* changes from SIGNAL_PENDING to EVALUATED, and an outcome stays as first recorded
\* even when a crash makes a later tick evaluate the same trade on revised candles.
JournalImmutable == [][DecisionsKept /\ OutcomesKept]_vars

StatusOf(id) == IF id \in DOMAIN observations THEN observations[id].status ELSE "ABSENT"

\* Every bar of the holding period is stored.
HorizonComplete(id) ==
    /\ StatusOf(id) = "SIGNAL_PENDING"
    /\ Cardinality(Horizon(candles[observations[id].instrument], observations[id].bar))
            = MaxHolding

ZeroRisk(id) ==
    /\ HorizonComplete(id)
    /\ LET bars == candles[observations[id].instrument]
       IN  bars[First(Horizon(bars, observations[id].bar))] = "PINNED"

\* A trade whose whole holding period is stored is eventually evaluated, however
\* often its bars are still revised or filled in, unless its entry bar opens
\* exactly on its stop.
PendingEventuallyEvaluated ==
    \A id \in Ids :
        HorizonComplete(id) ~> StatusOf(id) = "EVALUATED" \/ ZeroRisk(id)

\* Every evaluated trade eventually has its feature snapshot.
EvaluatedEventuallySnapshotted ==
    \A id \in Ids : StatusOf(id) = "EVALUATED" ~> snapshots[id] # <<>>

\* Every evaluated trade eventually has its training label, with "no manual
\* bookkeeping" (build_feature_snapshots_and_labels' docstring).
EvaluatedEventuallyLabelled ==
    \A id \in Ids : StatusOf(id) = "EVALUATED" ~> labels[id] # <<>>

=============================================================================
