# Verification of the intraday trading engine

TLA+ models of the research and paper-trading engine in `src/`, TLC runs that
check them on small instances, and TLAPS proofs of the most important results
for every value of the constants. The engine places no live orders; what has to
be right is its *evidence*: decisions recorded once and never rewritten,
outcomes that follow from the bars and nothing else, two simulators that agree,
a warehouse that forgets nothing, and a scheduled workflow that neither loses a
good day nor keeps a bad one.

Contents: [the system](#the-system) ·
[modules](#modules-and-what-they-model) · [runs](#runs) · [bounds](#bounds) ·
[fairness](#fairness) · [proofs](#proofs) ·
[only model-checked](#only-model-checked) · [findings](#findings) ·
[other observations](#other-observations) · [not modelled](#not-modelled) ·
[plan](#plan)

## The system

Batch jobs in one Python process at a time share one DuckDB file. Every SQL
statement autocommits and every helper opens its own connection, so a killed
process, or an exception that skips the rest of a job, leaves whatever
statements came before. The database lives on a CI runner; what survives the
runner is a directory of Parquet partitions uploaded as an artifact.

| component | source | state | operations | what makes it correct |
|---|---|---|---|---|
| market API client | `market/upstox.py` | attempt of the current request | `_get` with retries and doubled pauses, `resolve_equity` with aliases, `_frame` | a retry ends, and outlasts a short outage |
| instruments | `market/universe.py`, `scanner/service.py`, `storage/db.py` | `instrument_master`, its history | resolve, then two statements | what a key ever stood for stays known |
| candle store, ingestion | `market/ingestion.py`, `market/candles.py`, `market/backfill.py`, `storage/db.py` | `candles`, `ingestion_runs`, `data_quality_events` | intraday upsert of the whole day, backfill with `INSERT OR IGNORE`, record, events and verdict of a pass | a later bar never changes an earlier decision; a changed bar and a bad pass are noticed |
| paper observer | `research/paper_observer.py` | `paper_observations` | `observe_once`: one row per candidate with the newest stored bar | one decision per bar and version; nothing stale is traded |
| outcome evaluation | `research/paper_outcomes.py` | `paper_outcomes`, `status` | `evaluate_trade`, `persist_outcomes` (insert, then update) | no look-ahead, outcome and status agree after any crash |
| failure analysis | `research/paper_learning.py` | `paper_failure_analysis` | copy and classify outcomes | the copy tells the same story |
| learning pipeline | `research/learning_pipeline.py` | `feature_snapshots`, `training_labels` (no keys) | two inserts for every unprocessed outcome | each trade learned once, from what the decision saw |
| paper session | `scripts/paper_session.py`, `scripts/paper_close.py` | clock, tick counters | wait for the open, ticks until the window closes, final evaluation, health verdict | it ends in time, a broken window fails the run, a bad tick does not |
| research workflow | `.github/workflows/paper-research.yml`, `research/daily_cycle.py`, `research/monitoring.py`, `research/paper_diagnostics.py` | newest artifact, reports | restore, bootstrap, two windows, close, reports, persist, upload | what is uploaded is healthy and continues what was uploaded before |
| warehouse | `storage/warehouse/*.py` | partition files, `manifest.json`, `_schema_version.json` | `persist_warehouse`, `restore_warehouse` | a durable ledger: what is recorded is recovered, all of it |
| backtest | `backtest/engine.py` | `active_until`, trades, equity | `_simulate_one`, `backtest_signals`, `_metrics` | the same trade as paper evaluation; one trade of a symbol at a time |
| training label of a path | `ml/labels.py` | none | `label_forward_path` | the same exit as the simulators |
| paper broker | `paper/simulator.py` | capital, positions, day, halt | `open`, `mark`, `force_close`, `status` | books balance, the loss halt holds for its date, budgets hold |
| signal engine | `signals/engine.py` | none | `_score`, `_structural_stop`, `generate_signal` | stop and target enclose the entry; structure is not outvoted |
| point-in-time features | `strategy/point_in_time.py` | none | centered pivots, shifted to their confirmation | nothing of a row depends on a later bar |
| snapshot structure | `patterns/market_structure.py` | none | pivots, levels, trend, again, over a smaller window | no bar after its row; its levels stand on a known side of the signal's |

How they interact: a tick ingests, observes, then evaluates; the close
evaluates, analyses failures and builds learning data; all through the tables.
The observer calls the point-in-time features and the signal engine on the bars
stored so far, a backtest on whole histories. The workflow calls everything in
order and moves the warehouse between runners.

Hard behaviours: statements separated by a crash; the same bar decided on, or
the same trade evaluated, again after a failure; bars revised after they were
used, or filled in before them; a feed that lags; pivots that need bars of the future; a halt that must survive later
operations and end with the day; two implementations of one rule; a check that
is skipped when "nothing changed"; files that are renamed and rewritten one at
a time. `PROJECT.json` lists each at its line under `hazards`.

## Modules and what they model

| module | what it is | in the code |
|---|---|---|
| `PaperJournal` | the tables of the journal, one action per SQL statement, a crash between any two | observer, evaluation, failure analysis, learning pipeline, ingestion and backfill of bars |
| `ExecutionModel` | pure operators: the incremental simulator, the backtest's one-pass simulator, the label of a path, on integer OHLC bars | `evaluate_trade`, `_simulate_one`, `label_forward_path` |
| `TradeReplay` | one signal while its bars arrive, late ones between stored ones, and are revised; extends `ExecutionModel` | evaluation of pending trades against stored bars |
| `Backtest` | the loop over signals and the metrics loop; extends `ExecutionModel` | `backtest_signals`, `_metrics` |
| `Warehouse` | the directory, one action per file operation, kills before, between and inside them, lost databases | `persist.py`, `restore.py`, `manifest.py` |
| `PaperSession` | one window on the clock: waiting, ticks, each request with its retries, an outage of the API, the verdict | `paper_session.main`, `UpstoxREST._get`, the requests of `_run_once` |
| `MarketFeed` | what the API delivers and what is stored of it, one action per statement or symbol, an interruption between any two | `ingestion.py`, `candles.py`, `backfill.py`, `universe.py`, `_ensure_instrument_master`, the inserts of `db.py` |
| `DurableLedger` | what the warehouse promises, without files or crashes; `Warehouse` implements it | the docstrings of `storage/warehouse` |
| `PaperBroker` | the account and its positions, one operator per public method | `paper/simulator.py` |
| `ResearchWorkflow` | the steps of both jobs, ingestion history, monitoring and its fingerprint, the artifact | the workflow and the modules it calls |
| `SignalEngine` | one row of features to a decision | `signals/engine.py` |
| `PointInTime` | a history to which bars are added, filled in and revised, and the decisions made live; extends `SignalEngine` | `strategy/point_in_time.py`, `_signal_for_symbol` |
| `MarketStructure` | the other pivots, levels and trend, with their own window over the same history; extends `PointInTime` | `add_market_structure` |
| `MC…` | constants for TLC | |
| `…Proofs` | theorems of the module they are named after; `SimulatorProofs` holds those of `ExecutionModel`, `TradeReplay` and `Backtest` | |

State and actions keep the names of the code where TLA+ allows it, and
`PROJECT.json` `map` gives the lines of each definition. Some
correspondences that are not obvious:

* **PaperJournal.** `pc` is the statement the running job executes next, `job`
  whether it is a session tick or the close, `batch` the data frame held between
  two statements. `InsertOutcomes` and `MarkEvaluated` are the two statements of
  `persist_outcomes`, `InsertSnapshots` and `InsertLabels` the two inserts of the
  learning pipeline. `ObserveOnce` takes an arbitrary set of candidates and
  arbitrary signals, in place of scanner and signal engine. A bar is reduced to
  what a trade tells apart: quiet, takes out the level above, the one below, or
  opens exactly on the recorded stop; `TradeReplay` has real prices. What a pass
  of the session brings is the feed's affair: for the symbols that answered, any of
  today's bars, none of them, or not the newest, each with the values stored
  before or with others (`RefreshCandles`); `Backfill` brings any missing bars of an
  earlier date. The
  initial journal may hold one pending row per instrument from before feature
  vectors were captured. Rows of the failure analysis are always of the current
  classifier version in this model, so `rebuild_stale_failure_classifications`
  would change nothing and is left out.
* **Warehouse.** A partition's content is its set of rows and equal contents have
  equal checksums; rows are only added, a revised candle being one more member.
  `dbState` tells a database whose restore was killed from a whole one; no guard of
  the jobs or of persist can see the difference, and such a database is worked on and
  persisted like any other. `begun` is a history variable: the partitions worked on
  while rows that the manifest records were absent.
  `TruncateManifest`/`WriteManifest` are the two halves of `Path.write_text`. In
  CI a killed job loses the directory together with the runner; this module, like
  `tests/test_warehouse_recovery.py`, describes a directory that survives the
  process, as on a machine where the scripts are run by hand. The CI case is
  `ResearchWorkflow`.
* **ResearchWorkflow.** The database is reduced to what decides the workflow:
  ingestion runs, the evaluated sample and the monitoring reports. `Abort` throws
  the runner away with all of it. The midday hand-over between the two jobs is
  within one run and loses nothing.
* **PaperSession.** Seconds are the unit of the clock. A request is one call and its
  retries; `attempt` is the code's, `todo` the requests of the current phase: the
  candles of each instrument, up to two searches for each configured symbol that
  has none, the quotes. A call takes 0 to `AttemptTime` seconds, and one that meets
  the outage may time out, be refused, or be answered with a status that is
  retried; also then it may succeed. Without an outage calls fail too, but not in
  a way that is retried. `AttemptTime` and `WorkTime` are assumptions: the timeout
  of `requests` limits each wait for bytes, not an answer. A session starts at any
  second up to its end, which is what the bootstrap and a late runner amount to;
  `--once` is one tick of it. `sound` and `lost` are history variables: the passes
  that were usable, and whether a request was given up because of the outage.
* **MarketFeed.** A body is a sequence of rows of a slot and a bar; a bar is one of
  a few values that the checks tell apart: sound, crossed, negative volume, without
  price. `Frames` keeps any one of the rows with the same time, because the code
  sorts with an unstable sort before it keeps the last. `todo` holds the symbols,
  requests or statements a job has left; their order is fixed and arbitrary.
  `changed` and `verdicts` are history variables. Slots stand for minutes in a
  pass and for days in the windows of a backfill. `scripts/backfill_history.py`,
  a second backfill that asks for one window and skips symbols that fail, is not
  a job of its own.
* **PaperBroker.** Prices, capital and slippage are integers; rates are in
  thousandths, products are compared instead of quotients. Callers pass dates in
  order: `tradingDate` never goes back, as with a clock.
* **ExecutionModel / Backtest.** Prices are integers. Ratios (win rate, profit
  factor, percentages) are left out, no decision reads them.
* **PointInTime / SignalEngine.** The window of a pivot is `rolling(left + right +
  1, center=True)`: it reaches `Ahead` rows forward and `Behind` rows back, whatever
  `Left` and `Right` are, while the pivot is moved by `Right` rows. `live` holds the
  decisions whose bars are as they were: a bar that is revised, or filled in, takes
  those on and after it away, because the observer saw another history. The pieces
  of evidence of `_score` are votes of -1, 0 and 1 with the code's weights; RSI and
  ADX thresholds, candle shapes and volumes are not computed. Moving averages and
  the ATR are silent until they have their rows. Rows of this path carry no
  `structure_trend` and no double tops, so `_score` falls back on the trend, as the
  code does. The market score is one constant for a history.
* **MarketStructure.** Slopes and double tops are left out. Its memory is
  `LevelLookback` rows and its trend reads the last eight pivots. Its window is its
  own: `feature_engine.py:55` takes the default of two and two bars,
  `paper_observer.py:242` that of three and three for the signal. The assumption
  `SnapWindowAssumption` says no more than that the first lies inside the second.

Definitions marked `[defect]` are plausible mistakes in the definition that
follows them. Nothing uses them; each shows which property would catch it.

## Runs

| run | asks | states |
|---|---|---|
| `journal_crash` | Do the tables agree, is nothing decided, learned or rewritten twice, and is every trade whose holding period is stored eventually evaluated and snapshotted, with an interrupted job, a feed that lags and revises, backfill and a date boundary? | 82,440 |
| `warehouse_crash` | Is the directory a durable ledger, is damage confined to one partition for each kill, and does a repeated persist heal it, half-restored databases included? | 278,476 |
| `broker` | Do books, halt, limit of positions and budgets hold for any order of operations on three symbols over two dates? | 17,283 |
| `workflow_days` | Is what two runs upload healthy and continuous, and is a day that closed with complete ingestion durable? | 450,394 |
| `replay` | Do evaluation, backtest and label agree for every side, level, slippage and sequence of bars, in whatever order they arrive? | 333,748 |
| `backtest` | Is it one trade of a symbol at a time, and the drawdown of the realised equity? | 95,472 |
| `signals` | Does a backtest repeat every live decision whose bars are as they were, are levels in order, is the trend respected, and where do a snapshot's levels stand? | 263,257 |
| `session` | Does a session end in time, keep its rate, ride out a short outage and not call a long one healthy? | 307,394 |
| `feed` | Is every mapping traceable, every changed bar reported, every rejected pass visible and every backfill complete, with odd bodies and an interrupted job? | 418,135 |
| `journal_torn_labels`, `warehouse_unusable`, `workflow_tolerated` | the [findings](#findings): each finds the counterexample | |

What the properties say, grouped by what would go wrong:

* *Recorded twice or rewritten*: `OneDecisionPerBar`, `JournalImmutable`,
  `LearnedOnce`, `TermsNeverChange`, `HistoryKept`, `ImplementsLedger`.
* *Copies that disagree*: `JournalAgrees`, `SnapshotIsDecision`,
  `PaperMatchesBacktest`, `LabelAgrees`, `LevelsNested`, `BooksBalance`.
* *Look-ahead and staleness*: `StaleNeverTraded`, `OutcomeFollowsDecision`,
  `LiveIsBacktest`.
* *Limits*: `NoOpenAfterLossLimit`, `HaltHasCause`, `OpenedWithinBudget`,
  `OneTradeAtATime`, `SignalGeometry`, `NeverAgainstTrend`, `ExcursionsBoundPnl`,
  `EndsOnTime`, `RateKept`, `BackfillCovers`.
* *Something that must happen, or must not be skipped*: `WaitsForHorizon`,
  `PendingEventuallyEvaluated`, `EvaluatedEventuallySnapshotted`, `RetryHeals`,
  `CompleteDayIsDurable`, `StampOnlyWhenComplete`, `DurableIsHealthy`,
  `DamageConfined`, `DrawdownIsDeepestFall`, `BlipsAreRiddenOut`, `SessionEnds`.
* *Something wrong that must not look right*: `OutageIsNoticed`, `PassIsVisible`,
  `RevisionAudited`, `MappingTraceable`.

Every module with variables has a type invariant, and each of them is proved.
`UntradedHasReason`, `SlippageIsCost`, `RevisionsAreReal`, `CheckIsMade` and
`SnapshotIsCausal` are proved and not run. `RecordedRowsKept`, `HaltedAfterLoss` and
`PositionsWithinLimit` are proved and not run: the first follows from the ledger,
the others are steps of the argument for properties that are run.

## Bounds

* *Journal.* One instrument: no statement relates two, apart from an observer
  tick that is all or nothing and an ingestion pass that counts failures. A date
  of two session minutes, a minute of night, and the first minute of the next date.
  With a feed that may lag that is enough for a decision whose holding period
  crosses the night and is stored, a stale bar of the day before, a stale bar of the
  same day (in the second minute the newest bar is the first; `MaxBarAge` is 0), a
  candidate without candles, a bar revised after a decision or after an outcome, and
  a backfill that fills a gap; each was seen in the run. One interrupted job
  and one revised bar: what the second of either could disturb is covered by
  the proofs, which hold for any number of either. Bars are quiet or open exactly on the stop, the
  holding period is one bar; what longer periods and other bars do to an outcome is the
  subject of `replay`. A third session minute makes the run more than ten times as
  large.
* *Session.* Two symbols, any number of them with an instrument at the start, two
  retries with pauses of one and two seconds, calls of at most one second. The
  window is eleven seconds for an interval of five: three ticks when none
  overruns, and a tick that overruns when the outage is long. Outages: none, one
  in the second tick that a request outlasts by a second, exactly, or not, one
  from before the open, and two that do not end in the window.
* *Feed.* Two symbols, two keys, so that a symbol changes its key or takes over
  another's; three slots, one of them after the session; six bodies, from empty
  over a time given twice to a missing price; three jobs, at most two of them
  passes, and one interruption: a sync, a pass and a backfill, or a pass before and
  after a second sync. Windows of two slots for ranges of one to three.
* *Warehouse.* Two tables, one of them with two partitions: a kill within a
  table, between tables and in the last one are different places. Two rows, two
  kills, two lost databases: a kill while an earlier kill is being repaired, and a kill
  of a restore whose database is worked on and persisted.
  Initial stamps are a compatible older and an incompatible newer version.
* *Broker.* Three symbols for two positions; four openings; prices that give a
  gap, a loss within and beyond the limit, and zero.
* *Workflow.* Two runs in three days, windows of two ticks, one step that fails
  of itself; the threshold of consecutive failures is two here and the period two
  days, so that both are reached. A tick that fails because of unusable ingestion
  leaves exactly what one leaves that fails after usable ingestion with the same
  status, so that `CLEAN` and `TOLERATED` suffice. The retention is one day, so that
  on the third day an artifact of the first has expired and one of the second has
  not; in the workflow it is 90 days.
* *Replay.* Prices 1 to 3: two bars can differ in every comparison an exit rule
  makes, with a price between two levels. Three bars for a holding period of two.
* *Backtest.* Two symbols, four minutes, one symbol with a missing minute or
  without bars at all; all sets of signals in three minutes.
* *Signals.* Histories of eight bars of three kinds: with pivots found in windows
  of four rows (two to the left, one to the right) two confirmed highs and two
  confirmed lows fit in, so that trends, and signals with a trend and levels, occur.
  The windows of the snapshot have three rows, inside the signal's (in the code five
  inside seven). One bar revised or filled in.
  Pivot memory of four rows, so that pivots are forgotten. Not reached: the cut of the
  structure at eight pivots.

## Fairness

* `PaperJournal!FairSpec`: time passes, a started job runs on, and the close is
  started again and again (strong fairness, because ticks may always be running
  when it is due); the workflow runs the close every trading day, and
  `paper_close` can be repeated by hand. Nothing is assumed of ingestion or of
  the feed: properties speak of trades whose bars are stored.
* `Warehouse!FairSpec`: a started process runs on, an interrupted persist is
  started again (strong: work on the database, or a restore, may interrupt its being
  enabled). Nothing is assumed of restores. Kills and losses are bounded, as "finally
  left alone" requires.
* `PaperSession!FairSpec`: the process runs on; `Interrupt` is never forced. Calls
  end, because `requests` has a timeout.
* `ResearchWorkflow!FairSpec`: a step that is reached runs and the schedule
  starts the next run. No fairness for `Tick`: a window may close without any.
  `StepFails` is never forced, and `CompleteDayIsDurable` excuses the behaviours
  in which it happens.

## Proofs

`tlapm` checks every proof to the last leaf. Assumptions are the named `ASSUME`s
of the modules; TLC evaluates each of them in the runs.

| module | proved | argument |
|---|---|---|
| `PaperJournalProofs` | `TypeOK` and the seven safety properties of `journal_crash`, for every universe, calendar, holding period, feed and number of crashes and revisions | `IInv`: rows stand under their key and carry a status that fits their staleness (`RowsInv`); every outcome fits a pending or evaluated decision (`FlowInv`); learning data is nothing, a snapshot, or a snapshot and its label (`LearnInv`); and what a job holds between two statements is still valid when it writes it (`BatchInv`). The last part is what makes the others inductive: other statements run between a job's reads and its writes only after a crash, and a crash drops the batch. |
| `WarehouseProofs` | `TypeOK`; the stamp is last; `Warehouse` implements `DurableLedger`; nothing recorded is forgotten; `DamageConfined`, each kill damages at most one partition (there is at least one table) | `PersistInv`: during a persist the dict in memory differs from the manifest in at most the partition just renamed, and all partitions passed are recorded. `LoadInv`: during a restore the tables passed are loaded as recorded, the others empty. Each action then maps to a step of the ledger or to a stutter, a restore that begins to the loss of the database before it, and the ledger's own invariant gives the rest: outside `begun` a partition of the database that has rows lacks no recorded one, also in a half-restored database. `DamageInv`: the damaged partitions other than the one in flight are covered by one partition per kill; a kill adds the one in flight to the cover. |
| `PaperBrokerProofs` | `TypeOK`, `BooksBalance`, `HaltedAfterLoss`, `NoOpenAfterLossLimit`, `HaltHasCause`, `PositionsWithinLimit`, `TermsNeverChange`, `OpenedWithinBudget`, for every capital, slippage and limit the constructor accepts | the books are inductive; the halt needs that a loss is never dated ahead of the account (`HaltInv`) and its cause that a limit is reached only by a loss or without capital (`CauseInv`); budgets follow from arithmetic about truncated division |
| `SimulatorProofs`, of `ExecutionModel` | the two simulators make the same trade on every path; the incremental one waits exactly where the backtest has no trade or times out early; results lie within the excursions; slippage only costs; the label names the exit | case analysis on the first bar that reaches a level, for sequences of any length, without induction: both definitions choose the first such bar |
| …, of `TradeReplay` | `ReplayTypeOK`, the four properties of `replay` and `SlippageIsCost` | an outcome is `EvaluateTrade` of the bars it rests on unless one of those was revised or a bar was stored among or before them (`changed`, `Final`), then the theorems above |
| …, of `Backtest` | `TypeOK`, `OneTradeAtATime`, `UntradedHasReason`, `DrawdownIsDeepestFall` for any number of trades | signals looked at come before the others, and `active_until` is the exit of the symbol's last trade. Trades of one symbol do not overlap, so the order of exits is total and the metrics loop takes the next one in it (`NextTradeIs`, `CountedInv`). `AccountInv`: equity is the sum over the trades taken in, the peak one of the earlier equities, the drawdown the deepest of the falls so far (`Falls`); the falls to the next equity are no deeper than that from the peak. |
| `PointInTimeProofs` | `TypeOK`, `LiveIsBacktest`, `SignalGeometry`, `NeverAgainstTrend` for every window, threshold and set of bars; that `Left <= Right + 1` is enough for their condition `NothingAhead`; `LevelsNested` and `SnapshotIsCausal` for every lookback and every window of a snapshot inside the signal's | a row reads only the bars up to it: a window that ends before the row its pivot is moved to is the same in two histories that agree up to that row, so rows, and decisions, are; and every action leaves the history as it was up to the decisions `live` keeps (`DecidedKeepsIInv`). Geometry and trend are then facts about `GenerateSignal`. A pivot of the signal without a tie is one of the snapshot, whose window is smaller (`OnlyIsStrict`), so its value is among those the snapshot takes the largest of (`LevelsAgree`). |
| `PaperSessionProofs` | `TypeOK`, `EndsOnTime`, `RateKept`, `BlipsAreRiddenOut`, `OutageIsNoticed`, for every universe, backoff, interval, window and outage | `TimeInv` bounds the clock by the start of the tick, the finished requests times the longest request, and what the current one has used of it: with at most two requests for each symbol left (`CountInv`) that gives the end of a tick, and a tick starts within the window. `RateInv` is the rate as of the next start. `BlipInv`: the calls of a request that have failed lie in the outage, so that its length is at least the pauses between them. `SoundInv`: a tick counts as good only after a usable pass. |
| `ResearchWorkflowProofs` | `TypeOK`, `DurableIsHealthy`, `HistoryKept`, and that monitoring is never skipped in a run (`CheckIsMade`), for every threshold, retention, window and pattern of failures | `HealthInv`: reports are healthy but for the one a run has just failed with, which goes down with its runner, and a run gets to the upload only below the threshold. `KeptInv`: until the artifact expires, the database of a running job continues it. `NewsInv`: no report's fingerprint is ahead of the ingestion history, and from the bootstrap on the history of a run is ahead of every report, so that the fingerprint is new when monitoring looks. |
| `MarketFeedProofs` | `TypeOK`, `MappingTraceable`, `RevisionAudited`, `PassIsVisible`, `BackfillCovers`, and that no revision is reported falsely (`RevisionsAreReal`), for any finite set of symbols and any keys, slots, bodies, windows and stops | `SyncInv`: a key that is about to replace another is in the history already. `PassInv`: a pass asks for each symbol once, so that its results keep what it changed until the verdict, and each event they call for is recorded or due. `AlarmInv` is the converse. `BackfillInv`: a slot has been asked for exactly if no request left covers it; windows are consecutive multiples, which cover a range and are disjoint (`WindowsCover`, `WindowsApart`). |

Every invariant and every action property of a passing run is proved, and so is the
refinement.

Why invariants had to be strengthened: none of the properties about copies
(`JournalAgrees`, `LearnedOnce`, `ImplementsLedger`, `HistoryKept`, `PassIsVisible`)
is inductive, because each depends on what a process holds in memory between two
durable steps.

Sums over sets are recursive, and induction over data is out of the prover's reach:
the induction theorems of the library have an operator as a parameter. The equity of
a backtest is such a sum. That it does not depend on the order of the trades
(`TotalWithout`) is proved from a smallest set of trades for which it would:
a well-founded relation gives that set (`SmallestSubset`), and it cannot exist.

## Only model-checked

Liveness, for which the prover has no rule: `PendingEventuallyEvaluated` and
`EvaluatedEventuallySnapshotted` of the journal, `RetryHeals` of the warehouse,
`CompleteDayIsDurable` of the workflow and `SessionEnds`. The three
[findings](#findings) are counterexamples and need no proof.

## Findings

1. **A torn learning write is never completed** (`journal_torn_labels`).
   `build_feature_snapshots_and_labels` selects trades *without snapshot* and
   then inserts snapshots and labels in two statements. Stopped in between, the
   trade has a snapshot, is never selected again, and its training label is
   never written.
2. **A kill leaves a warehouse that restore refuses** (`warehouse_unusable`).
   After the rename of a partition that was recorded before, and until
   `manifest.json` is saved, file and checksum disagree. A persist from the
   same database heals it; without the database the directory cannot be restored.
   `DamageConfined` and `RetryHeals` delimit the harm.
3. **Tolerated ingestion fails the day** (`workflow_tolerated`).
   `assess_ingestion_results` lets a pass go on in which a few symbols failed,
   but the row it leaves says `PARTIAL`, monitoring counts everything but
   `SUCCESS` as failed, and three such passes in a row fail the job before the
   warehouse is persisted.

## Other observations

Met while reading and modelling; stated here without a run of their own.

* An entry exactly on the stop makes `evaluate_trade` return `None`
  (`paper_outcomes.py:92`), which its caller takes for "not yet": the
  observation stays pending forever. `PendingEventuallyEvaluated` excludes it.
* An artifact that expired is taken for the first run ever
  (`paper-research.yml:57`), although the comment above (46-48) wants anything
  but a first run to fail. `HistoryKept` says that this is the only way to lose history,
  and its run includes an expiry.
* `manifest.json` and the stamp are rewritten in place: a kill inside the write
  leaves JSON that neither persist nor restore can read, and no retry heals.
* Nothing marks a database whose restore was killed: it has all tables and the rows of
  some. Jobs that add to a partition that was not loaded yet, and the next persist,
  replace the partition's recorded rows by the new ones (`restore.py:113-152`,
  `persist.py:98`). `ImplementsLedger` says that this, and only this, forgets.
* Persist compares a partition with its manifest entry, never with the file
  (`persist.py:143-150`). If a killed persist left another file in place, and after a
  killed restore the rows collected anew happen to equal the entry, the partition is
  skipped and the directory stays one that restore refuses. `RetryHeals` excuses
  exactly that (`TakenForUnchanged`).
* A report that says unhealthy is never durable: it is written before the
  exception that throws the runner away (`monitoring.py:251-255`).
* In CI a monitoring run never skips: the bootstrap has always added an ingestion
  run (`CheckIsNeverSkipped`). The skip matters for repeated runs by hand.
* A window without a single tick is judged healthy (`paper_session.py:101`).
* With `pivot_left` two or more above `pivot_right` the centered window reaches beyond
  the row its pivots are moved to (`point_in_time.py:13-15`), and the docstring
  "without using information after each row's timestamp" (`:59`) is not true. No
  caller gives such windows; the theorems have the condition `NothingAhead`.
* Trend and levels of a recomputed snapshot differ from the signal's on ordinary
  histories, for one window has five rows and the other seven;
  `feature_engine.py:68-74` says so. `LevelsNested` is what holds of them.
* In the first thirteen rows ATR is NaN and every comparison with it false: the
  blocker `atr <= 0`, the test of the stop's side and that of its distance all let
  it pass (`signals/engine.py:209`). A signal at that time needs a confirmed trend,
  which with windows of seven rows takes eleven, so that rows eleven to thirteen
  are exposed: their signals have a stop and a target that are not numbers.
* With the real numbers a request takes up to (3 + 1) * 15 + 3.5 = 63.5 seconds, so
  a tick over some fifty symbols in an outage takes close to an hour; `EndsOnTime`
  then lets a session until 12:00 end around 12:54, beyond the timeout of its job,
  and the day is lost.
* An interrupt in a tick ends the session with exit code 0 and without a verdict
  (`paper_session.py:169`); elsewhere it is an error.
* A configured symbol that does not resolve is searched again in every tick.
* A pass in which every answer was empty is rejected by `assess_ingestion_results`
  and recorded as `SUCCESS`, because `_record_ingestion_run` counts errors only;
  `PassIsVisible` holds thanks to the `EMPTY_RESPONSE` events.
* `_frame` removes duplicates and empty timestamps and sorts before
  `quality_report` looks, so that three of its metrics cannot be reached in
  production, although `tests/test_ingestion_monitoring.py:107` expects an event
  for duplicates (its API is a fake). Which duplicate is kept depends on an
  unstable sort. Bars without a price are dropped without an event, and a changed
  open interest is replaced without a record.
* `instrument_master_history` ignores a key that returns: after A, B, A it tells
  of A, then B.
* The scanner's liquidity and VWAP are queried by symbol (`scanner/service.py:52`,
  `:85`), and span two securities after a symbol changed its key.
* The docstring of `_get` says that HTTP 5xx is retried; the set has 500, 502, 503
  and 504.
* A pass without instruments raises before it leaves a row in `ingestion_runs`.
* A backfill never corrects a provisional bar (`INSERT OR IGNORE`, as its docstring
  says); only an intraday pass of the same day does.
* A target gapped over by the entry bar itself is a `TARGET_GAP` with no profit;
  the learning pipeline labels it 1.
* At the end of a history the backtest reports a `TIMEOUT` with the holding
  period it was asked for, not the bars there were.

## Not modelled

Numerical indicators, candle and chart patterns, the scores of scanner and ranking,
market context and news: arithmetic on data frames without state; their results are
free choices (`PaperJournal`), votes or constants (`PointInTime`). Statistics and
reports, command line parsing. HTTP itself, quote metrics and news of the client.
Schema migrations of `db.py`. `PROJECT.json` `components` lists each with its reason.

## Plan

The order in which the modules were written is that of the
table above: journal first, as it holds the evidence, then warehouse, broker and
workflow, then the simulators and the signals. What is next, most important first:

1. *JournalWarehouse*: journal and warehouse composed. Partitions are persisted
   table by table, so that a restore after an interrupted persist can bring back
   observations that are `EVALUATED` without their outcomes, or snapshots without
   labels; which of the journal's invariants survive a restore, and which statements
   repair the others.
2. `rebuild_stale_failure_classifications` in `PaperJournal`: rows of two
   classifier versions, one `UPDATE` each.
3. Ranking's caps, costs and statistics of the backtest over integers.
4. `PaperBroker` with dates out of order, as a caller with several feeds may
   pass them.
