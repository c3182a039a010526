-------------------------- MODULE ResearchWorkflow --------------------------
(***************************************************************************)
(* The scheduled research workflow: a run restores the latest warehouse    *)
(* artifact into a new database, trades a morning and an afternoon window  *)
(* on paper, closes the day, reports on the sample and on the pipeline's   *)
(* health, and uploads the warehouse. A step that fails ends the run, and  *)
(* the runner goes with everything that was not uploaded.                  *)
(*                                                                         *)
(* The database is reduced to what those decisions read: the ingestion     *)
(* runs, the size of the evaluated sample and the monitoring reports.      *)
(* Definitions marked [defect] are broken variants of the next one, kept   *)
(* to show which property catches them; nothing uses them.                 *)
(***************************************************************************)
EXTENDS Naturals, FiniteSets, SequencesExt

CONSTANTS
    Kinds,          \* how an ingestion pass over the universe may end
    Threshold,      \* consecutive_failure_threshold
    Lookback,       \* lookback_days
    Retention,      \* retention-days of the warehouse artifact
    MaxTicks,       \* bound: ticks in a window
    MaxDay,         \* bound: calendar days
    MaxRuns,        \* bound: started workflow runs
    MaxFailures     \* bound: steps that fail of themselves

\* CLEAN: every symbol arrived; TOLERATED: some failed, at least half arrived;
\* DEGRADED: fewer than half; FAILED: none; EMPTY: well-formed empty responses.
ASSUME KindsAssumption ==
    Kinds \subseteq {"CLEAN", "TOLERATED", "DEGRADED", "FAILED", "EMPTY"}
ASSUME BoundsAssumption ==
    /\ Threshold \in Nat \ {0}
    /\ Lookback \in Nat \ {0}
    /\ Retention \in Nat
    /\ MaxTicks \in Nat
    /\ MaxDay \in Nat \ {0}
    /\ MaxRuns \in Nat
    /\ MaxFailures \in Nat

VARIABLES
    day,            \* the calendar day
    artifact,       \* the newest artifact named "warehouse"
    db,             \* the database on the runner
    pc,             \* the step the run executes next
    ticksOk, ticksFailed,
    runs,           \* workflow runs started so far
    failures        \* steps that failed of themselves

ticks == <<ticksOk, ticksFailed>>
vars == <<day, artifact, db, pc, ticks, runs, failures>>

Windows == {"morning", "afternoon"}

NoDatabase == [ingestion |-> <<>>, samples |-> 0, diagnosed |-> 0, reports |-> <<>>]
NoArtifact == [db |-> NoDatabase, day |-> 0]

Init ==
    /\ day = 1
    /\ artifact = NoArtifact
    /\ db = NoDatabase
    /\ pc = "idle"
    /\ ticksOk = 0
    /\ ticksFailed = 0
    /\ runs = 0
    /\ failures = 0

-----------------------------------------------------------------------------
(* Ingestion. *)

\* The status of the ingestion_runs row: an empty response is no error there.
Succeeded(kind) == kind \in {"CLEAN", "EMPTY"}

\* assess_ingestion_results lets the caller go on.
Usable(kind) == kind \in {"CLEAN", "TOLERATED"}

Ingested(kind) ==
    [db EXCEPT !.ingestion = Append(@, [day |-> day, kind |-> kind])]

-----------------------------------------------------------------------------
(* The jobs. *)

\* The runner is gone, and its database with it.
Abort ==
    /\ pc' = "idle"
    /\ db' = NoDatabase
    /\ ticksOk' = 0
    /\ ticksFailed' = 0

\* [defect] the artifact is never looked up
LocateNothing(today) == FALSE

\* The newest artifact is downloaded unless it has expired; without one the run
\* is taken for the first one ever.
Locatable(today) == artifact # NoArtifact /\ today <= artifact.day + Retention

\* One run at a time, scheduled or dispatched by hand: the artifact is located,
\* downloaded and restored into a new database.
StartRun ==
    /\ pc = "idle"
    /\ runs < MaxRuns
    /\ \E today \in day..MaxDay :
        /\ day' = today
        /\ db' = IF Locatable(today) THEN artifact.db ELSE NoDatabase
    /\ pc' = "bootstrap"
    /\ runs' = runs + 1
    /\ UNCHANGED <<artifact, ticks, failures>>

\* The daily cycle ingests once; an unusable result fails the step.
Bootstrap ==
    /\ pc = "bootstrap"
    /\ \E kind \in Kinds :
        IF Usable(kind)
        THEN /\ db' = Ingested(kind)
             /\ pc' = "morning"
             /\ UNCHANGED ticks
        ELSE Abort
    /\ UNCHANGED <<day, artifact, runs, failures>>

\* A tick of the paper session fails on unusable ingestion, and may fail later
\* (no observation, only stale ones, an API error); the session goes on.
Tick ==
    /\ pc \in Windows
    /\ ticksOk + ticksFailed < MaxTicks
    /\ \E kind \in Kinds, ok \in BOOLEAN :
        /\ ok => Usable(kind)
        /\ db' = Ingested(kind)
        /\ ticksOk' = IF ok THEN ticksOk + 1 ELSE ticksOk
        /\ ticksFailed' = IF ok THEN ticksFailed ELSE ticksFailed + 1
    /\ UNCHANGED <<day, artifact, pc, runs, failures>>

\* _fail_if_session_unhealthy; a window without ticks is not judged.
SessionHealthy ==
    \/ ticksOk + ticksFailed = 0
    \/ ticksOk > 0 /\ 2 * ticksFailed <= ticksOk + ticksFailed

\* The window is over. The morning's database and warehouse travel to the
\* afternoon job as the run's own midday artifact.
CloseWindow ==
    /\ pc \in Windows
    /\ IF SessionHealthy
       THEN /\ pc' = IF pc = "morning" THEN "afternoon" ELSE "close"
            /\ ticksOk' = 0
            /\ ticksFailed' = 0
            /\ UNCHANGED db
       ELSE Abort
    /\ UNCHANGED <<day, artifact, runs, failures>>

\* paper_close and build_learning_data: the evaluated sample may have grown.
Close ==
    /\ pc = "close"
    /\ \E more \in {0, 1} : db' = [db EXCEPT !.samples = @ + more]
    /\ pc' = "diagnostics"
    /\ UNCHANGED <<day, artifact, ticks, runs, failures>>

\* A diagnostics row is written when the sample changed.
Diagnose ==
    /\ pc = "diagnostics"
    /\ db' = [db EXCEPT !.diagnosed = db.samples]
    /\ pc' = "monitoring"
    /\ UNCHANGED <<day, artifact, ticks, runs, failures>>

-----------------------------------------------------------------------------
(* Monitoring. *)

\* Positions of the ingestion runs of the last Lookback days.
Recent(ingestion, today) ==
    {n \in DOMAIN ingestion : ingestion[n].day + Lookback > today}

\* [defect] every failed run of the period counts, not the last ones in a row
FailedRuns(ingestion, today) ==
    Cardinality({n \in Recent(ingestion, today) : ~Succeeded(ingestion[n].kind)})

ConsecutiveFailures(ingestion, today) ==
    Cardinality({n \in Recent(ingestion, today) :
                    \A m \in n..Len(ingestion) : ~Succeeded(ingestion[m].kind)})

\* [defect] only the sample is compared
FingerprintOfSample(d, today) == [run |-> 0, samples |-> d.diagnosed]

\* The latest ingestion run (none: 0) and the latest diagnosed sample count.
Fingerprint(d, today) ==
    [run |-> IF Recent(d.ingestion, today) = {} THEN 0 ELSE Len(d.ingestion),
     samples |-> d.diagnosed]

\* Nothing changed since the latest report: no new one is written.
AlreadyReported(d, today) ==
    /\ d.reports # <<>>
    /\ Last(d.reports).fingerprint = Fingerprint(d, today)

\* build_monitoring_report: PipelineUnhealthy is raised after the report is
\* written, and fails the step.
Monitor ==
    /\ pc = "monitoring"
    /\ IF AlreadyReported(db, day)
       THEN pc' = "persist" /\ UNCHANGED db
       ELSE LET healthy == ConsecutiveFailures(db.ingestion, day) < Threshold
            IN  /\ db' = [db EXCEPT !.reports =
                            Append(@, [fingerprint |-> Fingerprint(db, day),
                                       healthy |-> healthy])]
                /\ pc' = IF healthy THEN "persist" ELSE "unhealthy"
    /\ UNCHANGED <<day, artifact, ticks, runs, failures>>

\* The failed monitoring step ends the job before the warehouse is persisted.
Unhealthy ==
    /\ pc = "unhealthy"
    /\ Abort
    /\ UNCHANGED <<day, artifact, runs, failures>>

\* The warehouse is persisted and uploaded; the runner is given back.
PersistAndUpload ==
    /\ pc = "persist"
    /\ artifact' = [db |-> db, day |-> day]
    /\ pc' = "idle"
    /\ db' = NoDatabase
    /\ UNCHANGED <<day, ticks, runs, failures>>

\* Any other step fails: an API error, a timeout, a killed runner.
StepFails ==
    /\ pc \notin {"idle", "unhealthy"}
    /\ failures < MaxFailures
    /\ failures' = failures + 1
    /\ Abort
    /\ UNCHANGED <<day, artifact, runs>>

-----------------------------------------------------------------------------

Next ==
    \/ StartRun
    \/ Bootstrap
    \/ Tick
    \/ CloseWindow
    \/ Close
    \/ Diagnose
    \/ Monitor
    \/ Unhealthy
    \/ PersistAndUpload
    \/ StepFails

Spec == Init /\ [][Next]_vars

\* A step that was reached runs; the schedule starts the next run.
Fairness ==
    /\ WF_vars(StartRun)
    /\ WF_vars(Bootstrap)
    /\ WF_vars(CloseWindow)
    /\ WF_vars(Close)
    /\ WF_vars(Diagnose)
    /\ WF_vars(Monitor)
    /\ WF_vars(Unhealthy)
    /\ WF_vars(PersistAndUpload)

FairSpec == Spec /\ Fairness

-----------------------------------------------------------------------------
(* Properties. *)

Databases ==
    [ingestion : Seq([day : 1..MaxDay, kind : Kinds]),
     samples : Nat, diagnosed : Nat,
     reports : Seq([fingerprint : [run : Nat, samples : Nat], healthy : BOOLEAN])]

\* Every variable holds a value of its domain.
TypeOK ==
    /\ day \in 1..MaxDay
    /\ artifact.db \in Databases
    /\ artifact.day \in 0..day
    /\ db \in Databases
    /\ pc \in Windows \cup {"idle", "bootstrap", "close", "diagnostics", "monitoring",
                            "unhealthy", "persist"}
    /\ ticksOk + ticksFailed \in 0..MaxTicks
    /\ runs \in 0..MaxRuns
    /\ failures \in 0..MaxFailures

\* A sustained ingestion failure never becomes durable: although an unchanged
\* fingerprint skips the check, what is uploaded never ends in Threshold failed
\* runs, and no report in it says unhealthy (build_monitoring_report).
DurableIsHealthy ==
    artifact # NoArtifact =>
        /\ ConsecutiveFailures(artifact.db.ingestion, artifact.day) < Threshold
        /\ \A n \in DOMAIN artifact.db.reports : artifact.db.reports[n].healthy

\* What was durable stays durable: every upload continues the history of the one
\* before it, whatever runs failed or were repeated in between. Only the upload of
\* a run that started when the artifact had expired begins a new one.
Continues(old, new) ==
    /\ IsPrefix(old.ingestion, new.ingestion)
    /\ IsPrefix(old.reports, new.reports)
    /\ old.samples <= new.samples
HistoryKept ==
    [][day <= artifact.day + Retention => Continues(artifact.db, artifact'.db)]_vars

\* A day is not wasted: a run that gets as far as its close, the last ingestion
\* complete, is uploaded unless a step fails of itself. Earlier failures of the
\* same day, or of a run before it, do not latch.
CompleteAtClose(today) ==
    /\ pc = "close"
    /\ day = today
    /\ Last(db.ingestion).kind = "CLEAN"
CompleteDayIsDurable ==
    \A today \in 1..MaxDay :
        CompleteAtClose(today) ~> artifact.day = today \/ failures > 0

\* market/ingestion.py: a handful of symbol failures "is normal degradation and
\* is tolerated as a warning", so tolerated runs alone fail no workflow run.
ToleratedIsHealthy ==
    pc = "unhealthy" =>
        \E n \in DOMAIN db.ingestion :
            n + Threshold > Len(db.ingestion) /\ ~Usable(db.ingestion[n].kind)

=============================================================================
