------------------------ MODULE ResearchWorkflowProofs ------------------------
(***************************************************************************)
(* For every threshold, period, retention and number of runs: what the     *)
(* workflow uploads is healthy, and continues what it uploaded before as   *)
(* long as that has not expired. Both rest on the ingestion every run      *)
(* begins with: it makes the fingerprint of a run differ from all earlier  *)
(* ones, so that monitoring never skips its check.                         *)
(***************************************************************************)
EXTENDS ResearchWorkflow, TLAPS

IngestionRuns == [day : 1..MaxDay, kind : Kinds]
Reports == [fingerprint : [run : Nat, samples : Nat], healthy : BOOLEAN]

-----------------------------------------------------------------------------
(* Prefixes. *)

LEMMA PrefixOfItself ==
    ASSUME NEW T, NEW s \in Seq(T)
    PROVE  IsPrefix(s, s)
  BY DEF IsPrefix

LEMMA EmptyPrefix ==
    ASSUME NEW T, NEW s \in Seq(T)
    PROVE  IsPrefix(<<>>, s)
  BY DEF IsPrefix

\* What a sequence continues, it still continues when something is appended.
LEMMA PrefixAppend ==
    ASSUME NEW T, NEW s \in Seq(T), NEW t \in Seq(T), NEW e \in T, IsPrefix(s, t)
    PROVE  IsPrefix(s, Append(t, e))
  <1>1. /\ Len(s) \in Nat /\ Len(t) \in Nat /\ Len(s) <= Len(t)
        /\ SubSeq(s, 1, Len(s)) = SubSeq(t, 1, Len(s))
    BY DEF IsPrefix
  <1>2. SubSeq(Append(t, e), 1, Len(s)) = SubSeq(t, 1, Len(s))
    <2>1. \A i \in 1..Len(s) : Append(t, e)[i] = t[i]
      BY <1>1
    <2> QED
      BY <1>1, <2>1
  <1> QED
    BY <1>1, <1>2 DEF IsPrefix

-----------------------------------------------------------------------------
(* The invariant. *)

TypeInv == TypeOK /\ ticksOk \in Nat /\ ticksFailed \in Nat

AllHealthy(d) == \A n \in DOMAIN d.reports : d.reports[n].healthy

\* No report stands for more ingestion runs than there are, or for as many.
ReportsBehind(d) ==
    \A n \in DOMAIN d.reports : d.reports[n].fingerprint.run <= Len(d.ingestion)
ReportsBefore(d) ==
    \A n \in DOMAIN d.reports : d.reports[n].fingerprint.run < Len(d.ingestion)

\* From its first ingestion to its report a run has news.
IngestedToday(d) ==
    /\ d.ingestion # <<>>
    /\ Last(d.ingestion).day = day

NewsInv ==
    /\ ReportsBehind(artifact.db)
    /\ ReportsBehind(db)
    /\ pc \in Windows \cup {"close", "diagnostics", "monitoring"} =>
            IngestedToday(db) /\ ReportsBefore(db)

\* An unhealthy report never gets further than the step that wrote it.
HealthInv ==
    /\ AllHealthy(artifact.db)
    /\ pc # "unhealthy" => AllHealthy(db)
    /\ pc = "persist" => ConsecutiveFailures(db.ingestion, day) < Threshold
    /\ DurableIsHealthy

\* The database of a run continues the artifact it was started from.
KeptInv ==
    /\ artifact.day = 0 => artifact = NoArtifact
    /\ pc # "idle" /\ day <= artifact.day + Retention => Continues(artifact.db, db)

IInv == TypeInv /\ NewsInv /\ HealthInv /\ KeptInv

LEMMA NoDatabaseIs ==
    /\ NoDatabase \in Databases
    /\ ReportsBehind(NoDatabase) /\ AllHealthy(NoDatabase)
    /\ \A d \in Databases : Continues(NoDatabase, d)
  <1>1. NoDatabase \in Databases
    BY DEF NoDatabase, Databases
  <1>2. ASSUME NEW d \in Databases PROVE Continues(NoDatabase, d)
    <2>1. d.ingestion \in Seq(IngestionRuns) /\ d.reports \in Seq(Reports) /\ d.samples \in Nat
      BY DEF Databases, IngestionRuns, Reports
    <2> QED
      BY <2>1, EmptyPrefix DEF Continues, NoDatabase
  <1> QED
    BY <1>1, <1>2 DEF NoDatabase, ReportsBehind, AllHealthy

LEMMA ContinuesItself ==
    ASSUME NEW d \in Databases
    PROVE  Continues(d, d)
  <1>1. d.ingestion \in Seq(IngestionRuns) /\ d.reports \in Seq(Reports) /\ d.samples \in Nat
    BY DEF Databases, IngestionRuns, Reports
  <1> QED
    BY <1>1, PrefixOfItself DEF Continues

\* An ingestion pass adds one run of the day and makes every report one of before.
LEMMA IngestedIs ==
    ASSUME NEW kind \in Kinds, TypeOK, ReportsBehind(db)
    PROVE  /\ Ingested(kind) \in Databases
           /\ Ingested(kind).reports = db.reports
           /\ IngestedToday(Ingested(kind)) /\ ReportsBefore(Ingested(kind))
           /\ ReportsBehind(Ingested(kind))
           /\ \A d \in Databases : Continues(d, db) => Continues(d, Ingested(kind))
  <1> DEFINE run == [day |-> day, kind |-> kind]
             new == Ingested(kind)
  <1>1. /\ db.ingestion \in Seq(IngestionRuns) /\ db.samples \in Nat
        /\ db.diagnosed \in Nat /\ db.reports \in Seq(Reports)
    BY DEF TypeOK, Databases, IngestionRuns, Reports
  <1>2. run \in IngestionRuns
    BY DEF TypeOK, IngestionRuns
  <1>3. new = [ingestion |-> Append(db.ingestion, run), samples |-> db.samples,
               diagnosed |-> db.diagnosed, reports |-> db.reports]
    <2> DEFINE A == Seq(IngestionRuns)
               B == Seq(Reports)
    <2>1. db \in [ingestion : A, samples : Nat, diagnosed : Nat, reports : B]
      BY DEF TypeOK, Databases, IngestionRuns, Reports
    <2> HIDE DEF A, B
    <2> QED
      BY <2>1 DEF Ingested
  <1> HIDE DEF run, new
  <1>4. /\ Append(db.ingestion, run) \in Seq(IngestionRuns)
        /\ Len(Append(db.ingestion, run)) = Len(db.ingestion) + 1 /\ Len(db.ingestion) \in Nat
        /\ Append(db.ingestion, run)[Len(db.ingestion) + 1] = run
    BY <1>1, <1>2
  <1>5. new \in Databases
    BY <1>1, <1>3, <1>4 DEF Databases, IngestionRuns, Reports
  <1>6. IngestedToday(new)
    <2>1. Last(new.ingestion) = run /\ new.ingestion # <<>>
      BY <1>3, <1>4 DEF Last
    <2> QED
      BY <2>1 DEF IngestedToday, run
  <1>7. ReportsBefore(new) /\ ReportsBehind(new)
    <2>1. \A n \in DOMAIN db.reports : db.reports[n].fingerprint.run \in Nat
      <3>1. \A n \in DOMAIN db.reports : db.reports[n] \in Reports
        BY <1>1
      <3> QED
        BY <3>1 DEF Reports
    <2> QED
      BY <2>1, <1>3, <1>4 DEF ReportsBefore, ReportsBehind
  <1>8. ASSUME NEW d \in Databases, Continues(d, db) PROVE Continues(d, new)
    <2>1. d.ingestion \in Seq(IngestionRuns)
      BY DEF Databases, IngestionRuns
    <2>2. IsPrefix(d.ingestion, Append(db.ingestion, run))
      BY <1>1, <1>2, <1>8, <2>1, PrefixAppend DEF Continues
    <2> QED
      BY <1>3, <1>8, <2>2 DEF Continues
  <1>9. new.reports = db.reports
    BY <1>3
  <1> QED
    BY <1>5, <1>6, <1>7, <1>8, <1>9 DEF new

\* The day's ingestion is among the recent ones: its number is the fingerprint's, and no
\* report of before can have the same.
LEMMA NeverReported ==
    ASSUME TypeOK, IngestedToday(db), ReportsBefore(db)
    PROVE  /\ Fingerprint(db, day) = [run |-> Len(db.ingestion), samples |-> db.diagnosed]
           /\ ~AlreadyReported(db, day)
  <1>1. /\ db.ingestion \in Seq(IngestionRuns) /\ db.reports \in Seq(Reports)
        /\ day \in Nat /\ Lookback \in Nat \ {0}
    BY BoundsAssumption DEF TypeOK, Databases, IngestionRuns, Reports
  <1>2. Len(db.ingestion) \in DOMAIN db.ingestion
    BY <1>1 DEF IngestedToday
  <1>3. Len(db.ingestion) \in Recent(db.ingestion, day)
    BY <1>1, <1>2 DEF IngestedToday, Recent, Last
  <1>4. Fingerprint(db, day) = [run |-> Len(db.ingestion), samples |-> db.diagnosed]
    BY <1>3 DEF Fingerprint
  <1>5. ASSUME db.reports # <<>> PROVE Last(db.reports).fingerprint.run < Len(db.ingestion)
    BY <1>1, <1>5 DEF ReportsBefore, Last
  <1>6. ~AlreadyReported(db, day)
    <2> SUFFICES ASSUME db.reports # <<>>,
                        Last(db.reports).fingerprint = Fingerprint(db, day)
                 PROVE  FALSE
      BY DEF AlreadyReported
    <2>1. Last(db.reports).fingerprint.run = Len(db.ingestion)
      BY <1>4
    <2> QED
      BY <1>1, <1>5, <2>1
  <1> QED
    BY <1>4, <1>6

LEMMA InitIInv == Init => IInv
  <1> SUFFICES ASSUME Init PROVE IInv
    OBVIOUS
  <1>1. artifact.db = NoDatabase /\ artifact.day = 0 /\ artifact = NoArtifact /\ db = NoDatabase
    BY DEF Init, NoArtifact
  <1>2. TypeInv
    BY <1>1, NoDatabaseIs, BoundsAssumption DEF Init, TypeInv, TypeOK, Windows
  <1>3. NewsInv /\ HealthInv /\ KeptInv
    BY <1>1, NoDatabaseIs DEF Init, NewsInv, HealthInv, KeptInv, DurableIsHealthy, Windows
  <1> QED
    BY <1>2, <1>3 DEF IInv

-----------------------------------------------------------------------------
(* The steps. *)

\* A run that ends without upload leaves nothing that could break the invariant.
LEMMA AbortStep ==
    ASSUME IInv, Abort, UNCHANGED <<day, artifact, runs>>, failures' \in 0..MaxFailures
    PROVE  IInv'
  <1>1. db' = NoDatabase /\ pc' = "idle" /\ ticksOk' = 0 /\ ticksFailed' = 0
        /\ day' = day /\ artifact' = artifact /\ runs' = runs
    BY DEF Abort
  <1>2. TypeInv'
    BY <1>1, NoDatabaseIs, BoundsAssumption DEF IInv, TypeInv, TypeOK, Databases
  <1>3. NewsInv'
    BY <1>1, NoDatabaseIs DEF IInv, NewsInv, Windows, ReportsBehind
  <1>4. HealthInv'
    BY <1>1, NoDatabaseIs DEF IInv, HealthInv, DurableIsHealthy, AllHealthy
  <1>5. KeptInv'
    BY <1>1 DEF IInv, KeptInv
  <1> QED
    BY <1>2, <1>3, <1>4, <1>5 DEF IInv

\* A new database continues the artifact, if that was there to be restored.
LEMMA StartStep == IInv /\ StartRun => IInv'
  <1> SUFFICES ASSUME IInv, StartRun PROVE IInv'
    OBVIOUS
  <1>1. PICK today \in day..MaxDay :
            day' = today /\ db' = IF Locatable(today) THEN artifact.db ELSE NoDatabase
    BY DEF StartRun
  <1>2. /\ pc' = "bootstrap" /\ runs' = runs + 1 /\ runs < MaxRuns
        /\ artifact' = artifact /\ ticksOk' = ticksOk /\ ticksFailed' = ticksFailed
        /\ failures' = failures
    BY DEF StartRun, ticks
  <1>3. /\ day \in 1..MaxDay /\ artifact.db \in Databases /\ artifact.day \in 0..day
        /\ db \in Databases /\ runs \in 0..MaxRuns
    BY DEF IInv, TypeInv, TypeOK
  <1>4. today \in 1..MaxDay /\ today \in Nat /\ day <= today
    BY <1>1, <1>3, BoundsAssumption
  <1>5. TypeInv'
    <2>1. db' \in Databases
      BY <1>1, <1>3, NoDatabaseIs
    <2>2. artifact.day \in 0..today
      BY <1>3, <1>4
    <2>3. runs + 1 \in 0..MaxRuns
      BY <1>2, <1>3, BoundsAssumption
    <2> QED
      BY <1>1, <1>2, <1>4, <2>1, <2>2, <2>3 DEF IInv, TypeInv, TypeOK
  <1>6. NewsInv'
    BY <1>1, <1>2, NoDatabaseIs DEF IInv, NewsInv, Windows, ReportsBehind
  <1>7. HealthInv'
    BY <1>1, <1>2, NoDatabaseIs DEF IInv, HealthInv, DurableIsHealthy, AllHealthy
  <1>8. KeptInv'
    <2> SUFFICES ASSUME today <= artifact.day + Retention
                 PROVE  Continues(artifact.db, db')
      BY <1>1, <1>2 DEF IInv, KeptInv
    <2>1. CASE Locatable(today)
      BY <1>1, <1>3, <2>1, ContinuesItself
    <2>2. CASE ~Locatable(today)
      <3>1. artifact = NoArtifact
        BY <2>2 DEF Locatable
      <3>2. artifact.db = NoDatabase
        BY <3>1 DEF NoArtifact
      <3> QED
        BY <1>1, <2>2, <3>2, NoDatabaseIs
    <2> QED
      BY <2>1, <2>2
  <1> QED
    BY <1>5, <1>6, <1>7, <1>8 DEF IInv

\* Bootstrap and ticks: the database after an ingestion pass of the day.
LEMMA IngestStep ==
    ASSUME IInv, NEW kind \in Kinds, db' = Ingested(kind),
           pc \notin {"idle", "unhealthy"}, pc' \in Windows,
           UNCHANGED <<day, artifact, runs, failures>>,
           ticksOk' \in Nat, ticksFailed' \in Nat, ticksOk' + ticksFailed' \in 0..MaxTicks
    PROVE  IInv'
  <1>1. day' = day /\ artifact' = artifact /\ runs' = runs /\ failures' = failures
    OBVIOUS
  <1>2. TypeOK /\ ReportsBehind(db)
    BY DEF IInv, TypeInv, NewsInv
  <1>3. /\ db' \in Databases /\ db'.reports = db.reports
        /\ IngestedToday(db') /\ ReportsBefore(db') /\ ReportsBehind(db')
        /\ \A d \in Databases : Continues(d, db) => Continues(d, db')
    <2>1. /\ Ingested(kind) \in Databases /\ Ingested(kind).reports = db.reports
          /\ IngestedToday(Ingested(kind)) /\ ReportsBefore(Ingested(kind))
          /\ ReportsBehind(Ingested(kind))
          /\ \A d \in Databases : Continues(d, db) => Continues(d, Ingested(kind))
      BY <1>2, IngestedIs
    <2> QED
      BY <2>1
  <1>4. TypeInv'
    BY <1>1, <1>3 DEF IInv, TypeInv, TypeOK
  <1>5. NewsInv'
    BY <1>1, <1>3 DEF IInv, NewsInv, ReportsBehind, ReportsBefore, IngestedToday
  <1>6. HealthInv'
    BY <1>1, <1>3 DEF IInv, HealthInv, DurableIsHealthy, AllHealthy, Windows
  <1>7. KeptInv'
    BY <1>1, <1>2, <1>3 DEF IInv, KeptInv, TypeOK
  <1> QED
    BY <1>4, <1>5, <1>6, <1>7 DEF IInv

LEMMA BootstrapStep == IInv /\ Bootstrap => IInv'
  <1> SUFFICES ASSUME IInv, Bootstrap PROVE IInv'
    OBVIOUS
  <1>1. PICK kind \in Kinds :
            IF Usable(kind)
            THEN db' = Ingested(kind) /\ pc' = "morning" /\ UNCHANGED ticks
            ELSE Abort
    BY DEF Bootstrap
  <1>2. /\ UNCHANGED <<day, artifact, runs, failures>> /\ pc = "bootstrap"
        /\ failures \in 0..MaxFailures
        /\ ticksOk \in Nat /\ ticksFailed \in Nat /\ ticksOk + ticksFailed \in 0..MaxTicks
    BY DEF Bootstrap, IInv, TypeInv, TypeOK
  <1>3. CASE Usable(kind)
    BY <1>1, <1>2, <1>3, IngestStep DEF ticks, Windows
  <1>4. CASE ~Usable(kind)
    BY <1>1, <1>2, <1>4, AbortStep
  <1> QED
    BY <1>3, <1>4

LEMMA TickStep == IInv /\ Tick => IInv'
  <1> SUFFICES ASSUME IInv, Tick PROVE IInv'
    OBVIOUS
  <1>1. PICK kind \in Kinds, ok \in BOOLEAN :
            /\ db' = Ingested(kind)
            /\ ticksOk' = IF ok THEN ticksOk + 1 ELSE ticksOk
            /\ ticksFailed' = IF ok THEN ticksFailed ELSE ticksFailed + 1
    BY DEF Tick
  <1>2. /\ UNCHANGED <<day, artifact, pc, runs, failures>> /\ pc \in Windows
        /\ ticksOk + ticksFailed < MaxTicks /\ MaxTicks \in Nat
        /\ ticksOk \in Nat /\ ticksFailed \in Nat
    BY BoundsAssumption DEF Tick, IInv, TypeInv
  <1>3. ticksOk' \in Nat /\ ticksFailed' \in Nat /\ ticksOk' + ticksFailed' \in 0..MaxTicks
    BY <1>1, <1>2
  <1> QED
    BY <1>1, <1>2, <1>3, IngestStep DEF Windows

\* A window that is judged healthy leaves the database alone.
LEMMA CloseWindowStep == IInv /\ CloseWindow => IInv'
  <1> SUFFICES ASSUME IInv, CloseWindow PROVE IInv'
    OBVIOUS
  <1>1. /\ pc \in Windows
        /\ day' = day /\ artifact' = artifact /\ runs' = runs /\ failures' = failures
        /\ failures \in 0..MaxFailures
    BY DEF CloseWindow, IInv, TypeInv, TypeOK
  <1>2. CASE SessionHealthy
    <2>1. /\ pc' \in {"afternoon", "close"} /\ db' = db
          /\ ticksOk' = 0 /\ ticksFailed' = 0
      BY <1>2 DEF CloseWindow
    <2>2. TypeInv'
      BY <1>1, <2>1, BoundsAssumption DEF IInv, TypeInv, TypeOK, Windows
    <2>3. NewsInv'
      BY <1>1, <2>1 DEF IInv, NewsInv, Windows, ReportsBehind, ReportsBefore, IngestedToday
    <2>4. HealthInv'
      BY <1>1, <2>1 DEF IInv, HealthInv, DurableIsHealthy, AllHealthy, Windows
    <2>5. KeptInv'
      BY <1>1, <2>1 DEF IInv, KeptInv, Windows
    <2> QED
      BY <2>2, <2>3, <2>4, <2>5 DEF IInv
  <1>3. CASE ~SessionHealthy
    BY <1>1, <1>3, AbortStep DEF CloseWindow
  <1> QED
    BY <1>2, <1>3

\* Neither the close nor the diagnosis touches ingestion or reports.
LEMMA SampleStep ==
    ASSUME IInv, pc \in {"close", "diagnostics"}, pc' \in {"diagnostics", "monitoring"},
           NEW samples \in Nat, NEW diagnosed \in Nat, db.samples <= samples,
           db' = [ingestion |-> db.ingestion, samples |-> samples, diagnosed |-> diagnosed,
                  reports |-> db.reports],
           UNCHANGED <<day, artifact, ticks, runs, failures>>
    PROVE  IInv'
  <1>1. /\ day' = day /\ artifact' = artifact /\ runs' = runs /\ failures' = failures
        /\ ticksOk' = ticksOk /\ ticksFailed' = ticksFailed
    BY DEF ticks
  <1>2. db'.ingestion = db.ingestion /\ db'.reports = db.reports /\ db'.samples = samples
    OBVIOUS
  <1>3. db' \in Databases
    BY DEF IInv, TypeInv, TypeOK, Databases
  <1>4. TypeInv'
    BY <1>1, <1>3 DEF IInv, TypeInv, TypeOK
  <1>5. NewsInv'
    BY <1>1, <1>2 DEF IInv, NewsInv, ReportsBehind, ReportsBefore, IngestedToday
  <1>6. HealthInv'
    BY <1>1, <1>2 DEF IInv, HealthInv, DurableIsHealthy, AllHealthy
  <1>7. KeptInv'
    <2> SUFFICES ASSUME day <= artifact.day + Retention
                 PROVE  Continues(artifact.db, db')
      BY <1>1 DEF IInv, KeptInv
    <2>1. Continues(artifact.db, db)
      BY DEF IInv, KeptInv
    <2>2. artifact.db.samples \in Nat /\ db.samples \in Nat
      BY DEF IInv, TypeInv, TypeOK, Databases
    <2>3. artifact.db.samples <= samples
      BY <2>1, <2>2 DEF Continues
    <2> QED
      BY <1>2, <2>1, <2>3 DEF Continues
  <1> QED
    BY <1>4, <1>5, <1>6, <1>7 DEF IInv

LEMMA CloseStep == IInv /\ Close => IInv'
  <1> SUFFICES ASSUME IInv, Close PROVE IInv'
    OBVIOUS
  <1>1. PICK more \in {0, 1} : db' = [db EXCEPT !.samples = @ + more]
    BY DEF Close
  <1>2. db \in Databases
    BY DEF IInv, TypeInv, TypeOK
  <1>3. db.samples \in Nat /\ db.diagnosed \in Nat
    BY <1>2 DEF Databases
  <1>4. db' = [ingestion |-> db.ingestion, samples |-> db.samples + more,
               diagnosed |-> db.diagnosed, reports |-> db.reports]
    BY <1>1, <1>2 DEF Databases
  <1>5. db.samples + more \in Nat /\ db.samples <= db.samples + more
    BY <1>3
  <1> QED
    BY <1>3, <1>4, <1>5, SampleStep DEF Close

LEMMA DiagnoseStep == IInv /\ Diagnose => IInv'
  <1> SUFFICES ASSUME IInv, Diagnose PROVE IInv'
    OBVIOUS
  <1>1. db \in Databases
    BY DEF IInv, TypeInv, TypeOK
  <1>2. db.samples \in Nat /\ db.samples <= db.samples
    BY <1>1 DEF Databases
  <1>3. db' = [ingestion |-> db.ingestion, samples |-> db.samples,
               diagnosed |-> db.samples, reports |-> db.reports]
    BY <1>1 DEF Diagnose, Databases
  <1> QED
    BY <1>2, <1>3, SampleStep DEF Diagnose

\* The report is written, and what it says decides whether the run goes on.
LEMMA MonitorStep == IInv /\ Monitor => IInv'
  <1> SUFFICES ASSUME IInv, Monitor PROVE IInv'
    OBVIOUS
  <1> DEFINE healthy == ConsecutiveFailures(db.ingestion, day) < Threshold
             report == [fingerprint |-> Fingerprint(db, day), healthy |-> healthy]
  <1>0. TypeOK /\ IngestedToday(db) /\ ReportsBefore(db) /\ ReportsBehind(db)
    BY DEF IInv, TypeInv, NewsInv, Monitor
  <1>1. /\ ~AlreadyReported(db, day)
        /\ Fingerprint(db, day) = [run |-> Len(db.ingestion), samples |-> db.diagnosed]
    BY <1>0, NeverReported
  <1>2. /\ db' = [db EXCEPT !.reports = Append(@, report)]
        /\ pc' = IF healthy THEN "persist" ELSE "unhealthy"
        /\ day' = day /\ artifact' = artifact /\ runs' = runs /\ failures' = failures
        /\ ticksOk' = ticksOk /\ ticksFailed' = ticksFailed
    BY <1>1 DEF Monitor, ticks
  <1>3. /\ db.ingestion \in Seq(IngestionRuns) /\ db.samples \in Nat
        /\ db.diagnosed \in Nat /\ db.reports \in Seq(Reports)
    BY <1>0 DEF TypeOK, Databases, IngestionRuns, Reports
  <1>4. report \in Reports /\ report.healthy = healthy
        /\ report.fingerprint.run = Len(db.ingestion) /\ Len(db.ingestion) \in Nat
    BY <1>1, <1>3 DEF Reports
  <1> HIDE DEF report
  <1>5. db' = [ingestion |-> db.ingestion, samples |-> db.samples,
               diagnosed |-> db.diagnosed, reports |-> Append(db.reports, report)]
    <2> DEFINE A == Seq(IngestionRuns)
               B == Seq(Reports)
    <2>1. db \in [ingestion : A, samples : Nat, diagnosed : Nat, reports : B]
      BY <1>0 DEF TypeOK, Databases, IngestionRuns, Reports
    <2> HIDE DEF A, B
    <2> QED
      BY <1>2, <2>1
  <1>6. /\ Append(db.reports, report) \in Seq(Reports)
        /\ \A n \in DOMAIN Append(db.reports, report) :
                \/ Append(db.reports, report)[n] = report
                \/ n \in DOMAIN db.reports /\ Append(db.reports, report)[n] = db.reports[n]
    BY <1>3, <1>4
  <1>7. TypeInv'
    <2>1. db' \in Databases
      BY <1>3, <1>5, <1>6 DEF Databases, IngestionRuns, Reports
    <2> QED
      BY <1>2, <2>1 DEF IInv, TypeInv, TypeOK
  <1>8. NewsInv'
    <2>1. ReportsBehind(db)'
      BY <1>0, <1>4, <1>5, <1>6 DEF ReportsBehind
    <2> QED
      BY <1>2, <2>1 DEF IInv, NewsInv, Windows, ReportsBehind
  <1>9. HealthInv'
    <2>1. AllHealthy(db)
      BY DEF IInv, HealthInv, Monitor
    <2>2. pc' # "unhealthy" => AllHealthy(db)'
      BY <1>2, <1>4, <1>5, <1>6, <2>1 DEF AllHealthy
    <2>3. (pc = "persist" => ConsecutiveFailures(db.ingestion, day) < Threshold)'
      BY <1>2, <1>5
    <2> QED
      BY <1>2, <2>2, <2>3 DEF IInv, HealthInv, DurableIsHealthy, AllHealthy
  <1>10. KeptInv'
    <2> SUFFICES ASSUME day <= artifact.day + Retention
                 PROVE  Continues(artifact.db, db')
      BY <1>2 DEF IInv, KeptInv
    <2>1. Continues(artifact.db, db)
      BY DEF IInv, KeptInv, Monitor
    <2>2. artifact.db.reports \in Seq(Reports)
      BY <1>0 DEF TypeOK, Databases, Reports
    <2>3. IsPrefix(artifact.db.reports, Append(db.reports, report))
      BY <1>3, <1>4, <2>1, <2>2, PrefixAppend DEF Continues
    <2> QED
      BY <1>5, <2>1, <2>3 DEF Continues
  <1> QED
    BY <1>7, <1>8, <1>9, <1>10 DEF IInv

\* What is uploaded was judged in the step before.
LEMMA UploadStep == IInv /\ PersistAndUpload => IInv'
  <1> SUFFICES ASSUME IInv, PersistAndUpload PROVE IInv'
    OBVIOUS
  <1>1. /\ pc = "persist" /\ pc' = "idle" /\ db' = NoDatabase
        /\ artifact'.db = db /\ artifact'.day = day
        /\ day' = day /\ runs' = runs /\ failures' = failures
        /\ ticksOk' = ticksOk /\ ticksFailed' = ticksFailed
    BY DEF PersistAndUpload, ticks
  <1>2. day \in Nat \ {0}
    BY BoundsAssumption DEF IInv, TypeInv, TypeOK
  <1>3. TypeInv'
    BY <1>1, <1>2, NoDatabaseIs DEF IInv, TypeInv, TypeOK
  <1>4. NewsInv'
    BY <1>1, NoDatabaseIs DEF IInv, NewsInv, Windows, ReportsBehind
  <1>5. HealthInv'
    BY <1>1, NoDatabaseIs DEF IInv, HealthInv, DurableIsHealthy, AllHealthy
  <1>6. KeptInv'
    BY <1>1, <1>2 DEF KeptInv
  <1> QED
    BY <1>3, <1>4, <1>5, <1>6 DEF IInv

LEMMA NextIInv == IInv /\ [Next]_vars => IInv'
  <1> SUFFICES ASSUME IInv, [Next]_vars PROVE IInv'
    OBVIOUS
  <1>1. CASE Unhealthy
    <2>1. failures' \in 0..MaxFailures
      BY <1>1 DEF Unhealthy, IInv, TypeInv, TypeOK
    <2> QED
      BY <1>1, <2>1, AbortStep DEF Unhealthy
  <1>2. CASE StepFails
    <2>1. failures' \in 0..MaxFailures
      BY <1>2, BoundsAssumption DEF StepFails, IInv, TypeInv, TypeOK
    <2> QED
      BY <1>2, <2>1, AbortStep DEF StepFails
  <1>3. CASE UNCHANGED vars
    BY <1>3 DEF vars, ticks, IInv, TypeInv, TypeOK, NewsInv, HealthInv, KeptInv,
                DurableIsHealthy, AllHealthy, ReportsBehind, ReportsBefore, IngestedToday
  <1> QED
    BY <1>1, <1>2, <1>3, StartStep, BootstrapStep, TickStep, CloseWindowStep, CloseStep,
       DiagnoseStep, MonitorStep, UploadStep DEF Next

LEMMA AlwaysIInv == Spec => []IInv
  BY InitIInv, NextIInv, PTL DEF Spec

-----------------------------------------------------------------------------

\* The calendar, the counters and both databases keep their types.
THEOREM TypeCorrect == Spec => []TypeOK
  <1>1. IInv => TypeOK
    BY DEF IInv, TypeInv
  <1> QED
    BY <1>1, AlwaysIInv, PTL

\* No upload ends in a sustained ingestion failure, nor holds a report that says so
\* (build_monitoring_report before the upload steps of paper-research.yml).
THEOREM DurableIsAlwaysHealthy == Spec => []DurableIsHealthy
  <1>1. IInv => DurableIsHealthy
    BY DEF IInv, HealthInv
  <1> QED
    BY <1>1, AlwaysIInv, PTL

\* Within the retention no upload loses or rewrites what an earlier one held, for
\* every pattern of failed and repeated runs.
THEOREM HistoryIsKept == Spec => HistoryKept
  <1>1. IInv /\ [Next]_vars =>
            [day <= artifact.day + Retention => Continues(artifact.db, artifact'.db)]_vars
    <2> SUFFICES ASSUME IInv, Next, day <= artifact.day + Retention
                 PROVE  Continues(artifact.db, artifact'.db)
      OBVIOUS
    <2>1. CASE PersistAndUpload
      <3>1. artifact'.db = db /\ pc = "persist"
        BY <2>1 DEF PersistAndUpload
      <3> QED
        BY <3>1 DEF IInv, KeptInv
    <2>2. CASE ~PersistAndUpload
      <3>1. artifact' = artifact
        BY <2>2 DEF Next, StartRun, Bootstrap, Tick, CloseWindow, Close, Diagnose, Monitor,
                    Unhealthy, StepFails
      <3>2. artifact.db \in Databases
        BY DEF IInv, TypeInv, TypeOK
      <3> QED
        BY <3>1, <3>2, ContinuesItself
    <2> QED
      BY <2>1, <2>2
  <1> QED
    BY <1>1, AlwaysIInv, PTL DEF Spec, HistoryKept

\* In a workflow run the health of the pipeline is always judged: the early return of
\* build_monitoring_report for an unchanged fingerprint is never taken there.
CheckIsMade == pc = "monitoring" => ~AlreadyReported(db, day)

THEOREM CheckIsNeverSkipped == Spec => []CheckIsMade
  <1>1. IInv => CheckIsMade
    BY NeverReported DEF IInv, TypeInv, NewsInv, CheckIsMade
  <1> QED
    BY <1>1, AlwaysIInv, PTL

=============================================================================
