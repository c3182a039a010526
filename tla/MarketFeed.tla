----------------------------- MODULE MarketFeed -----------------------------
(***************************************************************************)
(* What the market API delivers and what is stored of it: the instruments  *)
(* that symbols resolve to, the candles of an intraday pass and of a       *)
(* backfill, the row and the events a pass leaves for monitoring, and its  *)
(* verdict. Every statement commits by itself and a process may stop       *)
(* between any two; one process runs at a time.                            *)
(*                                                                         *)
(* A response body is a sequence of rows of a time slot and a bar; a bar   *)
(* is one of a few values that the checks tell apart.                      *)
(* Definitions marked [defect] are broken variants of the next one, kept   *)
(* to show which property catches them; nothing uses them.                 *)
(***************************************************************************)
EXTENDS Naturals, FiniteSets, SequencesExt

CONSTANTS
    Symbols,        \* the configured symbols
    Keys,           \* instrument keys
    Slots,          \* time slots of candles, an interval of naturals
    SessionSlots,   \* those within the trading session
    SoundBars, CrossedBars, NegativeBars, UnpricedBars,     \* values of a bar
    NoTime, None,
    Bodies,         \* response bodies: sequences of rows
    MaxWindow,      \* MAX_MINUTE_WINDOW_DAYS, in slots
    MaxJobs, MaxPasses, MaxCrashes      \* bounds: jobs, passes among them, stops

Values == SoundBars \cup CrossedBars \cup NegativeBars \cup UnpricedBars

ASSUME SymbolsAssumption == IsFiniteSet(Symbols)
ASSUME SlotsAssumption == Slots \subseteq Nat /\ SessionSlots \subseteq Slots
ASSUME ValuesAssumption == NoTime \notin Slots /\ None \notin Values \cup Keys
ASSUME BodiesAssumption ==
    Bodies \subseteq Seq([slot : Slots \cup {NoTime}, bar : Values])
ASSUME BoundsAssumption ==
    /\ MaxWindow \in Nat \ {0}
    /\ {MaxJobs, MaxPasses, MaxCrashes} \subseteq Nat

VARIABLES
    master,         \* instrument_master: symbol -> current key
    history,        \* instrument_master_history: <<symbol, key>> ever resolved
    candles,        \* candles: key -> slot -> bar
    runs,           \* ingestion_runs: pass -> status, for passes with a row
    events,         \* data_quality_events: [pass, symbol, issue]
    verdicts,       \* pass -> whether its caller could go on
    pc, todo,       \* the running job's next statement, its remaining requests
    rows,           \* sync: symbol -> resolved key
    results,        \* pass: symbol -> IngestionResult
    span,           \* backfill: the requested slots, and those asked for so far
    changed,        \* [pass, symbol] whose stored bars changed; pass 0: a backfill
    jobs, passes, crashes

tables == <<master, history, candles, runs, events>>
jobState == <<pc, todo, rows, results, span>>
ghosts == <<verdicts, changed>>
counts == <<jobs, passes, crashes>>
vars == <<tables, jobState, ghosts, counts>>

Init ==
    /\ master = [s \in Symbols |-> None]
    /\ history = {}
    /\ candles = [k \in Keys |-> [t \in Slots |-> None]]
    /\ runs = <<>>
    /\ events = {}
    /\ verdicts = <<>>
    /\ pc = "idle"
    /\ todo = <<>>
    /\ rows = <<>>
    /\ results = <<>>
    /\ span = [of |-> {}, asked |-> <<>>]
    /\ changed = {}
    /\ jobs = 0
    /\ passes = 0
    /\ crashes = 0

-----------------------------------------------------------------------------
(* From a response body to candles. *)

\* UpstoxREST._frame: rows without a timestamp are dropped, and of those with
\* the same timestamp one is kept: the one sorted last, by a sort that is not
\* stable. What is left is a function from slots to bars.
Frames(body) ==
    LET rowsOf(t) == {body[n].bar : n \in {m \in DOMAIN body : body[m].slot = t}}
        times == {t \in Slots : rowsOf(t) # {}}
    IN  {f \in [times -> Values] : \A t \in times : f[t] \in rowsOf(t)}

\* normalize_candles: bars without all prices, with a high or low that the other
\* prices cross, or with a negative volume are dropped.
Normalized(frame) ==
    [t \in {u \in DOMAIN frame : frame[u] \in SoundBars} |-> frame[t]]

\* _session_gap_count: slots between the first and the last that are not there.
HasGap(times) ==
    \E t, u \in times : \E v \in Slots : t < v /\ v < u /\ v \notin times

\* quality_report as _record_data_quality_events reads it. A frame of the API has
\* no duplicates, no empty timestamps and is sorted. UnpricedBars are bars without
\* a price whose other prices do not cross, as max and min skip what is missing;
\* one whose other prices do cross is among CrossedBars, flagged and dropped alike.
Flawed(frame) ==
    \/ \E t \in DOMAIN frame : frame[t] \in CrossedBars \cup NegativeBars
    \/ HasGap(DOMAIN frame)
    \/ DOMAIN frame \ SessionSlots # {}

Stored(k, t) == candles[k][t] # None

\* upsert_candles: INSERT OR REPLACE
Replace(k, bars) ==
    [t \in Slots |-> IF t \in DOMAIN bars THEN bars[t] ELSE candles[k][t]]

\* [defect] compared after the statement that replaces them
RevisedAfterwards(k, bars) ==
    {t \in DOMAIN bars : Replace(k, bars)[t] # bars[t]}

\* The rows upsert_candles reports: stored before, and different.
Revised(k, bars) == {t \in DOMAIN bars : Stored(k, t) /\ candles[k][t] # bars[t]}

\* insert_candles: INSERT OR IGNORE
Ignore(k, bars) ==
    [t \in Slots |-> IF t \in DOMAIN bars /\ ~Stored(k, t) THEN bars[t] ELSE candles[k][t]]

-----------------------------------------------------------------------------
(* Instruments: sync_instruments and the scanner's _ensure_instrument_master. *)

Known == {s \in Symbols : master[s] # None}

\* sync_instruments resolves every symbol, the scanner those without a row.
StartSync ==
    /\ pc = "idle"
    /\ jobs < MaxJobs
    /\ \E wanted \in {Symbols, Symbols \ Known} :
        /\ wanted # {}
        /\ todo' = SetToSeq(wanted)
    /\ rows' = <<>>
    /\ pc' = "resolve"
    /\ jobs' = jobs + 1
    /\ UNCHANGED <<tables, ghosts, results, span, passes, crashes>>

\* A symbol resolves to a key, or is only warned about.
Resolve ==
    /\ pc = "resolve"
    /\ \E k \in Keys \cup {None} :
        rows' = IF k = None THEN rows
                ELSE [s \in DOMAIN rows \cup {Head(todo)} |->
                        IF s = Head(todo) THEN k ELSE rows[s]]
    /\ todo' = Tail(todo)
    /\ pc' = IF Tail(todo) # <<>> THEN "resolve"
             ELSE IF DOMAIN rows' = {} THEN "idle" ELSE "history"
    /\ UNCHANGED <<tables, ghosts, results, span, counts>>

HistoryOfRows == history \cup {<<s, rows[s]>> : s \in DOMAIN rows}
MasterOfRows == [s \in Symbols |-> IF s \in DOMAIN rows THEN rows[s] ELSE master[s]]

\* INSERT OR IGNORE: the history keeps every pair once.
InsertHistory ==
    /\ history' = HistoryOfRows
    /\ UNCHANGED master

\* INSERT OR REPLACE: one row for each symbol.
ReplaceMaster ==
    /\ master' = MasterOfRows
    /\ UNCHANGED history

\* [defect] the master first
UpsertMasterFirst(n) == IF n = 1 THEN ReplaceMaster ELSE InsertHistory

\* upsert_instruments: its two statements.
UpsertStatement(n) == IF n = 1 THEN InsertHistory ELSE ReplaceMaster

UpsertInstruments ==
    /\ \/ pc = "history" /\ UpsertStatement(1) /\ pc' = "master" /\ UNCHANGED rows
       \/ pc = "master" /\ UpsertStatement(2) /\ pc' = "idle" /\ rows' = <<>>
    /\ UNCHANGED <<candles, runs, events, ghosts, todo, results, span, counts>>

-----------------------------------------------------------------------------
(* An intraday pass: ingest_symbols, then assess_ingestion_results.         *)

\* Without a known instrument the pass raises before it begins.
StartPass ==
    /\ pc = "idle"
    /\ jobs < MaxJobs
    /\ passes < MaxPasses
    /\ Known # {}
    /\ todo' = SetToSeq(Known)
    /\ results' = <<>>
    /\ pc' = "ingest"
    /\ jobs' = jobs + 1
    /\ passes' = passes + 1
    /\ UNCHANGED <<tables, ghosts, rows, span, crashes>>

ErrorResult == [error |-> TRUE, empty |-> TRUE, flawed |-> FALSE, revised |-> FALSE]

Result(s, result) ==
    results' = [x \in DOMAIN results \cup {s} |-> IF x = s THEN result ELSE results[x]]

\* The intraday endpoint has answered with the whole day so far.
StoreFrame(s, frame) ==
    LET k == master[s]
        bars == Normalized(frame)
        stored == Replace(k, bars)
    IN  /\ candles' = [candles EXCEPT ![k] = stored]
        /\ Result(s, [error |-> FALSE, empty |-> DOMAIN frame = {},
                      flawed |-> Flawed(frame), revised |-> Revised(k, bars) # {}])
        /\ changed' = IF \E t \in Slots : Stored(k, t) /\ stored[t] # candles[k][t]
                      THEN changed \cup {[pass |-> passes, symbol |-> s]} ELSE changed

\* ingest_symbol: whatever it raises becomes a result.
IngestSymbol ==
    /\ pc = "ingest"
    /\ todo # <<>>
    /\ \/ /\ Result(Head(todo), ErrorResult)
          /\ UNCHANGED <<candles, changed>>
       \/ \E body \in Bodies : \E frame \in Frames(body) : StoreFrame(Head(todo), frame)
    /\ todo' = Tail(todo)
    /\ UNCHANGED <<master, history, runs, events, verdicts, pc, rows, span, counts>>

Ingested == DOMAIN results
Erred == {s \in Ingested : results[s].error}
Empty == {s \in Ingested : results[s].empty /\ ~results[s].error}

RunStatus ==
    IF Erred = {} THEN "SUCCESS" ELSE IF Erred = Ingested THEN "FAILED" ELSE "PARTIAL"

EventsFor(symbols, issue) ==
    SetToSeq({[pass |-> passes, symbol |-> s, issue |-> issue] : s \in symbols})

\* [defect] returns early when nothing but emptiness was found
EventsOfQuality ==
    LET flawed == {s \in Ingested : results[s].flawed}
        revised == {s \in Ingested : results[s].revised}
    IN  IF flawed \cup revised = {} THEN <<>>
        ELSE EventsFor(Empty, "EMPTY_RESPONSE") \o EventsFor(flawed, "INGESTION_QUALITY")
                \o EventsFor(revised, "CANDLE_REVISED")

\* What _record_data_quality_events inserts, a statement for each.
EventsOfPass ==
    EventsFor(Empty, "EMPTY_RESPONSE")
        \o EventsFor({s \in Ingested : results[s].flawed}, "INGESTION_QUALITY")
        \o EventsFor({s \in Ingested : results[s].revised}, "CANDLE_REVISED")

\* _record_ingestion_run, before anything can be raised.
RecordRun ==
    /\ pc = "ingest"
    /\ todo = <<>>
    /\ runs' = [p \in DOMAIN runs \cup {passes} |-> IF p = passes THEN RunStatus ELSE runs[p]]
    /\ todo' = EventsOfPass
    /\ pc' = "events"
    /\ UNCHANGED <<master, history, candles, events, ghosts, rows, results, span, counts>>

RecordEvent ==
    /\ pc = "events"
    /\ todo # <<>>
    /\ events' = events \cup {Head(todo)}
    /\ todo' = Tail(todo)
    /\ UNCHANGED <<master, history, candles, runs, ghosts, pc, rows, results, span, counts>>

\* An empty response is as bad as an error: at least half must have bars.
Usable == 2 * Cardinality({s \in Ingested : ~results[s].empty}) >= Cardinality(Ingested)

\* assess_ingestion_results: the caller goes on or fails.
Judge ==
    /\ pc = "events"
    /\ todo = <<>>
    /\ verdicts' = [p \in DOMAIN verdicts \cup {passes} |->
                        IF p = passes THEN [usable |-> Usable, without |-> Erred \cup Empty,
                                            flawed |-> {s \in Ingested : results[s].flawed}]
                        ELSE verdicts[p]]
    /\ pc' = "idle"
    /\ results' = <<>>
    /\ UNCHANGED <<tables, changed, todo, rows, span, counts>>

-----------------------------------------------------------------------------
(* A backfill of history. *)

\* [defect] a day is skipped between two windows
DateWindowsApart(first, last) ==
    {[from |-> t, to |-> IF t + MaxWindow - 1 < last THEN t + MaxWindow - 1 ELSE last] :
        t \in {u \in first..last : (u - first) % (MaxWindow + 1) = 0}}

DateWindows(first, last) ==
    {[from |-> t, to |-> IF t + MaxWindow - 1 < last THEN t + MaxWindow - 1 ELSE last] :
        t \in {u \in first..last : (u - first) % MaxWindow = 0}}

\* Every symbol needs its instrument, or nothing is fetched.
StartBackfill ==
    /\ pc = "idle"
    /\ jobs < MaxJobs
    /\ Known = Symbols
    /\ \E first, last \in Slots :
        /\ first <= last
        /\ span' = [of |-> first..last, asked |-> <<>>]
        /\ todo' = SetToSeq([symbol : Symbols, window : DateWindows(first, last)])
    /\ pc' = "backfill"
    /\ jobs' = jobs + 1
    /\ UNCHANGED <<tables, ghosts, rows, results, passes, crashes>>

Within(body, window) ==
    SelectSeq(body, LAMBDA row : row.slot = NoTime
                                    \/ (window.from <= row.slot /\ row.slot <= window.to))

\* backfill_symbol, a window at a time.
FetchWindow ==
    /\ pc = "backfill"
    /\ todo # <<>>
    /\ LET window == Head(todo).window
           s == Head(todo).symbol
           k == master[s]
       IN  /\ \E body \in Bodies : \E frame \in Frames(Within(body, window)) :
                LET stored == Ignore(k, Normalized(frame))
                IN  /\ candles' = [candles EXCEPT ![k] = stored]
                    /\ changed' =
                            IF \E t \in Slots : Stored(k, t) /\ stored[t] # candles[k][t]
                            THEN changed \cup {[pass |-> 0, symbol |-> s]} ELSE changed
           /\ span' = [span EXCEPT !.asked =
                            @ \o SetToSeq({<<s, t>> : t \in window.from..window.to})]
    /\ todo' = Tail(todo)
    /\ UNCHANGED <<master, history, runs, events, verdicts, pc, rows, results, counts>>

\* The backfill is complete, or a request raises and ends it.
EndBackfill ==
    /\ pc = "backfill"
    /\ pc' = "idle"
    /\ todo' = <<>>
    /\ UNCHANGED <<tables, ghosts, rows, results, span, counts>>

-----------------------------------------------------------------------------

\* The process is stopped between two statements.
Crash ==
    /\ pc # "idle"
    /\ crashes < MaxCrashes
    /\ pc' = "idle"
    /\ todo' = <<>>
    /\ rows' = <<>>
    /\ results' = <<>>
    /\ crashes' = crashes + 1
    /\ UNCHANGED <<tables, ghosts, span, jobs, passes>>

Next ==
    \/ StartSync \/ Resolve \/ UpsertInstruments
    \/ StartPass \/ IngestSymbol \/ RecordRun \/ RecordEvent \/ Judge
    \/ StartBackfill \/ FetchWindow \/ EndBackfill
    \/ Crash

Spec == Init /\ [][Next]_vars

-----------------------------------------------------------------------------
(* Properties. *)

Issues == {"EMPTY_RESPONSE", "INGESTION_QUALITY", "CANDLE_REVISED"}

TypeOK ==
    /\ master \in [Symbols -> Keys \cup {None}]
    /\ history \subseteq Symbols \X Keys
    /\ candles \in [Keys -> [Slots -> SoundBars \cup {None}]]
    /\ DOMAIN runs \subseteq 1..passes
    /\ events \subseteq [pass : 1..passes, symbol : Symbols, issue : Issues]
    /\ DOMAIN verdicts \subseteq DOMAIN runs
    /\ changed \subseteq [pass : 0..passes, symbol : Symbols]
    /\ DOMAIN rows \cup DOMAIN results \subseteq Symbols
    /\ pc \in {"idle", "resolve", "history", "master", "ingest", "events", "backfill"}

\* Every mapping in use, and the security of every stored candle, can be traced in
\* the history, wherever a resolution was interrupted. (upsert_instruments)
MappingTraceable ==
    /\ \A s \in Symbols : master[s] # None => <<s, master[s]>> \in history
    /\ \A k \in Keys : (\E t \in Slots : Stored(k, t)) => \E s \in Symbols : <<s, k>> \in history

\* A stored bar changes only in an intraday pass, and a pass that was judged has
\* reported each symbol of which it changed a bar. (_record_data_quality_events)
RevisionAudited ==
    \A c \in changed :
        /\ c.pass # 0
        /\ c.pass \in DOMAIN verdicts =>
                [pass |-> c.pass, symbol |-> c.symbol, issue |-> "CANDLE_REVISED"] \in events

\* A pass that its caller rejects is seen by monitoring: it has its row, and where
\* the row says SUCCESS there is an event for each symbol without bars. So has
\* each symbol with flawed ones. (ingest_symbols before assess_ingestion_results)
PassIsVisible ==
    \A p \in DOMAIN verdicts :
        /\ p \in DOMAIN runs
        /\ ~verdicts[p].usable /\ runs[p] = "SUCCESS" =>
                \A s \in verdicts[p].without :
                    [pass |-> p, symbol |-> s, issue |-> "EMPTY_RESPONSE"] \in events
        /\ \A s \in verdicts[p].flawed :
                [pass |-> p, symbol |-> s, issue |-> "INGESTION_QUALITY"] \in events

\* A backfill asks for every slot of its range once, for every symbol.
\* (date_windows, backfill)
BackfillCovers ==
    pc = "backfill" =>
        /\ \A m, n \in DOMAIN span.asked : span.asked[m] = span.asked[n] => m = n
        /\ ToSet(span.asked) \subseteq Symbols \X span.of
        /\ todo = <<>> => ToSet(span.asked) = Symbols \X span.of

=============================================================================
