---------------------------- MODULE PaperSession ----------------------------
(***************************************************************************)
(* One window of the paper session on the clock: waiting for the open, a   *)
(* tick every Interval seconds, each made of many requests to the market   *)
(* API that are retried with exponential backoff, and the verdict when the *)
(* window is over. The API may be unreachable for a while.                 *)
(*                                                                         *)
(* What a tick writes is the subject of PaperJournal and MarketFeed; here  *)
(* a symbol counts, and its answer has bars, is empty, or is an error.     *)
(* Definitions marked [defect] are broken variants of the next one, kept   *)
(* to show which property catches them; nothing uses them.                 *)
(***************************************************************************)
EXTENDS Integers

CONSTANTS
    Universe,       \* number of configured symbols
    MaxRetries,     \* retries of one request
    Backoff,        \* attempt -> seconds slept before the next one
    AttemptTime,    \* bound: seconds of one HTTP call, up to its timeout
    WorkTime,       \* bound: seconds of a tick's own computation
    Interval,       \* seconds between the starts of two ticks
    Nap,            \* longest sleep before the open
    Open, Until,    \* the window, in seconds of the day
    Outages         \* spans in which the API may be unreachable

ASSUME SizesAssumption ==
    /\ Universe \in Nat \ {0}
    /\ MaxRetries \in Nat
    /\ AttemptTime \in Nat
    /\ WorkTime \in Nat
    /\ Interval \in Nat \ {0}
    /\ Nap \in Nat \ {0}
    /\ Open \in Nat
    /\ Until \in Nat
    /\ Open < Until

\* backoff_base_seconds * 2 ** attempt
ASSUME BackoffAssumption ==
    /\ Backoff \in [0..MaxRetries -> Nat]
    /\ \A n \in 0..MaxRetries : n < MaxRetries => Backoff[n + 1] = 2 * Backoff[n]
    /\ \A m, n \in 0..MaxRetries : m <= n => Backoff[m] <= Backoff[n]

ASSUME OutagesAssumption == Outages \subseteq [from : Nat, to : Nat]

VARIABLES
    outage,         \* the span of this session
    clock,          \* seconds of the day
    pc,             \* what the session does next
    started,        \* when the current or last tick began
    master,         \* rows of instrument_master
    todo,           \* requests of the phase that are not finished
    aliased,        \* the current symbol is searched under its alias
    attempt,        \* retries of the current request so far
    requests,       \* requests of the tick that are finished
    arrived,        \* symbols whose bars arrived in this tick's pass
    resolved,       \* symbols found in this tick's search
    ticksOk, ticksFailed,
    sound,          \* passes in which at least half of the symbols arrived
    lost,           \* a request was given up because the API was unreachable
    exit            \* how the process ended

request == <<todo, aliased, attempt, requests>>
tick == <<started, arrived, resolved>>
score == <<ticksOk, ticksFailed, sound>>
vars == <<outage, clock, pc, master, request, tick, score, lost, exit>>

Max2(a, b) == IF a >= b THEN a ELSE b
Min2(a, b) == IF a <= b THEN a ELSE b

Requesting == {"candles", "search", "quotes"}
InTick == Requesting \cup {"record", "work"}

Init ==
    /\ outage \in Outages
    /\ clock \in 0..Until
    /\ pc = "loop"
    /\ started = 0
    /\ master \in 0..Universe
    /\ todo = 0
    /\ aliased = FALSE
    /\ attempt = 0
    /\ requests = 0
    /\ arrived = 0
    /\ resolved = 0
    /\ ticksOk = 0
    /\ ticksFailed = 0
    /\ sound = 0
    /\ lost = FALSE
    /\ exit = "none"

-----------------------------------------------------------------------------
(* The loop. *)

\* [defect] whole naps only, and none for the seconds that remain
WholeNaps == Min2(Nap * ((Open - clock) \div Nap), Nap)

NapTowardsOpen == Min2(Max2(1, Open - clock), Nap)

WaitForOpen ==
    /\ pc = "loop"
    /\ clock < Open
    /\ clock' = clock + NapTowardsOpen
    /\ UNCHANGED <<outage, pc, master, request, tick, score, lost, exit>>

\* [defect] one good tick is enough
SessionHealthyOnce == ticksOk + ticksFailed = 0 \/ ticksOk > 0

\* _fail_if_session_unhealthy; a window without ticks is not judged.
SessionHealthy ==
    \/ ticksOk + ticksFailed = 0
    \/ ticksOk > 0 /\ 2 * ticksFailed <= ticksOk + ticksFailed

\* The window is over: pending trades are evaluated, which may raise, and the
\* session is judged.
CloseWindow ==
    /\ pc = "loop"
    /\ clock >= Until
    /\ \E work \in 0..WorkTime : clock' = clock + work
    /\ exit' \in {IF SessionHealthy THEN "healthy" ELSE "unhealthy", "error"}
    /\ pc' = "done"
    /\ UNCHANGED <<outage, master, request, tick, score, lost>>

\* The tick ends with success or an exception; the session goes on.
EndTick(ok) ==
    /\ pc' = "sleep"
    /\ ticksOk' = IF ok THEN ticksOk + 1 ELSE ticksOk
    /\ ticksFailed' = IF ok THEN ticksFailed ELSE ticksFailed + 1

\* An empty instrument_master raises before anything is fetched.
StartTick ==
    /\ pc = "loop"
    /\ Open <= clock
    /\ clock < Until
    /\ started' = clock
    /\ todo' = master
    /\ requests' = 0
    /\ arrived' = 0
    /\ IF master = 0
       THEN EndTick(FALSE)
       ELSE /\ pc' = "candles"
            /\ UNCHANGED <<ticksOk, ticksFailed>>
    /\ UNCHANGED <<outage, clock, master, aliased, attempt, resolved, sound, lost, exit>>

\* [defect] the time the tick took is not subtracted
RestInterval == clock + Interval

\* [defect] a failed tick is repeated at once
RestAfterSuccess == IF ticksFailed > 0 THEN clock + 1 ELSE Max2(clock + 1, started + Interval)

\* The next tick starts an interval after the last one, or right after a long one.
Rest == Max2(clock + 1, started + Interval)

Sleep ==
    /\ pc = "sleep"
    /\ clock' = Rest
    /\ pc' = "loop"
    /\ UNCHANGED <<outage, master, request, tick, score, lost, exit>>

\* The user stops the process: without a verdict, and as a success when it
\* happens in a tick.
Interrupt ==
    /\ pc # "done"
    /\ pc' = "done"
    /\ exit' = IF pc \in InTick THEN "stopped" ELSE "error"
    /\ UNCHANGED <<outage, clock, master, request, tick, score, lost>>

-----------------------------------------------------------------------------
(* One request. *)

\* A call of d seconds that meets the outage may time out, lose its connection,
\* or be answered with 429, 500, 502, 503 or 504.
Unreachable(d) == \E t \in clock..(clock + d) : outage.from <= t /\ t < outage.to

\* [defect] every pause is the base
PauseFlat(n) == Backoff[0]

\* _sleep_before_retry
Pause(n) == Backoff[n]

Retry ==
    /\ pc \in Requesting
    /\ attempt < MaxRetries
    /\ \E d \in 0..AttemptTime :
        /\ Unreachable(d)
        /\ clock' = clock + d + Pause(attempt)
    /\ attempt' = attempt + 1
    /\ UNCHANGED <<outage, pc, master, todo, aliased, requests, tick, score, lost, exit>>

\* The last call of the request takes d seconds. It is answered, or refused with
\* another status or a body that is no JSON object; or the retries are used up.
Answered(d) ==
    /\ clock' = clock + d
    /\ attempt' = 0
    /\ requests' = requests + 1
    /\ UNCHANGED lost

GivenUp(d) ==
    /\ Unreachable(d)
    /\ attempt = MaxRetries
    /\ clock' = clock + d
    /\ attempt' = 0
    /\ requests' = requests + 1
    /\ lost' = TRUE

-----------------------------------------------------------------------------
(* A tick: candles of every instrument, the verdict on the pass, the search *)
(* for configured symbols without an instrument, the quotes, the decisions. *)

Missing == Universe - master

\* ingest_symbol turns every exception into a result.
FetchCandles ==
    /\ pc = "candles"
    /\ \E d \in 0..AttemptTime :
        \/ Answered(d) /\ arrived' \in {arrived, arrived + 1}
        \/ GivenUp(d) /\ UNCHANGED arrived
    /\ todo' = todo - 1
    /\ pc' = IF todo = 1 THEN "record" ELSE "candles"
    /\ UNCHANGED <<outage, master, aliased, started, resolved, score, exit>>

\* assess_ingestion_results
Usable == 2 * arrived >= master

\* The pass has its row in ingestion_runs, then it is judged.
RecordPass ==
    /\ pc = "record"
    /\ sound' = IF Usable THEN sound + 1 ELSE sound
    /\ IF Usable
       THEN /\ pc' = IF Missing > 0 THEN "search" ELSE "quotes"
            /\ todo' = IF Missing > 0 THEN Missing ELSE 1
            /\ UNCHANGED <<ticksOk, ticksFailed>>
       ELSE EndTick(FALSE) /\ UNCHANGED todo
    /\ UNCHANGED <<outage, clock, master, aliased, attempt, requests, tick, lost, exit>>

\* The symbol is done with; those that were found are stored with the last one.
NextSymbol(found) ==
    /\ aliased' = FALSE
    /\ IF todo = 1
       THEN /\ master' = master + found
            /\ resolved' = 0
            /\ todo' = 1
            /\ pc' = "quotes"
       ELSE /\ resolved' = found
            /\ todo' = todo - 1
            /\ UNCHANGED <<master, pc>>

\* Nothing matched, and the symbol has an alias that was not searched yet.
TryAlias ==
    /\ ~aliased
    /\ aliased' = TRUE
    /\ UNCHANGED <<todo, master, resolved, pc>>

\* resolve_equity for a symbol without an instrument: one match, none, or an
\* error, ambiguity included; a symbol that is not resolved is only warned about.
Search ==
    /\ pc = "search"
    /\ \E d \in 0..AttemptTime :
        \/ Answered(d) /\ (NextSymbol(resolved + 1) \/ NextSymbol(resolved) \/ TryAlias)
        \/ GivenUp(d) /\ NextSymbol(resolved)
    /\ UNCHANGED <<outage, started, arrived, score, exit>>

\* Without quotes there is nothing to scan: the tick fails.
FetchQuotes ==
    /\ pc = "quotes"
    /\ \E d \in 0..AttemptTime :
        \/ Answered(d) /\ pc' = "work" /\ UNCHANGED <<ticksOk, ticksFailed>>
        \/ Answered(d) /\ EndTick(FALSE)
        \/ GivenUp(d) /\ EndTick(FALSE)
    /\ todo' = 0
    /\ UNCHANGED <<outage, master, aliased, tick, sound, exit>>

\* Scan, decide, check the freshness, evaluate: any of it may raise.
Decide ==
    /\ pc = "work"
    /\ \E work \in 0..WorkTime, ok \in BOOLEAN :
        /\ clock' = clock + work
        /\ EndTick(ok)
    /\ UNCHANGED <<outage, master, request, tick, sound, lost, exit>>

-----------------------------------------------------------------------------

Progress ==
    \/ WaitForOpen \/ CloseWindow \/ StartTick \/ Sleep
    \/ Retry \/ FetchCandles \/ RecordPass \/ Search \/ FetchQuotes \/ Decide

Next == Progress \/ Interrupt

Spec == Init /\ [][Next]_vars

\* The process runs until it ends; nobody has to interrupt it.
FairSpec == Spec /\ WF_vars(Progress)

-----------------------------------------------------------------------------
(* Properties. *)

TypeOK ==
    /\ outage \in [from : Nat, to : Nat]
    /\ clock \in Nat
    /\ pc \in InTick \cup {"loop", "sleep", "done"}
    /\ started \in Nat
    /\ master \in 0..Universe
    /\ todo \in 0..Universe
    /\ aliased \in BOOLEAN
    /\ attempt \in 0..MaxRetries
    /\ requests \in Nat
    /\ arrived \in 0..Universe
    /\ resolved \in 0..Universe
    /\ ticksOk \in Nat
    /\ ticksFailed \in Nat
    /\ sound \in Nat
    /\ lost \in BOOLEAN
    /\ exit \in {"none", "healthy", "unhealthy", "stopped", "error"}

\* The longest a request can take: all its calls, and the pauses between them,
\* which add up to Backoff[MaxRetries] - Backoff[0].
TotalBackoff == Backoff[MaxRetries] - Backoff[0]
RequestBound == (MaxRetries + 1) * AttemptTime + TotalBackoff

\* A tick makes one request for each instrument, up to two for each symbol that
\* has none, and one for the quotes: no more than twice the universe.
TickBound == 2 * Universe * RequestBound + WorkTime

\* The session is over in time, however the API behaves: the last tick starts
\* inside the window, its retries are bounded, and one sleep and the final
\* evaluation follow it. (paper_session.main, UpstoxREST._get)
EndsOnTime == clock < Until + Max2(Interval, TickBound + 1) + WorkTime

\* The API is not hammered: the n-th tick begins at least n - 1 intervals after
\* the open, whatever happened to the ticks before. (paper_session.main)
Begun == ticksOk + ticksFailed + (IF pc \in InTick THEN 1 ELSE 0)
RateKept == Begun > 0 => (Begun - 1) * Interval <= started - Open

\* An outage shorter than the pauses between the calls of one request costs no
\* data: every request it hits is answered by a later call. (UpstoxREST._get)
BlipsAreRiddenOut == lost => outage.to - outage.from > TotalBackoff

\* A session that ends as healthy had, in at least half of its ticks, the bars of
\* at least half of the instruments it knew. (_fail_if_session_unhealthy,
\* assess_ingestion_results)
OutageIsNoticed == exit = "healthy" => 2 * sound >= ticksOk + ticksFailed

\* The session ends. (paper_session.main)
SessionEnds == <>(pc = "done")

=============================================================================
