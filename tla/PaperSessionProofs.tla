------------------------- MODULE PaperSessionProofs -------------------------
(***************************************************************************)
(* For every universe, number of retries, backoff, window and outage: a    *)
(* session ends in time and starts its ticks no faster than the interval,  *)
(* an outage shorter than the pauses of a request loses nothing, and a     *)
(* healthy verdict rests on ticks that had data.                           *)
(***************************************************************************)
EXTENDS PaperSession, TLAPS

USE SizesAssumption

-----------------------------------------------------------------------------
(* Arithmetic. *)

LEMMA OneMore ==
    ASSUME NEW n \in Nat, NEW r \in Nat
    PROVE  n * r \in Nat /\ (n + 1) * r = n * r + r
  OBVIOUS

LEMMA Monotone ==
    ASSUME NEW m \in Nat, NEW n \in Nat, NEW r \in Nat, m <= n
    PROVE  m * r <= n * r
  <1> DEFINE k == n - m
  <1>1. k \in Nat /\ n = m + k
    OBVIOUS
  <1>2. n * r = m * r + k * r
    BY <1>1
  <1>3. k * r \in Nat /\ m * r \in Nat
    BY <1>1
  <1> QED
    BY <1>2, <1>3

\* What the pauses of a request add up to.
LEMMA BackoffFacts ==
    /\ \A n \in 0..MaxRetries : Backoff[n] \in Nat /\ Backoff[0] <= Backoff[n]
    /\ \A n \in 0..MaxRetries : Backoff[n] <= Backoff[MaxRetries]
    /\ \A n \in 0..MaxRetries : n < MaxRetries =>
            n + 1 \in 0..MaxRetries /\ Backoff[n + 1] = Backoff[n] + Backoff[n]
    /\ TotalBackoff \in Nat
  <1>1. 0 \in 0..MaxRetries /\ MaxRetries \in 0..MaxRetries
    OBVIOUS
  <1>2. \A n \in 0..MaxRetries : Backoff[n] \in Nat
    BY BackoffAssumption
  <1> QED
    BY <1>1, <1>2, BackoffAssumption DEF TotalBackoff

LEMMA BoundFacts ==
    /\ RequestBound \in Nat
    /\ TickBound = (2 * Universe) * RequestBound + WorkTime
    /\ TickBound \in Nat
  <1>1. MaxRetries + 1 \in Nat /\ (MaxRetries + 1) * AttemptTime \in Nat
    BY OneMore
  <1>2. RequestBound \in Nat
    BY <1>1, BackoffFacts DEF RequestBound
  <1>3. 2 * Universe \in Nat /\ (2 * Universe) * RequestBound \in Nat
    BY <1>2, OneMore
  <1> QED
    BY <1>2, <1>3 DEF TickBound

-----------------------------------------------------------------------------
(* How many requests a tick has made in each of its phases. *)

CountInv ==
    /\ pc = "candles" =>
        /\ 1 <= todo /\ todo <= master
        /\ requests = master - todo
        /\ arrived <= requests
    /\ pc = "record" => 1 <= master /\ requests = master
    /\ pc = "search" =>
        /\ 1 <= master
        /\ 1 <= todo /\ todo <= Missing
        /\ resolved <= Missing - todo
        /\ requests <= master + 2 * (Missing - todo) + (IF aliased THEN 1 ELSE 0)
    /\ pc = "quotes" => requests <= 2 * Universe - 1
    /\ pc = "work" => requests <= 2 * Universe
    /\ pc \notin Requesting \cup {"done"} => attempt = 0
    /\ pc \notin {"search", "done"} => resolved = 0

LEMMA CountInvariant == Spec => [](TypeOK /\ CountInv)
  <1> USE DEF InTick, Requesting
  <1>1. Init => TypeOK /\ CountInv
    <2> SUFFICES ASSUME Init PROVE TypeOK /\ CountInv
      OBVIOUS
    <2>1. outage \in [from : Nat, to : Nat]
      BY OutagesAssumption DEF Init
    <2>2. TypeOK
      <3>1. clock \in Nat /\ master \in 0..Universe /\ 0 \in 0..Universe /\ 0 \in 0..MaxRetries
        BY DEF Init
      <3> QED
        BY <2>1, <3>1 DEF Init, TypeOK
    <2>3. CountInv
      BY DEF Init, CountInv
    <2> QED
      BY <2>2, <2>3
  <1>2. TypeOK /\ CountInv /\ [Next]_vars => (TypeOK /\ CountInv)'
    <2> SUFFICES ASSUME TypeOK, CountInv, [Next]_vars
                 PROVE  TypeOK' /\ CountInv'
      OBVIOUS
    <2> USE DEF TypeOK, CountInv, Missing
    <2>1. CASE WaitForOpen
      BY <2>1 DEF WaitForOpen, NapTowardsOpen, Min2, Max2, request, tick, score
    <2>2. CASE CloseWindow
      BY <2>2 DEF CloseWindow, request, tick, score
    <2>3. CASE StartTick
      BY <2>3 DEF StartTick, EndTick, request, tick, score
    <2>4. CASE Sleep
      BY <2>4 DEF Sleep, Rest, Max2, request, tick, score
    <2>5. CASE Interrupt
      BY <2>5 DEF Interrupt, request, tick, score
    <2>6. CASE Retry
      BY <2>6, BackoffFacts DEF Retry, Pause, tick, score
    <2>7. CASE FetchCandles
      <3> USE DEF score
      <3>1. PICK d \in 0..AttemptTime :
              /\ clock' = clock + d
              /\ attempt' = 0 /\ requests' = requests + 1
              /\ lost' \in BOOLEAN
              /\ arrived' \in {arrived, arrived + 1}
        BY <2>7 DEF FetchCandles, Answered, GivenUp
      <3>2. /\ pc = "candles" /\ todo' = todo - 1
            /\ pc' = IF todo = 1 THEN "record" ELSE "candles"
            /\ UNCHANGED <<outage, master, aliased, started, resolved, score, exit>>
        BY <2>7 DEF FetchCandles
      <3>3. clock' \in Nat /\ requests' \in Nat /\ arrived' \in 0..Universe
        BY <3>1, <3>2
      <3>4. TypeOK'
        BY <3>1, <3>2, <3>3
      <3>5. CountInv'
        BY <3>1, <3>2
      <3> QED
        BY <3>4, <3>5
    <2>8. CASE RecordPass
      BY <2>8 DEF RecordPass, EndTick, tick
    <2>9. CASE Search
      <3> USE DEF score
      <3>1. PICK d \in 0..AttemptTime :
              /\ clock' = clock + d
              /\ attempt' = 0 /\ requests' = requests + 1
              /\ lost' \in BOOLEAN
              /\ NextSymbol(resolved + 1) \/ NextSymbol(resolved) \/ TryAlias
        BY <2>9 DEF Search, Answered, GivenUp
      <3>2. /\ pc = "search"
            /\ UNCHANGED <<outage, started, arrived, score, exit>>
        BY <2>9 DEF Search
      <3>3. /\ clock' \in Nat /\ requests' \in Nat
            /\ attempt' \in 0..MaxRetries /\ lost' \in BOOLEAN
        BY <3>1
      <3>4. CASE TryAlias
        BY <3>1, <3>2, <3>3, <3>4 DEF TryAlias
      <3>5. ASSUME NEW found \in {resolved, resolved + 1}, NextSymbol(found)
            PROVE  TypeOK' /\ CountInv'
        <4>1. found \in 0..(Universe - master - todo + 1)
          BY <3>2
        <4>2. /\ outage' = outage /\ started' = started /\ arrived' = arrived /\ exit' = exit
              /\ ticksOk' = ticksOk /\ ticksFailed' = ticksFailed /\ sound' = sound
              /\ aliased' = FALSE
          BY <3>2, <3>5 DEF NextSymbol
        <4>3. CASE todo = 1
          <5>1. master' = master + found /\ resolved' = 0 /\ todo' = 1 /\ pc' = "quotes"
            BY <3>5, <4>3 DEF NextSymbol
          <5>2. TypeOK'
            <6>1. master' \in 0..Universe /\ todo' \in 0..Universe /\ resolved' \in 0..Universe
              BY <4>1, <4>3, <5>1
            <6> QED
              BY <3>3, <4>2, <5>1, <6>1
          <5>3. CountInv'
            BY <3>1, <3>2, <4>1, <4>2, <4>3, <5>1
          <5> QED
            BY <5>2, <5>3
        <4>4. CASE todo # 1
          <5>1. master' = master /\ resolved' = found /\ todo' = todo - 1 /\ pc' = "search"
            BY <3>2, <3>5, <4>4 DEF NextSymbol
          <5>2. TypeOK'
            <6>1. master' \in 0..Universe /\ todo' \in 0..Universe /\ resolved' \in 0..Universe
              BY <3>2, <4>1, <4>4, <5>1
            <6> QED
              BY <3>3, <4>2, <5>1, <6>1
          <5>3. CountInv'
            BY <3>1, <3>2, <4>1, <4>2, <4>4, <5>1
          <5> QED
            BY <5>2, <5>3
        <4> QED
          BY <4>3, <4>4
      <3> QED
        BY <3>1, <3>4, <3>5
    <2>10. CASE FetchQuotes
      <3> USE DEF tick
      <3>1. PICK d \in 0..AttemptTime :
              /\ clock' = clock + d
              /\ attempt' = 0 /\ requests' = requests + 1
              /\ lost' \in BOOLEAN
              /\ \/ pc' = "work" /\ UNCHANGED <<ticksOk, ticksFailed>>
                 \/ EndTick(FALSE)
        BY <2>10 DEF FetchQuotes, Answered, GivenUp
      <3>2. /\ pc = "quotes" /\ todo' = 0
            /\ UNCHANGED <<outage, master, aliased, tick, sound, exit>>
        BY <2>10 DEF FetchQuotes
      <3>3. clock' \in Nat /\ requests' \in Nat
        BY <3>1
      <3> QED
        BY <3>1, <3>2, <3>3 DEF EndTick
    <2>11. CASE Decide
      BY <2>11 DEF Decide, EndTick, request, tick
    <2>12. CASE UNCHANGED vars
      BY <2>12 DEF vars, request, tick, score
    <2> QED
      BY <2>1, <2>2, <2>3, <2>4, <2>5, <2>6, <2>7, <2>8, <2>9, <2>10, <2>11, <2>12
      DEF Next, Progress
  <1> QED
    BY <1>1, <1>2, PTL DEF Spec

\* Every variable keeps its domain: counters do not run below zero or past the
\* universe, and no request is tried more often than it may be.
THEOREM TypeCorrect == Spec => []TypeOK
  BY CountInvariant, PTL

-----------------------------------------------------------------------------
(* The clock. *)

\* When the next tick can begin at the latest.
LatestLoop == Until - 1 + Max2(Interval, TickBound + 1)

\* What the requests of the tick took at most, the pauses of the current one
\* included: Backoff[attempt] - Backoff[0] after attempt retries.
Spent == requests * RequestBound + attempt * AttemptTime + Backoff[attempt] - Backoff[0]

TimeInv ==
    /\ pc = "loop" => clock <= LatestLoop
    /\ pc \in InTick \cup {"sleep"} => Open <= started /\ started < Until
    /\ pc \in InTick => clock <= started + Spent
    /\ pc = "sleep" => clock <= started + TickBound
    /\ pc = "done" => clock <= LatestLoop + WorkTime

LEMMA LatestFacts ==
    /\ LatestLoop \in Nat
    /\ Until - 1 + Interval <= LatestLoop
    /\ Until + TickBound <= LatestLoop
  BY BoundFacts DEF LatestLoop, Max2

\* In a tick, the time spent is within the bound, whatever the phase.
LEMMA SpentFacts ==
    ASSUME TypeOK, CountInv
    PROVE  /\ Spent \in Int
           /\ attempt = 0 => Spent = requests * RequestBound
           /\ Spent + AttemptTime <= (requests + 1) * RequestBound
           /\ \A m \in Nat : m <= 2 * Universe => m * RequestBound + WorkTime <= TickBound
           /\ pc \in Requesting => requests + 1 <= 2 * Universe
           /\ pc \in InTick => requests <= 2 * Universe
  <1> USE DEF TypeOK
  <1>1. /\ requests * RequestBound \in Nat
        /\ (requests + 1) * RequestBound = requests * RequestBound + RequestBound
    BY BoundFacts, OneMore
  <1>2. /\ attempt * AttemptTime \in Nat
        /\ (attempt + 1) * AttemptTime = attempt * AttemptTime + AttemptTime
    BY OneMore
  <1>3. (attempt + 1) * AttemptTime <= (MaxRetries + 1) * AttemptTime
    BY Monotone
  <1>4. Backoff[attempt] \in Nat /\ Backoff[0] \in Nat /\ Backoff[MaxRetries] \in Nat
        /\ Backoff[attempt] <= Backoff[MaxRetries]
    BY BackoffFacts
  <1>5. (MaxRetries + 1) * AttemptTime \in Nat
    BY OneMore
  <1>6. RequestBound = (MaxRetries + 1) * AttemptTime + Backoff[MaxRetries] - Backoff[0]
    BY <1>4, <1>5 DEF RequestBound, TotalBackoff
  <1>7. Spent \in Int
    BY <1>1, <1>2, <1>4 DEF Spent
  <1>8. attempt = 0 => Spent = requests * RequestBound
    <2> SUFFICES ASSUME attempt = 0 PROVE Spent = requests * RequestBound
      OBVIOUS
    <2>1. attempt * AttemptTime = 0
      OBVIOUS
    <2> QED
      BY <2>1, <1>1, <1>4 DEF Spent
  <1>9. Spent + AttemptTime <= (requests + 1) * RequestBound
    BY <1>1, <1>2, <1>3, <1>4, <1>5, <1>6 DEF Spent
  <1>10. \A m \in Nat : m <= 2 * Universe => m * RequestBound + WorkTime <= TickBound
    <2> SUFFICES ASSUME NEW m \in Nat, m <= 2 * Universe
                 PROVE  m * RequestBound + WorkTime <= TickBound
      OBVIOUS
    <2>1. 2 * Universe \in Nat
      OBVIOUS
    <2>2. m * RequestBound <= (2 * Universe) * RequestBound
      BY <2>1, BoundFacts, Monotone
    <2>3. m * RequestBound \in Nat /\ (2 * Universe) * RequestBound \in Nat
      BY <2>1, BoundFacts, OneMore
    <2> QED
      BY <2>2, <2>3, BoundFacts
  <1>11. pc \in Requesting => requests + 1 <= 2 * Universe
    BY DEF CountInv, Requesting, Missing
  <1>12. pc \in InTick => requests <= 2 * Universe
    BY DEF CountInv, Requesting, InTick, Missing
  <1> QED
    BY <1>7, <1>8, <1>9, <1>10, <1>11, <1>12

\* A finished request: the clock has advanced by no more than RequestBound.
LEMMA Finished ==
    ASSUME TypeOK, CountInv, TimeInv, pc \in Requesting,
           NEW d \in 0..AttemptTime, clock' = clock + d,
           attempt' = 0, requests' = requests + 1
    PROVE  /\ clock' <= started + requests' * RequestBound
           /\ Spent' = requests' * RequestBound
           /\ clock' <= started + TickBound
  <1> USE DEF TypeOK
  <1>1. clock <= started + Spent
    BY DEF TimeInv, InTick
  <1>2. clock' <= started + (requests + 1) * RequestBound
    BY <1>1, SpentFacts, BoundFacts, OneMore
  <1>3. requests + 1 \in Nat /\ (requests + 1) * RequestBound \in Nat
    BY BoundFacts, OneMore
  <1>4. (requests + 1) * RequestBound + WorkTime <= TickBound
    BY <1>3, SpentFacts
  <1>5. Spent' = requests' * RequestBound
    <2>1. Spent' = requests' * RequestBound + 0 * AttemptTime + Backoff[0] - Backoff[0]
      BY DEF Spent
    <2> QED
      BY <2>1, <1>3, BackoffFacts
  <1> QED
    BY <1>2, <1>3, <1>4, <1>5, BoundFacts

LEMMA SpentBound ==
    ASSUME TypeOK, CountInv, pc \in InTick
    PROVE  Spent <= TickBound
  <1> USE DEF TypeOK
  <1>1. TickBound \in Nat
    BY BoundFacts
  <1>2. CASE pc \in Requesting
    <2>1. (requests + 1) * RequestBound + WorkTime <= TickBound
      BY <1>2, SpentFacts
    <2>2. Spent \in Int /\ Spent + AttemptTime <= (requests + 1) * RequestBound
      BY SpentFacts
    <2>3. (requests + 1) * RequestBound \in Nat
      BY BoundFacts, OneMore
    <2> QED
      BY <1>1, <2>1, <2>2, <2>3
  <1>3. CASE pc \notin Requesting
    <2>1. attempt = 0 /\ requests <= 2 * Universe
      BY <1>3, SpentFacts DEF CountInv, InTick, Requesting
    <2>2. Spent = requests * RequestBound
      BY <2>1, SpentFacts
    <2>3. requests * RequestBound + WorkTime <= TickBound
      BY <2>1, SpentFacts
    <2>4. requests * RequestBound \in Nat
      BY BoundFacts, OneMore
    <2> QED
      BY <1>1, <2>2, <2>3, <2>4
  <1> QED
    BY <1>2, <1>3

LEMMA TimeInvariant == Spec => []TimeInv
  <1> USE DEF InTick, Requesting
  <1>1. Init => TimeInv
    BY LatestFacts DEF Init, TimeInv
  <1>2. TypeOK /\ CountInv /\ TypeOK' /\ CountInv' /\ TimeInv /\ [Next]_vars => TimeInv'
    <2> SUFFICES ASSUME TypeOK, CountInv, TypeOK', CountInv', TimeInv, [Next]_vars
                 PROVE  TimeInv'
      OBVIOUS
    <2>0. /\ LatestLoop' = LatestLoop /\ TickBound' = TickBound
          /\ LatestLoop \in Nat /\ TickBound \in Nat
          /\ clock \in Nat /\ clock' \in Nat /\ started \in Nat /\ started' \in Nat
          /\ requests \in Nat /\ requests' \in Nat /\ attempt \in 0..MaxRetries
      BY LatestFacts, BoundFacts
      DEF TypeOK, LatestLoop, TickBound, RequestBound, TotalBackoff, Max2
    <2>1. CASE WaitForOpen
      BY <2>0, <2>1, LatestFacts DEF WaitForOpen, NapTowardsOpen, Min2, Max2, TimeInv
    <2>2. CASE CloseWindow
      BY <2>0, <2>2 DEF CloseWindow, TimeInv
    <2>3. CASE StartTick
      <3>1. started' = clock /\ clock' = clock /\ requests' = 0 /\ attempt' = 0
            /\ Open <= clock /\ clock < Until /\ pc' \in {"candles", "sleep"}
        BY <2>3 DEF StartTick, EndTick, CountInv
      <3>2. Spent' = 0
        <4>1. Spent' = 0 * RequestBound + 0 * AttemptTime + Backoff[0] - Backoff[0]
          BY <3>1 DEF Spent
        <4> QED
          BY <4>1, BackoffFacts, BoundFacts
      <3> QED
        BY <2>0, <3>1, <3>2 DEF TimeInv
    <2>4. CASE Sleep
      BY <2>0, <2>4, LatestFacts DEF Sleep, Rest, Max2, TimeInv
    <2>5. CASE Interrupt
      <3>1. pc # "done" /\ pc' = "done" /\ clock' = clock
        BY <2>5 DEF Interrupt
      <3>2. CASE pc = "loop"
        BY <2>0, <3>1, <3>2 DEF TimeInv
      <3>3. CASE pc = "sleep"
        BY <2>0, <3>1, <3>3, LatestFacts DEF TimeInv
      <3>4. CASE pc \in InTick
        <4>1. clock <= started + Spent /\ started < Until
          BY <3>4 DEF TimeInv
        <4>2. Spent <= TickBound /\ Spent \in Int
          BY <3>4, SpentBound, SpentFacts
        <4> QED
          BY <2>0, <3>1, <4>1, <4>2, LatestFacts DEF TimeInv
      <3> QED
        BY <3>1, <3>2, <3>3, <3>4 DEF TypeOK
    <2>6. CASE Retry
      <3>1. PICK d \in 0..AttemptTime : clock' = clock + d + Backoff[attempt]
        BY <2>6 DEF Retry, Pause
      <3>2. /\ pc \in Requesting /\ pc' = pc /\ started' = started /\ requests' = requests
            /\ attempt < MaxRetries /\ attempt' = attempt + 1
        BY <2>6 DEF Retry, request, tick
      <3>3. clock <= started + Spent
        BY <3>2 DEF TimeInv
      <3>4. /\ Backoff[attempt] \in Nat /\ Backoff[0] \in Nat
            /\ Backoff[attempt'] = Backoff[attempt] + Backoff[attempt]
        BY <2>0, <3>2, BackoffFacts
      <3>5. /\ attempt * AttemptTime \in Nat
            /\ attempt' * AttemptTime = attempt * AttemptTime + AttemptTime
        BY <2>0, <3>2, OneMore
      <3>6. requests * RequestBound \in Nat
        BY <2>0, BoundFacts, OneMore
      <3>7. Spent' = requests * RequestBound + attempt' * AttemptTime + Backoff[attempt'] - Backoff[0]
        BY <3>2 DEF Spent
      <3>8. clock' <= started + Spent'
        BY <2>0, <3>1, <3>3, <3>4, <3>5, <3>6, <3>7 DEF Spent
      <3> QED
        BY <3>2, <3>8 DEF TimeInv
    <2>7. CASE FetchCandles
      <3>1. PICK d \in 0..AttemptTime :
              clock' = clock + d /\ attempt' = 0 /\ requests' = requests + 1
        BY <2>7 DEF FetchCandles, Answered, GivenUp
      <3>2. pc = "candles" /\ pc' \in {"candles", "record"} /\ started' = started
        BY <2>7 DEF FetchCandles
      <3>3. clock' <= started + Spent'
        BY <2>0, <3>1, <3>2, Finished
      <3> QED
        BY <3>2, <3>3 DEF TimeInv
    <2>8. CASE RecordPass
      <3>1. /\ pc = "record" /\ pc' \in {"search", "quotes", "sleep"}
            /\ UNCHANGED <<clock, started, requests, attempt>>
        BY <2>8 DEF RecordPass, EndTick, tick
      <3>2. attempt = 0 /\ requests <= 2 * Universe
        BY <3>1, SpentFacts DEF CountInv
      <3>3. Spent' = Spent
        BY <3>1 DEF Spent
      <3>4. Spent = requests * RequestBound /\ requests * RequestBound + WorkTime <= TickBound
        BY <2>0, <3>2, SpentFacts
      <3>5. requests * RequestBound \in Nat
        BY <2>0, BoundFacts, OneMore
      <3> QED
        BY <2>0, <3>1, <3>3, <3>4, <3>5 DEF TimeInv
    <2>9. CASE Search
      <3>1. PICK d \in 0..AttemptTime :
              clock' = clock + d /\ attempt' = 0 /\ requests' = requests + 1
        BY <2>9 DEF Search, Answered, GivenUp
      <3>2. pc = "search" /\ pc' \in {"search", "quotes"} /\ started' = started
        BY <2>9 DEF Search, NextSymbol, TryAlias
      <3>3. clock' <= started + Spent'
        BY <2>0, <3>1, <3>2, Finished
      <3> QED
        BY <3>2, <3>3 DEF TimeInv
    <2>10. CASE FetchQuotes
      <3>1. PICK d \in 0..AttemptTime :
              clock' = clock + d /\ attempt' = 0 /\ requests' = requests + 1
        BY <2>10 DEF FetchQuotes, Answered, GivenUp
      <3>2. pc = "quotes" /\ pc' \in {"work", "sleep"} /\ started' = started
        BY <2>10 DEF FetchQuotes, EndTick, tick
      <3>3. clock' <= started + Spent' /\ clock' <= started + TickBound
        BY <2>0, <3>1, <3>2, Finished
      <3> QED
        BY <3>2, <3>3 DEF TimeInv
    <2>11. CASE Decide
      <3>1. PICK work \in 0..WorkTime : clock' = clock + work
        BY <2>11 DEF Decide
      <3>2. pc = "work" /\ pc' = "sleep" /\ started' = started
        BY <2>11 DEF Decide, EndTick, tick
      <3>3. attempt = 0 /\ requests <= 2 * Universe /\ clock <= started + Spent
        BY <3>2, SpentFacts DEF CountInv, TimeInv
      <3>4. Spent = requests * RequestBound /\ requests * RequestBound + WorkTime <= TickBound
        BY <2>0, <3>3, SpentFacts
      <3>5. requests * RequestBound \in Nat
        BY <2>0, BoundFacts, OneMore
      <3> QED
        BY <2>0, <3>1, <3>2, <3>3, <3>4, <3>5 DEF TimeInv
    <2>12. CASE UNCHANGED vars
      BY <2>0, <2>12 DEF vars, request, tick, Spent, TimeInv
    <2> QED
      BY <2>1, <2>2, <2>3, <2>4, <2>5, <2>6, <2>7, <2>8, <2>9, <2>10, <2>11, <2>12
      DEF Next, Progress
  <1> QED
    BY <1>1, <1>2, CountInvariant, PTL DEF Spec

\* However the API behaves, the session ends before the end of its window plus the
\* longest tick, or an interval, and the final evaluation.
THEOREM AlwaysInTime == Spec => []EndsOnTime
  <1>1. TypeOK /\ CountInv /\ TimeInv => EndsOnTime
    <2> SUFFICES ASSUME TypeOK, CountInv, TimeInv PROVE EndsOnTime
      OBVIOUS
    <2>1. /\ clock \in Nat /\ started \in Nat /\ requests \in Nat
          /\ LatestLoop \in Nat /\ TickBound \in Nat
          /\ LatestLoop = Until - 1 + Max2(Interval, TickBound + 1)
      BY LatestFacts, BoundFacts DEF TypeOK, LatestLoop
    <2>2. Max2(Interval, TickBound + 1) \in Nat
      BY <2>1 DEF Max2
    <2>3. CASE pc \in {"loop", "done"}
      BY <2>1, <2>2, <2>3 DEF TimeInv, EndsOnTime
    <2>4. CASE pc = "sleep"
      BY <2>1, <2>2, <2>4, LatestFacts DEF TimeInv, EndsOnTime
    <2>5. CASE pc \in InTick
      <3>1. clock <= started + Spent /\ started < Until /\ Spent \in Int
        BY <2>5, SpentFacts DEF TimeInv
      <3>2. Spent <= TickBound
        BY <2>5, SpentBound
      <3> QED
        BY <2>1, <2>2, <3>1, <3>2, LatestFacts DEF EndsOnTime
    <2> QED
      BY <2>3, <2>4, <2>5 DEF TypeOK
  <1> QED
    BY <1>1, CountInvariant, TimeInvariant, PTL

-----------------------------------------------------------------------------
(* The rate of ticks. *)

Ticks == ticksOk + ticksFailed

\* When the tick after the first k may begin.
Due(k) == Open + k * Interval

RateInv ==
    /\ Ticks > 0 => Due(Ticks - 1) <= started
    /\ pc = "loop" /\ Ticks > 0 => Due(Ticks) <= clock
    /\ pc \in InTick => Due(Ticks) <= started
    /\ pc = "sleep" => Ticks > 0

LEMMA DueFacts ==
    /\ Due(0) = Open
    /\ \A k \in Nat : Due(k) \in Nat /\ Due(k + 1) = Due(k) + Interval
    /\ \A k \in Nat : k > 0 => k - 1 \in Nat /\ Due(k) = Due(k - 1) + Interval
  <1>1. \A k \in Nat : k * Interval \in Nat /\ (k + 1) * Interval = k * Interval + Interval
    BY OneMore
  <1>2. 0 * Interval = 0
    OBVIOUS
  <1>3. ASSUME NEW k \in Nat, k > 0
        PROVE  k - 1 \in Nat /\ k * Interval = (k - 1) * Interval + Interval
    <2> DEFINE m == k - 1
    <2>1. m \in Nat /\ k = m + 1
      BY <1>3
    <2> QED
      BY <1>1, <2>1
  <1> QED
    BY <1>1, <1>2, <1>3 DEF Due

LEMMA TicksType ==
    ASSUME NEW ok \in Nat, NEW failed \in Nat
    PROVE  ok + failed \in Nat
  OBVIOUS

LEMMA EndedTick ==
    ASSUME TypeOK, NEW ok \in BOOLEAN, EndTick(ok)
    PROVE  pc' = "sleep" /\ Ticks' = Ticks + 1
  <1>1. ticksOk \in Nat /\ ticksFailed \in Nat
    BY DEF TypeOK
  <1> QED
    BY <1>1 DEF EndTick, Ticks

\* A tick that began when it was due ends before the next is due to begin.
LEMMA DueTickEnds ==
    ASSUME Ticks \in Nat, started' \in Nat, Due(Ticks) <= started',
           pc' = "sleep" /\ Ticks' = Ticks + 1
    PROVE  RateInv'
  <1>1. Ticks' - 1 = Ticks /\ Ticks' > 0
    OBVIOUS
  <1>2. Due(Ticks' - 1) = Due(Ticks)
    BY <1>1
  <1> QED
    BY <1>1, <1>2 DEF RateInv, Due, InTick, Requesting

LEMMA RateInvariant == Spec => []RateInv
  <1>1. Init => RateInv
    BY DEF Init, RateInv, Ticks, InTick, Requesting
  <1>2. TypeOK /\ TypeOK' /\ RateInv /\ [Next]_vars => RateInv'
    <2> SUFFICES ASSUME TypeOK, TypeOK', RateInv, [Next]_vars
                 PROVE  RateInv'
      OBVIOUS
    <2>0. /\ clock \in Nat /\ clock' \in Nat /\ started \in Nat /\ started' \in Nat
          /\ Ticks \in Nat /\ Ticks' \in Nat
      <3>1. ticksOk \in Nat /\ ticksFailed \in Nat /\ ticksOk' \in Nat /\ ticksFailed' \in Nat
        BY DEF TypeOK
      <3>2. Ticks \in Nat /\ Ticks' \in Nat
        BY <3>1, TicksType, Zenon DEF Ticks
      <3> QED
        BY <3>2 DEF TypeOK
    <2>1. CASE WaitForOpen
      <3>1. pc = "loop" /\ pc' = "loop" /\ Ticks' = Ticks /\ started' = started /\ clock < Open
        BY <2>1 DEF WaitForOpen, Ticks, score, tick
      <3>2. Ticks = 0
        <4>1. Ticks > 0 => Due(Ticks) <= clock /\ Due(Ticks) \in Nat /\ Due(Ticks - 1) \in Nat
                                /\ Due(Ticks) = Due(Ticks - 1) + Interval
          BY <2>0, <3>1, DueFacts DEF RateInv
        <4>2. Ticks > 0 => Open <= Due(Ticks)
          BY <2>0, DueFacts, OneMore DEF Due
        <4> QED
          BY <2>0, <3>1, <4>1, <4>2
      <3> QED
        BY <3>1, <3>2 DEF RateInv, InTick, Requesting
    <2>2. CASE CloseWindow \/ Interrupt
      <3>1. pc' = "done" /\ Ticks' = Ticks /\ started' = started
        BY <2>2 DEF CloseWindow, Interrupt, Ticks, score, tick
      <3> QED
        BY <3>1 DEF RateInv, InTick, Requesting, Due
    <2>3. CASE StartTick
      <3>1. pc = "loop" /\ Open <= clock /\ started' = clock
        BY <2>3 DEF StartTick
      <3>2. Due(Ticks) <= started'
        <4>1. CASE Ticks > 0
          BY <3>1, <4>1 DEF RateInv
        <4>2. CASE Ticks = 0
          BY <3>1, <4>2, DueFacts
        <4> QED
          BY <2>0, <4>1, <4>2
      <3>3. CASE EndTick(FALSE)
        BY <2>0, <3>2, <3>3, EndedTick, DueTickEnds
      <3>4. CASE pc' = "candles" /\ UNCHANGED <<ticksOk, ticksFailed>>
        <4>1. Ticks' = Ticks
          BY <3>4 DEF Ticks
        <4>2. Ticks > 0 => Due(Ticks - 1) \in Nat /\ Due(Ticks) = Due(Ticks - 1) + Interval
          BY <2>0, DueFacts
        <4>3. Ticks > 0 => Due(Ticks - 1) <= started'
          BY <2>0, <3>2, <4>2
        <4> QED
          BY <3>2, <3>4, <4>1, <4>3 DEF RateInv, Due
      <3> QED
        BY <2>3, <3>3, <3>4 DEF StartTick
    <2>4. CASE Sleep
      <3>1. /\ pc = "sleep" /\ pc' = "loop" /\ Ticks' = Ticks /\ started' = started
            /\ clock' >= started + Interval
        BY <2>0, <2>4 DEF Sleep, Rest, Max2, Ticks, score, tick
      <3>2. /\ Due(Ticks - 1) <= started
            /\ Due(Ticks - 1) \in Nat /\ Due(Ticks) = Due(Ticks - 1) + Interval
        BY <2>0, <3>1, DueFacts DEF RateInv
      <3>3. Due(Ticks) <= clock'
        BY <2>0, <3>1, <3>2
      <3> QED
        BY <3>1, <3>2, <3>3 DEF RateInv, InTick, Requesting, Due
    <2>5. CASE \/ Retry \/ FetchCandles \/ RecordPass \/ Search \/ FetchQuotes \/ Decide
      <3>1. pc \in InTick /\ started' = started
        BY <2>5 DEF Retry, FetchCandles, RecordPass, Search, FetchQuotes, Decide, tick,
                    InTick, Requesting
      <3>2. Due(Ticks) <= started
        BY <3>1 DEF RateInv
      <3>3. \/ EndTick(TRUE) \/ EndTick(FALSE)
            \/ pc' \in InTick /\ UNCHANGED <<ticksOk, ticksFailed>>
        BY <2>5 DEF Retry, FetchCandles, RecordPass, Search, FetchQuotes, Decide,
                    NextSymbol, TryAlias, score, InTick, Requesting
      <3>4. CASE EndTick(TRUE) \/ EndTick(FALSE)
        BY <2>0, <3>1, <3>2, <3>4, EndedTick, DueTickEnds
      <3>5. CASE pc' \in InTick /\ UNCHANGED <<ticksOk, ticksFailed>>
        <4>1. Ticks' = Ticks
          BY <3>5 DEF Ticks
        <4> QED
          BY <3>1, <3>2, <3>5, <4>1 DEF RateInv, Due, InTick, Requesting
      <3> QED
        BY <3>3, <3>4, <3>5
    <2>6. CASE UNCHANGED vars
      <3>1. UNCHANGED <<pc, clock, started>> /\ Ticks' = Ticks
        BY <2>6 DEF vars, score, tick, Ticks
      <3> QED
        BY <3>1 DEF RateInv, Due
    <2> QED
      BY <2>1, <2>2, <2>3, <2>4, <2>5, <2>6 DEF Next, Progress
  <1> QED
    BY <1>1, <1>2, TypeCorrect, PTL DEF Spec

\* Ticks begin no faster than the interval, however the ticks before them ended.
THEOREM RateIsKept == Spec => []RateKept
  <1>1. TypeOK /\ RateInv => RateKept
    <2> SUFFICES ASSUME TypeOK, RateInv, Begun > 0
                 PROVE  (Begun - 1) * Interval <= started - Open
      BY DEF RateKept
    <2>1. Ticks \in Nat /\ started \in Nat
      <3>1. ticksOk \in Nat /\ ticksFailed \in Nat /\ started \in Nat
        BY DEF TypeOK
      <3> QED
        BY <3>1 DEF Ticks
    <2>2. Due(Begun - 1) <= started /\ Begun - 1 \in Nat
      <3>1. CASE pc \in InTick
        <4>1. Begun = Ticks + 1
          BY <2>1, <3>1 DEF Begun, Ticks
        <4>2. Begun - 1 = Ticks
          BY <2>1, <4>1
        <4> QED
          BY <2>1, <3>1, <4>2 DEF RateInv
      <3>2. CASE pc \notin InTick
        <4>1. Begun = Ticks
          BY <2>1, <3>2 DEF Begun, Ticks
        <4> QED
          BY <2>1, <4>1 DEF RateInv
      <3> QED
        BY <3>1, <3>2
    <2>3. (Begun - 1) * Interval \in Nat
      BY <2>2, OneMore
    <2> QED
      BY <2>1, <2>2, <2>3 DEF Due
  <1> QED
    BY <1>1, TypeCorrect, RateInvariant, PTL

-----------------------------------------------------------------------------
(* Outages. *)

\* A request that was retried met the outage, and waited since.
BlipInv ==
    /\ attempt > 0 => outage.from + Backoff[attempt] - Backoff[0] <= clock
    /\ BlipsAreRiddenOut

LEMMA BlipInvariant == Spec => []BlipInv
  <1>1. Init => BlipInv
    BY DEF Init, BlipInv, BlipsAreRiddenOut
  <1>2. TypeOK /\ CountInv /\ TypeOK' /\ CountInv' /\ BlipInv /\ [Next]_vars => BlipInv'
    <2> SUFFICES ASSUME TypeOK, CountInv, TypeOK', CountInv', BlipInv, [Next]_vars
                 PROVE  BlipInv'
      OBVIOUS
    <2>0. /\ outage' = outage /\ TotalBackoff' = TotalBackoff /\ TotalBackoff \in Nat
          /\ outage.from \in Nat /\ outage.to \in Nat
          /\ clock \in Nat /\ clock' \in Nat /\ attempt \in 0..MaxRetries
          /\ Backoff[attempt] \in Nat /\ Backoff[0] \in Nat
      <3>1. outage' = outage
        BY DEF Next, Progress, WaitForOpen, CloseWindow, StartTick, Sleep, Retry, FetchCandles,
               RecordPass, Search, FetchQuotes, Decide, Interrupt, vars
      <3> QED
        BY <3>1, BackoffFacts DEF TypeOK, TotalBackoff
    <2>1. CASE Retry
      <3>1. PICK d \in 0..AttemptTime : Unreachable(d) /\ clock' = clock + d + Backoff[attempt]
        BY <2>1 DEF Retry, Pause
      <3>2. attempt < MaxRetries /\ attempt' = attempt + 1 /\ lost' = lost
        BY <2>1 DEF Retry
      <3>3. outage.from <= clock + d
        BY <2>0, <3>1 DEF Unreachable
      <3>4. Backoff[attempt'] = Backoff[attempt] + Backoff[attempt]
        BY <2>0, <3>2, BackoffFacts
      <3>5. outage.from + Backoff[attempt] - Backoff[0] <= clock + d
        <4>1. CASE attempt = 0
          BY <2>0, <3>3, <4>1
        <4>2. CASE attempt > 0
          BY <2>0, <4>2 DEF BlipInv
        <4> QED
          BY <2>0, <4>1, <4>2
      <3>6. outage.from + Backoff[attempt'] - Backoff[0] <= clock'
        BY <2>0, <3>1, <3>4, <3>5
      <3> QED
        BY <2>0, <3>2, <3>6 DEF BlipInv, BlipsAreRiddenOut
    <2>2. CASE FetchCandles \/ Search \/ FetchQuotes
      <3>1. PICK d \in 0..AttemptTime : Answered(d) \/ GivenUp(d)
        BY <2>2 DEF FetchCandles, Search, FetchQuotes
      <3>2. attempt' = 0
        BY <3>1 DEF Answered, GivenUp
      <3>3. CASE Answered(d)
        BY <2>0, <3>2, <3>3 DEF Answered, BlipInv, BlipsAreRiddenOut
      <3>4. CASE GivenUp(d)
        <4>1. PICK t \in clock..(clock + d) : outage.from <= t /\ t < outage.to
          BY <3>4 DEF GivenUp, Unreachable
        <4>2. attempt = MaxRetries
          BY <3>4 DEF GivenUp
        <4>3. outage.to - outage.from > TotalBackoff
          <5>1. CASE attempt = 0
            BY <2>0, <4>1, <4>2, <5>1 DEF TotalBackoff
          <5>2. CASE attempt > 0
            BY <2>0, <4>1, <4>2, <5>2 DEF TotalBackoff, BlipInv
          <5> QED
            BY <2>0, <5>1, <5>2
        <4> QED
          BY <2>0, <3>2, <4>3 DEF BlipInv, BlipsAreRiddenOut
      <3> QED
        BY <3>1, <3>3, <3>4
    <2>3. CASE WaitForOpen \/ CloseWindow \/ StartTick \/ Sleep \/ RecordPass \/ Decide
      <3>1. attempt' = attempt /\ attempt = 0 /\ lost' = lost
        BY <2>3 DEF WaitForOpen, CloseWindow, StartTick, Sleep, RecordPass, Decide,
                    request, CountInv, Requesting
      <3> QED
        BY <2>0, <3>1 DEF BlipInv, BlipsAreRiddenOut
    <2>4. CASE Interrupt \/ UNCHANGED vars
      <3>1. attempt' = attempt /\ clock' = clock /\ lost' = lost
        BY <2>4 DEF Interrupt, vars, request
      <3> QED
        BY <2>0, <3>1 DEF BlipInv, BlipsAreRiddenOut
    <2> QED
      BY <2>1, <2>2, <2>3, <2>4 DEF Next, Progress
  <1> QED
    BY <1>1, <1>2, CountInvariant, PTL DEF Spec

\* No request is given up in an outage that its pauses outlast.
THEOREM BlipsCostNothing == Spec => []BlipsAreRiddenOut
  <1>1. BlipInv => BlipsAreRiddenOut
    BY DEF BlipInv
  <1> QED
    BY <1>1, BlipInvariant, PTL

-----------------------------------------------------------------------------
(* The verdict. *)

\* A tick that succeeded had a sound pass.
SoundInv ==
    /\ ticksOk + (IF pc \in {"search", "quotes", "work"} THEN 1 ELSE 0) <= sound
    /\ exit # "none" => pc = "done"
    /\ exit = "healthy" => SessionHealthy

LEMMA SoundInvariant == Spec => []SoundInv
  <1>1. Init => SoundInv
    BY DEF Init, SoundInv
  <1>2. TypeOK /\ SoundInv /\ [Next]_vars => SoundInv'
    <2> SUFFICES ASSUME TypeOK, SoundInv, [Next]_vars
                 PROVE  SoundInv'
      OBVIOUS
    <2> USE DEF TypeOK, SoundInv
    <2>1. CASE WaitForOpen \/ Sleep
      BY <2>1 DEF WaitForOpen, Sleep, score
    <2>2. CASE CloseWindow
      <3>1. SessionHealthy' = SessionHealthy
        BY <2>2 DEF CloseWindow, SessionHealthy, score
      <3> QED
        BY <2>2, <3>1 DEF CloseWindow, score
    <2>3. CASE StartTick
      BY <2>3 DEF StartTick, EndTick
    <2>4. CASE Interrupt
      BY <2>4 DEF Interrupt, InTick, Requesting, score
    <2>5. CASE Retry
      BY <2>5 DEF Retry, Requesting, score
    <2>6. CASE FetchCandles
      BY <2>6 DEF FetchCandles, score
    <2>7. CASE RecordPass
      BY <2>7 DEF RecordPass, EndTick
    <2>8. CASE Search
      BY <2>8 DEF Search, NextSymbol, TryAlias, score
    <2>9. CASE FetchQuotes
      BY <2>9 DEF FetchQuotes, EndTick
    <2>10. CASE Decide
      BY <2>10 DEF Decide, EndTick
    <2>11. CASE UNCHANGED vars
      BY <2>11 DEF vars, score, SessionHealthy
    <2> QED
      BY <2>1, <2>2, <2>3, <2>4, <2>5, <2>6, <2>7, <2>8, <2>9, <2>10, <2>11
      DEF Next, Progress
  <1> QED
    BY <1>1, <1>2, TypeCorrect, PTL DEF Spec

\* A healthy verdict means data in at least half of the ticks.
THEOREM OutagesAreNoticed == Spec => []OutageIsNoticed
  <1>1. TypeOK /\ SoundInv => OutageIsNoticed
    BY DEF TypeOK, SoundInv, SessionHealthy, OutageIsNoticed
  <1> QED
    BY <1>1, TypeCorrect, SoundInvariant, PTL

=============================================================================
