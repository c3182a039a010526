--------------------------- MODULE MarketFeedProofs ---------------------------
(***************************************************************************)
(* For any symbols, keys, slots, response bodies and stops: what is stored *)
(* of the market API can be traced and audited, a rejected pass is seen,   *)
(* and a backfill asks for every slot once.                                *)
(***************************************************************************)
EXTENDS MarketFeed, FiniteSetTheorems, TLAPS

-----------------------------------------------------------------------------
(* Sequences without repetition. *)

\* SetToSeq lists every element of a finite set once.
LEMMA SetToSeqIs ==
    ASSUME NEW S, IsFiniteSet(S)
    PROVE  /\ SetToSeq(S) \in Seq(S)
           /\ IsInjective(SetToSeq(S))
           /\ ToSet(SetToSeq(S)) = S
  <1> DEFINE n == Cardinality(S)
             q == SetToSeq(S)
  <1>1. n \in Nat /\ ExistsBijection(1..n, S)
    BY FS_CardinalityType
  <1>2. \E f \in [1..n -> S] : IsInjective(f)
    BY <1>1 DEF ExistsBijection, Bijection, Injection
  <1>3. q \in [1..n -> S] /\ IsInjective(q)
    BY <1>2 DEF SetToSeq
  <1> HIDE DEF q
  <1>4. q \in Seq(S)
    BY <1>1, <1>3
  <1>5. ToSet(q) \in SUBSET S
    BY <1>3 DEF ToSet
  <1>6. q \in Surjection(1..n, ToSet(q)) /\ q \in Injection(1..n, ToSet(q))
    BY <1>3 DEF ToSet, Surjection, Injection
  <1>7. IsFiniteSet(1..n) /\ Cardinality(1..n) = n
    BY <1>1, FS_Interval
  <1>8. Cardinality(ToSet(q)) = n
    BY <1>6, <1>7, FS_Surjection
  <1>9. ToSet(q) = S
    BY <1>5, <1>8, FS_Subset
  <1> QED
    BY <1>3, <1>4, <1>9 DEF q

\* The rest of such a sequence repeats nothing either, and not its head.
LEMMA TailIs ==
    ASSUME NEW S, NEW q \in Seq(S), q # <<>>
    PROVE  /\ Head(q) \in S /\ Tail(q) \in Seq(S)
           /\ ToSet(q) = {Head(q)} \cup ToSet(Tail(q))
           /\ IsInjective(q) => IsInjective(Tail(q)) /\ Head(q) \notin ToSet(Tail(q))
  <1>1. /\ Head(q) = q[1] /\ 1 \in DOMAIN q /\ Tail(q) \in Seq(S)
        /\ Len(q) \in Nat \ {0} /\ DOMAIN q = 1..Len(q)
        /\ DOMAIN Tail(q) = 1..(Len(q) - 1)
        /\ \A n \in 1..(Len(q) - 1) : Tail(q)[n] = q[n + 1]
    OBVIOUS
  <1>2. ToSet(q) = {Head(q)} \cup ToSet(Tail(q))
    <2>1. ASSUME NEW n \in 1..Len(q) PROVE q[n] \in {Head(q)} \cup ToSet(Tail(q))
      <3>1. CASE n = 1
        BY <1>1, <3>1
      <3>2. CASE n # 1
        <4>1. n - 1 \in 1..(Len(q) - 1) /\ Tail(q)[n - 1] = q[n]
          BY <1>1, <3>2
        <4> QED
          BY <1>1, <4>1 DEF ToSet
      <3> QED
        BY <3>1, <3>2
    <2>2. \A n \in 1..(Len(q) - 1) : n + 1 \in 1..Len(q)
      BY <1>1
    <2> QED
      BY <1>1, <2>1, <2>2 DEF ToSet
  <1>3. ASSUME IsInjective(q) PROVE IsInjective(Tail(q)) /\ Head(q) \notin ToSet(Tail(q))
    <2>1. \A m, n \in 1..Len(q) : q[m] = q[n] => m = n
      BY <1>1, <1>3 DEF IsInjective
    <2>2. ASSUME NEW m \in 1..(Len(q) - 1), NEW n \in 1..(Len(q) - 1), Tail(q)[m] = Tail(q)[n]
          PROVE  m = n
      <3>1. q[m + 1] = q[n + 1] /\ m + 1 \in 1..Len(q) /\ n + 1 \in 1..Len(q)
        BY <1>1, <2>2
      <3>2. m + 1 = n + 1
        BY <2>1, <3>1
      <3> QED
        BY <3>2
    <2>3. \A n \in 1..(Len(q) - 1) : Tail(q)[n] # q[1]
      BY <1>1, <2>1
    <2> QED
      BY <1>1, <2>2, <2>3 DEF IsInjective, ToSet
  <1> QED
    BY <1>1, <1>2, <1>3

LEMMA ConcatIs ==
    ASSUME NEW S, NEW q \in Seq(S), NEW r \in Seq(S)
    PROVE  /\ q \o r \in Seq(S)
           /\ ToSet(q \o r) = ToSet(q) \cup ToSet(r)
           /\ IsInjective(q) /\ IsInjective(r) /\ ToSet(q) \cap ToSet(r) = {}
                => IsInjective(q \o r)
  <1>1. /\ q \o r \in Seq(S) /\ DOMAIN (q \o r) = 1..(Len(q) + Len(r))
        /\ Len(q) \in Nat /\ Len(r) \in Nat
        /\ DOMAIN q = 1..Len(q) /\ DOMAIN r = 1..Len(r)
        /\ \A n \in 1..(Len(q) + Len(r)) :
            (q \o r)[n] = IF n <= Len(q) THEN q[n] ELSE r[n - Len(q)]
    OBVIOUS
  <1>2. \A n \in 1..(Len(q) + Len(r)) :
            /\ n <= Len(q) => n \in 1..Len(q)
            /\ ~(n <= Len(q)) => n - Len(q) \in 1..Len(r)
    BY <1>1
  <1>3. ToSet(q \o r) = ToSet(q) \cup ToSet(r)
    <2>1. \A n \in 1..Len(r) : /\ n + Len(q) \in 1..(Len(q) + Len(r))
                               /\ (q \o r)[n + Len(q)] = r[n]
      BY <1>1
    <2>2. \A n \in 1..Len(q) : n \in 1..(Len(q) + Len(r)) /\ (q \o r)[n] = q[n]
      BY <1>1
    <2>3. ASSUME NEW x \in ToSet(q \o r) PROVE x \in ToSet(q) \cup ToSet(r)
      BY <1>1, <1>2 DEF ToSet
    <2>4. ASSUME NEW x \in ToSet(q) PROVE x \in ToSet(q \o r)
      BY <1>1, <2>2 DEF ToSet
    <2>5. ASSUME NEW x \in ToSet(r) PROVE x \in ToSet(q \o r)
      <3>1. PICK n \in 1..Len(r) : x = r[n]
        BY <1>1 DEF ToSet
      <3> QED
        BY <1>1, <2>1, <3>1 DEF ToSet
    <2> QED
      BY <2>3, <2>4, <2>5
  <1>4. ASSUME IsInjective(q), IsInjective(r), ToSet(q) \cap ToSet(r) = {},
               NEW m \in 1..(Len(q) + Len(r)), NEW n \in 1..(Len(q) + Len(r)),
               (q \o r)[m] = (q \o r)[n]
        PROVE  m = n
    <2>1. \A i \in 1..Len(q), j \in 1..Len(r) : q[i] # r[j]
      BY <1>1, <1>4 DEF ToSet
    <2>2. \A i, j \in 1..Len(q) : q[i] = q[j] => i = j
      BY <1>1, <1>4 DEF IsInjective
    <2>3. \A i, j \in 1..Len(r) : r[i] = r[j] => i = j
      BY <1>1, <1>4 DEF IsInjective
    <2>4. CASE m <= Len(q) /\ n <= Len(q)
      BY <1>1, <1>2, <1>4, <2>2, <2>4
    <2>5. CASE ~(m <= Len(q)) /\ ~(n <= Len(q))
      <3>1. m - Len(q) = n - Len(q)
        BY <1>1, <1>2, <1>4, <2>3, <2>5
      <3> QED
        BY <1>1, <3>1
    <2>6. (m <= Len(q)) <=> (n <= Len(q))
      BY <1>1, <1>2, <1>4, <2>1
    <2> QED
      BY <2>4, <2>5, <2>6
  <1> QED
    BY <1>1, <1>3, <1>4 DEF IsInjective

-----------------------------------------------------------------------------
(* Windows of dates. *)

LEMMA Remainder ==
    ASSUME NEW a \in Nat, NEW b \in Nat \ {0}
    PROVE  /\ a % b \in 0..(b - 1)
           /\ \E k \in Nat : a = b * k + (a % b)
  <1>1. a % b \in 0..(b - 1) /\ a \div b \in Nat /\ a = b * (a \div b) + (a % b)
    OBVIOUS
  <1> QED
    BY <1>1

\* Two multiples of b are equal or at least b apart.
LEMMA MultiplesApart ==
    ASSUME NEW b \in Nat \ {0}, NEW m \in Int, NEW n \in Int, m < n
    PROVE  b * m + b <= b * n
  <1>1. n = m + 1 + (n - m - 1) /\ n - m - 1 \in Nat
    OBVIOUS
  <1>2. PICK d \in Nat : n = m + 1 + d
    BY <1>1
  <1>3. b * n = b * m + b + b * d /\ b * d \in Nat
    BY <1>2
  <1> QED
    BY <1>3

LEMMA MultipleHasNoRemainder ==
    ASSUME NEW b \in Nat \ {0}, NEW k \in Nat
    PROVE  (b * k) % b = 0
  <1>1. b * k \in Nat
    OBVIOUS
  <1>2. PICK j \in Nat : b * k = b * j + ((b * k) % b)
    BY <1>1, Remainder
  <1>3. (b * k) % b \in 0..(b - 1)
    BY <1>1, Remainder
  <1> DEFINE r == (b * k) % b
  <1> HIDE DEF r
  <1>4. b * k = b * j + r /\ r \in 0..(b - 1)
    BY <1>2, <1>3 DEF r
  <1>5. CASE j < k
    <2>1. b * j + b <= b * k
      BY <1>5, MultiplesApart
    <2> QED
      BY <1>4, <2>1
  <1>6. CASE k < j
    <2>1. b * k + b <= b * j
      BY <1>6, MultiplesApart
    <2> QED
      BY <1>4, <2>1
  <1>7. CASE k = j
    <2>1. b * k = b * j /\ b * j \in Nat
      BY <1>7
    <2>2. r = 0
      BY <1>4, <2>1
    <2> QED
      BY <2>2 DEF r
  <1> QED
    BY <1>5, <1>6, <1>7

\* Every slot of the range lies in a window, and every window within the range.
LEMMA WindowsCover ==
    ASSUME NEW first \in Nat, NEW last \in Nat, NEW t \in first..last
    PROVE  \E w \in DateWindows(first, last) : w.from <= t /\ t <= w.to
  <1> DEFINE a == t - first
             u == t - (a % MaxWindow)
  <1>1. a \in Nat /\ MaxWindow \in Nat \ {0}
    BY BoundsAssumption
  <1>2. a % MaxWindow \in 0..(MaxWindow - 1)
    BY <1>1, Remainder
  <1>3. PICK k \in Nat : a = MaxWindow * k + (a % MaxWindow)
    BY <1>1, Remainder
  <1>4. u - first = MaxWindow * k /\ MaxWindow * k \in Nat
    BY <1>1, <1>2, <1>3
  <1>5. u \in first..last /\ u <= t /\ t <= u + MaxWindow - 1
    BY <1>1, <1>2, <1>4
  <1>6. (u - first) % MaxWindow = 0
    BY <1>1, <1>4, MultipleHasNoRemainder
  <1> HIDE DEF u
  <1> DEFINE w == [from |-> u, to |-> IF u + MaxWindow - 1 < last THEN u + MaxWindow - 1 ELSE last]
  <1>7. w \in DateWindows(first, last)
    BY <1>5, <1>6 DEF DateWindows
  <1>8. w.from <= t /\ t <= w.to
    BY <1>1, <1>5
  <1> QED
    BY <1>7, <1>8

LEMMA WindowsWithin ==
    ASSUME NEW first \in Nat, NEW last \in Nat, NEW w \in DateWindows(first, last)
    PROVE  /\ w.from \in first..last /\ w.to \in first..last /\ w.from <= w.to
           /\ (w.from - first) % MaxWindow = 0
           /\ w.to <= w.from + MaxWindow - 1
           /\ w = [from |-> w.from, to |-> IF w.from + MaxWindow - 1 < last
                                          THEN w.from + MaxWindow - 1 ELSE last]
  BY BoundsAssumption DEF DateWindows

\* No slot lies in two windows.
LEMMA WindowsApart ==
    ASSUME NEW first \in Nat, NEW last \in Nat,
           NEW v \in DateWindows(first, last), NEW w \in DateWindows(first, last),
           NEW t \in Int, v.from <= t, t <= v.to, w.from <= t, t <= w.to
    PROVE  v = w
  <1> DEFINE a == v.from - first
             b == w.from - first
  <1>1. MaxWindow \in Nat \ {0}
    BY BoundsAssumption
  <1>2. a \in Nat /\ b \in Nat /\ a % MaxWindow = 0 /\ b % MaxWindow = 0
    BY WindowsWithin
  <1>3. /\ v.from = first + a /\ v.to <= v.from + MaxWindow - 1
        /\ w.from = first + b /\ w.to <= w.from + MaxWindow - 1
        /\ v.from \in Nat /\ w.from \in Nat /\ v.to \in Nat /\ w.to \in Nat
    BY WindowsWithin
  <1> HIDE DEF a, b
  <1>4. PICK m \in Nat : a = MaxWindow * m
    <2>1. PICK k \in Nat : a = MaxWindow * k + (a % MaxWindow)
      BY <1>1, <1>2, Remainder
    <2>2. MaxWindow * k \in Nat
      BY <1>1
    <2> QED
      BY <1>2, <2>1, <2>2
  <1>5. PICK n \in Nat : b = MaxWindow * n
    <2>1. PICK k \in Nat : b = MaxWindow * k + (b % MaxWindow)
      BY <1>1, <1>2, Remainder
    <2>2. MaxWindow * k \in Nat
      BY <1>1
    <2> QED
      BY <1>2, <2>1, <2>2
  <1>6. ~(m < n)
    <2> SUFFICES ASSUME m < n PROVE FALSE
      OBVIOUS
    <2>1. a + MaxWindow <= b
      BY <1>1, <1>4, <1>5, MultiplesApart
    <2> QED
      BY <1>1, <1>2, <1>3, <2>1
  <1>7. ~(n < m)
    <2> SUFFICES ASSUME n < m PROVE FALSE
      OBVIOUS
    <2>1. b + MaxWindow <= a
      BY <1>1, <1>4, <1>5, MultiplesApart
    <2> QED
      BY <1>1, <1>2, <1>3, <2>1
  <1>8. v.from = w.from
    BY <1>3, <1>4, <1>5, <1>6, <1>7
  <1> QED
    BY <1>8, WindowsWithin

\* The requests of a backfill are finitely many.
Requests(first, last) == [symbol : Symbols, window : DateWindows(first, last)]

LEMMA RequestsFinite ==
    ASSUME NEW first \in Nat, NEW last \in Nat
    PROVE  IsFiniteSet(Requests(first, last))
  <1> DEFINE starts == {u \in first..last : (u - first) % MaxWindow = 0}
             windows == DateWindows(first, last)
             f == [t \in starts |->
                    [from |-> t, to |-> IF t + MaxWindow - 1 < last THEN t + MaxWindow - 1
                                        ELSE last]]
             g == [p \in Symbols \X windows |-> [symbol |-> p[1], window |-> p[2]]]
  <1>1. IsFiniteSet(first..last)
    BY FS_Interval
  <1>2. IsFiniteSet(starts)
    BY <1>1, FS_Subset
  <1>3. f \in Surjection(starts, windows)
    BY DEF DateWindows, Surjection
  <1>4. IsFiniteSet(windows)
    BY <1>2, <1>3, FS_Surjection
  <1> HIDE DEF windows
  <1>5. IsFiniteSet(Symbols \X windows)
    BY <1>4, FS_Product, SymbolsAssumption
  <1>6. g \in Surjection(Symbols \X windows, [symbol : Symbols, window : windows])
    <2>1. g \in [Symbols \X windows -> [symbol : Symbols, window : windows]]
      OBVIOUS
    <2>2. ASSUME NEW r \in [symbol : Symbols, window : windows]
          PROVE  \E p \in Symbols \X windows : g[p] = r
      <3>1. <<r.symbol, r.window>> \in Symbols \X windows /\ g[<<r.symbol, r.window>>] = r
        OBVIOUS
      <3> QED
        BY <3>1
    <2> QED
      BY <2>1, <2>2 DEF Surjection
  <1>7. IsFiniteSet([symbol : Symbols, window : windows])
    BY <1>5, <1>6, FS_Surjection
  <1> QED
    BY <1>7 DEF Requests, windows

\* The slots of one request, as the backfill asks for them.
LEMMA SlotsOfRequest ==
    ASSUME NEW s, NEW from \in Nat, NEW to \in Nat
    PROVE  IsFiniteSet({<<s, t>> : t \in from..to})
  <1> DEFINE f == [t \in from..to |-> <<s, t>>]
  <1>1. f \in Surjection(from..to, {<<s, t>> : t \in from..to})
    BY DEF Surjection
  <1>2. IsFiniteSet(from..to)
    BY FS_Interval
  <1> QED
    BY <1>1, <1>2, FS_Surjection

-----------------------------------------------------------------------------
(* The invariant. *)

\* A sync holds keys for its symbols; before the master is replaced, the history
\* has each of them.
SyncInv ==
    /\ \A s \in DOMAIN rows : rows[s] \in Keys
    /\ pc = "resolve" => todo \in Seq(Symbols) /\ todo # <<>>
    /\ pc = "master" => \A s \in DOMAIN rows : <<s, rows[s]>> \in history

Event(s, issue) == [pass |-> passes, symbol |-> s, issue |-> issue]

\* The event is recorded, or will be.
Reported(s, issue) == Event(s, issue) \in events \cup ToSet(todo)

\* A pass asks for every symbol once, so no result is overwritten: what it changed
\* is in the results until the verdict, and what they say is in the events due.
PassInv ==
    /\ pc \in {"ingest", "events"} =>
        /\ passes # 0 /\ passes \notin DOMAIN verdicts
        /\ \A c \in changed : c.pass = passes => c.symbol \in Ingested /\ results[c.symbol].revised
    /\ pc = "ingest" =>
        /\ todo \in Seq(Known) /\ IsInjective(todo)
        /\ ToSet(todo) \cap Ingested = {}
    /\ pc = "events" =>
        /\ todo \in Seq([pass : 1..passes, symbol : Symbols, issue : Issues])
        /\ passes \in DOMAIN runs /\ runs[passes] = RunStatus
        /\ \A s \in Ingested :
            /\ s \in Empty => Reported(s, "EMPTY_RESPONSE")
            /\ results[s].flawed => Reported(s, "INGESTION_QUALITY")
            /\ results[s].revised => Reported(s, "CANDLE_REVISED")

Covers(request, s, t) ==
    request.symbol = s /\ request.window.from <= t /\ t <= request.window.to

\* What a backfill still has to ask for is what it has not asked for.
BackfillInv ==
    pc = "backfill" =>
        /\ Known = Symbols
        /\ span = [of |-> span.of, asked |-> span.asked]
        /\ \E first, last \in Slots :
            /\ span.of = first..last
            /\ todo \in Seq(Requests(first, last)) /\ IsInjective(todo)
            /\ span.asked \in Seq(Symbols \X span.of) /\ IsInjective(span.asked)
            /\ \A s \in Symbols, t \in span.of :
                <<s, t>> \in ToSet(span.asked)
                    <=> ~\E request \in ToSet(todo) : Covers(request, s, t)

\* A revision is reported, or due to be, only where a stored bar changed.
Real(event) ==
    event.issue = "CANDLE_REVISED" => [pass |-> event.pass, symbol |-> event.symbol] \in changed

RevisionsAreReal == \A event \in events : Real(event)

AlarmInv ==
    /\ RevisionsAreReal
    /\ pc \in {"ingest", "events"} =>
        \A s \in Ingested : results[s].revised => [pass |-> passes, symbol |-> s] \in changed
    /\ pc = "events" => \A event \in ToSet(todo) : Real(event)

IInv ==
    /\ TypeOK /\ passes \in Nat
    /\ SyncInv /\ PassInv /\ BackfillInv /\ AlarmInv
    /\ MappingTraceable /\ RevisionAudited /\ PassIsVisible

LEMMA InitIInv == Init => IInv
  <1> SUFFICES ASSUME Init PROVE IInv
    OBVIOUS
  <1>1. candles \in [Keys -> [Slots -> SoundBars \cup {None}]] /\ \A k \in Keys, t \in Slots : ~Stored(k, t)
    BY DEF Init, Stored
  <1>2. DOMAIN rows = {} /\ DOMAIN results = {} /\ DOMAIN runs = {} /\ DOMAIN verdicts = {}
    BY DEF Init
  <1>3. TypeOK
    BY <1>1, <1>2 DEF Init, TypeOK
  <1> QED
    BY <1>1, <1>2, <1>3 DEF Init, IInv, SyncInv, PassInv, BackfillInv, MappingTraceable,
        RevisionAudited, PassIsVisible, AlarmInv, RevisionsAreReal

\* Outside a pass, events are only what passes left.
LEMMA AlarmsStay ==
    ASSUME IInv, UNCHANGED <<events, changed>>, pc' \notin {"ingest", "events"}
    PROVE  AlarmInv'
  BY DEF IInv, AlarmInv, RevisionsAreReal, Real

-----------------------------------------------------------------------------
(* Sync. *)

LEMMA StartSyncStep == IInv /\ StartSync => IInv'
  <1> SUFFICES ASSUME IInv, StartSync PROVE IInv'
    OBVIOUS
  <1>1. /\ pc' = "resolve" /\ rows' = <<>> /\ DOMAIN rows' = {}
        /\ UNCHANGED <<master, history, candles, runs, events, verdicts, changed, results, span, passes>>
    BY DEF StartSync, tables, ghosts
  <1>2. PICK wanted \in SUBSET Symbols : wanted # {} /\ todo' = SetToSeq(wanted)
    BY DEF StartSync
  <1>3. IsFiniteSet(wanted)
    BY <1>2, SymbolsAssumption, FS_Subset
  <1>4. todo' \in Seq(wanted) /\ ToSet(todo') = wanted
    BY <1>2, <1>3, SetToSeqIs
  <1>5. todo' \in Seq(Symbols) /\ todo' # <<>>
    <2>1. todo' # <<>>
      BY <1>2, <1>4 DEF ToSet
    <2> QED
      BY <1>4, <2>1
  <1>6. TypeOK'
    BY <1>1 DEF IInv, TypeOK
  <1>7. SyncInv' /\ PassInv' /\ BackfillInv'
    BY <1>1, <1>5 DEF SyncInv, PassInv, BackfillInv
  <1>8. MappingTraceable' /\ RevisionAudited' /\ PassIsVisible'
    BY <1>1 DEF IInv, MappingTraceable, Stored, RevisionAudited, PassIsVisible
  <1> QED
    BY <1>1, <1>6, <1>7, <1>8, AlarmsStay DEF IInv

LEMMA ResolveStep == IInv /\ Resolve => IInv'
  <1> SUFFICES ASSUME IInv, Resolve PROVE IInv'
    OBVIOUS
  <1>1. /\ pc = "resolve" /\ todo' = Tail(todo)
        /\ pc' = IF Tail(todo) # <<>> THEN "resolve" ELSE IF DOMAIN rows' = {} THEN "idle" ELSE "history"
        /\ UNCHANGED <<master, history, candles, runs, events, verdicts, changed, results, span, passes>>
    BY DEF Resolve, tables, ghosts, counts
  <1>2. todo \in Seq(Symbols) /\ todo # <<>>
    BY <1>1 DEF IInv, SyncInv
  <1>3. Head(todo) \in Symbols /\ Tail(todo) \in Seq(Symbols)
    BY <1>2
  <1>4. DOMAIN rows' \subseteq Symbols /\ \A s \in DOMAIN rows' : rows'[s] \in Keys
    <2>1. DOMAIN rows \subseteq Symbols /\ \A s \in DOMAIN rows : rows[s] \in Keys
      BY DEF IInv, TypeOK, SyncInv
    <2>2. PICK k \in Keys \cup {None} :
            rows' = IF k = None THEN rows
                    ELSE [s \in DOMAIN rows \cup {Head(todo)} |->
                            IF s = Head(todo) THEN k ELSE rows[s]]
      BY DEF Resolve
    <2>3. CASE k = None
      BY <2>1, <2>2, <2>3
    <2>4. CASE k # None
      BY <1>3, <2>1, <2>2, <2>4
    <2> QED
      BY <2>3, <2>4
  <1>5. TypeOK'
    BY <1>1, <1>4 DEF IInv, TypeOK
  <1>6. SyncInv' /\ PassInv' /\ BackfillInv'
    BY <1>1, <1>3, <1>4 DEF SyncInv, PassInv, BackfillInv
  <1>7. MappingTraceable' /\ RevisionAudited' /\ PassIsVisible'
    BY <1>1 DEF IInv, MappingTraceable, Stored, RevisionAudited, PassIsVisible
  <1> QED
    BY <1>1, <1>5, <1>6, <1>7, AlarmsStay DEF IInv

LEMMA UpsertStep == IInv /\ UpsertInstruments => IInv'
  <1> SUFFICES ASSUME IInv, UpsertInstruments PROVE IInv'
    OBVIOUS
  <1>1. UNCHANGED <<candles, runs, events, verdicts, changed, results, span, passes>>
    BY DEF UpsertInstruments, ghosts, counts
  <1>2. DOMAIN rows \subseteq Symbols /\ \A s \in DOMAIN rows : rows[s] \in Keys
    BY DEF IInv, TypeOK, SyncInv
  <1>3. RevisionAudited' /\ PassIsVisible'
    BY <1>1 DEF IInv, RevisionAudited, PassIsVisible
  <1>4. CASE pc = "history" /\ UpsertStatement(1) /\ pc' = "master" /\ UNCHANGED rows
    <2>1. /\ history' = history \cup {<<s, rows[s]>> : s \in DOMAIN rows}
          /\ master' = master
      BY <1>4 DEF UpsertStatement, InsertHistory, HistoryOfRows
    <2>2. TypeOK'
      BY <1>1, <1>2, <1>4, <2>1 DEF IInv, TypeOK
    <2>3. SyncInv' /\ PassInv' /\ BackfillInv'
      BY <1>2, <1>4, <2>1 DEF SyncInv, PassInv, BackfillInv
    <2>4. MappingTraceable'
      BY <1>1, <2>1 DEF IInv, MappingTraceable, Stored
    <2> QED
      BY <1>1, <1>3, <1>4, <2>2, <2>3, <2>4, AlarmsStay DEF IInv
  <1>5. CASE pc = "master" /\ UpsertStatement(2) /\ pc' = "idle" /\ rows' = <<>>
    <2>1. /\ master' = [s \in Symbols |-> IF s \in DOMAIN rows THEN rows[s] ELSE master[s]]
          /\ history' = history
      BY <1>5 DEF UpsertStatement, ReplaceMaster, MasterOfRows
    <2>2. \A s \in DOMAIN rows : <<s, rows[s]>> \in history
      BY <1>5 DEF IInv, SyncInv
    <2>3. DOMAIN rows' = {}
      BY <1>5
    <2>4. TypeOK'
      BY <1>1, <1>2, <1>5, <2>1, <2>3 DEF IInv, TypeOK
    <2>5. SyncInv' /\ PassInv' /\ BackfillInv'
      BY <1>5, <2>3 DEF SyncInv, PassInv, BackfillInv
    <2>6. MappingTraceable'
      BY <1>1, <2>1, <2>2 DEF IInv, MappingTraceable, Stored
    <2> QED
      BY <1>1, <1>3, <1>5, <2>4, <2>5, <2>6, AlarmsStay DEF IInv
  <1> QED
    BY <1>4, <1>5 DEF UpsertInstruments

-----------------------------------------------------------------------------
(* An intraday pass. *)

LEMMA StartPassStep == IInv /\ StartPass => IInv'
  <1> SUFFICES ASSUME IInv, StartPass PROVE IInv'
    OBVIOUS
  <1>1. /\ pc' = "ingest" /\ results' = <<>> /\ DOMAIN results' = {}
        /\ passes' = passes + 1 /\ todo' = SetToSeq(Known)
        /\ UNCHANGED <<master, history, candles, runs, events, verdicts, changed, rows, span>>
    BY DEF StartPass, tables, ghosts
  <1>2. passes \in Nat
    BY DEF IInv
  <1>3. Known \in SUBSET Symbols
    BY DEF Known
  <1>4. todo' \in Seq(Known) /\ IsInjective(todo')
    BY <1>1, <1>3, SymbolsAssumption, FS_Subset, SetToSeqIs
  <1>5. Known' = Known
    BY <1>1 DEF Known
  <1>6. /\ DOMAIN runs \subseteq 1..passes /\ DOMAIN verdicts \subseteq DOMAIN runs
        /\ events \subseteq [pass : 1..passes, symbol : Symbols, issue : Issues]
        /\ changed \subseteq [pass : 0..passes, symbol : Symbols]
    BY DEF IInv, TypeOK
  <1>7. 1..passes \subseteq 1..passes' /\ 0..passes \subseteq 0..passes'
    BY <1>1, <1>2
  <1>8. TypeOK'
    BY <1>1, <1>6, <1>7 DEF IInv, TypeOK
  <1>9. SyncInv' /\ BackfillInv'
    BY <1>1 DEF IInv, SyncInv, BackfillInv
  <1>10. PassInv'
    <2>1. passes' # 0 /\ passes' \notin DOMAIN verdicts'
      BY <1>1, <1>2, <1>6
    <2>2. \A c \in changed' : c.pass # passes'
      BY <1>1, <1>2, <1>6
    <2> QED
      BY <1>1, <1>4, <1>5, <2>1, <2>2 DEF PassInv, Ingested
  <1>11. MappingTraceable' /\ RevisionAudited' /\ PassIsVisible'
    BY <1>1 DEF IInv, MappingTraceable, Stored, RevisionAudited, PassIsVisible
  <1>12. AlarmInv'
    BY <1>1 DEF IInv, AlarmInv, RevisionsAreReal, Real, Ingested
  <1> QED
    BY <1>1, <1>2, <1>8, <1>9, <1>10, <1>11, <1>12 DEF IInv

\* What is left of a frame are sound bars of known slots.
LEMMA NormalizedIs ==
    ASSUME NEW body, NEW frame \in Frames(body)
    PROVE  /\ DOMAIN Normalized(frame) \subseteq Slots
           /\ \A t \in DOMAIN Normalized(frame) : Normalized(frame)[t] \in SoundBars
  <1>1. DOMAIN frame \subseteq Slots
    BY DEF Frames
  <1> QED
    BY <1>1 DEF Normalized

\* The answer to one symbol: what is stored, the result, and whether a stored bar
\* changed.
LEMMA IngestIs ==
    ASSUME IInv, IngestSymbol
    PROVE  LET s == Head(todo)
           IN  /\ s \in Known
               /\ candles' \in [Keys -> [Slots -> SoundBars \cup {None}]]
               /\ \A k \in Keys, t \in Slots :
                    Stored(k, t)' => Stored(k, t) \/ k = master[s]
               /\ DOMAIN results' = Ingested \cup {s}
               /\ \A x \in Ingested \ {s} : results'[x] = results[x]
               /\ \/ changed' = changed /\ ~results'[s].revised
                  \/ /\ changed' = changed \cup {[pass |-> passes, symbol |-> s]}
                     /\ results'[s].revised
  <1> DEFINE s == Head(todo)
             k == master[s]
  <1>1. todo \in Seq(Known) /\ todo # <<>>
    BY DEF IngestSymbol, IInv, PassInv
  <1>2. s \in Known /\ k \in Keys
    <2>1. s \in Known
      BY <1>1
    <2> QED
      BY <2>1 DEF Known, IInv, TypeOK
  <1> HIDE DEF s
  <1>3. candles \in [Keys -> [Slots -> SoundBars \cup {None}]]
    BY DEF IInv, TypeOK
  <1>4. CASE Result(s, ErrorResult) /\ UNCHANGED <<candles, changed>>
    BY <1>2, <1>3, <1>4 DEF s, Result, ErrorResult, Ingested, Stored
  <1>5. CASE \E body \in Bodies : \E frame \in Frames(body) : StoreFrame(s, frame)
    <2>0. PICK body \in Bodies : \E frame \in Frames(body) : StoreFrame(s, frame)
      BY <1>5
    <2>1. PICK frame \in Frames(body) : StoreFrame(s, frame)
      BY <2>0
    <2> DEFINE bars == Normalized(frame)
               stored == Replace(k, bars)
               moved == \E t \in Slots : Stored(k, t) /\ stored[t] # candles[k][t]
    <2>2. /\ candles' = [candles EXCEPT ![k] = stored]
          /\ Result(s, [error |-> FALSE, empty |-> DOMAIN frame = {}, flawed |-> Flawed(frame),
                        revised |-> Revised(k, bars) # {}])
          /\ changed' = IF moved THEN changed \cup {[pass |-> passes, symbol |-> s]} ELSE changed
      BY <2>1 DEF StoreFrame
    <2>3. DOMAIN bars \subseteq Slots /\ \A t \in DOMAIN bars : bars[t] \in SoundBars
      BY NormalizedIs
    <2> HIDE DEF bars
    <2>4. stored \in [Slots -> SoundBars \cup {None}]
      BY <1>2, <1>3, <2>3 DEF Replace
    <2>5. moved <=> Revised(k, bars) # {}
      BY <2>3 DEF Replace, Revised
    <2> HIDE DEF stored, moved
    <2>6. candles' \in [Keys -> [Slots -> SoundBars \cup {None}]]
      BY <1>2, <1>3, <2>2, <2>4
    <2>7. \A x \in Keys, t \in Slots : Stored(x, t)' => Stored(x, t) \/ x = k
      BY <1>2, <1>3, <2>2 DEF Stored
    <2>8. /\ DOMAIN results' = Ingested \cup {s}
          /\ \A x \in Ingested \ {s} : results'[x] = results[x]
          /\ results'[s].revised = (Revised(k, bars) # {})
      BY <2>2 DEF Result, Ingested
    <2> QED
      BY <1>2, <2>2, <2>5, <2>6, <2>7, <2>8 DEF s
  <1> QED
    BY <1>4, <1>5 DEF IngestSymbol, s

LEMMA IngestStep == IInv /\ IngestSymbol => IInv'
  <1> SUFFICES ASSUME IInv, IngestSymbol PROVE IInv'
    OBVIOUS
  <1> DEFINE s == Head(todo)
  <1>1. /\ pc = "ingest" /\ pc' = "ingest" /\ todo # <<>> /\ todo' = Tail(todo)
        /\ UNCHANGED <<master, history, runs, events, verdicts, rows, span, passes>>
    BY DEF IngestSymbol, counts
  <1>2. /\ s \in Known
        /\ candles' \in [Keys -> [Slots -> SoundBars \cup {None}]]
        /\ \A k \in Keys, t \in Slots : Stored(k, t)' => Stored(k, t) \/ k = master[s]
        /\ DOMAIN results' = Ingested \cup {s}
        /\ \A x \in Ingested \ {s} : results'[x] = results[x]
        /\ \/ changed' = changed /\ ~results'[s].revised
           \/ /\ changed' = changed \cup {[pass |-> passes, symbol |-> s]}
              /\ results'[s].revised
    BY IngestIs
  <1>3. /\ todo \in Seq(Known) /\ IsInjective(todo) /\ ToSet(todo) \cap Ingested = {}
        /\ passes # 0 /\ passes \notin DOMAIN verdicts
        /\ \A c \in changed : c.pass = passes => c.symbol \in Ingested /\ results[c.symbol].revised
    BY <1>1 DEF IInv, PassInv
  <1>4. /\ Tail(todo) \in Seq(Known) /\ IsInjective(Tail(todo)) /\ s \notin ToSet(Tail(todo))
        /\ ToSet(todo) = {s} \cup ToSet(Tail(todo))
    BY <1>1, <1>3, TailIs
  <1>5. s \in Symbols /\ master[s] # None /\ passes \in Nat
    BY <1>2 DEF Known, IInv
  <1> HIDE DEF s
  <1>6. [pass |-> passes, symbol |-> s] \in [pass : 0..passes, symbol : Symbols]
    BY <1>5
  <1>7. TypeOK'
    BY <1>1, <1>2, <1>5, <1>6 DEF IInv, TypeOK, Ingested
  <1>8. SyncInv' /\ BackfillInv'
    BY <1>1 DEF IInv, SyncInv, BackfillInv
  <1>9. PassInv'
    <2>1. Known' = Known /\ Ingested' = Ingested \cup {s}
      BY <1>1, <1>2 DEF Known, Ingested
    <2>2. ToSet(todo') \cap Ingested' = {}
      BY <1>1, <1>3, <1>4, <2>1
    <2>3. ASSUME NEW c \in changed', c.pass = passes'
          PROVE  c.symbol \in Ingested' /\ results'[c.symbol].revised
      <3>1. CASE c \in changed
        <4>1. c.symbol \in Ingested /\ results[c.symbol].revised
          BY <1>1, <1>3, <2>3, <3>1
        <4>2. c.symbol # s
          BY <1>3, <1>4, <4>1
        <4> QED
          BY <1>2, <2>1, <4>1, <4>2
      <3>2. CASE c = [pass |-> passes, symbol |-> s] /\ results'[s].revised
        BY <2>1, <3>2
      <3> QED
        BY <1>2, <2>3, <3>1, <3>2
    <2> QED
      BY <1>1, <1>3, <1>4, <2>1, <2>2, <2>3 DEF PassInv
  <1>10. MappingTraceable'
    <2>1. <<s, master[s]>> \in history
      BY <1>5 DEF IInv, MappingTraceable
    <2>2. ASSUME NEW k \in Keys, NEW t \in Slots, Stored(k, t)'
          PROVE  \E x \in Symbols : <<x, k>> \in history
      BY <1>2, <1>5, <2>1, <2>2 DEF IInv, MappingTraceable
    <2> QED
      BY <1>1, <2>2 DEF IInv, MappingTraceable
  <1>11. RevisionAudited'
    <2>1. ASSUME NEW c \in changed'
          PROVE  c \in changed \/ (c.pass = passes /\ passes # 0 /\ passes \notin DOMAIN verdicts)
      BY <1>2, <1>3
    <2> QED
      BY <1>1, <2>1 DEF IInv, RevisionAudited
  <1>12. PassIsVisible'
    BY <1>1 DEF IInv, PassIsVisible
  <1>13. AlarmInv'
    <2>1. changed \subseteq changed' /\ Ingested' = Ingested \cup {s}
      BY <1>2 DEF Ingested
    <2>2. RevisionsAreReal'
      BY <1>1, <2>1 DEF IInv, AlarmInv, RevisionsAreReal, Real
    <2>3. ASSUME NEW x \in Ingested', results'[x].revised
          PROVE  [pass |-> passes, symbol |-> x] \in changed'
      <3>1. CASE x = s
        BY <1>2, <2>3, <3>1
      <3>2. CASE x # s
        <4>1. x \in Ingested /\ results[x].revised
          BY <1>2, <2>1, <2>3, <3>2
        <4> QED
          BY <1>1, <2>1, <4>1 DEF IInv, AlarmInv
      <3> QED
        BY <3>1, <3>2
    <2> QED
      BY <1>1, <2>2, <2>3 DEF AlarmInv
  <1> QED
    BY <1>1, <1>5, <1>7, <1>8, <1>9, <1>10, <1>11, <1>12, <1>13 DEF IInv

\* The events of a kind are one for each symbol it is found for.
LEMMA EventsForIs ==
    ASSUME passes \in Nat \ {0}, NEW symbols \in SUBSET Symbols, NEW issue \in Issues
    PROVE  /\ EventsFor(symbols, issue) \in Seq([pass : 1..passes, symbol : Symbols, issue : Issues])
           /\ ToSet(EventsFor(symbols, issue)) = {Event(s, issue) : s \in symbols}
  <1> DEFINE all == [pass : 1..passes, symbol : Symbols, issue : Issues]
             these == {[pass |-> passes, symbol |-> s, issue |-> issue] : s \in symbols}
             f == [s \in symbols |-> [pass |-> passes, symbol |-> s, issue |-> issue]]
             q == EventsFor(symbols, issue)
  <1>1. f \in Surjection(symbols, these)
    BY DEF Surjection
  <1>2. IsFiniteSet(symbols)
    BY SymbolsAssumption, FS_Subset
  <1>3. IsFiniteSet(these)
    BY <1>1, <1>2, FS_Surjection
  <1>4. q \in Seq(these) /\ ToSet(q) = these
    BY <1>3, SetToSeqIs DEF EventsFor
  <1>5. these \subseteq all
    BY DEF Issues
  <1>6. these = {Event(s, issue) : s \in symbols}
    BY DEF Event
  <1> HIDE DEF q, these, all
  <1>7. q \in [1..Len(q) -> these] /\ Len(q) \in Nat
    BY <1>4
  <1>8. q \in [1..Len(q) -> all]
    BY <1>5, <1>7
  <1>9. q \in Seq(all)
    BY <1>7, <1>8
  <1> QED
    BY <1>4, <1>6, <1>9 DEF q, all

\* A pass owes an event for each symbol that came back empty, flawed or revised.
LEMMA EventsOfPassIs ==
    ASSUME passes \in Nat \ {0}, Ingested \subseteq Symbols
    PROVE  /\ EventsOfPass \in Seq([pass : 1..passes, symbol : Symbols, issue : Issues])
           /\ \A s \in Ingested :
                /\ s \in Empty => Event(s, "EMPTY_RESPONSE") \in ToSet(EventsOfPass)
                /\ results[s].flawed => Event(s, "INGESTION_QUALITY") \in ToSet(EventsOfPass)
                /\ results[s].revised => Event(s, "CANDLE_REVISED") \in ToSet(EventsOfPass)
           /\ \A event \in ToSet(EventsOfPass) : event.issue = "CANDLE_REVISED" =>
                event.pass = passes /\ event.symbol \in Ingested /\ results[event.symbol].revised
  <1> DEFINE all == [pass : 1..passes, symbol : Symbols, issue : Issues]
             flawed == {s \in Ingested : results[s].flawed}
             revised == {s \in Ingested : results[s].revised}
             e == EventsFor(Empty, "EMPTY_RESPONSE")
             f == EventsFor(flawed, "INGESTION_QUALITY")
             r == EventsFor(revised, "CANDLE_REVISED")
  <1>1. Empty \in SUBSET Symbols /\ flawed \in SUBSET Symbols /\ revised \in SUBSET Symbols
    BY DEF Empty
  <1>2. e \in Seq(all) /\ ToSet(e) = {Event(s, "EMPTY_RESPONSE") : s \in Empty}
    BY <1>1, EventsForIs DEF Issues
  <1>3. f \in Seq(all) /\ ToSet(f) = {Event(s, "INGESTION_QUALITY") : s \in flawed}
    BY <1>1, EventsForIs DEF Issues
  <1>4. r \in Seq(all) /\ ToSet(r) = {Event(s, "CANDLE_REVISED") : s \in revised}
    BY <1>1, EventsForIs DEF Issues
  <1>5. EventsOfPass = (e \o f) \o r
    BY DEF EventsOfPass
  <1> HIDE DEF e, f, r, all
  <1> DEFINE both == e \o f
  <1>6. both \in Seq(all) /\ ToSet(both) = ToSet(e) \cup ToSet(f)
    BY <1>2, <1>3, ConcatIs
  <1> HIDE DEF both
  <1>7. both \o r \in Seq(all) /\ ToSet(both \o r) = ToSet(both) \cup ToSet(r)
    BY <1>4, <1>6, ConcatIs
  <1>8. EventsOfPass = both \o r
    BY <1>5 DEF both
  <1>9. ToSet(EventsOfPass) = ToSet(e) \cup ToSet(f) \cup ToSet(r)
    BY <1>6, <1>7, <1>8
  <1>10. ASSUME NEW event \in ToSet(EventsOfPass), event.issue = "CANDLE_REVISED"
         PROVE  event.pass = passes /\ event.symbol \in Ingested /\ results[event.symbol].revised
    <2>1. event \in ToSet(r)
      BY <1>2, <1>3, <1>9, <1>10 DEF Event
    <2>2. PICK s \in revised : event = Event(s, "CANDLE_REVISED")
      BY <1>4, <2>1
    <2> QED
      BY <2>2 DEF Event
  <1>11. \A s \in Ingested :
            /\ s \in Empty => Event(s, "EMPTY_RESPONSE") \in ToSet(EventsOfPass)
            /\ results[s].flawed => Event(s, "INGESTION_QUALITY") \in ToSet(EventsOfPass)
            /\ results[s].revised => Event(s, "CANDLE_REVISED") \in ToSet(EventsOfPass)
    BY <1>2, <1>3, <1>4, <1>9
  <1> QED
    BY <1>7, <1>8, <1>10, <1>11 DEF all

LEMMA RecordRunStep == IInv /\ RecordRun => IInv'
  <1> SUFFICES ASSUME IInv, RecordRun PROVE IInv'
    OBVIOUS
  <1>1. /\ pc = "ingest" /\ pc' = "events" /\ todo' = EventsOfPass
        /\ runs' = [p \in DOMAIN runs \cup {passes} |-> IF p = passes THEN RunStatus ELSE runs[p]]
        /\ UNCHANGED <<master, history, candles, events, verdicts, changed, rows, results, span, passes>>
    BY DEF RecordRun, ghosts, counts
  <1>2. /\ passes \in Nat \ {0} /\ passes \notin DOMAIN verdicts
        /\ \A c \in changed : c.pass = passes => c.symbol \in Ingested /\ results[c.symbol].revised
    BY <1>1 DEF IInv, PassInv
  <1>3. Ingested \subseteq Symbols /\ DOMAIN verdicts \subseteq DOMAIN runs /\ DOMAIN runs \subseteq 1..passes
    BY DEF IInv, TypeOK, Ingested
  <1>4. /\ todo' \in Seq([pass : 1..passes, symbol : Symbols, issue : Issues])
        /\ \A s \in Ingested :
            /\ s \in Empty => Event(s, "EMPTY_RESPONSE") \in ToSet(todo')
            /\ results[s].flawed => Event(s, "INGESTION_QUALITY") \in ToSet(todo')
            /\ results[s].revised => Event(s, "CANDLE_REVISED") \in ToSet(todo')
        /\ \A event \in ToSet(todo') : event.issue = "CANDLE_REVISED" =>
            event.pass = passes /\ event.symbol \in Ingested /\ results[event.symbol].revised
    BY <1>1, <1>2, <1>3, EventsOfPassIs
  <1>5. DOMAIN runs' = DOMAIN runs \cup {passes} /\ runs'[passes] = RunStatus
        /\ \A p \in DOMAIN runs \ {passes} : runs'[p] = runs[p]
    BY <1>1
  <1>6. TypeOK'
    BY <1>1, <1>2, <1>3, <1>5 DEF IInv, TypeOK
  <1>7. SyncInv' /\ BackfillInv'
    BY <1>1 DEF IInv, SyncInv, BackfillInv
  <1>8. /\ Ingested' = Ingested /\ Empty' = Empty /\ RunStatus' = RunStatus
        /\ \A s, i : Event(s, i)' = Event(s, i)
    BY <1>1 DEF Ingested, Empty, RunStatus, Erred, Event
  <1>9. PassInv'
    BY <1>1, <1>2, <1>4, <1>5, <1>8 DEF PassInv, Reported
  <1>10. MappingTraceable' /\ RevisionAudited'
    BY <1>1 DEF IInv, MappingTraceable, Stored, RevisionAudited
  <1>11. PassIsVisible'
    BY <1>1, <1>2, <1>5 DEF IInv, PassIsVisible
  <1>12. AlarmInv'
    BY <1>1, <1>4, <1>8 DEF IInv, AlarmInv, RevisionsAreReal, Real
  <1> QED
    BY <1>1, <1>6, <1>7, <1>9, <1>10, <1>11, <1>12 DEF IInv

LEMMA RecordEventStep == IInv /\ RecordEvent => IInv'
  <1> SUFFICES ASSUME IInv, RecordEvent PROVE IInv'
    OBVIOUS
  <1> DEFINE all == [pass : 1..passes, symbol : Symbols, issue : Issues]
  <1>1. /\ pc = "events" /\ pc' = "events" /\ todo # <<>> /\ todo' = Tail(todo)
        /\ events' = events \cup {Head(todo)}
        /\ UNCHANGED <<master, history, candles, runs, verdicts, changed, rows, results, span, passes>>
    BY DEF RecordEvent, ghosts, counts
  <1>2. todo \in Seq(all)
    BY <1>1 DEF IInv, PassInv
  <1>3. /\ Head(todo) \in all /\ todo' \in Seq(all)
        /\ ToSet(todo) = {Head(todo)} \cup ToSet(Tail(todo))
    <2> HIDE DEF all
    <2> QED
      BY <1>1, <1>2, TailIs
  <1>4. events \subseteq events' /\ events' \cup ToSet(todo') = events \cup ToSet(todo)
    BY <1>1, <1>3
  <1>5. TypeOK'
    BY <1>1, <1>3 DEF IInv, TypeOK
  <1>6. SyncInv' /\ BackfillInv'
    BY <1>1 DEF IInv, SyncInv, BackfillInv
  <1>7. PassInv'
    <2>1. /\ Ingested' = Ingested /\ Empty' = Empty /\ RunStatus' = RunStatus
          /\ \A s, i : Event(s, i)' = Event(s, i)
      BY <1>1 DEF Ingested, Empty, RunStatus, Erred, Event
    <2>2. \A s, i : Reported(s, i)' <=> Reported(s, i)
      BY <1>4, <2>1 DEF Reported
    <2> QED
      BY <1>1, <1>3, <2>1, <2>2 DEF IInv, PassInv
  <1>8. MappingTraceable'
    BY <1>1 DEF IInv, MappingTraceable, Stored
  <1>9. RevisionAudited' /\ PassIsVisible'
    BY <1>1, <1>4 DEF IInv, RevisionAudited, PassIsVisible
  <1>10. AlarmInv'
    <2>1. \A event \in events' \cup ToSet(todo') : Real(event)
      BY <1>1, <1>4 DEF IInv, AlarmInv, RevisionsAreReal
    <2>2. Ingested' = Ingested
      BY <1>1 DEF Ingested
    <2> QED
      BY <1>1, <2>1, <2>2 DEF IInv, AlarmInv, RevisionsAreReal, Real
  <1> QED
    BY <1>1, <1>5, <1>6, <1>7, <1>8, <1>9, <1>10 DEF IInv

LEMMA JudgeStep == IInv /\ Judge => IInv'
  <1> SUFFICES ASSUME IInv, Judge PROVE IInv'
    OBVIOUS
  <1> DEFINE flawed == {s \in Ingested : results[s].flawed}
             verdict == [usable |-> Usable, without |-> Erred \cup Empty, flawed |-> flawed]
  <1>1. /\ pc = "events" /\ pc' = "idle" /\ todo = <<>> /\ results' = <<>> /\ DOMAIN results' = {}
        /\ verdicts' = [p \in DOMAIN verdicts \cup {passes} |->
                            IF p = passes THEN verdict ELSE verdicts[p]]
        /\ UNCHANGED <<master, history, candles, runs, events, changed, rows, span, passes>>
    BY DEF Judge, tables, counts
  <1>2. /\ passes \in DOMAIN runs /\ runs[passes] = RunStatus
        /\ \A c \in changed : c.pass = passes => c.symbol \in Ingested /\ results[c.symbol].revised
    BY <1>1 DEF IInv, PassInv
  <1>3. ToSet(todo) = {}
    BY <1>1 DEF ToSet
  <1>4. \A s \in Ingested :
            /\ s \in Empty => Event(s, "EMPTY_RESPONSE") \in events
            /\ results[s].flawed => Event(s, "INGESTION_QUALITY") \in events
            /\ results[s].revised => Event(s, "CANDLE_REVISED") \in events
    BY <1>1, <1>3 DEF IInv, PassInv, Reported
  <1>5. /\ DOMAIN verdicts' = DOMAIN verdicts \cup {passes} /\ verdicts'[passes] = verdict
        /\ \A p \in DOMAIN verdicts \ {passes} : verdicts'[p] = verdicts[p]
    BY <1>1
  <1> HIDE DEF verdict
  <1>6. TypeOK'
    BY <1>1, <1>2, <1>5 DEF IInv, TypeOK
  <1>7. SyncInv' /\ PassInv' /\ BackfillInv'
    BY <1>1 DEF IInv, SyncInv, PassInv, BackfillInv
  <1>8. MappingTraceable'
    BY <1>1 DEF IInv, MappingTraceable, Stored
  <1>9. RevisionAudited'
    <2> SUFFICES ASSUME NEW c \in changed
                 PROVE  /\ c.pass # 0
                        /\ c.pass \in DOMAIN verdicts' =>
                            [pass |-> c.pass, symbol |-> c.symbol, issue |-> "CANDLE_REVISED"] \in events
      BY <1>1 DEF RevisionAudited
    <2>1. CASE c.pass = passes
      <3>1. Event(c.symbol, "CANDLE_REVISED") \in events
        BY <1>2, <1>4, <2>1
      <3> QED
        BY <2>1, <3>1 DEF IInv, RevisionAudited, Event
    <2>2. CASE c.pass # passes
      BY <1>5, <2>2 DEF IInv, RevisionAudited
    <2> QED
      BY <2>1, <2>2
  <1>10. PassIsVisible'
    <2>1. runs[passes] = "SUCCESS" => Erred \cup Empty = Empty
      BY <1>2 DEF RunStatus
    <2>2. \A s \in Empty : s \in Ingested
      BY DEF Empty
    <2>3. verdict.without = Erred \cup Empty /\ verdict.flawed = flawed
      BY DEF verdict
    <2>4. /\ runs[passes] = "SUCCESS" =>
                \A s \in verdict.without :
                    [pass |-> passes, symbol |-> s, issue |-> "EMPTY_RESPONSE"] \in events
          /\ \A s \in verdict.flawed :
                [pass |-> passes, symbol |-> s, issue |-> "INGESTION_QUALITY"] \in events
      BY <1>4, <2>1, <2>2, <2>3 DEF Event
    <2>5. ASSUME NEW p \in DOMAIN verdicts'
          PROVE  /\ p \in DOMAIN runs
                 /\ ~verdicts'[p].usable /\ runs[p] = "SUCCESS" =>
                        \A s \in verdicts'[p].without :
                            [pass |-> p, symbol |-> s, issue |-> "EMPTY_RESPONSE"] \in events
                 /\ \A s \in verdicts'[p].flawed :
                        [pass |-> p, symbol |-> s, issue |-> "INGESTION_QUALITY"] \in events
      <3>1. CASE p = passes
        BY <1>2, <1>5, <2>4, <3>1
      <3>2. CASE p # passes
        BY <1>5, <3>2 DEF IInv, PassIsVisible
      <3> QED
        BY <3>1, <3>2
    <2> QED
      BY <1>1, <2>5 DEF PassIsVisible
  <1> QED
    BY <1>1, <1>6, <1>7, <1>8, <1>9, <1>10, AlarmsStay DEF IInv

-----------------------------------------------------------------------------
(* A backfill. *)

LEMMA StartBackfillStep == IInv /\ StartBackfill => IInv'
  <1> SUFFICES ASSUME IInv, StartBackfill PROVE IInv'
    OBVIOUS
  <1>1. /\ pc' = "backfill" /\ Known = Symbols
        /\ UNCHANGED <<master, history, candles, runs, events, verdicts, changed, rows, results, passes>>
    BY DEF StartBackfill, tables, ghosts
  <1>2. PICK first \in Slots, last \in Slots :
            /\ first <= last
            /\ span' = [of |-> first..last, asked |-> <<>>]
            /\ todo' = SetToSeq(Requests(first, last))
    BY DEF StartBackfill, Requests
  <1>3. first \in Nat /\ last \in Nat
    BY SlotsAssumption
  <1>4. /\ todo' \in Seq(Requests(first, last)) /\ IsInjective(todo')
        /\ ToSet(todo') = Requests(first, last)
    BY <1>2, <1>3, RequestsFinite, SetToSeqIs
  <1>5. /\ span'.of = first..last /\ span'.asked = <<>> /\ DOMAIN span'.asked = {}
        /\ span' = [of |-> span'.of, asked |-> span'.asked]
        /\ span'.asked \in Seq(Symbols \X span'.of)
    BY <1>2
  <1>6. ToSet(span'.asked) = {} /\ IsInjective(span'.asked)
    BY <1>5 DEF ToSet, IsInjective
  <1>7. ASSUME NEW s \in Symbols, NEW t \in span'.of
        PROVE  \E request \in ToSet(todo') : Covers(request, s, t)
    <2>1. t \in first..last
      BY <1>5
    <2>2. PICK w \in DateWindows(first, last) : w.from <= t /\ t <= w.to
      BY <1>3, <2>1, WindowsCover
    <2>3. [symbol |-> s, window |-> w] \in Requests(first, last)
      BY DEF Requests
    <2> QED
      BY <1>4, <2>2, <2>3 DEF Covers
  <1>8. Known' = Symbols
    BY <1>1 DEF Known
  <1>9. BackfillInv'
    BY <1>2, <1>4, <1>5, <1>6, <1>7, <1>8 DEF BackfillInv
  <1>10. TypeOK'
    BY <1>1 DEF IInv, TypeOK
  <1>11. SyncInv' /\ PassInv'
    BY <1>1 DEF IInv, SyncInv, PassInv
  <1>12. MappingTraceable' /\ RevisionAudited' /\ PassIsVisible'
    BY <1>1 DEF IInv, MappingTraceable, Stored, RevisionAudited, PassIsVisible
  <1> QED
    BY <1>1, <1>9, <1>10, <1>11, <1>12, AlarmsStay DEF IInv

\* A window stores bars where there were none, under a key the history has.
LEMMA FetchIs ==
    ASSUME IInv, FetchWindow, Head(todo).symbol \in Known
    PROVE  LET k == master[Head(todo).symbol]
           IN  /\ candles' \in [Keys -> [Slots -> SoundBars \cup {None}]]
               /\ \A x \in Keys, t \in Slots : Stored(x, t)' => Stored(x, t) \/ x = k
               /\ changed' = changed
  <1> DEFINE request == Head(todo)
             k == master[request.symbol]
  <1>1. k \in Keys /\ candles \in [Keys -> [Slots -> SoundBars \cup {None}]]
    BY DEF Known, IInv, TypeOK
  <1>2. PICK body \in Bodies : \E frame \in Frames(Within(body, request.window)) :
            LET stored == Ignore(k, Normalized(frame))
            IN  /\ candles' = [candles EXCEPT ![k] = stored]
                /\ changed' = IF \E t \in Slots : Stored(k, t) /\ stored[t] # candles[k][t]
                              THEN changed \cup {[pass |-> 0, symbol |-> request.symbol]} ELSE changed
    BY DEF FetchWindow
  <1>3. PICK frame \in Frames(Within(body, request.window)) :
            /\ candles' = [candles EXCEPT ![k] = Ignore(k, Normalized(frame))]
            /\ changed' = IF \E t \in Slots : Stored(k, t) /\ Ignore(k, Normalized(frame))[t] # candles[k][t]
                          THEN changed \cup {[pass |-> 0, symbol |-> request.symbol]} ELSE changed
    BY <1>2
  <1> DEFINE bars == Normalized(frame)
  <1>4. \A t \in DOMAIN bars : bars[t] \in SoundBars
    BY NormalizedIs
  <1> HIDE DEF bars, k
  <1>5. Ignore(k, bars) \in [Slots -> SoundBars \cup {None}]
    BY <1>1, <1>4 DEF Ignore
  <1>6. \A t \in Slots : Stored(k, t) => Ignore(k, bars)[t] = candles[k][t]
    BY DEF Ignore
  <1>7. candles' = [candles EXCEPT ![k] = Ignore(k, bars)] /\ changed' = changed
    BY <1>3, <1>6 DEF bars
  <1>8. candles' \in [Keys -> [Slots -> SoundBars \cup {None}]]
    BY <1>1, <1>5, <1>7
  <1>9. \A x \in Keys, t \in Slots : Stored(x, t)' => Stored(x, t) \/ x = k
    BY <1>1, <1>7 DEF Stored
  <1> QED
    BY <1>7, <1>8, <1>9 DEF k

LEMMA FetchStep == IInv /\ FetchWindow => IInv'
  <1> SUFFICES ASSUME IInv, FetchWindow PROVE IInv'
    OBVIOUS
  <1> DEFINE request == Head(todo)
             s == request.symbol
             w == request.window
             slots == {<<s, t>> : t \in w.from..w.to}
             new == SetToSeq(slots)
  <1>1. /\ pc = "backfill" /\ pc' = "backfill" /\ todo # <<>> /\ todo' = Tail(todo)
        /\ span' = [span EXCEPT !.asked = span.asked \o new]
        /\ UNCHANGED <<master, history, runs, events, verdicts, rows, results, passes>>
    BY DEF FetchWindow, counts
  <1>2. Known = Symbols
    BY <1>1 DEF IInv, BackfillInv
  <1>3. PICK first \in Slots, last \in Slots :
            /\ span.of = first..last
            /\ todo \in Seq(Requests(first, last)) /\ IsInjective(todo)
            /\ span.asked \in Seq(Symbols \X span.of) /\ IsInjective(span.asked)
            /\ \A x \in Symbols, t \in span.of :
                <<x, t>> \in ToSet(span.asked) <=> ~\E r \in ToSet(todo) : Covers(r, x, t)
    BY <1>1 DEF IInv, BackfillInv
  <1>4. /\ request \in Requests(first, last)
        /\ todo' \in Seq(Requests(first, last)) /\ IsInjective(todo')
        /\ ToSet(todo) = {request} \cup ToSet(todo') /\ request \notin ToSet(todo')
    BY <1>1, <1>3, TailIs
  <1>5. first \in Nat /\ last \in Nat
    BY SlotsAssumption
  <1>6. s \in Symbols /\ w \in DateWindows(first, last) /\ request = [symbol |-> s, window |-> w]
    BY <1>4 DEF Requests
  <1>7. w.from \in Nat /\ w.to \in Nat /\ w.from..w.to \subseteq span.of
    <2>1. w.from \in first..last /\ w.to \in first..last
      BY <1>5, <1>6, WindowsWithin
    <2> QED
      BY <1>3, <1>5, <2>1
  <1>8. \A r \in ToSet(todo') : r \in Requests(first, last)
    BY <1>4 DEF ToSet
  <1>9. /\ candles' \in [Keys -> [Slots -> SoundBars \cup {None}]]
        /\ \A x \in Keys, t \in Slots : Stored(x, t)' => Stored(x, t) \/ x = master[s]
        /\ changed' = changed
    BY <1>2, <1>6, FetchIs
  <1> HIDE DEF request, s, w
  \* Each slot of the window is asked for by this request and no later one.
  <1>10. ASSUME NEW t \in w.from..w.to
         PROVE  ~\E r \in ToSet(todo') : Covers(r, s, t)
    <2> SUFFICES ASSUME NEW r \in ToSet(todo'), Covers(r, s, t) PROVE FALSE
      OBVIOUS
    <2>1. /\ r.window \in DateWindows(first, last) /\ r = [symbol |-> r.symbol, window |-> r.window]
          /\ r.symbol = s /\ r.window.from <= t /\ t <= r.window.to
      BY <1>8 DEF Requests, Covers
    <2>2. t \in Int /\ w.from <= t /\ t <= w.to
      BY <1>7
    <2>3. r.window = w
      BY <1>5, <1>6, <2>1, <2>2, WindowsApart
    <2> QED
      BY <1>4, <1>6, <2>1, <2>3
  <1>11. IsFiniteSet(slots)
    BY <1>7, SlotsOfRequest
  <1>12. new \in Seq(slots) /\ IsInjective(new) /\ ToSet(new) = slots
    BY <1>11, SetToSeqIs
  <1>13. slots \subseteq Symbols \X span.of
    BY <1>6, <1>7
  <1>14. ASSUME NEW x \in Symbols, NEW t \in span.of
         PROVE  <<x, t>> \in slots <=> Covers(request, x, t)
    BY <1>3, <1>5, <1>6, <1>7 DEF Covers
  <1> DEFINE all == Symbols \X span.of
  <1> HIDE DEF new, slots, all
  <1>15. new \in Seq(all)
    <2>1. new \in [1..Len(new) -> slots] /\ Len(new) \in Nat
      BY <1>12
    <2>2. new \in [1..Len(new) -> all]
      BY <1>13, <2>1 DEF all
    <2> QED
      BY <2>1, <2>2
  <1>16. ToSet(span.asked) \cap ToSet(new) = {}
    <2> SUFFICES ASSUME NEW p \in slots, p \in ToSet(span.asked) PROVE FALSE
      BY <1>12
    <2>1. PICK t \in w.from..w.to : p = <<s, t>>
      BY DEF slots
    <2>2. t \in span.of /\ Covers(request, s, t)
      BY <1>6, <1>7, <1>14, <2>1
    <2> QED
      BY <1>3, <1>4, <1>6, <2>1, <2>2
  <1>17. /\ span.asked \o new \in Seq(all) /\ IsInjective(span.asked \o new)
         /\ ToSet(span.asked \o new) = ToSet(span.asked) \cup slots
    <2>1. span.asked \in Seq(all) /\ IsInjective(span.asked)
      BY <1>3 DEF all
    <2> QED
      BY <1>12, <1>15, <1>16, <2>1, ConcatIs
  <1>18. /\ span'.of = span.of /\ span'.asked = span.asked \o new
         /\ span' = [of |-> span'.of, asked |-> span'.asked]
    <2>1. span = [of |-> span.of, asked |-> span.asked]
      BY <1>1 DEF IInv, BackfillInv
    <2> QED
      BY <1>1, <2>1
  <1>19. ASSUME NEW x \in Symbols, NEW t \in span.of
         PROVE  <<x, t>> \in ToSet(span'.asked) <=> ~\E r \in ToSet(todo') : Covers(r, x, t)
    <2>1. CASE <<x, t>> \in slots
      <3>1. PICK u \in w.from..w.to : <<x, t>> = <<s, u>>
        BY <2>1 DEF slots
      <3> QED
        BY <1>10, <1>17, <1>18, <2>1, <3>1
    <2>2. CASE <<x, t>> \notin slots
      <3>1. ~Covers(request, x, t)
        BY <1>14, <2>2
      <3> QED
        BY <1>3, <1>4, <1>17, <1>18, <2>2, <3>1
    <2> QED
      BY <2>1, <2>2
  <1>20. BackfillInv'
    <2>1. Known' = Symbols
      BY <1>1, <1>2 DEF Known
    <2> QED
      BY <1>3, <1>4, <1>17, <1>18, <1>19, <2>1 DEF BackfillInv, all
  <1>21. TypeOK'
    BY <1>1, <1>9 DEF IInv, TypeOK
  <1>22. SyncInv' /\ PassInv'
    BY <1>1 DEF IInv, SyncInv, PassInv
  <1>23. MappingTraceable'
    <2>1. <<s, master[s]>> \in history
      BY <1>2, <1>6 DEF IInv, MappingTraceable, Known
    <2>2. ASSUME NEW k \in Keys, NEW t \in Slots, Stored(k, t)'
          PROVE  \E x \in Symbols : <<x, k>> \in history
      BY <1>6, <1>9, <2>1, <2>2 DEF IInv, MappingTraceable
    <2> QED
      BY <1>1, <2>2 DEF IInv, MappingTraceable
  <1>24. RevisionAudited' /\ PassIsVisible'
    BY <1>1, <1>9 DEF IInv, RevisionAudited, PassIsVisible
  <1> QED
    BY <1>1, <1>9, <1>20, <1>21, <1>22, <1>23, <1>24, AlarmsStay DEF IInv

LEMMA EndStep == IInv /\ (EndBackfill \/ Crash) => IInv'
  <1> SUFFICES ASSUME IInv, EndBackfill \/ Crash PROVE IInv'
    OBVIOUS
  <1>1. /\ pc' = "idle" /\ UNCHANGED <<master, history, candles, runs, events, verdicts, changed, passes>>
        /\ UNCHANGED <<rows, results>> \/ (rows' = <<>> /\ results' = <<>>)
    BY DEF EndBackfill, Crash, tables, ghosts, counts
  <1>2. /\ DOMAIN rows' \cup DOMAIN results' \subseteq Symbols
        /\ \A s \in DOMAIN rows' : rows'[s] \in Keys
    BY <1>1 DEF IInv, TypeOK, SyncInv
  <1>3. TypeOK'
    BY <1>1, <1>2 DEF IInv, TypeOK
  <1>4. SyncInv' /\ PassInv' /\ BackfillInv'
    BY <1>1, <1>2 DEF SyncInv, PassInv, BackfillInv
  <1>5. MappingTraceable' /\ RevisionAudited' /\ PassIsVisible'
    BY <1>1 DEF IInv, MappingTraceable, Stored, RevisionAudited, PassIsVisible
  <1> QED
    BY <1>1, <1>3, <1>4, <1>5, AlarmsStay DEF IInv

LEMMA StutterStep == IInv /\ UNCHANGED vars => IInv'
  <1> SUFFICES ASSUME IInv, UNCHANGED vars PROVE IInv'
    OBVIOUS
  <1>1. UNCHANGED <<master, history, candles, runs, events, verdicts, changed, pc, todo, rows,
                    results, span, jobs, passes, crashes>>
    BY DEF vars, tables, jobState, ghosts, counts
  <1>2. TypeOK' /\ SyncInv'
    BY <1>1 DEF IInv, TypeOK, SyncInv
  <1>3. PassInv'
    BY <1>1 DEF IInv, PassInv, Ingested, Known, RunStatus, Erred, Empty, Reported, Event
  <1>4. BackfillInv'
    BY <1>1 DEF IInv, BackfillInv, Known
  <1>5. MappingTraceable' /\ RevisionAudited' /\ PassIsVisible'
    BY <1>1 DEF IInv, MappingTraceable, Stored, RevisionAudited, PassIsVisible
  <1>6. AlarmInv'
    BY <1>1 DEF IInv, AlarmInv, RevisionsAreReal, Real, Ingested
  <1> QED
    BY <1>1, <1>2, <1>3, <1>4, <1>5, <1>6 DEF IInv

LEMMA AlwaysIInv == Spec => []IInv
  <1>1. IInv /\ [Next]_vars => IInv'
    BY StartSyncStep, ResolveStep, UpsertStep, StartPassStep, IngestStep, RecordRunStep,
       RecordEventStep, JudgeStep, StartBackfillStep, FetchStep, EndStep, StutterStep DEF Next
  <1> QED
    BY InitIInv, <1>1, PTL DEF Spec

-----------------------------------------------------------------------------

\* The tables and the running job keep to their domains.
THEOREM TypeCorrect == Spec => []TypeOK
  <1>1. IInv => TypeOK
    BY DEF IInv
  <1> QED
    BY AlwaysIInv, <1>1, PTL

\* Each key in use, and each under which candles are stored, is in the history,
\* wherever a sync was interrupted (upsert_instruments).
THEOREM AlwaysTraceable == Spec => []MappingTraceable
  <1>1. IInv => MappingTraceable
    BY DEF IInv
  <1> QED
    BY AlwaysIInv, <1>1, PTL

\* No backfill changes a stored bar; a pass that does and is judged has reported it
\* (upsert_candles, insert_candles, _record_data_quality_events).
THEOREM AlwaysAudited == Spec => []RevisionAudited
  <1>1. IInv => RevisionAudited
    BY DEF IInv
  <1> QED
    BY AlwaysIInv, <1>1, PTL

\* No revision is reported where no stored bar changed: an answer that repeats what is
\* stored raises no alarm, however often it is asked for (upsert_candles).
THEOREM NoFalseAlarm == Spec => []RevisionsAreReal
  <1>1. IInv => RevisionsAreReal
    BY DEF IInv, AlarmInv
  <1> QED
    BY AlwaysIInv, <1>1, PTL

\* A judged pass has its row and its events (ingest_symbols).
THEOREM AlwaysVisible == Spec => []PassIsVisible
  <1>1. IInv => PassIsVisible
    BY DEF IInv
  <1> QED
    BY AlwaysIInv, <1>1, PTL

\* The windows of a backfill, of any length, cover its range without overlap, for
\* every symbol (date_windows, backfill).
THEOREM AlwaysCovers == Spec => []BackfillCovers
  <1>1. IInv => BackfillCovers
    <2> SUFFICES ASSUME IInv, pc = "backfill"
                 PROVE  /\ \A m, n \in DOMAIN span.asked : span.asked[m] = span.asked[n] => m = n
                        /\ ToSet(span.asked) \subseteq Symbols \X span.of
                        /\ todo = <<>> => ToSet(span.asked) = Symbols \X span.of
      BY DEF BackfillCovers
    <2> DEFINE all == Symbols \X span.of
    <2>1. /\ span.asked \in Seq(all) /\ IsInjective(span.asked)
          /\ \A s \in Symbols, t \in span.of :
                <<s, t>> \in ToSet(span.asked) <=> ~\E request \in ToSet(todo) : Covers(request, s, t)
      BY DEF IInv, BackfillInv
    <2>2. ToSet(span.asked) \subseteq all
      <3> HIDE DEF all
      <3> QED
        BY <2>1 DEF ToSet
    <2>3. ASSUME todo = <<>> PROVE all \subseteq ToSet(span.asked)
      <3>1. ToSet(todo) = {}
        BY <2>3 DEF ToSet
      <3> QED
        BY <2>1, <3>1
    <2> QED
      BY <2>1, <2>2, <2>3 DEF IsInjective
  <1> QED
    BY AlwaysIInv, <1>1, PTL

=============================================================================
