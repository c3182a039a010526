-------------------------- MODULE WarehouseProofs ---------------------------
(***************************************************************************)
(* For every set of tables, partitions and rows, and any number of killed  *)
(* processes and lost databases: the warehouse implements DurableLedger,   *)
(* so no row it recorded is ever forgotten, and its version stamp is       *)
(* written only over a complete record of the database.                    *)
(***************************************************************************)
EXTENDS Warehouse, TLAPS

\* What Order is, as the proofs use it.
LEMMA OrderFacts ==
    /\ Len(Order) \in Nat \ {0}
    /\ DOMAIN Order = 1..Len(Order)
    /\ \A k \in DOMAIN Order : Order[k] \in Partitions
    /\ \A p \in Partitions : \E k \in DOMAIN Order : Order[k] = p
  <1>1. Order \in Seq(Partitions) /\ Order # <<>>
    BY OrderAssumption
  <1>2. Len(Order) \in Nat \ {0} /\ DOMAIN Order = 1..Len(Order)
    BY <1>1
  <1> QED
    BY <1>2 DEF Partitions

-----------------------------------------------------------------------------
(* Every variable keeps its domain. *)

\* The partition a persist is about to replace and record is one of Order.
AtPartition == pc \in {"rename", "truncate_manifest", "write_manifest"} => n \in DOMAIN Order

LEMMA TypeInvariant == Spec => [](TypeOK /\ AtPartition)
  <1>1. Init => TypeOK /\ AtPartition
    <2> SUFFICES ASSUME Init PROVE TypeOK /\ AtPartition
      OBVIOUS
    <2>1. manifest \in Contents /\ files \in Contents
      BY BoundsAssumption DEF Init, Contents, NoRows
    <2>2. db \in Contents /\ entries \in Contents
      BY DEF Init, Contents, NoRows
    <2>3. n \in 1..(Len(Order) + 1) /\ crashes \in 0..MaxCrashes /\ losses \in 0..MaxLosses
      BY OrderFacts, BoundsAssumption DEF Init
    <2>4. stamp \in {Absent, SchemaVersion} \cup InitialStamps
      BY DEF Init
    <2> QED
      BY <2>1, <2>2, <2>3, <2>4 DEF Init, TypeOK, AtPartition
  <1>2. TypeOK /\ AtPartition /\ [Next]_vars => (TypeOK /\ AtPartition)'
    <2> SUFFICES ASSUME TypeOK, AtPartition, [Next]_vars PROVE (TypeOK /\ AtPartition)'
      OBVIOUS
    <2> USE DEF TypeOK, AtPartition, Contents, directory, database, process
    <2>1. CASE FreshDatabase
      BY <2>1 DEF FreshDatabase
    <2>2. CASE Work
      BY <2>2 DEF Work
    <2>3. CASE LoseDatabase
      BY <2>3, BoundsAssumption DEF LoseDatabase, NoRows
    <2>4. CASE Crash
      BY <2>4, BoundsAssumption, OrderFacts DEF Crash, NoRows
    <2>5. CASE BeginPersist
      BY <2>5, OrderFacts DEF BeginPersist
    <2>6. CASE ExportPartition
      BY <2>6, OrderFacts DEF ExportPartition
    <2>7. CASE RenameIntoPlace
      BY <2>7 DEF RenameIntoPlace
    <2>8. CASE TruncateManifest
      BY <2>8 DEF TruncateManifest
    <2>9. CASE WriteManifest
      BY <2>9, OrderFacts DEF WriteManifest
    <2>10. CASE TruncateStamp
      BY <2>10 DEF TruncateStamp
    <2>11. CASE WriteStamp
      BY <2>11, OrderFacts DEF WriteStamp, NoRows
    <2>12. CASE BeginRestore
      <3>1. losses' \in 0..MaxLosses
        BY <2>12, BoundsAssumption DEF BeginRestore
      <3> QED
        BY <2>12, <3>1, OrderFacts DEF BeginRestore, NoRows
    <2>13. CASE LoadTable
      <3>1. PICK last \in TableAt(n) :
                /\ db' = [p \in Partitions |->
                            IF TableOf[p] = TableOf[Order[n]] /\ manifest[p] # {}
                            THEN files[p] ELSE db[p]]
                /\ IF last = Len(Order)
                   THEN dbState' = "whole" /\ pc' = "idle" /\ n' = 1
                   ELSE n' = last + 1 /\ UNCHANGED <<dbState, pc>>
        BY <2>13 DEF LoadTable
      <3>2. last \in 1..Len(Order)
        BY OrderFacts DEF TableAt
      <3>3. db' \in Contents
        BY <3>1
      <3>4. n' \in 1..(Len(Order) + 1)
        <4>1. n' = 1 \/ (n' = last + 1 /\ last # Len(Order))
          BY <3>1, Zenon
        <4>2. Len(Order) \in Nat
          BY OrderFacts
        <4>3. ASSUME NEW N \in Nat, NEW m \in 1..N, NEW next,
                     next = 1 \/ (next = m + 1 /\ m # N)
              PROVE  next \in 1..(N + 1)
          BY <4>3
        <4> QED
          BY <3>2, <4>1, <4>2, <4>3
      <3> QED
        BY <2>13, <3>1, <3>3, <3>4 DEF LoadTable
    <2>14. CASE UNCHANGED vars
      BY <2>14 DEF vars
    <2> QED
      BY <2>1, <2>2, <2>3, <2>4, <2>5, <2>6, <2>7, <2>8, <2>9, <2>10, <2>11, <2>12, <2>13,
         <2>14 DEF Next, Persist, Restore
  <1> QED
    BY <1>1, <1>2, PTL DEF Spec

\* Every operation of persist, restore and the environment leaves every
\* variable in its domain, so no stamp is written but the schema version.
THEOREM TypeCorrect == Spec => []TypeOK
  BY TypeInvariant, PTL

-----------------------------------------------------------------------------
(* A running persist. *)

Persisting == {"export", "rename", "truncate_manifest", "write_manifest", "write_stamp"}

\* While it runs the database stands still, the manifest dict in memory differs
\* from the manifest on disk at most in the partition just renamed, and every
\* partition it is past is recorded as it is.
PersistInv ==
    pc \in Persisting =>
        /\ pc \in {"export", "rename", "write_stamp"} => entries = manifest
        /\ pc \in {"truncate_manifest", "write_manifest"} =>
                entries = [manifest EXCEPT ![Order[n]] = db[Order[n]]]
        /\ pc \in {"rename", "truncate_manifest", "write_manifest"} => db[Order[n]] # {}
        /\ pc = "write_stamp" => n = Len(Order) + 1
        /\ \A k \in 1..(n - 1) : db[Order[k]] # {} => entries[Order[k]] = db[Order[k]]

LEMMA PersistStep ==
    TypeOK /\ AtPartition /\ PersistInv /\ [Next]_vars => PersistInv'
  <1> SUFFICES ASSUME TypeOK, AtPartition, PersistInv, [Next]_vars PROVE PersistInv'
    OBVIOUS
  <1> USE DEF directory, database, process
  <1>0. n \in Nat \ {0} /\ Len(Order) \in Nat
    BY OrderFacts DEF TypeOK
  <1>1. CASE FreshDatabase
    BY <1>1 DEF FreshDatabase, PersistInv, Persisting
  <1>2. CASE Work
    BY <1>2 DEF Work, PersistInv, Persisting
  <1>3. CASE LoseDatabase
    BY <1>3 DEF LoseDatabase, PersistInv, Persisting
  <1>4. CASE Crash
    BY <1>4 DEF Crash, PersistInv, Persisting
  <1>5. CASE BeginPersist
    BY <1>5 DEF BeginPersist, PersistInv, Persisting
  <1>6. CASE ExportPartition
    <2>1. entries = manifest /\ n \in 1..Len(Order)
      BY <1>0, <1>6 DEF ExportPartition, PersistInv, Persisting
    <2>2. CASE db[Order[n]] = {} \/ Unchanged(Order[n])
      <3>1. pc' = "export" /\ n' = n + 1 /\ UNCHANGED <<entries, manifest, db>>
        BY <1>6, <2>2 DEF ExportPartition
      <3>2. \A k \in 1..n : db[Order[k]] # {} => entries[Order[k]] = db[Order[k]]
        <4> SUFFICES ASSUME NEW k \in 1..n, db[Order[k]] # {}
                     PROVE  entries[Order[k]] = db[Order[k]]
          OBVIOUS
        <4>1. CASE k = n
          BY <2>2, <4>1 DEF Unchanged
        <4>2. CASE k # n
          <5>1. k \in 1..(n - 1)
            BY <1>0, <4>2
          <5> QED
            BY <1>6, <5>1 DEF ExportPartition, PersistInv, Persisting
        <4> QED
          BY <4>1, <4>2
      <3>3. n' - 1 = n
        BY <1>0, <3>1
      <3> QED
        BY <2>1, <3>1, <3>2, <3>3 DEF PersistInv, Persisting
    <2>3. CASE ~(db[Order[n]] = {} \/ Unchanged(Order[n]))
      <3>1. pc' = "rename" /\ UNCHANGED <<n, entries, manifest, db>>
        BY <1>6, <2>3 DEF ExportPartition
      <3>2. \A k \in 1..(n - 1) : db[Order[k]] # {} => entries[Order[k]] = db[Order[k]]
        BY <1>6 DEF ExportPartition, PersistInv, Persisting
      <3> QED
        BY <2>1, <2>3, <3>1, <3>2 DEF PersistInv, Persisting
    <2> QED
      BY <2>2, <2>3
  <1>7. CASE RenameIntoPlace
    <2>1. /\ entries = manifest /\ db[Order[n]] # {}
          /\ \A k \in 1..(n - 1) : db[Order[k]] # {} => entries[Order[k]] = db[Order[k]]
      BY <1>7 DEF RenameIntoPlace, PersistInv, Persisting
    <2>2. /\ entries' = [manifest EXCEPT ![Order[n]] = db[Order[n]]]
          /\ pc' = "truncate_manifest"
          /\ UNCHANGED <<n, manifest, db>>
      BY <1>7, <2>1 DEF RenameIntoPlace
    <2>3. \A k \in 1..(n - 1) : Order[k] \in Partitions
      BY <1>0, <1>7, OrderFacts DEF RenameIntoPlace, AtPartition
    <2>4. \A k \in 1..(n - 1) : db[Order[k]] # {} => entries'[Order[k]] = db[Order[k]]
      BY <2>1, <2>2, <2>3 DEF TypeOK, Contents
    <2> QED
      BY <2>1, <2>2, <2>4 DEF PersistInv, Persisting
  <1>8. CASE TruncateManifest
    BY <1>8 DEF TruncateManifest, PersistInv, Persisting
  <1>9. CASE WriteManifest
    <2>1. /\ entries = [manifest EXCEPT ![Order[n]] = db[Order[n]]]
          /\ \A k \in 1..(n - 1) : db[Order[k]] # {} => entries[Order[k]] = db[Order[k]]
      BY <1>9 DEF WriteManifest, PersistInv, Persisting
    <2>2. /\ manifest' = entries /\ pc' = "export" /\ n' = n + 1
          /\ UNCHANGED <<entries, db>>
      BY <1>9 DEF WriteManifest
    <2>3. Order[n] \in Partitions
      BY <1>9, OrderFacts DEF WriteManifest, AtPartition
    <2>4. entries[Order[n]] = db[Order[n]]
      BY <2>1, <2>3 DEF TypeOK, Contents
    <2>5. \A k \in 1..n : k = n \/ k \in 1..(n - 1)
      BY <1>0
    <2>6. n' - 1 = n
      BY <1>0, <2>2
    <2>7. \A k \in 1..n : db[Order[k]] # {} => entries[Order[k]] = db[Order[k]]
      BY <2>1, <2>4, <2>5
    <2> QED
      BY <2>1, <2>2, <2>6, <2>7 DEF PersistInv, Persisting
  <1>10. CASE TruncateStamp
    BY <1>10 DEF TruncateStamp, PersistInv, Persisting
  <1>11. CASE WriteStamp
    BY <1>11 DEF WriteStamp, PersistInv, Persisting
  <1>12. CASE BeginRestore
    BY <1>12 DEF BeginRestore, PersistInv, Persisting
  <1>13. CASE LoadTable
    BY <1>13 DEF LoadTable, PersistInv, Persisting
  <1>14. CASE UNCHANGED vars
    BY <1>14 DEF vars, PersistInv, Persisting
  <1> QED
    BY <1>1, <1>2, <1>3, <1>4, <1>5, <1>6, <1>7, <1>8, <1>9, <1>10, <1>11, <1>12, <1>13,
       <1>14 DEF Next, Persist, Restore

LEMMA PersistInvariant == Spec => []PersistInv
  <1>1. Init => PersistInv
    BY DEF Init, PersistInv, Persisting
  <1> QED
    BY <1>1, PersistStep, TypeInvariant, PTL DEF Spec

\* Whenever the version stamp is written, every partition of the database is
\* recorded in the manifest as it is: an interrupted persist never restamps.
THEOREM StampedLast == Spec => StampOnlyWhenComplete
  <1>1. TypeOK /\ PersistInv /\ [Next]_vars => [StampedComplete]_vars
    <2> SUFFICES ASSUME TypeOK, PersistInv, Next,
                        "stamp" \in torn, "stamp" \notin torn',
                        NEW p \in Partitions, db[p] # {}
                 PROVE  manifest[p] = db[p]
      BY DEF StampedComplete, vars
    <2>1. WriteStamp
      BY DEF Next, FreshDatabase, Work, LoseDatabase, Crash, Persist, BeginPersist,
             ExportPartition, RenameIntoPlace, TruncateManifest, WriteManifest,
             TruncateStamp, Restore, BeginRestore, LoadTable, directory
    <2>2. /\ n = Len(Order) + 1
          /\ entries = manifest
          /\ \A k \in 1..(n - 1) : db[Order[k]] # {} => entries[Order[k]] = db[Order[k]]
      BY <2>1 DEF WriteStamp, PersistInv, Persisting
    <2>3. PICK k \in DOMAIN Order : Order[k] = p
      BY OrderFacts
    <2>4. k \in 1..(n - 1)
      BY <2>2, OrderFacts
    <2> QED
      BY <2>2, <2>3, <2>4
  <1> QED
    BY <1>1, PersistInvariant, TypeCorrect, PTL DEF Spec, StampOnlyWhenComplete

-----------------------------------------------------------------------------
(* What killed processes leave behind. *)

\* The partition that is in place and not recorded yet.
InFlight == IF pc \in {"truncate_manifest", "write_manifest"} THEN {Order[n]} ELSE {}

\* The other damaged partitions are those killed processes had in flight, at most
\* one for each; the file in flight is what the manifest is about to say.
Blamed(f, damaged) == damaged \subseteq {f[k] : k \in 1..crashes}
DamageInv ==
    /\ pc \in {"truncate_manifest", "write_manifest"} => files[Order[n]] = db[Order[n]]
    /\ \E f \in [1..crashes -> Partitions] : Blamed(f, Mismatched \ InFlight)

\* A process that is killed gets the partition it had in flight.
LEMMA DamageAtCrash ==
    ASSUME TypeOK, AtPartition, DamageInv, Crash
    PROVE  DamageInv'
  <1> USE DEF directory, database, process
  <1>1. PICK f \in [1..crashes -> Partitions] : Blamed(f, Mismatched \ InFlight)
    BY DEF DamageInv
  <1>2. crashes \in Nat /\ crashes' = crashes + 1 /\ pc' = "idle" /\ Mismatched' = Mismatched
    BY BoundsAssumption DEF TypeOK, Crash, Mismatched
  <1>3. \E p \in Partitions : InFlight \subseteq {p}
    <2>0. 1 \in DOMAIN Order
      BY OrderFacts
    <2>1. CASE pc \in {"truncate_manifest", "write_manifest"}
      BY <2>1, OrderFacts DEF AtPartition, InFlight
    <2>2. CASE pc \notin {"truncate_manifest", "write_manifest"}
      BY <2>0, <2>2, OrderFacts DEF InFlight
    <2> QED
      BY <2>1, <2>2
  <1>4. PICK p \in Partitions : InFlight \subseteq {p}
    BY <1>3
  <1> DEFINE g == [k \in 1..(crashes + 1) |-> IF k \in 1..crashes THEN f[k] ELSE p]
  <1>5. g \in [1..(crashes + 1) -> Partitions]
    BY <1>1, <1>4
  <1>6. ASSUME NEW q \in Mismatched
        PROVE  \E k \in 1..(crashes + 1) : g[k] = q
    <2>1. CASE q \in InFlight
      <3>1. crashes + 1 \in 1..(crashes + 1) /\ crashes + 1 \notin 1..crashes
        BY <1>2
      <3> QED
        BY <1>4, <2>1, <3>1
    <2>2. CASE q \notin InFlight
      <3>1. PICK k \in 1..crashes : f[k] = q
        BY <1>1, <2>2 DEF Blamed
      <3>2. k \in 1..(crashes + 1)
        BY <1>2
      <3> QED
        BY <3>1, <3>2
    <2> QED
      BY <2>1, <2>2
  <1>7. InFlight' = {}
    BY <1>2 DEF InFlight
  <1>8. Mismatched' \ InFlight' \subseteq {g[k] : k \in 1..crashes'}
    <2> HIDE DEF g
    <2> QED
      BY <1>2, <1>6, <1>7
  <1>9. g \in [1..crashes' -> Partitions]
    BY <1>2, <1>5
  <1>10. \E h \in [1..crashes' -> Partitions] : Mismatched' \ InFlight' \subseteq {h[k] : k \in 1..crashes'}
    <2> HIDE DEF g
    <2> QED
      BY <1>8, <1>9
  <1> QED
    BY <1>2, <1>10 DEF DamageInv, Blamed

LEMMA DamageStep ==
    TypeOK /\ AtPartition /\ PersistInv /\ DamageInv /\ [Next]_vars => DamageInv'
  <1> SUFFICES ASSUME TypeOK, AtPartition, PersistInv, DamageInv, [Next]_vars
               PROVE  DamageInv'
    OBVIOUS
  <1> USE DEF directory, database, process
  <1>1. PICK f \in [1..crashes -> Partitions] : Blamed(f, Mismatched \ InFlight)
    BY DEF DamageInv
  \* A step that neither kills nor adds damage leaves the blame where it is.
  <1>2. ASSUME UNCHANGED crashes, (Mismatched \ InFlight)' \subseteq Mismatched \ InFlight,
               (pc \in {"truncate_manifest", "write_manifest"} => files[Order[n]] = db[Order[n]])'
        PROVE  DamageInv'
    BY <1>1, <1>2 DEF DamageInv, Blamed
  <1>3. CASE Crash
    BY <1>3, DamageAtCrash
  <1>4. CASE RenameIntoPlace
    <2>1. Order[n] \in Partitions
      BY <1>4, OrderFacts DEF RenameIntoPlace, AtPartition
    <2>2. /\ files' = [files EXCEPT ![Order[n]] = db[Order[n]]]
          /\ UNCHANGED <<manifest, n, db, crashes>> /\ pc = "rename" /\ pc' = "truncate_manifest"
      BY <1>4 DEF RenameIntoPlace
    <2>3. (Mismatched \ InFlight)' \subseteq Mismatched \ InFlight
      BY <2>1, <2>2 DEF Mismatched, InFlight, TypeOK, Contents
    <2>4. files'[Order[n]] = db[Order[n]]
      BY <2>1, <2>2 DEF TypeOK, Contents
    <2> QED
      BY <1>2, <2>2, <2>3, <2>4
  <1>5. CASE TruncateManifest
    <2>1. /\ pc = "truncate_manifest" /\ pc' = "write_manifest"
          /\ UNCHANGED <<files, manifest, n, db, crashes>>
      BY <1>5 DEF TruncateManifest
    <2>2. files[Order[n]] = db[Order[n]]
      BY <2>1 DEF DamageInv
    <2> QED
      BY <1>2, <2>1, <2>2 DEF Mismatched, InFlight
  <1>6. CASE WriteManifest
    <2>1. Order[n] \in Partitions
      BY <1>6, OrderFacts DEF WriteManifest, AtPartition
    <2>2. /\ manifest' = [manifest EXCEPT ![Order[n]] = db[Order[n]]]
          /\ files[Order[n]] = db[Order[n]]
          /\ pc = "write_manifest" /\ pc' = "export" /\ UNCHANGED <<files, db, crashes>>
      BY <1>6 DEF WriteManifest, PersistInv, Persisting, DamageInv
    <2>3. (Mismatched \ InFlight)' \subseteq Mismatched \ InFlight
      BY <2>1, <2>2 DEF Mismatched, InFlight, TypeOK, Contents
    <2> QED
      BY <1>2, <2>2, <2>3
  <1>7. CASE /\ pc \notin {"truncate_manifest", "write_manifest"}
             /\ pc' \notin {"truncate_manifest", "write_manifest"}
             /\ UNCHANGED <<files, manifest, crashes>>
    BY <1>2, <1>7 DEF Mismatched, InFlight
  <1>8. CASE UNCHANGED vars
    BY <1>2, <1>8 DEF vars, Mismatched, InFlight, DamageInv
  <1> QED
    BY <1>3, <1>4, <1>5, <1>6, <1>7, <1>8
    DEF Next, FreshDatabase, Work, LoseDatabase, Persist, BeginPersist, ExportPartition,
        TruncateStamp, WriteStamp, Restore, BeginRestore, LoadTable

\* However often persists are killed, each leaves at most one partition file that
\* its manifest entry does not describe. (the manifest is saved after every partition)
THEOREM DamageIsConfined == Spec => []DamageConfined
  <1>1. Init => DamageInv
    <2> SUFFICES ASSUME Init PROVE DamageInv
      OBVIOUS
    <2> DEFINE none == [k \in 1..0 |-> Order[1]]
    <2>1. crashes = 0 /\ Mismatched = {} /\ pc = "idle"
      BY DEF Init, Mismatched
    <2>2. none \in [1..0 -> Partitions]
      OBVIOUS
    <2> QED
      BY <2>1, <2>2 DEF DamageInv, Blamed, InFlight
  <1>2. DamageInv => DamageConfined
    BY DEF DamageInv, Blamed, DamageConfined, InFlight
  <1> QED
    BY <1>1, <1>2, DamageStep, TypeInvariant, PersistInvariant, PTL DEF Spec

-----------------------------------------------------------------------------
(* A running restore. *)

\* While it runs the verified directory stands still, and the tables it is past
\* are loaded, all of them and as recorded, while the others are still empty.
LoadInv ==
    /\ dbState = "missing" => db = NoRows /\ begun = {}
    /\ pc = "load" =>
        /\ dbState = "partial" /\ begun = {}
        /\ Verified
        /\ n <= Len(Order) \/ Len(Order) = 0
        /\ \A k \in 1..(n - 1) : db[Order[k]] = manifest[Order[k]]
        /\ \A k \in n..Len(Order) : db[Order[k]] = {}
        /\ \A j \in 1..(n - 1), k \in n..Len(Order) :
                TableOf[Order[j]] # TableOf[Order[k]]

\* A loaded table moves n past exactly its own partitions.
LEMMA TableLoaded ==
    ASSUME TypeOK, LoadInv, LoadTable
    PROVE  \E last \in n..Len(Order) :
            /\ \A k \in 1..last : db'[Order[k]] = manifest[Order[k]]
            /\ \A k \in (last + 1)..Len(Order) : db'[Order[k]] = {}
            /\ \A j \in 1..last, k \in (last + 1)..Len(Order) :
                    TableOf[Order[j]] # TableOf[Order[k]]
            /\ \A k \in 1..Len(Order) :
                    db'[Order[k]] = db[Order[k]] \/ db[Order[k]] = {}
            /\ \/ /\ last = Len(Order)
                  /\ dbState' = "whole" /\ pc' = "idle" /\ n' = 1
               \/ /\ last # Len(Order)
                  /\ n' = last + 1 /\ UNCHANGED <<dbState, pc>>
  <1>0. n \in Nat \ {0} /\ Len(Order) \in Nat
    BY OrderFacts DEF TypeOK
  <1>1. PICK last \in TableAt(n) :
            /\ \A k \in TableAt(n) : k <= last
            /\ db' = [p \in Partitions |->
                        IF TableOf[p] = TableOf[Order[n]] /\ manifest[p] # {}
                        THEN files[p] ELSE db[p]]
            /\ IF last = Len(Order)
               THEN dbState' = "whole" /\ pc' = "idle" /\ n' = 1
               ELSE n' = last + 1 /\ UNCHANGED <<dbState, pc>>
    BY DEF LoadTable
  <1>2. last \in 1..Len(Order) /\ TableOf[Order[last]] = TableOf[Order[n]]
    BY OrderFacts DEF TableAt
  <1>3. /\ Verified
        /\ \A k \in 1..(n - 1) : db[Order[k]] = manifest[Order[k]]
        /\ \A k \in n..Len(Order) : db[Order[k]] = {}
        /\ \A j \in 1..(n - 1), k \in n..Len(Order) :
                TableOf[Order[j]] # TableOf[Order[k]]
    BY DEF LoadTable, LoadInv
  <1>4. n \in 1..Len(Order) /\ last \in n..Len(Order)
    <2>1. n <= Len(Order)
      BY <1>0, <1>2 DEF LoadTable, LoadInv
    <2>2. n \in TableAt(n)
      BY <1>0, <2>1, OrderFacts DEF TableAt
    <2> QED
      BY <1>0, <1>1, <1>2, <2>1, <2>2
  <1>5. \A k \in n..last : TableOf[Order[k]] = TableOf[Order[n]]
    BY <1>0, <1>2, <1>4, OrderFacts, OrderAssumption
  <1>6. \A k \in (last + 1)..Len(Order) : TableOf[Order[k]] # TableOf[Order[n]]
    BY <1>0, <1>1, <1>2, OrderFacts DEF TableAt
  <1>7. ASSUME NEW k \in 1..last
        PROVE  db'[Order[k]] = manifest[Order[k]]
    <2>0. Order[k] \in Partitions
      BY <1>4, OrderFacts
    <2>1. CASE k < n
      <3>1. TableOf[Order[k]] # TableOf[Order[n]] /\ db[Order[k]] = manifest[Order[k]]
        BY <1>0, <1>3, <1>4, <2>1
      <3> QED
        BY <1>1, <2>0, <3>1
    <2>2. CASE ~(k < n)
      <3>0. k \in n..last /\ k \in n..Len(Order)
        BY <1>0, <1>4, <2>2
      <3>1. TableOf[Order[k]] = TableOf[Order[n]] /\ db[Order[k]] = {}
        BY <1>3, <1>5, <3>0
      <3>2. manifest[Order[k]] # {} => files[Order[k]] = manifest[Order[k]]
        BY <1>3, <2>0 DEF Verified
      <3> QED
        BY <1>1, <2>0, <3>1, <3>2
    <2> QED
      BY <2>1, <2>2
  <1>8. ASSUME NEW k \in (last + 1)..Len(Order)
        PROVE  db'[Order[k]] = {}
    <2>1. Order[k] \in Partitions /\ db[Order[k]] = {}
      BY <1>0, <1>3, <1>4, OrderFacts
    <2> QED
      BY <1>1, <1>6, <2>1
  <1>9. ASSUME NEW j \in 1..last, NEW k \in (last + 1)..Len(Order)
        PROVE  TableOf[Order[j]] # TableOf[Order[k]]
    <2>1. CASE j < n
      BY <1>0, <1>3, <1>4, <2>1
    <2>2. CASE ~(j < n)
      BY <1>0, <1>4, <1>5, <1>6, <2>2
    <2> QED
      BY <2>1, <2>2
  <1>10. \/ /\ last = Len(Order)
            /\ dbState' = "whole" /\ pc' = "idle" /\ n' = 1
         \/ /\ last # Len(Order)
            /\ n' = last + 1 /\ UNCHANGED <<dbState, pc>>
    BY <1>1, Zenon
  <1>11. ASSUME NEW k \in 1..Len(Order)
         PROVE  db'[Order[k]] = db[Order[k]] \/ db[Order[k]] = {}
    <2>1. CASE k < n
      <3>1. k \in 1..last
        BY <1>0, <1>4, <2>1
      <3> QED
        BY <1>0, <1>3, <1>7, <2>1, <3>1
    <2>2. CASE ~(k < n)
      BY <1>0, <1>3, <2>2
    <2> QED
      BY <2>1, <2>2
  <1> QED
    BY <1>4, <1>7, <1>8, <1>9, <1>10, <1>11

LEMMA LoadStep == TypeOK /\ LoadInv /\ [Next]_vars => LoadInv'
  <1> SUFFICES ASSUME TypeOK, LoadInv, [Next]_vars PROVE LoadInv'
    OBVIOUS
  <1> USE DEF directory, database, process
  <1>0. n \in Nat \ {0} /\ Len(Order) \in Nat
    BY OrderFacts DEF TypeOK
  <1>1. CASE FreshDatabase
    BY <1>1 DEF FreshDatabase, LoadInv
  <1>2. CASE Work
    BY <1>2 DEF Work, LoadInv
  <1>3. CASE LoseDatabase
    BY <1>3 DEF LoseDatabase, LoadInv
  <1>4. CASE Crash
    BY <1>4 DEF Crash, LoadInv
  <1>6. CASE pc # "load" /\ pc' # "load" /\ UNCHANGED <<db, dbState>> /\ begun' \subseteq begun
    BY <1>6 DEF LoadInv
  <1>7. CASE Persist
    <2>1. pc # "load" /\ pc' # "load" /\ UNCHANGED <<db, dbState>> /\ begun' \subseteq begun
      BY <1>7 DEF Persist, BeginPersist, ExportPartition, RenameIntoPlace, TruncateManifest,
                  WriteManifest, TruncateStamp, WriteStamp
    <2> QED
      BY <1>6, <2>1
  <1>8. CASE BeginRestore
    <2>1. /\ n' = 1 /\ pc' = "load" /\ dbState' = "partial" /\ db' = NoRows
          /\ begun' = {} /\ Verified /\ UNCHANGED <<files, manifest>>
      BY <1>8 DEF BeginRestore, Restorable
    <2>2. \A k \in 1..Len(Order) : NoRows[Order[k]] = {}
      BY OrderFacts DEF NoRows
    <2>3. 1..(1 - 1) = {} /\ (1 <= Len(Order) \/ Len(Order) = 0)
      BY <1>0
    <2> QED
      BY <2>1, <2>2, <2>3 DEF LoadInv, Verified
  <1>9. CASE LoadTable
    <2>1. PICK last \in n..Len(Order) :
            /\ \A k \in 1..last : db'[Order[k]] = manifest[Order[k]]
            /\ \A k \in (last + 1)..Len(Order) : db'[Order[k]] = {}
            /\ \A j \in 1..last, k \in (last + 1)..Len(Order) :
                    TableOf[Order[j]] # TableOf[Order[k]]
            /\ \/ /\ last = Len(Order)
                  /\ dbState' = "whole" /\ pc' = "idle" /\ n' = 1
               \/ /\ last # Len(Order)
                  /\ n' = last + 1 /\ UNCHANGED <<dbState, pc>>
      BY <1>9, TableLoaded
    <2>2. /\ pc = "load" /\ dbState = "partial" /\ Verified
          /\ begun = {} /\ UNCHANGED <<files, manifest, begun>>
      BY <1>9 DEF LoadTable, LoadInv
    <2>3. CASE last = Len(Order)
      BY <2>1, <2>3 DEF LoadInv
    <2>4. CASE last # Len(Order)
      <3>1. n' = last + 1 /\ dbState' = "partial"
        BY <2>1, <2>2, <2>4
      <3>2. n' - 1 = last /\ n' <= Len(Order)
        BY <1>0, <2>4, <3>1
      <3>3. Verified'
        BY <2>2 DEF Verified
      <3> QED
        BY <2>1, <2>2, <3>1, <3>2, <3>3 DEF LoadInv
    <2> QED
      BY <2>3, <2>4
  <1>10. CASE UNCHANGED vars
    BY <1>10 DEF vars, LoadInv, Verified
  <1> QED
    BY <1>1, <1>2, <1>3, <1>4, <1>7, <1>8, <1>9, <1>10 DEF Next, Restore

LEMMA LoadInvariant == Spec => []LoadInv
  <1>1. Init => LoadInv
    BY DEF Init, LoadInv
  <1> QED
    BY <1>1, LoadStep, TypeCorrect, PTL DEF Spec

-----------------------------------------------------------------------------

\* The warehouse implements the ledger: writing the manifest is a commit, the
\* load of a table a load, a restore that begins loses the database that was there,
\* and everything else, every kill and every refused restore included, is invisible.
THEOREM WarehouseIsLedger == Spec => ImplementsLedger
  <1>1. Init => Ledger!Init
    BY BoundsAssumption DEF Init, Ledger!Init, Ledger!NoRows, NoRows
  <1>2. TypeOK /\ AtPartition /\ PersistInv /\ LoadInv /\ [Next]_vars => [Ledger!Next]_(Ledger!vars)
    <2> SUFFICES ASSUME TypeOK, AtPartition, PersistInv, LoadInv, [Next]_vars
                 PROVE  Ledger!Next \/ UNCHANGED Ledger!vars
      OBVIOUS
    <2> USE DEF directory, database, process
    <2>1. CASE FreshDatabase
      <3>1. /\ dbState = "missing" /\ manifest = NoRows
            /\ UNCHANGED <<manifest, db, begun>>
        BY <2>1 DEF FreshDatabase
      <3>2. db = NoRows /\ begun = {} /\ dbState # "whole"
        BY <3>1 DEF LoadInv
      <3>3. db' = [p \in Partitions |-> IF p \in {} THEN manifest[p] ELSE db[p]]
        BY <3>1, <3>2 DEF NoRows
      <3>4. Ledger!Load
        BY <3>1, <3>2, <3>3 DEF Ledger!Load
      <3> QED
        BY <3>4 DEF Ledger!Next
    <2>2. CASE Work
      <3>1. Ledger!Work
        BY <2>2 DEF Work, Ledger!Work
      <3> QED
        BY <3>1 DEF Ledger!Next
    <2>3. CASE LoseDatabase \/ BeginRestore
      <3>1. Ledger!Lose
        BY <2>3 DEF LoseDatabase, BeginRestore, Ledger!Lose, Ledger!NoRows, NoRows
      <3> QED
        BY <3>1 DEF Ledger!Next
    <2>4. CASE WriteManifest
      <3>1. /\ UNCHANGED <<db, dbState>> /\ begun' = begun \ {Order[n]}
            /\ manifest' = [manifest EXCEPT ![Order[n]] = db[Order[n]]]
        BY <2>4 DEF WriteManifest, PersistInv, Persisting
      <3>2. Order[n] \in Partitions /\ db[Order[n]] # {}
        BY <2>4, OrderFacts DEF WriteManifest, AtPartition, PersistInv, Persisting
      <3>3. Ledger!Commit
        BY <3>1, <3>2 DEF Ledger!Commit
      <3> QED
        BY <3>3 DEF Ledger!Next
    <2>5. CASE LoadTable
      <3>1. PICK last \in n..Len(Order) :
              /\ \A k \in 1..last : db'[Order[k]] = manifest[Order[k]]
              /\ \A k \in (last + 1)..Len(Order) : db'[Order[k]] = {}
              /\ \A k \in 1..Len(Order) :
                      db'[Order[k]] = db[Order[k]] \/ db[Order[k]] = {}
              /\ \/ /\ last = Len(Order)
                    /\ dbState' = "whole" /\ pc' = "idle" /\ n' = 1
                 \/ /\ last # Len(Order)
                    /\ n' = last + 1 /\ UNCHANGED <<dbState, pc>>
        BY <2>5, TableLoaded
      <3>2. /\ dbState = "partial" /\ begun = {}
            /\ UNCHANGED <<manifest, begun>>
        BY <2>5 DEF LoadTable, LoadInv
      <3>3. db' \in Contents /\ db \in Contents /\ manifest \in Contents
        BY <2>5 DEF LoadTable, TypeOK, Contents
      <3> DEFINE S == {p \in Partitions : db[p] = {} /\ db'[p] = manifest[p]}
      <3>4. ASSUME NEW p \in Partitions
            PROVE  db'[p] = IF p \in S THEN manifest[p] ELSE db[p]
        <4>1. PICK k \in 1..Len(Order) : Order[k] = p
          BY OrderFacts
        <4>2. db'[p] = manifest[p] \/ db'[p] = {}
          <5>1. Len(Order) \in Nat /\ last \in Nat
            BY OrderFacts DEF TypeOK
          <5>2. k \in 1..last \/ k \in (last + 1)..Len(Order)
            BY <5>1
          <5> QED
            BY <3>1, <4>1, <5>2
        <4>3. db'[p] = db[p] \/ db[p] = {}
          BY <3>1, <4>1
        <4> QED
          BY <4>2, <4>3
      <3>5. db' = [p \in Partitions |-> IF p \in S THEN manifest[p] ELSE db[p]]
        BY <3>3, <3>4 DEF Contents
      <3>6. (dbState' = "whole") => db' = manifest
        <4>1. dbState' = "whole" => last = Len(Order)
          BY <3>1, <3>2
        <4>2. last = Len(Order) => \A p \in Partitions : db'[p] = manifest[p]
          BY <3>1, OrderFacts
        <4> QED
          BY <3>3, <4>1, <4>2 DEF Contents
      <3>7. S \in SUBSET {p \in Partitions : db[p] = {}}
        OBVIOUS
      <3>8. Ledger!Load
        <4> HIDE DEF S
        <4> QED
          BY <3>2, <3>5, <3>6, <3>7 DEF Ledger!Load
      <3> QED
        BY <3>8 DEF Ledger!Next
    <2>6. CASE \/ Crash \/ BeginPersist \/ ExportPartition \/ RenameIntoPlace
               \/ TruncateManifest \/ TruncateStamp \/ WriteStamp
      <3>1. UNCHANGED <<manifest, db, dbState, begun>>
        BY <2>6 DEF Crash, BeginPersist, ExportPartition, RenameIntoPlace, TruncateManifest,
                    TruncateStamp, WriteStamp
      <3> QED
        BY <3>1 DEF Ledger!vars
    <2>7. CASE UNCHANGED vars
      BY <2>7 DEF vars, Ledger!vars
    <2> QED
      BY <2>1, <2>2, <2>3, <2>4, <2>5, <2>6, <2>7 DEF Next, Persist, Restore
  <1> QED
    BY <1>1, <1>2, TypeInvariant, PersistInvariant, LoadInvariant, PTL
    DEF Spec, ImplementsLedger, Ledger!Spec

-----------------------------------------------------------------------------
(* What the ledger promises, with the warehouse in its place. *)

LedgerInv == Ledger!TypeOK /\ Ledger!LedgerWithinDatabase

\* Commits only copy the database, partitions come back as recorded, and work on an
\* absent one marks it, so an unmarked partition never lacks a durable row.
LEMMA LedgerInvariant == Ledger!Spec => []LedgerInv
  <1>1. Ledger!Init => LedgerInv
    BY DEF Ledger!Init, LedgerInv, Ledger!TypeOK, Ledger!LedgerWithinDatabase, Ledger!NoRows
  <1>2. LedgerInv /\ [Ledger!Next]_(Ledger!vars) => LedgerInv'
    <2> SUFFICES ASSUME LedgerInv, [Ledger!Next]_(Ledger!vars) PROVE LedgerInv'
      OBVIOUS
    <2> USE DEF LedgerInv, Ledger!TypeOK, Ledger!LedgerWithinDatabase
    <2>1. CASE Ledger!Work
      <3>1. PICK p \in Partitions, r \in Rows :
                /\ db' = [db EXCEPT ![p] = db[p] \cup {r}]
                /\ begun' = IF manifest[p] \subseteq db[p] THEN begun ELSE begun \cup {p}
        BY <2>1, Zenon DEF Ledger!Work
      <3>2. manifest' = manifest /\ (dbState' = "whole") = (dbState = "whole")
        BY <2>1 DEF Ledger!Work
      <3>3. /\ db' \in [Partitions -> SUBSET Rows] /\ begun' \subseteq Partitions
            /\ \A q \in Partitions : db[q] \subseteq db'[q]
            /\ \A q \in Partitions \ begun' : db'[q] = {} \/ manifest[q] \subseteq db'[q]
        BY <3>1
      <3> QED
        BY <3>2, <3>3
    <2>2. CASE Ledger!Commit
      BY <2>2 DEF Ledger!Commit
    <2>3. CASE Ledger!Lose
      BY <2>3 DEF Ledger!Lose, Ledger!NoRows
    <2>4. CASE Ledger!Load
      BY <2>4 DEF Ledger!Load
    <2>5. CASE UNCHANGED Ledger!vars
      BY <2>5 DEF Ledger!vars
    <2> QED
      BY <2>1, <2>2, <2>3, <2>4, <2>5 DEF Ledger!Next
  <1> QED
    BY <1>1, <1>2, PTL DEF Ledger!Spec

\* Nothing committed is ever forgotten, whatever databases are lost or half-loaded,
\* but by the commit of a partition that was begun anew: every other commit replaces
\* a partition by one that contains it. (DurableLedger)
THEOREM NothingIsForgotten == Ledger!Spec => Ledger!NothingForgotten
  <1>1. LedgerInv /\ [Ledger!Next]_(Ledger!vars) => [Ledger!Kept]_(Ledger!vars)
    BY DEF LedgerInv, Ledger!TypeOK, Ledger!LedgerWithinDatabase, Ledger!Next, Ledger!Work,
           Ledger!Commit, Ledger!Lose, Ledger!Load, Ledger!Kept, Ledger!vars
  <1> QED
    BY <1>1, LedgerInvariant, PTL DEF Ledger!Spec, Ledger!NothingForgotten

\* A row recorded in the manifest is never dropped from it, by no lost runner, killed
\* restore or persist of a half-restored database, but where the jobs worked on a
\* partition whose recorded rows were absent: what the ledger promises, read back as a
\* fact about the manifest.
THEOREM RecordedRowsAreKept == Spec => RecordedRowsKept
  <1>1. Ledger!Spec => Ledger!NothingForgotten
    BY NothingIsForgotten
  <1>2. [Ledger!Kept]_(Ledger!vars) => [RowsKept]_vars
    BY DEF Ledger!Kept, Ledger!vars, RowsKept, vars, directory, database
  <1> QED
    BY <1>1, <1>2, WarehouseIsLedger, PTL
    DEF ImplementsLedger, Ledger!NothingForgotten, RecordedRowsKept

=============================================================================
