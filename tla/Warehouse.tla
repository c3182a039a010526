----------------------------- MODULE Warehouse ------------------------------
(***************************************************************************)
(* The Parquet warehouse directory: persist_warehouse exports the research *)
(* database partition by partition, restore_warehouse verifies the whole   *)
(* directory and loads it into a fresh database.                           *)
(*                                                                         *)
(* One action per file operation that a killed process can separate from   *)
(* the next: the rename of a partition file, the truncation and the write  *)
(* of manifest.json (Path.write_text), and the same for the version stamp. *)
(* A partition's content is the set of its rows; equal contents have equal *)
(* checksums. Definitions marked [defect] are broken variants of the next  *)
(* one, kept to show which property catches them; nothing uses them.       *)
(***************************************************************************)
EXTENDS Naturals, Sequences

CONSTANTS
    Order,          \* the partitions, as persist visits them: tables in the
                    \* order of TABLE_SPECS, dates ascending within a table
    TableOf,        \* partition -> table
    Rows,           \* bound: rows a partition can have
    InitialStamps,  \* version stamps an existing warehouse may carry
    TornWrites,     \* whether a process can be killed inside a write_text
    MaxCrashes,     \* bound: killed processes
    MaxLosses       \* bound: lost databases (a new runner)

Partitions == {Order[n] : n \in DOMAIN Order}
Tables == {TableOf[p] : p \in Partitions}

Absent == 0
SchemaVersion == 5
MinCompatible == 4

ASSUME OrderAssumption ==
    /\ Order \in Seq(Partitions) \ {<<>>}
    /\ \A j, k \in DOMAIN Order : Order[j] = Order[k] => j = k
    /\ Partitions \subseteq DOMAIN TableOf
    \* the partitions of a table are visited one after the other
    /\ \A i, j, k \in DOMAIN Order :
        i <= j /\ j <= k /\ TableOf[Order[i]] = TableOf[Order[k]]
            => TableOf[Order[j]] = TableOf[Order[i]]
ASSUME BoundsAssumption ==
    /\ Rows \subseteq Nat /\ 1 \in Rows
    /\ InitialStamps \subseteq Nat \ {Absent}
    /\ TornWrites \in BOOLEAN
    /\ MaxCrashes \in Nat
    /\ MaxLosses \in Nat

VARIABLES
    files,      \* partition -> content of its part.parquet, {} when missing
    manifest,   \* partition -> content its manifest entry has the checksum of
    stamp,      \* _schema_version.json
    torn,       \* JSON files left truncated by a killed write
    db,         \* the research database: partition -> rows
    dbState,    \* "missing", "partial" (a restore that is not finished), "whole"
    begun,      \* history: partitions worked on while recorded rows were absent
    pc,         \* what the running process does next
    n,          \* position in Order of the running process
    entries,    \* the manifest dict in memory
    crashes, losses

directory == <<files, manifest, stamp, torn>>
database == <<db, dbState, begun>>
process == <<pc, n, entries>>
vars == <<directory, database, process, crashes, losses>>

NoRows == [p \in Partitions |-> {}]

\* persist's and restore's gate on the version stamp
Compatible(v) == v \in MinCompatible..SchemaVersion

Init ==
    \* either no warehouse yet, or one that an earlier run completed
    /\ \/ stamp = Absent /\ manifest = NoRows
       \/ stamp \in InitialStamps /\ manifest \in [Partitions -> SUBSET {1}]
    /\ files = manifest
    /\ torn = {}
    /\ db = NoRows
    /\ dbState = "missing"
    /\ begun = {}
    /\ pc = "idle"
    /\ n = 1
    /\ entries = NoRows
    /\ crashes = 0
    /\ losses = 0

-----------------------------------------------------------------------------
(* The database. *)

\* The workflow's first run: there is no warehouse to restore from.
FreshDatabase ==
    /\ pc = "idle" /\ dbState = "missing"
    /\ stamp = Absent /\ torn = {} /\ manifest = NoRows /\ files = NoRows
    /\ dbState' = "whole"
    /\ UNCHANGED <<directory, db, begun, process, crashes, losses>>

\* A day's jobs add rows to a partition. A database whose restore was killed has
\* all its tables and looks like any other to them.
Work ==
    /\ pc = "idle" /\ dbState # "missing"
    /\ \E p \in Partitions :
        \E r \in Rows \ db[p] :
            /\ \A q \in Rows : q < r => q \in db[p]
            /\ db' = [db EXCEPT ![p] = @ \cup {r}]
            /\ begun' = IF manifest[p] \subseteq db[p] THEN begun ELSE begun \cup {p}
    /\ UNCHANGED <<directory, dbState, process, crashes, losses>>

\* The runner, and the database file on it, is gone.
LoseDatabase ==
    /\ pc = "idle" /\ dbState # "missing"
    /\ losses < MaxLosses
    /\ losses' = losses + 1
    /\ db' = NoRows
    /\ dbState' = "missing"
    /\ begun' = {}
    /\ UNCHANGED <<directory, process, crashes>>

\* The running process is killed; a kill inside write_text leaves a torn file.
Crash ==
    /\ pc # "idle"
    /\ TornWrites \/ pc \notin {"write_manifest", "write_stamp"}
    /\ crashes < MaxCrashes
    /\ crashes' = crashes + 1
    /\ pc' = "idle"
    /\ n' = 1
    /\ entries' = NoRows
    /\ UNCHANGED <<directory, database, losses>>

-----------------------------------------------------------------------------
(* persist_warehouse *)

\* The version gate, then the manifest is read. An incompatible stamp, a torn JSON
\* file or a database that cannot be opened raises before anything is written. A
\* half-restored database is persisted like any other.
BeginPersist ==
    /\ pc = "idle" /\ dbState # "missing"
    /\ stamp = Absent \/ Compatible(stamp)
    /\ torn = {}
    /\ entries' = manifest
    /\ n' = 1
    /\ pc' = "export"
    /\ UNCHANGED <<directory, database, crashes, losses>>

\* [defect] the row count decides, not the checksum: any recorded partition
\* is taken for unchanged
UnchangedByCount(p) == entries[p] # {}

Unchanged(p) == entries[p] = db[p]

\* The next partition with rows is copied to a temporary file and hashed; it is
\* dropped again when its manifest entry already has that checksum.
ExportPartition ==
    /\ pc = "export"
    /\ n <= Len(Order)
    /\ IF db[Order[n]] = {} \/ Unchanged(Order[n])
       THEN n' = n + 1 /\ UNCHANGED pc
       ELSE pc' = "rename" /\ UNCHANGED n
    /\ UNCHANGED <<directory, database, entries, crashes, losses>>

\* [defect] the manifest is not saved after every partition
RenameWithoutSave ==
    /\ pc = "rename"
    /\ files' = [files EXCEPT ![Order[n]] = db[Order[n]]]
    /\ entries' = [entries EXCEPT ![Order[n]] = db[Order[n]]]
    /\ pc' = "export"
    /\ n' = n + 1
    /\ UNCHANGED <<manifest, stamp, torn, database, crashes, losses>>

\* tmp_path.replace(target_path), and the entry in memory
RenameIntoPlace ==
    /\ pc = "rename"
    /\ files' = [files EXCEPT ![Order[n]] = db[Order[n]]]
    /\ entries' = [entries EXCEPT ![Order[n]] = db[Order[n]]]
    /\ pc' = "truncate_manifest"
    /\ UNCHANGED <<manifest, stamp, torn, database, n, crashes, losses>>

TruncateManifest ==
    /\ pc = "truncate_manifest"
    /\ torn' = torn \cup {"manifest"}
    /\ pc' = "write_manifest"
    /\ UNCHANGED <<files, manifest, stamp, database, n, entries, crashes, losses>>

WriteManifest ==
    /\ pc = "write_manifest"
    /\ manifest' = entries
    /\ torn' = torn \ {"manifest"}
    /\ begun' = begun \ {Order[n]}
    /\ pc' = "export"
    /\ n' = n + 1
    /\ UNCHANGED <<files, stamp, db, dbState, entries, crashes, losses>>

TruncateStamp ==
    /\ pc = "export"
    /\ n = Len(Order) + 1
    /\ torn' = torn \cup {"stamp"}
    /\ pc' = "write_stamp"
    /\ UNCHANGED <<files, manifest, stamp, database, n, entries, crashes, losses>>

WriteStamp ==
    /\ pc = "write_stamp"
    /\ stamp' = SchemaVersion
    /\ torn' = torn \ {"stamp"}
    /\ pc' = "idle"
    /\ n' = 1
    /\ entries' = NoRows
    /\ UNCHANGED <<files, manifest, database, crashes, losses>>

-----------------------------------------------------------------------------
(* restore_warehouse *)

\* [defect] only the existence of the files is verified
VerifiedExistence == \A p \in Partitions : manifest[p] # {} => files[p] # {}

\* every manifest entry's file exists and has the recorded checksum
Verified == \A p \in Partitions : manifest[p] # {} => files[p] = manifest[p]

Restorable == torn = {} /\ Compatible(stamp) /\ Verified

\* All checks come before the target, if there is one, is unlinked and its tables
\* are created. A whole database that is restored over is a lost one.
BeginRestore ==
    /\ pc = "idle"
    /\ Restorable
    /\ IF dbState = "whole"
       THEN losses < MaxLosses /\ losses' = losses + 1
       ELSE UNCHANGED losses
    /\ db' = NoRows
    /\ dbState' = "partial"
    /\ begun' = {}
    /\ pc' = "load"
    /\ n' = 1
    /\ UNCHANGED <<directory, entries, crashes>>

TableAt(m) == {k \in DOMAIN Order : TableOf[Order[k]] = TableOf[Order[m]]}

\* One INSERT loads all verified files of a table; the last table ends it.
LoadTable ==
    /\ pc = "load"
    /\ \E last \in TableAt(n) :
        /\ \A k \in TableAt(n) : k <= last
        /\ db' = [p \in Partitions |->
                    IF TableOf[p] = TableOf[Order[n]] /\ manifest[p] # {}
                    THEN files[p] ELSE db[p]]
        /\ IF last = Len(Order)
           THEN dbState' = "whole" /\ pc' = "idle" /\ n' = 1
           ELSE n' = last + 1 /\ UNCHANGED <<dbState, pc>>
    /\ UNCHANGED <<directory, begun, entries, crashes, losses>>

-----------------------------------------------------------------------------

Persist ==
    \/ BeginPersist
    \/ ExportPartition
    \/ RenameIntoPlace
    \/ TruncateManifest
    \/ WriteManifest
    \/ TruncateStamp
    \/ WriteStamp

Restore == BeginRestore \/ LoadTable

Next ==
    \/ FreshDatabase
    \/ Work
    \/ LoseDatabase
    \/ Crash
    \/ Persist
    \/ Restore

Spec == Init /\ [][Next]_vars

\* A process that was started runs on, and an interrupted persist is started again
\* (the workflow's schedule). Nothing is assumed of restores.
Fairness ==
    /\ SF_vars(BeginPersist)
    /\ WF_vars(ExportPartition)
    /\ WF_vars(RenameIntoPlace)
    /\ WF_vars(TruncateManifest)
    /\ WF_vars(WriteManifest)
    /\ WF_vars(TruncateStamp)
    /\ WF_vars(WriteStamp)
    /\ WF_vars(LoadTable)

FairSpec == Spec /\ Fairness

-----------------------------------------------------------------------------
(* Properties. *)

Contents == [Partitions -> SUBSET Rows]

\* Every variable holds a value of its domain.
TypeOK ==
    /\ files \in Contents
    /\ manifest \in Contents
    /\ stamp \in {Absent, SchemaVersion} \cup InitialStamps
    /\ torn \subseteq {"manifest", "stamp"}
    /\ db \in Contents
    /\ dbState \in {"missing", "partial", "whole"}
    /\ begun \subseteq Partitions
    /\ pc \in {"idle", "export", "rename", "truncate_manifest", "write_manifest",
              "write_stamp", "load"}
    /\ n \in 1..(Len(Order) + 1)
    /\ entries \in Contents
    /\ crashes \in 0..MaxCrashes
    /\ losses \in 0..MaxLosses

\* The warehouse keeps the ledger's promise through every crash: what the manifest
\* records only grows with the database, and a restore brings back what the manifest
\* records, table by table, and nothing else (persist_warehouse, restore_warehouse).
Ledger == INSTANCE DurableLedger WITH
    ledger <- manifest,
    database <- db,
    whole <- dbState = "whole"
ImplementsLedger == Ledger!Spec

\* A row that was once recorded in the manifest stays recorded, through lost runners,
\* killed restores and every later persist, also of a half-restored database: only a
\* partition whose recorded rows were absent when the jobs worked on it may lose them.
RowsKept == \A p \in Partitions \ begun : manifest[p] \subseteq manifest'[p]
RecordedRowsKept == [][RowsKept]_vars

\* The version stamp is written only when every partition of the database is
\* recorded as it is ("only after every table/partition has been processed").
StampedComplete ==
    "stamp" \in torn /\ "stamp" \notin torn' =>
        \A p \in Partitions : db[p] # {} => manifest[p] = db[p]
StampOnlyWhenComplete == [][StampedComplete]_vars

\* Saving the manifest after every partition confines the damage: each killed
\* process leaves at most one partition file ahead of its manifest entry.
Mismatched == {p \in Partitions : manifest[p] # {} /\ files[p] # manifest[p]}
DamageConfined ==
    pc = "idle" => \A S \in SUBSET Mismatched :
        (\E f \in [1..crashes -> Partitions] : S \subseteq {f[k] : k \in 1..crashes})

\* Partitions a persist passes over although a killed process left another file in
\* place: collected anew, their rows came to be what the manifest records.
TakenForUnchanged == {p \in begun \cap Mismatched : db[p] = manifest[p]}

\* Retrying heals, from the first persist of a new warehouse on: a row of the database
\* ends up recorded in a warehouse that can be restored, unless it leaves the database
\* before, a kill tore one of the two JSON files, or a damaged partition is taken for
\* unchanged.
RetryHeals ==
    \A p \in Partitions, r \in Rows :
        r \in db[p] ~> \/ r \in manifest[p] /\ Restorable
                       \/ r \notin db[p]
                       \/ pc = "idle" /\ torn # {}
                       \/ pc = "export" /\ TakenForUnchanged # {}

\* tests/test_warehouse_recovery.py: a crash partway through a later persist
\* leaves "never something unusable" of what was already durable.
NeverUnusable ==
    pc = "idle" /\ Compatible(stamp) => Restorable

=============================================================================
