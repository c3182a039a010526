--------------------------- MODULE DurableLedger ----------------------------
(***************************************************************************)
(* What the Parquet warehouse promises to the research database, without   *)
(* files, manifests or killed processes: a ledger of partitions. The       *)
(* database collects rows, a commit records one of its partitions as it    *)
(* is, and a lost database comes back from the ledger, some partitions at  *)
(* a time. Nothing keeps the jobs off a partition that has not come back   *)
(* yet; one they work on all the same is "begun" anew, and only a begun    *)
(* partition's commit may forget rows.                                     *)
(***************************************************************************)
EXTENDS Naturals

CONSTANTS Partitions, Rows

VARIABLES
    ledger,     \* partition -> the rows that are durable
    database,   \* partition -> the rows of the research database
    whole,      \* whether the database came back completely
    begun       \* history: partitions worked on while recorded rows were absent

vars == <<ledger, database, whole, begun>>

NoRows == [p \in Partitions |-> {}]

Init ==
    /\ ledger \in [Partitions -> SUBSET Rows]
    /\ database = NoRows
    /\ whole = FALSE
    /\ begun = {}

Work ==
    /\ \E p \in Partitions, r \in Rows :
        /\ database' = [database EXCEPT ![p] = @ \cup {r}]
        /\ begun' = IF ledger[p] \subseteq database[p] THEN begun ELSE begun \cup {p}
    /\ UNCHANGED <<ledger, whole>>

\* A partition without rows is not committed.
Commit ==
    /\ \E p \in Partitions :
        /\ database[p] # {}
        /\ ledger' = [ledger EXCEPT ![p] = database[p]]
        /\ begun' = begun \ {p}
    /\ UNCHANGED <<database, whole>>

Lose ==
    /\ database' = NoRows
    /\ whole' = FALSE
    /\ begun' = {}
    /\ UNCHANGED ledger

\* Some absent partitions come back, exactly as recorded, before anything was begun;
\* the database is whole at the earliest when all of them have.
Load ==
    /\ ~whole /\ begun = {}
    /\ \E S \in SUBSET {p \in Partitions : database[p] = {}} :
        database' = [p \in Partitions |-> IF p \in S THEN ledger[p] ELSE database[p]]
    /\ whole' \in BOOLEAN
    /\ whole' => database' = ledger
    /\ UNCHANGED <<ledger, begun>>

Next == Work \/ Commit \/ Lose \/ Load

Spec == Init /\ [][Next]_vars

-----------------------------------------------------------------------------
(* Properties. *)

TypeOK ==
    /\ ledger \in [Partitions -> SUBSET Rows]
    /\ database \in [Partitions -> SUBSET Rows]
    /\ whole \in BOOLEAN
    /\ begun \subseteq Partitions

\* A whole database lacks no row that is durable, and neither does a partition
\* that holds rows without having been begun anew.
LedgerWithinDatabase ==
    /\ whole => \A p \in Partitions : ledger[p] \subseteq database[p]
    /\ \A p \in Partitions \ begun : database[p] = {} \/ ledger[p] \subseteq database[p]

\* A row that was committed is never forgotten, but by the commit of a partition
\* that was begun anew.
Kept == \A p \in Partitions \ begun : ledger[p] \subseteq ledger'[p]
NothingForgotten == [][Kept]_vars

=============================================================================
