---------------------------- MODULE MCWarehouse -----------------------------
(* A warehouse of two tables for the runs of Warehouse: two dates of the    *)
(* first table, then one file of the second.                                *)
EXTENDS Warehouse

MCOrder == <<"candles/d1", "candles/d2", "outcomes/d1">>
MCTableOf == [p \in {"candles/d1", "candles/d2", "outcomes/d1"} |->
                IF p = "outcomes/d1" THEN "paper_outcomes" ELSE "candles"]

=============================================================================
