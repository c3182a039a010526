--------------------------- MODULE MCPaperJournal ---------------------------
(* Model values for the runs of PaperJournal.                               *)
EXTENDS PaperJournal, TLC

CONSTANTS i1, i2

Symmetry == Permutations(Instruments)

=============================================================================
