---------------------------- MODULE MCPaperBroker ---------------------------
(* Model values for the run of PaperBroker.                                 *)
EXTENDS PaperBroker, TLC

CONSTANTS s1, s2, s3

Symmetry == Permutations(Symbols)

=============================================================================
