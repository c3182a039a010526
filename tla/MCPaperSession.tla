--------------------------- MODULE MCPaperSession ---------------------------
(* Constants for the run of PaperSession.                                   *)
EXTENDS PaperSession

\* A base of one second, doubled at each attempt.
MCBackoff == [n \in 0..MaxRetries |-> 2 ^ n]

\* No outage; one in the second tick that a request outlasts, just, and one that
\* it does not; one from before the open; and one until after the window.
MCOutages ==
    {[from |-> 9, to |-> to] : to \in {9, 12, 13, 60}}
        \cup {[from |-> 1, to |-> to] : to \in {12, 60}}

=============================================================================
