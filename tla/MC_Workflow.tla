---------------------------- MODULE MC_Workflow ----------------------------
(* Workflow instantiated for TLC: two event names, a document listening to *)
(* one of them, and conditions of every JSON type, zero and non-zero.      *)
EXTENDS Workflow

CONSTANTS e1, e2

MCEvents == {e1, e2}
MCOn == {e1}

\* One rendered value per JSON type that the comparisons in ShouldExecute
\* tell apart, zero and non-zero where it matters.
MCConds ==
    {[t |-> "absent", zero |-> FALSE]}
    \cup [t : {"null", "string"}, zero : {FALSE}]
    \cup [t : {"bool", "int", "float"}, zero : BOOLEAN]

\* The action behaviours the spec's contract allows (4.F).
MCContract == {"sync", "async", "throw", "never"}

=============================================================================
