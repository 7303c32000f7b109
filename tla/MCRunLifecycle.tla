--------------------------- MODULE MCRunLifecycle ---------------------------
(* Request shapes for model-checking RunLifecycle.                         *)
EXTENDS RunLifecycle

Scored   == [scored |-> TRUE, sandboxed |-> TRUE, ticketed |-> TRUE]
Practice == [scored |-> FALSE, sandboxed |-> TRUE, ticketed |-> TRUE]
Direct   == [scored |-> FALSE, sandboxed |-> FALSE, ticketed |-> TRUE]
Unticketed == [scored |-> FALSE, sandboxed |-> FALSE, ticketed |-> FALSE]

ScoredOnly == {Scored}
ScoredOrDirect == {Scored, Direct}
ScoredOrUnticketed == {Scored, Unticketed}
=============================================================================
