---------------------------- MODULE MCExecutors ----------------------------
(* Executors on small instances.                                            *)
EXTENDS Executors

CONSTANTS brief, x1, x2, s1

\* Everybody executes the same agent.
SameAgent == [x \in Executions |-> brief]

=============================================================================
