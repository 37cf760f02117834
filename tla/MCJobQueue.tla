----------------------------- MODULE MCJobQueue ------------------------------
(* Constants for TLC: job 2 is enqueued with a higher priority than the rest. *)
EXTENDS JobQueue, TLC

MCPriority == [j \in JobId |-> IF j = 2 THEN 10 ELSE 0]
MCSymmetry == Permutations(Worker)
==============================================================================
