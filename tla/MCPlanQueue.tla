---------------------------- MODULE MCPlanQueue ----------------------------
(* Constants of the runs of PlanQueue. *)
EXTENDS PlanQueue, TLC

\* Three scans, three handlers, a crash and an Ignore.
QueueBound == [e \in Events |-> IF e \in {"scan", "run"} THEN 3 ELSE 1]
=============================================================================
