----------------------------- MODULE MCPlanExec -----------------------------
(* Constants of the runs of PlanExec. *)
EXTENDS PlanExec, TLC

\* Failed writes, settings changed under a run, a resume and an undo; any
\* two surprises.
FaultBound == [e \in Events |-> CASE e = "run"   -> 2
                                  [] e = "undo"  -> 1
                                  [] e = "crash" -> 0
                                  [] OTHER       -> 2]

\* Crashes, with one other surprise.
CrashBound == [e \in Events |-> CASE e \in {"run", "crash"}          -> 2
                                  [] e \in {"undo", "user", "source"} -> 1
                                  [] OTHER                            -> 0]
=============================================================================
