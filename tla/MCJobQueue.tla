----------------------------- MODULE MCJobQueue -----------------------------
(***************************************************************************)
(* JobQueue for TLC: session-stats chained to stats-echo on one session,   *)
(* and a redoable job of the first pipeline on another.                    *)
(***************************************************************************)
EXTENDS JobQueue

MCItems == {"stats", "echo", "redoable"}
MCSessions == {"s1", "s2"}
MCPipelines == {"P", "Q"}
MCSessionOf == [i \in MCItems |-> IF i = "redoable" THEN "s2" ELSE "s1"]
MCPipelineOf == [i \in MCItems |-> IF i = "echo" THEN "Q" ELSE "P"]
MCPriority == [i \in MCItems |-> IF i = "redoable" THEN 1 ELSE 0]
MCFollowUp == [i \in MCItems |-> IF i = "stats" THEN "echo" ELSE "none"]
=============================================================================
