------------------------ MODULE MCSupervisedWorkers ------------------------
(***************************************************************************)
(* SupervisedWorkers for TLC: one pipeline with two jobs of different      *)
(* priority.  One can starve the other only while it is itself runnable.   *)
(***************************************************************************)
EXTENDS SupervisedWorkers

DuoItems == {"urgent", "patient"}
DuoSessions == {"s1"}
DuoPipelines == {"P"}
DuoSessionOf == [i \in DuoItems |-> "s1"]
DuoPipelineOf == [i \in DuoItems |-> "P"]
DuoPriority == [i \in DuoItems |-> IF i = "urgent" THEN 1 ELSE 0]
DuoFollowUp == [i \in DuoItems |-> "none"]
=============================================================================
