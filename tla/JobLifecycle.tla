---------------------------- MODULE JobLifecycle ----------------------------
(***************************************************************************)
(* What the job queue promises of each piece of work, whoever runs it: one *)
(* worker at a time, one outcome per run, no outcome without a run, a job  *)
(* that is interrupted is taken up again and one that succeeded is not,    *)
(* and a follow-up exists only downstream of a success.  JobQueue, with    *)
(* its table, workers, crashes and failed transactions, implements it.     *)
(***************************************************************************)
EXTENDS FiniteSets

CONSTANTS
    Items, NoItem,
    FollowUp        \* the item a success of another may queue, or NoItem

VARIABLE job        \* how far each item is

State == {"none", "waiting", "working", "interrupted", "succeeded", "dead"}

\* The jobs of S, each in one of some states, get to another one.
Move(S, from, to) ==
    /\ \A i \in S : job[i] \in from
    /\ job' = [i \in Items |-> IF i \in S THEN to ELSE job[i]]

Init == job = [i \in Items |-> "none"]

\* A batch is queued; a follow-up only after its parent's success.
Queue(S) ==
    /\ Move(S, {"none"}, "waiting")
    /\ \A i \in Items : FollowUp[i] \in S => job[i] = "succeeded"

Start(i) == Move({i}, {"waiting"}, "working")

Succeed(i) == Move({i}, {"working"}, "succeeded")

\* The run failed, and is to be repeated or was the last.
Fail(i) == Move({i}, {"working"}, "waiting") \/ Move({i}, {"working"}, "dead")

\* Its worker is gone, or could not record what came of it.
Interrupt(i) == Move({i}, {"working"}, "interrupted")

\* A worker boots: never a running job, never one that succeeded.
Recover(S) == Move(S, {"interrupted", "dead"}, "waiting")

\* A redo, or a session's deletion, at any time; follow-ups go with their
\* parents.
Forget(S) ==
    /\ Move(S, State, "none")
    /\ \A i \in S : FollowUp[i] # NoItem => FollowUp[i] \in S

Next ==
    /\ job' # job
    /\ \/ \E i \in Items : Start(i) \/ Succeed(i) \/ Fail(i) \/ Interrupt(i)
       \/ \E S \in SUBSET Items : Queue(S) \/ Recover(S) \/ Forget(S)

Spec == Init /\ [][Next]_job
=============================================================================
