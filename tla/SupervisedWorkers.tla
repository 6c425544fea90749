------------------------- MODULE SupervisedWorkers -------------------------
(***************************************************************************)
(* The supervisor (processing/supervisor.py) over the workers of JobQueue: *)
(* one child process per pipeline, watched in passes, restarted with       *)
(* exponential backoff, and taken down by SIGTERM, a grace period and      *)
(* SIGKILL.  A worker of JobQueue that is down is a child that died, one   *)
(* that is still importing, or one the supervisor has yet to start.        *)
(*                                                                         *)
(* The supervisor's clock is the monotonic one of its process, in units of *)
(* the backoff base.  The loop samples it once, at the head of a pass, and *)
(* judges every child by that sample: what is left of a delay and what has *)
(* passed of an uptime are kept as of the sample, and lag is what has      *)
(* passed since.  The database's clock is JobQueue's.                      *)
(***************************************************************************)
EXTENDS JobQueue

CONSTANTS
    RestartBase, RestartCap,    \* restart_backoff_base/cap_seconds
    RestartReset,               \* restart_reset_seconds
    MaxLag                      \* bound: time from one sample of the clock to the next

ASSUME SupervisorAssumption ==
    /\ RestartBase \in Nat \ {0}
    /\ RestartCap \in Nat /\ RestartBase <= RestartCap
    /\ RestartReset \in Nat
    /\ MaxLag \in Nat

VARIABLES
    phase,      \* of run() and _shutdown()
    todo,       \* the names this pass of the loop has still to look at
    child,      \* children[name]: "none", "alive", or "dead" and not yet noticed
    lag,        \* what has passed since the loop sampled now
    wait,       \* not_before - now, down to 0
    delay,      \* backoff_s
    up,         \* now - started_at, up to RestartReset
    streak,     \* history: restarts since a child last earned a reset
    since       \* history: time since the head of the pass that noticed the
                \* death that began the streak

sup == <<phase, todo, child, lag, wait, delay, up, streak, since>>
allVars == <<vars, sup>>

Least(a, b) == IF a < b THEN a ELSE b

\* The least time, from the sample that begins a streak, to its n-th restart.
\* Bound: the history tells streaks apart up to the second.
Earliest == [n \in 0..2 |->
    IF n = 0 THEN 0
    ELSE IF n = 1 THEN RestartBase
    ELSE RestartBase + Least(RestartCap, 2 * RestartBase)]

SupInit ==
    /\ Init
    /\ phase = "running"
    /\ todo = {}
    /\ child = [p \in Pipelines |-> "none"]
    /\ lag = 0
    /\ wait = [p \in Pipelines |-> 0]
    /\ delay = [p \in Pipelines |-> RestartBase]
    /\ up = [p \in Pipelines |-> 0]
    /\ streak = [p \in Pipelines |-> 0]
    /\ since = [p \in Pipelines |-> 0]

----------------------------------------------------------------------------
(* The loop of run().                                                      *)

\* A child exited, or a second passed, and nobody has asked to stop: the clock
\* is read.
Pass ==
    /\ phase = "running" /\ todo = {}
    /\ todo' = Pipelines
    /\ lag' = 0
    /\ wait' = [p \in Pipelines |-> IF wait[p] > lag THEN wait[p] - lag ELSE 0]
    /\ up' = [p \in Pipelines |->
                IF child[p] = "none" THEN 0 ELSE Least(RestartReset, up[p] + lag)]
    /\ UNCHANGED <<vars, phase, child, delay, streak, since>>

\* Variant: every death starts over.
RanAtAll(p) == TRUE

\* A child that ran for a while earns a reset.
RanForAWhile(p) == up[p] >= RestartReset

\* One child of the pass, judged by the sample at its head however long ago that
\* is; only a new child's started_at is read afresh.  SIGTERM only sets a flag,
\* which the loop reads at its head: the pass it interrupts is finished, and may
\* start a child.
Look(p) ==
    /\ phase \in {"running", "signalled"}
    /\ p \in todo
    /\ todo' = todo \ {p}
    /\ LET died == child[p] = "dead"
           earned == died /\ RanForAWhile(p)
           pause == IF earned THEN RestartBase ELSE delay[p]
           left == IF died THEN pause ELSE wait[p]
           starts == child[p] # "alive" /\ left = 0
       IN  /\ wait' = [wait EXCEPT ![p] = left]
           /\ delay' = [delay EXCEPT ![p] = IF died THEN Least(RestartCap, 2 * pause) ELSE @]
           /\ child' = [child EXCEPT ![p] = IF starts THEN "alive" ELSE IF died THEN "none" ELSE @]
           /\ up' = [up EXCEPT ![p] = IF starts THEN -lag ELSE IF died THEN 0 ELSE @]
           /\ streak' = [streak EXCEPT ![p] =
                 IF ~died THEN @ ELSE IF up[p] >= RestartReset THEN 1 ELSE Least(2, @ + 1)]
           /\ since' = [since EXCEPT ![p] = IF died /\ streak'[p] = 1 THEN lag ELSE @]
    /\ UNCHANGED <<vars, phase, lag>>

\* SIGTERM or SIGINT.
Signal ==
    /\ phase = "running"
    /\ phase' = "signalled"
    /\ UNCHANGED <<vars, todo, child, lag, wait, delay, up, streak, since>>

----------------------------------------------------------------------------
(* _shutdown().                                                            *)

Alive == {p \in Pipelines : child[p] = "alive"}

\* Variant: the children that were up when the signal came.
AliveThen == {p \in Alive : pc[p] # "down"}

Live == Alive

\* Every live child gets SIGTERM.  One that is still importing has no handler
\* yet and dies of it; any other sets its stop event, in setup() as in its loop.
TerminateAll ==
    /\ phase = "signalled" /\ todo = {}
    /\ phase' = "grace"
    /\ \E importing \in SUBSET {p \in Live : pc[p] = "down"} :
          /\ stop' = [p \in Pipelines |-> stop[p] \/ p \in Live \ importing]
          /\ child' = [p \in Pipelines |-> IF p \in importing THEN "dead" ELSE child[p]]
    /\ UNCHANGED <<session, row, now, pc, found, held, budget, faults>>
    /\ UNCHANGED <<todo, lag, wait, delay, up, streak, since>>

\* shutdown_grace_seconds are over for a worker that has not finished.
Kill(p) ==
    /\ phase = "grace" /\ p \in Live
    /\ Die(p)
    /\ child' = [child EXCEPT ![p] = "dead"]
    /\ UNCHANGED <<budget, phase, todo, lag, wait, delay, up, streak, since>>

Stopped ==
    /\ phase = "grace" /\ Live = {}
    /\ phase' = "stopped"
    /\ UNCHANGED <<vars, todo, child, lag, wait, delay, up, streak, since>>

----------------------------------------------------------------------------
(* The children, and time.                                                 *)

\* A child whose process ended is dead until a pass notices.
ChildFollows(p) ==
    child' = IF pc[p] # "down" /\ pc'[p] = "down" THEN [child EXCEPT ![p] = "dead"] ELSE child

Works(p) ==
    /\ child[p] = "alive"
    /\ Step(p)
    /\ ChildFollows(p)
    /\ UNCHANGED <<phase, todo, lag, wait, delay, up, streak, since>>

\* The faults of this module are deaths; failed transactions, which leave the
\* child alive, are JobQueue's.
Dies(p) ==
    /\ child[p] = "alive"
    /\ Crash(p)
    /\ ChildFollows(p)
    /\ UNCHANGED <<phase, todo, lag, wait, delay, up, streak, since>>

\* Imports, setup() or the recovery at boot raise.
DiesAtBoot(p) ==
    /\ child[p] = "alive" /\ pc[p] = "down"
    /\ budget.stops > 0
    /\ budget' = [budget EXCEPT !.stops = @ - 1]
    /\ child' = [child EXCEPT ![p] = "dead"]
    /\ stop' = [stop EXCEPT ![p] = FALSE]
    /\ UNCHANGED <<session, row, now, pc, found, held, faults>>
    /\ UNCHANGED <<phase, todo, lag, wait, delay, up, streak, since>>

\* Bound: what goes on after the supervisor is not looked at.
Environment ==
    /\ phase # "stopped"
    /\ \/ \E s \in Sessions : EndSession(s) \/ DeleteSession(s)
       \/ \E i \in Items : Redo(i)
       \/ Tick
    /\ UNCHANGED sup

\* The delays and uptimes are read by the loop alone, as of its sample.
SupTick ==
    /\ phase \in {"running", "signalled"}
    /\ lag < MaxLag
    /\ lag' = lag + 1
    /\ since' = [p \in Pipelines |->
                   IF streak[p] = 0 THEN 0 ELSE Least(Earliest[2] + MaxLag, since[p] + 1)]
    /\ UNCHANGED <<vars, phase, todo, child, wait, delay, up, streak>>

----------------------------------------------------------------------------
\* The supervisor is one thread.
Supervise ==
    \/ Pass \/ TerminateAll \/ Stopped
    \/ \E p \in Pipelines : Look(p) \/ Kill(p)

SupNext ==
    \/ Supervise \/ Signal \/ SupTick \/ Environment
    \/ \E p \in Pipelines : Works(p) \/ Dies(p) \/ DiesAtBoot(p)

SupSpec == SupInit /\ [][SupNext]_allVars

\* The supervisor's thread and its children run, and both clocks move.
\* Nothing restarts a child but the supervisor.
SupFairness ==
    /\ WF_allVars(Supervise)
    /\ WF_allVars(SupTick) /\ WF_allVars(Tick /\ UNCHANGED sup)
    /\ \A p \in Pipelines : WF_allVars(Works(p))

FairSupSpec == SupSpec /\ SupFairness

----------------------------------------------------------------------------
(* Properties.                                                             *)

\* Every job that was ever queued or claimed comes to an end, although only
\* the supervisor restarts its worker, with a delay that grows; unless the
\* supervisor itself is told to stop.
JobsSettleUnderSupervision ==
    \A i \in Items :
        row[i].status \in {"queued", "running"}
            ~> row[i].status \in {"succeeded", "dead", "absent"} \/ phase # "running"

\* A child that keeps dying is restarted ever later: its n-th restart in a
\* row comes no sooner than the sum of the n delays, whatever it died of and
\* however far it got; only RestartReset of uptime ends the row.  The sum counts
\* from the sample by which the first death was noticed, at the head of its pass:
\* a death in the middle of that pass is later, and its restart sooner after it.
CrashLoopIsThrottled ==
    \A p \in Pipelines : child[p] = "alive" => since[p] >= Earliest[streak[p]]

\* A stop is carried through and leaves nobody behind: no worker outlives the
\* supervisor, not even one the last pass started.
ShutdownIsClean ==
    phase = "signalled" ~> phase = "stopped" /\ Alive = {}

\* Every variable of the supervisor stays in the set of its values.
SupTypeOK ==
    /\ TypeOK
    /\ phase \in {"running", "signalled", "grace", "stopped"}
    /\ todo \in SUBSET Pipelines /\ lag \in 0..MaxLag
    /\ child \in [Pipelines -> {"none", "alive", "dead"}]
    /\ wait \in [Pipelines -> Nat] /\ delay \in [Pipelines -> Nat \ {0}]
    /\ up \in [Pipelines -> Int] /\ since \in [Pipelines -> Nat]
    /\ streak \in [Pipelines -> 0..2]

\* The strengthening of CrashLoopIsThrottled that every step keeps: as of the
\* sample, what has passed and what is left of the delay add up, and the next
\* delay is the one the streak has come to.
Owed(p) == IF child[p] = "none" THEN wait[p] ELSE 0

ThrottleInv ==
    \A p \in Pipelines :
        /\ streak[p] # 0 => since[p] - lag + Owed(p) >= Earliest[streak[p]]
        /\ streak[p] = 0 => delay[p] = RestartBase
        /\ streak[p] = 1 => delay[p] = Least(RestartCap, 2 * RestartBase)

\* What never happens after the stop that ShutdownIsClean promises: a worker in
\* its loop, be it one that was still importing when SIGTERM went round, or one
\* the last pass started.
NobodyIsLeft == phase = "stopped" => \A p \in Pipelines : pc[p] = "down"

\* The strengthening of NobodyIsLeft: only a live child runs the loop, and a
\* stopped supervisor has none and starts none.
ChildrenInv ==
    /\ \A p \in Pipelines : pc[p] # "down" => child[p] = "alive"
    /\ phase = "stopped" => Live = {}
=============================================================================
