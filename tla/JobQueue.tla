------------------------------ MODULE JobQueue ------------------------------
(***************************************************************************)
(* The processing_jobs queue (database/repos/jobs.py) and the per-pipeline *)
(* worker loop that drains it (processing/worker.py), restarted by the     *)
(* supervisor.  Exactly one worker exists per pipeline: a pipeline's       *)
(* worker is one process slot that is either down or somewhere in its      *)
(* discover / drain / wait loop.                                           *)
(*                                                                         *)
(* An item is one dedup key: the work of one pipeline on one session.  The *)
(* partial unique index on (pipeline, dedup_key) admits one row per item,  *)
(* so the table is a function of the item; row.gen stands for the row's    *)
(* uuid, fresh at every insert.                                            *)
(***************************************************************************)
EXTENDS Integers, FiniteSets

CONSTANTS
    Items, Sessions, Pipelines,
    SessionOf,          \* processing_jobs.session_id of an item
    PipelineOf,         \* processing_jobs.pipeline of an item
    Priority,           \* processing_jobs.priority of an item
    FollowUp,           \* the item its success callback enqueues, or NoItem
    NoItem,
    MaxAttempts,        \* settings.max_attempts, stamped at enqueue
    DiscoveryBatch,     \* settings.discovery_batch
    BackoffBase, BackoffCap,   \* settings.retry_backoff_*_seconds
    UnavailableDelay,   \* settings.unavailable_retry_seconds
    Horizon,            \* bound: the clock stops here
    MaxRows,            \* bound: rows ever inserted for one item
    Stops,              \* bound: crashes and terminations of workers
    Outages,            \* bound: ServiceUnavailable outcomes
    DbFailures          \* bound: transactions the database fails

ASSUME JobQueueAssumption ==
    /\ SessionOf \in [Items -> Sessions]
    /\ PipelineOf \in [Items -> Pipelines]
    /\ Priority \in [Items -> Int]
    /\ FollowUp \in [Items -> Items \union {NoItem}]
    /\ NoItem \notin Items
    /\ \A i \in Items : FollowUp[i] \in Items => SessionOf[FollowUp[i]] = SessionOf[i]
    /\ MaxAttempts \in Nat \ {0}
    /\ DiscoveryBatch \in Nat \ {0}
    /\ BackoffBase \in Nat /\ BackoffCap \in Nat /\ UnavailableDelay \in Nat
    /\ Horizon \in Nat /\ MaxRows \in Nat
    /\ Stops \in Nat /\ Outages \in Nat /\ DbFailures \in Nat

\* A follow-up's dedup key names the job it follows.
ASSUME FollowUpAssumption ==
    \A i, j \in Items : FollowUp[i] # NoItem /\ FollowUp[i] = FollowUp[j] => i = j

VARIABLES
    session,   \* recording_sessions: "open", "ended" or "gone" (deleted)
    row,       \* processing_jobs, one row or none per item
    now,       \* the database clock
    pc,        \* where each pipeline's worker is in its loop
    stop,      \* the stop event (SIGTERM) of each worker's process
    found,     \* the items its discovery query returned
    held,      \* the Job its claim returned
    budget,    \* what is left of the bounds on the environment
    faults     \* history: runs of the current row that ended in a fault

vars == <<session, row, now, pc, stop, found, held, budget, faults>>

Status == {"absent", "queued", "running", "succeeded", "dead"}

\* The states of _worker_main, _discover, _drain and _run_one.  "run" is
\* process() itself; "done", "raised" and "unavailable" are its three
\* outcomes, before the transaction that records them.
Pc == {"down", "idle", "insert", "drain", "run", "done", "raised",
       "unavailable", "callback", "sleep"}

Holding == {"run", "done", "raised", "unavailable", "callback"}

\* No row under this key; gen remembers the last one, so that a stale
\* reference to it never matches a newer row.
Deleted(r) == [r EXCEPT !.status = "absent", !.attempts = 0, !.runAt = 0]
NoJob == [item |-> NoItem, gen |-> 0, attempts |-> 0]

Chained == {i \in Items : \E j \in Items : FollowUp[j] = i}

\* backoff(): base doubling per attempt, capped.
backoff(attempts) ==
    LET delay == BackoffBase * 2 ^ (attempts - 1)
    IN  IF delay \in 0..BackoffCap THEN delay ELSE BackoffCap

\* The job the worker of p believes it is running, and whether the row it
\* claimed is still there: WHERE id = %s AND status = 'running'.
Claimed(p, i) ==
    /\ held[p].item = i
    /\ row[i].gen = held[p].gen
    /\ row[i].status = "running"

Runnable(p) ==
    {i \in Items : /\ PipelineOf[i] = p
                   /\ row[i].status = "queued"
                   /\ row[i].runAt <= now}

\* A pipeline's own query: ended sessions it has no job for, whatever the
\* status (PipelineDiscovery.ended_sessions_without).
Discoverable(p) ==
    {i \in Items \ Chained : /\ PipelineOf[i] = p
                             /\ session[SessionOf[i]] = "ended"
                             /\ row[i].status = "absent"}

Inserted(i) ==
    [status |-> "queued", attempts |-> 0, runAt |-> now, gen |-> row[i].gen + 1]

----------------------------------------------------------------------------
Init ==
    /\ session = [s \in Sessions |-> "open"]
    /\ row = [i \in Items |->
                [status |-> "absent", attempts |-> 0, runAt |-> 0, gen |-> 0]]
    /\ now = 0
    /\ pc = [p \in Pipelines |-> "down"]
    /\ stop = [p \in Pipelines |-> FALSE]
    /\ found = [p \in Pipelines |-> {}]
    /\ held = [p \in Pipelines |-> NoJob]
    /\ budget = [stops |-> Stops, outages |-> Outages, db |-> DbFailures]
    /\ faults = [i \in Items |-> 0]

----------------------------------------------------------------------------
(* The environment: sessions, the clock, curation, signals.                *)

EndSession(s) ==
    /\ session[s] = "open"
    /\ session' = [session EXCEPT ![s] = "ended"]
    /\ UNCHANGED <<row, now, pc, stop, found, held, budget, faults>>

\* ON DELETE CASCADE takes the session's jobs, running ones included.
DeleteSession(s) ==
    /\ session[s] # "gone"
    /\ session' = [session EXCEPT ![s] = "gone"]
    /\ row' = [i \in Items |->
                 IF SessionOf[i] = s
                 THEN Deleted(row[i])
                 ELSE row[i]]
    /\ faults' = [i \in Items |-> IF SessionOf[i] = s THEN 0 ELSE faults[i]]
    /\ UNCHANGED <<now, pc, stop, found, held, budget>>

\* delete_for_session: redo a tier.  Only pipelines nothing is chained to
\* are ever redone.
Redo(i) ==
    /\ row[i].status # "absent"
    /\ row[i].gen < MaxRows
    /\ FollowUp[i] = NoItem /\ i \notin Chained
    /\ row' = [row EXCEPT ![i] = Deleted(@)]
    /\ faults' = [faults EXCEPT ![i] = 0]
    /\ UNCHANGED <<session, now, pc, stop, found, held, budget>>

\* The clock is only ever compared with run_at, so it need only move while
\* some queued row is not due yet.
Tick ==
    /\ now < Horizon
    /\ \E i \in Items : row[i].status = "queued" /\ row[i].runAt > now
    /\ now' = now + 1
    /\ UNCHANGED <<session, row, pc, stop, found, held, budget, faults>>

\* SIGTERM: the worker finishes what it is doing and leaves its loops.  Its
\* handler is installed before setup() and the recovery at boot.
Terminate(p) ==
    /\ ~stop[p]
    /\ budget.stops > 0
    /\ stop' = [stop EXCEPT ![p] = TRUE]
    /\ budget' = [budget EXCEPT !.stops = @ - 1]
    /\ UNCHANGED <<session, row, now, pc, found, held, faults>>

\* The process dies where it stands: SIGKILL after the supervisor's grace,
\* out of memory, a native crash in a model.
Die(p) ==
    /\ pc' = [pc EXCEPT ![p] = "down"]
    /\ found' = [found EXCEPT ![p] = {}]
    /\ held' = [held EXCEPT ![p] = NoJob]
    /\ faults' = [i \in Items |->
                    IF pc[p] \in {"run", "done", "unavailable"} /\ Claimed(p, i)
                    THEN faults[i] + 1 ELSE faults[i]]
    /\ stop' = [stop EXCEPT ![p] = FALSE]
    /\ UNCHANGED <<session, row, now>>

Crash(p) ==
    /\ pc[p] # "down"
    /\ budget.stops > 0
    /\ Die(p)
    /\ budget' = [budget EXCEPT !.stops = @ - 1]

----------------------------------------------------------------------------
(* The worker loop.                                                        *)

\* requeue_running: a dead row gets a fresh attempt budget, an interrupted one
\* keeps the attempt it was charged.
Requeued(r) ==
    [r EXCEPT !.status = "queued", !.runAt = now,
              !.attempts = IF r.status = "dead" THEN 0 ELSE @]

\* Variants: recovery that does not ask whose the row is, or forgets the
\* interrupted ones.
OrphanOfAnyone(p, i) == row[i].status \in {"running", "dead"}
OrphanIfDead(p, i) == PipelineOf[i] = p /\ row[i].status = "dead"

\* One worker per pipeline: a running row at boot is its predecessor's.
Orphan(p, i) == PipelineOf[i] = p /\ row[i].status \in {"running", "dead"}

\* The supervisor starts the child; before its loop the worker requeues its
\* predecessor's running and dead rows.
Boot(p) ==
    /\ pc[p] = "down"
    /\ row' = [i \in Items |-> IF Orphan(p, i) THEN Requeued(row[i]) ELSE row[i]]
    /\ faults' = [i \in Items |->
                    IF Orphan(p, i) /\ row[i].status = "dead" THEN 0 ELSE faults[i]]
    /\ pc' = [pc EXCEPT ![p] = "idle"]
    /\ UNCHANGED <<session, now, stop, found, held, budget>>

\* Pipeline.discover: a read in a transaction of its own.
Discover(p) ==
    /\ pc[p] = "idle" /\ ~stop[p]
    /\ \E S \in SUBSET Discoverable(p) :
          /\ Cardinality(S) <= DiscoveryBatch
          /\ S # Discoverable(p) => Cardinality(S) = DiscoveryBatch
          /\ found' = [found EXCEPT ![p] = S]
          /\ pc' = [pc EXCEPT ![p] = IF S = {} THEN "drain" ELSE "insert"]
    /\ UNCHANGED <<session, row, now, stop, held, budget, faults>>

\* enqueue_many: one statement, ON CONFLICT DO NOTHING.  A session deleted
\* since the query violates the foreign key and fails the whole batch.
EnqueueMany(p) ==
    /\ pc[p] = "insert"
    /\ IF \E i \in found[p] : session[SessionOf[i]] = "gone"
       THEN /\ pc' = [pc EXCEPT ![p] = "sleep"]
            /\ row' = row
       ELSE /\ pc' = [pc EXCEPT ![p] = "drain"]
            /\ row' = [i \in Items |->
                         IF i \in found[p] /\ row[i].status = "absent"
                         THEN Inserted(i) ELSE row[i]]
    /\ found' = [found EXCEPT ![p] = {}]
    /\ UNCHANGED <<session, now, stop, held, budget, faults>>

\* The claim: highest priority, then oldest run_at; the uuid that breaks
\* the remaining ties is arbitrary.  The attempt is charged here.
Claim(p, i) ==
    /\ pc[p] = "drain" /\ ~stop[p]
    /\ i \in Runnable(p)
    /\ \A j \in Runnable(p) :
          \/ Priority[i] > Priority[j]
          \/ Priority[i] = Priority[j] /\ row[i].runAt <= row[j].runAt
    /\ row' = [row EXCEPT ![i].status = "running", ![i].attempts = @ + 1]
    /\ held' = [held EXCEPT ![p] = [item |-> i, gen |-> row[i].gen,
                                    attempts |-> row[i].attempts + 1]]
    /\ pc' = [pc EXCEPT ![p] = "run"]
    /\ UNCHANGED <<session, now, stop, found, budget, faults>>

\* The queue is empty: the pass is over.
Drained(p) ==
    /\ pc[p] = "drain" /\ ~stop[p]
    /\ Runnable(p) = {}
    /\ pc' = [pc EXCEPT ![p] = "sleep"]
    /\ UNCHANGED <<session, row, now, stop, found, held, budget, faults>>

\* The poll interval ran out, or a NOTIFY came.
Wake(p) ==
    /\ pc[p] = "sleep"
    /\ pc' = [pc EXCEPT ![p] = "idle"]
    /\ UNCHANGED <<session, row, now, stop, found, held, budget, faults>>

\* A set stop event ends every loop at its head; the next process has one of
\* its own.
Exit(p) ==
    /\ stop[p] /\ pc[p] \in {"idle", "drain"}
    /\ pc' = [pc EXCEPT ![p] = "down"]
    /\ stop' = [stop EXCEPT ![p] = FALSE]
    /\ UNCHANGED <<session, row, now, found, held, budget, faults>>

Return(p) ==
    /\ pc[p] = "run"
    /\ pc' = [pc EXCEPT ![p] = "done"]
    /\ UNCHANGED <<session, row, now, stop, found, held, budget, faults>>

Raise(p) ==
    /\ pc[p] = "run"
    /\ pc' = [pc EXCEPT ![p] = "raised"]
    /\ faults' = [i \in Items |->
                    IF Claimed(p, i) THEN faults[i] + 1 ELSE faults[i]]
    /\ UNCHANGED <<session, row, now, stop, found, held, budget>>

Unavailable(p) ==
    /\ pc[p] = "run"
    /\ budget.outages > 0
    /\ pc' = [pc EXCEPT ![p] = "unavailable"]
    /\ budget' = [budget EXCEPT !.outages = @ - 1]
    /\ UNCHANGED <<session, row, now, stop, found, held, faults>>

\* The row as each outcome's transaction leaves it.
Succeeded(r) == [r EXCEPT !.status = "succeeded"]

Failed(p, r) ==
    IF held[p].attempts >= MaxAttempts
    THEN [r EXCEPT !.status = "dead"]
    ELSE [r EXCEPT !.status = "queued",
                   !.runAt = now + backoff(held[p].attempts)]

\* Variant: the attempt is not refunded.
RefundForgotten(r) == [r EXCEPT !.status = "queued", !.runAt = now + UnavailableDelay]

\* retry(count_attempt=False): greatest(attempts - 1, 0).
Refunded(r) ==
    [r EXCEPT !.status = "queued", !.runAt = now + UnavailableDelay,
              !.attempts = IF @ > 0 THEN @ - 1 ELSE 0]

\* Variant: an outage is a failure like any other.
RecordedAlike(p, r) == IF pc[p] = "done" THEN Succeeded(r) ELSE Failed(p, r)

Recorded(p, r) ==
    IF pc[p] = "done" THEN Succeeded(r)
    ELSE IF pc[p] = "raised" THEN Failed(p, r)
    ELSE Refunded(r)

Outcome == {"done", "raised", "unavailable"}

\* Variant: the callback follows the run, not the recorded success.
FinishAnyway(p) ==
    /\ pc[p] \in Outcome
    /\ row' = [i \in Items |->
                 IF Claimed(p, i) THEN Recorded(p, row[i]) ELSE row[i]]
    /\ pc' = [pc EXCEPT ![p] = "callback"]
    /\ UNCHANGED <<session, now, stop, found, held, budget, faults>>

\* succeed / retry / mark_dead commit, if the row is still there running.
\* The callback follows only a success that found its row.
Finish(p) ==
    /\ pc[p] \in Outcome
    /\ row' = [i \in Items |->
                 IF Claimed(p, i) THEN Recorded(p, row[i]) ELSE row[i]]
    /\ IF pc[p] = "done" /\ Claimed(p, held[p].item)
       THEN /\ pc' = [pc EXCEPT ![p] = "callback"]
            /\ held' = held
       ELSE /\ pc' = [pc EXCEPT ![p] = "drain"]
            /\ held' = [held EXCEPT ![p] = NoJob]
    /\ UNCHANGED <<session, now, stop, found, budget, faults>>

\* The outcome's transaction raises.  Nothing was recorded, or it was and
\* only the reply was lost: either way the pass fails and the worker sleeps.
FinishFails(p) ==
    /\ pc[p] \in Outcome
    /\ budget.db > 0
    /\ \/ /\ row' = row
          /\ faults' = [i \in Items |->
                          IF Claimed(p, i) /\ pc[p] # "raised"
                          THEN faults[i] + 1 ELSE faults[i]]
       \/ /\ row' = [i \in Items |->
                       IF Claimed(p, i) THEN Recorded(p, row[i]) ELSE row[i]]
          /\ faults' = faults
    /\ pc' = [pc EXCEPT ![p] = "sleep"]
    /\ held' = [held EXCEPT ![p] = NoJob]
    /\ budget' = [budget EXCEPT !.db = @ - 1]
    /\ UNCHANGED <<session, now, stop, found>>

\* Discovery, enqueue or claim raises: nothing is written, the pass fails.  A
\* commit that landed all the same comes to the step taken and the pass failing
\* after it (for a claim: Claim, Return, FinishFails).
PassFails(p) ==
    /\ pc[p] \in {"idle", "insert", "drain"}
    /\ budget.db > 0
    /\ pc' = [pc EXCEPT ![p] = "sleep"]
    /\ found' = [found EXCEPT ![p] = {}]
    /\ budget' = [budget EXCEPT !.db = @ - 1]
    /\ UNCHANGED <<session, row, now, stop, held, faults>>

\* maybe_callback: enqueue_follow_up(target), whose dedup key names the
\* parent job; any exception is swallowed, so it may also do nothing.
Callback(p) ==
    /\ pc[p] = "callback"
    /\ \/ row' = row
       \/ LET target == FollowUp[held[p].item]
          IN  /\ target # NoItem
              /\ row[target].status = "absent"
              /\ session[SessionOf[target]] # "gone"
              /\ row' = [row EXCEPT ![target] = Inserted(target)]
    /\ pc' = [pc EXCEPT ![p] = "drain"]
    /\ held' = [held EXCEPT ![p] = NoJob]
    /\ UNCHANGED <<session, now, stop, found, budget, faults>>

----------------------------------------------------------------------------
\* What the worker's own loop does when nothing goes wrong under it.
Step(p) ==
    \/ Boot(p) \/ Discover(p) \/ EnqueueMany(p)
    \/ (\E i \in Items : Claim(p, i)) \/ Drained(p)
    \/ Return(p) \/ Raise(p) \/ Unavailable(p)
    \/ Finish(p) \/ Callback(p) \/ Wake(p) \/ Exit(p)

Next ==
    \/ \E p \in Pipelines :
          Step(p) \/ Terminate(p) \/ Crash(p) \/ FinishFails(p) \/ PassFails(p)
    \/ \E s \in Sessions : EndSession(s) \/ DeleteSession(s)
    \/ \E i \in Items : Redo(i)
    \/ Tick

Spec == Init /\ [][Next]_vars

----------------------------------------------------------------------------
(* Properties.                                                             *)

RowType == [status : Status, attempts : Nat, runAt : Nat, gen : Nat]
JobType == [item : Items \union {NoItem}, gen : Nat, attempts : Nat]

\* Every variable stays in the set of values the tables and the worker's
\* locals can hold.
TypeOK ==
    /\ session \in [Sessions -> {"open", "ended", "gone"}]
    /\ row \in [Items -> RowType]
    /\ now \in Nat
    /\ pc \in [Pipelines -> Pc]
    /\ stop \in [Pipelines -> BOOLEAN]
    /\ found \in [Pipelines -> SUBSET Items]
    /\ held \in [Pipelines -> JobType]
    /\ budget \in [stops : Nat, outages : Nat, db : Nat]
    /\ faults \in [Items -> Nat]

\* A live run and its row agree: whatever else the queue does - another
\* pipeline's recovery, a redo, a deletion - a row whose claimed incarnation
\* still exists stays running until its own worker records the outcome.
ClaimIsExclusive ==
    \A p \in Pipelines, i \in Items :
        /\ pc[p] \in Outcome \union {"run"}
        /\ held[p].item = i
        /\ row[i].gen = held[p].gen
        /\ row[i].status # "absent"
        => row[i].status = "running" /\ row[i].attempts = held[p].attempts

\* A run that may still succeed, and is charged an attempt for now.
InFlight(i) ==
    \E p \in Pipelines : Claimed(p, i) /\ pc[p] \in {"run", "done", "unavailable"}

\* claim() charges an attempt and retry(count_attempt=False) refunds it:
\* attempts is exactly the number of runs of this row that ended in a fault
\* (an exception, a crash, a lost transaction), plus the run that is in
\* flight or that succeeded.  No outage is ever charged.
AttemptsExact ==
    \A i \in Items :
        row[i].attempts =
            faults[i] + (IF row[i].status = "succeeded" \/ InFlight(i) THEN 1 ELSE 0)

\* ServiceUnavailable never dead-letters: a dead row has been through
\* MaxAttempts faults of its own, however many outages it met.
DeadIsEarned ==
    \A i \in Items : row[i].status = "dead" => faults[i] >= MaxAttempts

\* What becomes of an item as JobLifecycle sees it: a running row is worked
\* on while the worker that claimed it holds it, and interrupted afterwards.
lifecycle ==
    [i \in Items |->
        CASE row[i].status = "absent" -> "none"
          [] row[i].status = "queued" -> "waiting"
          [] row[i].status = "running" ->
                IF \E p \in Pipelines : Claimed(p, i) THEN "working" ELSE "interrupted"
          [] OTHER -> row[i].status]

Lifecycle == INSTANCE JobLifecycle WITH job <- lifecycle

\* The queue implements JobLifecycle: no claim, recovery, retry, callback, redo
\* or deletion, and no crash or failed transaction between any two of their
\* steps, moves a job in a way the abstract specification does not know.
ImplementsLifecycle == Lifecycle!Spec

\* The strengthening of AttemptsExact and DeadIsEarned that every step keeps:
\* a worker holds a job of its own pipeline exactly while it runs it, and
\* never one newer than the row.
HolderOK ==
    /\ \A p \in Pipelines :
          /\ pc[p] \in Holding => /\ held[p].item \in Items
                                 /\ PipelineOf[held[p].item] = p
          /\ pc[p] \notin Holding => held[p] = NoJob
    /\ \A p \in Pipelines, i \in Items :
          held[p].item = i => held[p].gen <= row[i].gen
    /\ \A i \in Items : row[i].status = "absent" => row[i].attempts = 0

LedgerInv == HolderOK /\ ClaimIsExclusive /\ AttemptsExact /\ DeadIsEarned

\* What ImplementsLifecycle needs besides: discovery never finds a follow-up,
\* and a worker about to run a callback leaves behind a success, which only a
\* redo or a deletion takes away, and no redo if a follow-up is due.
CallbackIsDue(p) ==
    LET i == held[p].item
    IN  /\ row[i].gen = held[p].gen => row[i].status \in {"succeeded", "absent"}
        /\ FollowUp[i] # NoItem /\ session[SessionOf[i]] # "gone"
              => row[i].status = "succeeded"

FollowInv ==
    \A p \in Pipelines :
        /\ found[p] \subseteq Items \ Chained
        /\ pc[p] = "callback" => CallbackIsDue(p)
=============================================================================
