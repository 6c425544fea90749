--------------------------- MODULE JobQueueProofs ---------------------------
(***************************************************************************)
(* Proofs about JobQueue, alone and under the supervisor, for every number *)
(* of pipelines, items, sessions, attempts, faults, delays and restarts:   *)
(* type correctness, the exactness of the attempt ledger, that only a      *)
(* job's own faults ever dead-letter it, that the queue implements         *)
(* JobLifecycle; and of SupervisedWorkers, that a crash loop is throttled  *)
(* and a supervisor that has stopped leaves no worker behind.              *)
(***************************************************************************)
EXTENDS SupervisedWorkers, TLAPS

\* The values the clock bound and the delays let run_at take.
LEMMA BackoffType == \A n \in Nat : backoff(n) \in Nat
BY JobQueueAssumption DEF backoff

LEMMA InitType == Init => TypeOK
BY JobQueueAssumption DEF Init, TypeOK, RowType, JobType, Status, Pc, NoJob

\* What each update of a row yields is again a row.
LEMMA RowUpdates ==
  ASSUME TypeOK, NEW r \in RowType
  PROVE  /\ Deleted(r) \in RowType
         /\ Requeued(r) \in RowType
         /\ \A i \in Items : Inserted(i) \in RowType
         /\ \A p \in Pipelines : Recorded(p, r) \in RowType
<1>1. Deleted(r) \in RowType
  BY DEF Deleted, RowType, Status
<1>2. ASSUME NEW i \in Items PROVE Inserted(i) \in RowType
  BY DEF Inserted, RowType, Status, TypeOK
<1>3. Succeeded(r) \in RowType
  BY DEF Succeeded, RowType, Status
<1>4. ASSUME NEW p \in Pipelines PROVE Failed(p, r) \in RowType
  <2>1. now + backoff(held[p].attempts) \in Nat
    BY BackoffType DEF TypeOK, JobType
  <2> QED BY <2>1 DEF Failed, RowType, Status
<1>5. Refunded(r) \in RowType
  <2>1. now + UnavailableDelay \in Nat
    BY JobQueueAssumption DEF TypeOK
  <2>2. (IF r.attempts > 0 THEN r.attempts - 1 ELSE 0) \in Nat
    BY DEF RowType
  <2>3. Refunded(r) = [r EXCEPT !.status = "queued", !.runAt = now + UnavailableDelay,
                                !.attempts = IF r.attempts > 0 THEN r.attempts - 1 ELSE 0]
    BY DEF Refunded
  <2> QED BY <2>1, <2>2, <2>3 DEF RowType, Status
<1>6. Requeued(r) \in RowType
  BY DEF Requeued, RowType, Status, TypeOK
<1> QED BY <1>1, <1>2, <1>3, <1>4, <1>5, <1>6 DEF Recorded

\* Every step keeps the types: one case per action.
LEMMA StepType == TypeOK /\ [Next]_vars => TypeOK'
<1> SUFFICES ASSUME TypeOK, [Next]_vars PROVE TypeOK'
  OBVIOUS
<1>1. ASSUME NEW s \in Sessions, EndSession(s) PROVE TypeOK'
  BY <1>1 DEF EndSession, TypeOK
<1>2. ASSUME NEW s \in Sessions, DeleteSession(s) PROVE TypeOK'
  <2>1. \A i \in Items : row[i] \in RowType /\ Deleted(row[i]) \in RowType
    BY <1>2, RowUpdates DEF DeleteSession, TypeOK
  <2>2. row' \in [Items -> RowType]
    BY <1>2, <2>1 DEF DeleteSession
  <2> QED BY <1>2, <2>2 DEF DeleteSession, TypeOK
<1>3. ASSUME NEW i \in Items, Redo(i) PROVE TypeOK'
  <2>1. Deleted(row[i]) \in RowType
    BY <1>3, RowUpdates DEF TypeOK
  <2>2. row' \in [Items -> RowType]
    BY <1>3, <2>1 DEF Redo, TypeOK
  <2> QED BY <1>3, <2>2 DEF Redo, TypeOK
<1>4. CASE Tick
  BY <1>4 DEF Tick, TypeOK
<1>5. ASSUME NEW p \in Pipelines, Terminate(p) PROVE TypeOK'
  BY <1>5 DEF Terminate, TypeOK
<1>6. ASSUME NEW p \in Pipelines, Crash(p) PROVE TypeOK'
  <2>1. NoJob \in JobType
    BY DEF NoJob, JobType
  <2>2. budget' \in [stops : Nat, outages : Nat, db : Nat]
    BY <1>6 DEF Crash, Die, TypeOK
  <2> QED BY <1>6, <2>1, <2>2 DEF Crash, Die, TypeOK, Pc
<1>7. ASSUME NEW p \in Pipelines, Boot(p) PROVE TypeOK'
  <2>1. \A i \in Items : row[i] \in RowType /\ Requeued(row[i]) \in RowType
    BY RowUpdates DEF TypeOK
  <2>2. row' \in [Items -> RowType]
    BY <1>7, <2>1 DEF Boot, Orphan
  <2> QED BY <1>7, <2>2 DEF Boot, Orphan, TypeOK, Pc
<1>8. ASSUME NEW p \in Pipelines, Discover(p) PROVE TypeOK'
  BY <1>8 DEF Discover, Discoverable, TypeOK, Pc
<1>9. ASSUME NEW p \in Pipelines, EnqueueMany(p) PROVE TypeOK'
  <2>1. \A i \in Items : row[i] \in RowType /\ Inserted(i) \in RowType
    BY RowUpdates DEF TypeOK
  <2>2. row' \in [Items -> RowType]
    BY <1>9, <2>1 DEF EnqueueMany, TypeOK
  <2> QED BY <1>9, <2>2 DEF EnqueueMany, TypeOK, Pc
<1>10. ASSUME NEW p \in Pipelines, NEW i \in Items, Claim(p, i) PROVE TypeOK'
  <2>1. row' \in [Items -> RowType]
    BY <1>10 DEF Claim, TypeOK, RowType, Status
  <2>2. held' \in [Pipelines -> JobType]
    BY <1>10 DEF Claim, TypeOK, RowType, JobType
  <2> QED BY <1>10, <2>1, <2>2 DEF Claim, TypeOK, Pc
<1>11. ASSUME NEW p \in Pipelines, Drained(p) PROVE TypeOK'
  BY <1>11 DEF Drained, TypeOK, Pc
<1>12. ASSUME NEW p \in Pipelines, Return(p) PROVE TypeOK'
  BY <1>12 DEF Return, TypeOK, Pc
<1>13. ASSUME NEW p \in Pipelines, Raise(p) PROVE TypeOK'
  BY <1>13 DEF Raise, TypeOK, Pc
<1>14. ASSUME NEW p \in Pipelines, Unavailable(p) PROVE TypeOK'
  BY <1>14 DEF Unavailable, TypeOK, Pc
<1>15. ASSUME NEW p \in Pipelines, Finish(p) PROVE TypeOK'
  <2>0. \A i \in Items : row[i] \in RowType /\ Recorded(p, row[i]) \in RowType
    BY RowUpdates DEF TypeOK
  <2>1. row' \in [Items -> RowType]
    BY <1>15, <2>0 DEF Finish, TypeOK
  <2>2. NoJob \in JobType
    BY DEF NoJob, JobType
  <2> QED BY <1>15, <2>1, <2>2 DEF Finish, TypeOK, Pc
<1>16. ASSUME NEW p \in Pipelines, FinishFails(p) PROVE TypeOK'
  <2>0. \A i \in Items : row[i] \in RowType /\ Recorded(p, row[i]) \in RowType
    BY RowUpdates DEF TypeOK
  <2>1. row' \in [Items -> RowType]
    BY <1>16, <2>0 DEF FinishFails, TypeOK
  <2>2. NoJob \in JobType
    BY DEF NoJob, JobType
  <2>3. faults' \in [Items -> Nat]
    BY <1>16 DEF FinishFails, TypeOK
  <2>4. budget' \in [stops : Nat, outages : Nat, db : Nat]
    BY <1>16 DEF FinishFails, TypeOK
  <2> QED BY <1>16, <2>1, <2>2, <2>3, <2>4 DEF FinishFails, TypeOK, Pc
<1>17. ASSUME NEW p \in Pipelines, PassFails(p) PROVE TypeOK'
  BY <1>17 DEF PassFails, TypeOK, Pc
<1>18. ASSUME NEW p \in Pipelines, Callback(p) PROVE TypeOK'
  <2>1. row' \in [Items -> RowType]
    <3>1. \A i \in Items : row[i] \in RowType /\ Inserted(i) \in RowType
      BY RowUpdates DEF TypeOK
    <3> DEFINE target == FollowUp[held[p].item]
    <3>2. CASE target \in Items
      BY <1>18, <3>1, <3>2 DEF Callback, TypeOK
    <3>3. CASE target \notin Items
      BY <1>18, <3>1, <3>3 DEF Callback, TypeOK
    <3> QED BY <3>2, <3>3
  <2>2. NoJob \in JobType
    BY DEF NoJob, JobType
  <2> QED BY <1>18, <2>1, <2>2 DEF Callback, TypeOK, Pc
<1>19. ASSUME NEW p \in Pipelines, Wake(p) PROVE TypeOK'
  BY <1>19 DEF Wake, TypeOK, Pc
<1>20. ASSUME NEW p \in Pipelines, Exit(p) PROVE TypeOK'
  BY <1>20 DEF Exit, TypeOK, Pc
<1>21. CASE UNCHANGED vars
  BY <1>21 DEF vars, TypeOK
<1> QED
  BY <1>1, <1>2, <1>3, <1>4, <1>5, <1>6, <1>7, <1>8, <1>9, <1>10, <1>11, <1>12,
     <1>13, <1>14, <1>15, <1>16, <1>17, <1>18, <1>19, <1>20, <1>21
     DEF Next, Step

\* What can happen to the table and the workers, with a supervisor over them
\* or not: a step of the queue, the death of a worker whoever kills it, or a
\* signal.  The invariants below are kept by all of it.
AnyStep ==
    \/ [Next]_vars
    \/ \E p \in Pipelines : Die(p)
    \/ UNCHANGED <<session, row, now, pc, found, held, faults>>

\* Every variable keeps its type in every reachable state.
THEOREM TypeCorrect == Spec => []TypeOK
<1>1. QED BY InitType, StepType, PTL DEF Spec

----------------------------------------------------------------------------
(* The attempt ledger.                                                     *)

\* Under HolderOK only the worker of an item's own pipeline can be running it.
Flying(i) ==
    /\ Claimed(PipelineOf[i], i)
    /\ pc[PipelineOf[i]] \in {"run", "done", "unavailable"}

LEMMA FlyingIsInFlight ==
  ASSUME TypeOK, HolderOK
  PROVE  \A i \in Items : InFlight(i) <=> Flying(i)
<1> SUFFICES ASSUME NEW i \in Items PROVE InFlight(i) <=> Flying(i)
  OBVIOUS
<1>1. PipelineOf[i] \in Pipelines
  BY JobQueueAssumption
<1>2. ASSUME NEW p \in Pipelines, Claimed(p, i), pc[p] \in {"run", "done", "unavailable"}
      PROVE  p = PipelineOf[i]
  BY <1>2 DEF HolderOK, Claimed, Holding
<1> QED BY <1>1, <1>2 DEF InFlight, Flying

LEMMA LedgerInit == Init => LedgerInv
<1> SUFFICES ASSUME Init PROVE LedgerInv
  OBVIOUS
<1>1. HolderOK
  BY JobQueueAssumption DEF Init, HolderOK, Holding, NoJob
<1>2. ClaimIsExclusive
  BY DEF Init, ClaimIsExclusive, Outcome
<1>3. AttemptsExact
  BY DEF Init, AttemptsExact, InFlight, Claimed
<1>4. DeadIsEarned
  BY DEF Init, DeadIsEarned
<1> QED BY <1>1, <1>2, <1>3, <1>4 DEF LedgerInv

\* A step that touches no row, no held job and no ledger, and moves workers
\* only between states in which they hold nothing, cannot disturb it.
LEMMA LedgerFrame ==
  ASSUME TypeOK, TypeOK', LedgerInv,
         UNCHANGED <<row, held, faults>>,
         \A p \in Pipelines : \/ pc'[p] = pc[p]
                              \/ pc[p] \notin Holding /\ pc'[p] \notin Holding
  PROVE  LedgerInv'
<1>1. HolderOK'
  BY DEF LedgerInv, HolderOK
<1>2. \A p \in Pipelines : pc[p] \in Holding <=> pc'[p] \in Holding
  OBVIOUS
<1>3. ClaimIsExclusive'
  BY DEF LedgerInv, ClaimIsExclusive, Outcome, Holding
<1>4. \A i \in Items : InFlight(i)' <=> InFlight(i)
  BY DEF InFlight, Claimed, Holding
<1>5. AttemptsExact'
  BY <1>4 DEF LedgerInv, AttemptsExact
<1>6. DeadIsEarned'
  BY DEF LedgerInv, DeadIsEarned
<1> QED BY <1>1, <1>3, <1>5, <1>6 DEF LedgerInv

\* The attempt a row in flight or succeeded is charged beyond its faults.
Charge(i) == IF row[i].status = "succeeded" \/ Flying(i) THEN 1 ELSE 0

LEMMA LedgerParts ==
  ASSUME TypeOK, HolderOK
  PROVE  AttemptsExact <=> \A i \in Items : row[i].attempts = faults[i] + Charge(i)
BY FlyingIsInFlight DEF AttemptsExact, Charge

\* The effect of each update on the fields the ledger reads.
LEMMA RowEffects ==
  ASSUME TypeOK, NEW r \in RowType
  PROVE  /\ Deleted(r).status = "absent" /\ Deleted(r).attempts = 0
         /\ Deleted(r).gen = r.gen
         /\ Requeued(r).status = "queued" /\ Requeued(r).gen = r.gen
         /\ Requeued(r).attempts = IF r.status = "dead" THEN 0 ELSE r.attempts
         /\ \A i \in Items : /\ Inserted(i).status = "queued"
                             /\ Inserted(i).attempts = 0
                             /\ Inserted(i).gen = row[i].gen + 1
         /\ \A p \in Pipelines :
               /\ Recorded(p, r).gen = r.gen
               /\ Recorded(p, r).status \in {"succeeded", "dead", "queued"}
               /\ Recorded(p, r).status = "succeeded" <=> pc[p] = "done"
               /\ Recorded(p, r).status = "dead"
                     => pc[p] = "raised" /\ held[p].attempts >= MaxAttempts
               /\ pc[p] \in {"done", "raised"} => Recorded(p, r).attempts = r.attempts
               /\ pc[p] = "unavailable" /\ r.attempts > 0
                     => Recorded(p, r).attempts = r.attempts - 1
<1>1. ASSUME NEW i \in Items
      PROVE  Inserted(i).status = "queued" /\ Inserted(i).attempts = 0
             /\ Inserted(i).gen = row[i].gen + 1
  BY DEF Inserted
<1>2. Deleted(r).status = "absent" /\ Deleted(r).attempts = 0 /\ Deleted(r).gen = r.gen
  BY DEF Deleted, RowType
<1>3. ASSUME NEW p \in Pipelines, pc[p] = "done"
      PROVE  /\ Recorded(p, r).gen = r.gen /\ Recorded(p, r).status = "succeeded"
             /\ Recorded(p, r).attempts = r.attempts
  BY <1>3 DEF Recorded, Succeeded, RowType
<1>4. ASSUME NEW p \in Pipelines, pc[p] = "raised"
      PROVE  /\ Recorded(p, r).gen = r.gen /\ Recorded(p, r).attempts = r.attempts
             /\ \/ Recorded(p, r).status = "dead" /\ held[p].attempts >= MaxAttempts
                \/ Recorded(p, r).status = "queued"
  BY <1>4 DEF Recorded, Failed, RowType
<1>5. ASSUME NEW p \in Pipelines, pc[p] # "done", pc[p] # "raised"
      PROVE  /\ Recorded(p, r).gen = r.gen /\ Recorded(p, r).status = "queued"
             /\ r.attempts > 0 => Recorded(p, r).attempts = r.attempts - 1
  BY <1>5 DEF Recorded, Refunded, RowType
<1>6. /\ Requeued(r).status = "queued" /\ Requeued(r).gen = r.gen
      /\ Requeued(r).attempts = IF r.status = "dead" THEN 0 ELSE r.attempts
  BY DEF Requeued, RowType
<1> QED BY <1>1, <1>2, <1>3, <1>4, <1>5, <1>6

\* A step after which a worker holds nothing, or what it held before, and in
\* which no row goes back to an older incarnation, keeps the holders in order.
LEMMA HolderFrame ==
  ASSUME TypeOK, TypeOK', HolderOK,
         \A p \in Pipelines :
            \/ pc[p] \in Holding /\ pc'[p] \in Holding /\ held'[p] = held[p]
            \/ pc'[p] \notin Holding /\ held'[p] = NoJob,
         \A i \in Items : /\ row[i].gen <= row'[i].gen
                          /\ row'[i].status = "absent" => row'[i].attempts = 0
  PROVE  HolderOK'
<1>1. \A p \in Pipelines : /\ pc'[p] \in Holding => /\ held'[p].item \in Items
                                                   /\ PipelineOf[held'[p].item] = p
                          /\ pc'[p] \notin Holding => held'[p] = NoJob
  BY DEF HolderOK
<1>2. ASSUME NEW p \in Pipelines, NEW i \in Items, held'[p].item = i
      PROVE  held'[p].gen <= row'[i].gen
  <2>1. held'[p] # NoJob
    BY <1>2, JobQueueAssumption DEF NoJob
  <2>2. held'[p] = held[p] /\ held[p].gen <= row[i].gen
    BY <1>2, <2>1 DEF HolderOK
  <2>3. held[p].gen \in Nat /\ row[i].gen \in Nat /\ row'[i].gen \in Nat
    BY DEF TypeOK, JobType, RowType
  <2> QED BY <2>2, <2>3
<1> QED BY <1>1, <1>2 DEF HolderOK

\* Every step keeps the ledger: one case per action that can disturb it.
LEMMA LedgerStep == TypeOK /\ TypeOK' /\ LedgerInv /\ AnyStep => LedgerInv'
<1> SUFFICES ASSUME TypeOK, TypeOK', LedgerInv, AnyStep PROVE LedgerInv'
  OBVIOUS
<1> DEFINE Exact == \A i \in Items : row[i].attempts = faults[i] + Charge(i)
<1>a. HolderOK /\ ClaimIsExclusive /\ DeadIsEarned /\ Exact
  BY LedgerParts DEF LedgerInv
<1>b. ASSUME HolderOK', ClaimIsExclusive', Exact', DeadIsEarned' PROVE LedgerInv'
  <2>1. ASSUME NEW i \in Items, NEW p \in Pipelines, Claimed(p, i)',
               pc'[p] \in {"run", "done", "unavailable"}
        PROVE  p = PipelineOf[i]
    BY <1>b, <2>1 DEF HolderOK, Claimed, Holding
  <2>2. \A i \in Items : PipelineOf[i] \in Pipelines
    BY JobQueueAssumption
  <2>3. \A i \in Items : InFlight(i)' <=> Flying(i)'
    BY <2>1, <2>2 DEF InFlight, Flying
  <2>4. AttemptsExact'
    BY <1>b, <2>3 DEF AttemptsExact, Charge
  <2> QED BY <1>b, <2>4 DEF LedgerInv
<1>c. \A i \in Items : /\ row[i].gen \in Nat /\ row[i].attempts \in Nat /\ faults[i] \in Nat
                       /\ PipelineOf[i] \in Pipelines
  BY JobQueueAssumption DEF TypeOK, RowType
\* Rows are deleted under the workers' feet.
<1>d. ASSUME UNCHANGED <<pc, held>>,
             \A i \in Items : \/ row'[i] = row[i] /\ faults'[i] = faults[i]
                              \/ /\ row'[i].status = "absent" /\ row'[i].attempts = 0
                                 /\ row'[i].gen = row[i].gen /\ faults'[i] = 0
      PROVE  LedgerInv'
  <2>1. HolderOK'
    <3>1. \A q \in Pipelines : \/ pc[q] \in Holding /\ pc'[q] \in Holding /\ held'[q] = held[q]
                               \/ pc'[q] \notin Holding /\ held'[q] = NoJob
      BY <1>a, <1>d DEF HolderOK
    <3>2. \A i \in Items : /\ row[i].gen <= row'[i].gen
                           /\ row'[i].status = "absent" => row'[i].attempts = 0
      BY <1>a, <1>c, <1>d DEF HolderOK
    <3> QED BY <1>a, <3>1, <3>2, HolderFrame
  <2>2. ClaimIsExclusive'
    <3> SUFFICES ASSUME NEW q \in Pipelines, NEW i \in Items,
                        pc'[q] \in Outcome \union {"run"}, held'[q].item = i,
                        row'[i].gen = held'[q].gen, row'[i].status # "absent"
                 PROVE  row'[i].status = "running" /\ row'[i].attempts = held'[q].attempts
      BY DEF ClaimIsExclusive
    <3>1. row'[i] = row[i]
      BY <1>d
    <3> QED BY <1>a, <1>d, <3>1 DEF ClaimIsExclusive
  <2>3. ASSUME NEW i \in Items PROVE row'[i].attempts = faults'[i] + Charge(i)'
    <3>1. CASE row'[i] = row[i] /\ faults'[i] = faults[i]
      <4>1. Flying(i)' <=> Flying(i)
        BY <1>d, <3>1 DEF Flying, Claimed
      <4> QED BY <1>a, <3>1, <4>1 DEF Charge
    <3>2. CASE row'[i].status = "absent" /\ row'[i].attempts = 0 /\ faults'[i] = 0
      BY <3>2 DEF Charge, Flying, Claimed
    <3> QED BY <1>d, <3>1, <3>2
  <2>4. DeadIsEarned'
    BY <1>a, <1>d DEF DeadIsEarned
  <2> QED BY <2>1, <2>2, <2>3, <2>4, <1>b
\* A run ends; what it means for the row is not recorded yet.
<1>e. ASSUME NEW p \in Pipelines, pc[p] = "run", pc'[p] \in Outcome, UNCHANGED <<row, held>>,
             \A q \in Pipelines \ {p} : pc'[q] = pc[q],
             \A i \in Items : faults'[i] = IF pc'[p] = "raised" /\ Claimed(p, i)
                                           THEN faults[i] + 1 ELSE faults[i]
      PROVE  LedgerInv'
  <2>1. HolderOK'
    <3>1. \A q \in Pipelines : \/ pc[q] \in Holding /\ pc'[q] \in Holding /\ held'[q] = held[q]
                               \/ pc'[q] \notin Holding /\ held'[q] = NoJob
      BY <1>a, <1>e DEF HolderOK, Holding, Outcome
    <3>2. \A i \in Items : /\ row[i].gen <= row'[i].gen
                           /\ row'[i].status = "absent" => row'[i].attempts = 0
      BY <1>a, <1>c, <1>e DEF HolderOK
    <3> QED BY <1>a, <3>1, <3>2, HolderFrame
  <2>2. ClaimIsExclusive'
    BY <1>a, <1>e DEF ClaimIsExclusive
  <2>3. ASSUME NEW i \in Items PROVE row'[i].attempts = faults'[i] + Charge(i)'
    <3>1. CASE Claimed(p, i)
      <4>1. PipelineOf[i] = p /\ row[i].status = "running" /\ Claimed(p, i)'
        BY <1>a, <1>e, <3>1 DEF HolderOK, Holding, Claimed
      <4>2. Flying(i) /\ (Flying(i)' <=> pc'[p] # "raised")
        BY <1>e, <3>1, <4>1 DEF Flying, Outcome
      <4> QED BY <1>a, <1>c, <1>e, <3>1, <4>1, <4>2 DEF Charge
    <3>2. CASE ~Claimed(p, i)
      <4>1. Flying(i)' <=> Flying(i)
        BY <1>c, <1>e, <3>2 DEF Flying, Claimed
      <4> QED BY <1>a, <1>e, <3>2, <4>1 DEF Charge
    <3> QED BY <3>1, <3>2
  <2>4. DeadIsEarned'
    BY <1>a, <1>e DEF DeadIsEarned, Claimed
  <2> QED BY <2>1, <2>2, <2>3, <2>4, <1>b
\* A worker loses its job: the row stays running, and a run that had not
\* raised yet becomes a fault of its own.
<1>f. ASSUME NEW p \in Pipelines, pc'[p] \notin Holding, held'[p] = NoJob, row' = row,
             \A q \in Pipelines \ {p} : pc'[q] = pc[q] /\ held'[q] = held[q],
             \A i \in Items : faults'[i] =
                IF pc[p] \in {"run", "done", "unavailable"} /\ Claimed(p, i)
                THEN faults[i] + 1 ELSE faults[i]
      PROVE  LedgerInv'
  <2>1. HolderOK'
    <3>1. \A q \in Pipelines : \/ pc[q] \in Holding /\ pc'[q] \in Holding /\ held'[q] = held[q]
                               \/ pc'[q] \notin Holding /\ held'[q] = NoJob
      BY <1>a, <1>f DEF HolderOK
    <3>2. \A i \in Items : /\ row[i].gen <= row'[i].gen
                           /\ row'[i].status = "absent" => row'[i].attempts = 0
      BY <1>a, <1>c, <1>f DEF HolderOK
    <3> QED BY <1>a, <3>1, <3>2, HolderFrame
  <2>2. ClaimIsExclusive'
    <3> SUFFICES ASSUME NEW q \in Pipelines, NEW i \in Items,
                        pc'[q] \in Outcome \union {"run"}, held'[q].item = i,
                        row'[i].gen = held'[q].gen, row'[i].status # "absent"
                 PROVE  row'[i].status = "running" /\ row'[i].attempts = held'[q].attempts
      BY DEF ClaimIsExclusive
    <3>1. q # p
      BY <1>f DEF Holding, Outcome
    <3> QED BY <1>a, <1>f, <3>1 DEF ClaimIsExclusive
  <2>3. ASSUME NEW i \in Items PROVE row'[i].attempts = faults'[i] + Charge(i)'
    <3>1. CASE pc[p] \in {"run", "done", "unavailable"} /\ Claimed(p, i)
      <4>1. PipelineOf[i] = p /\ row[i].status = "running"
        BY <1>a, <3>1 DEF HolderOK, Holding, Claimed
      <4>2. Flying(i) /\ ~Flying(i)'
        BY <1>f, <3>1, <4>1 DEF Flying, Holding
      <4> QED BY <1>a, <1>c, <1>f, <3>1, <4>1, <4>2 DEF Charge
    <3>2. CASE ~(pc[p] \in {"run", "done", "unavailable"} /\ Claimed(p, i))
      <4>1. Flying(i)' <=> Flying(i)
        <5>1. CASE PipelineOf[i] = p
          BY <1>f, <3>2, <5>1 DEF Flying, Holding
        <5>2. CASE PipelineOf[i] # p
          BY <1>c, <1>f, <5>2 DEF Flying, Claimed
        <5> QED BY <5>1, <5>2
      <4> QED BY <1>a, <1>f, <3>2, <4>1 DEF Charge
    <3> QED BY <3>1, <3>2
  <2>4. DeadIsEarned'
    BY <1>a, <1>c, <1>f DEF DeadIsEarned, Claimed
  <2> QED BY <2>1, <2>2, <2>3, <2>4, <1>b
<1>1. ASSUME NEW s \in Sessions, DeleteSession(s) PROVE LedgerInv'
  <2>1. \A i \in Items : row[i] \in RowType
    BY DEF TypeOK
  <2>2. \A i \in Items : \/ row'[i] = row[i] /\ faults'[i] = faults[i]
                         \/ /\ row'[i].status = "absent" /\ row'[i].attempts = 0
                            /\ row'[i].gen = row[i].gen /\ faults'[i] = 0
    BY <1>1, <2>1, RowEffects DEF DeleteSession
  <2>3. UNCHANGED <<pc, held>>
    BY <1>1 DEF DeleteSession
  <2> QED BY <1>d, <2>2, <2>3
<1>2. ASSUME NEW j \in Items, Redo(j) PROVE LedgerInv'
  <2>1. row[j] \in RowType
    BY DEF TypeOK
  <2>2. \A i \in Items : \/ row'[i] = row[i] /\ faults'[i] = faults[i]
                         \/ /\ row'[i].status = "absent" /\ row'[i].attempts = 0
                            /\ row'[i].gen = row[i].gen /\ faults'[i] = 0
    BY <1>2, <2>1, RowEffects DEF Redo, TypeOK
  <2>3. UNCHANGED <<pc, held>>
    BY <1>2 DEF Redo
  <2> QED BY <1>d, <2>2, <2>3
<1>3. ASSUME NEW p \in Pipelines, Die(p) PROVE LedgerInv'
  <2>1. /\ pc'[p] \notin Holding /\ held'[p] = NoJob /\ row' = row
        /\ \A q \in Pipelines \ {p} : pc'[q] = pc[q] /\ held'[q] = held[q]
    BY <1>3 DEF Die, Holding, TypeOK
  <2>2. \A i \in Items : faults'[i] =
           IF pc[p] \in {"run", "done", "unavailable"} /\ Claimed(p, i)
           THEN faults[i] + 1 ELSE faults[i]
    BY <1>3 DEF Die
  <2> QED BY <1>f, <2>1, <2>2
<1>4. ASSUME NEW p \in Pipelines, Boot(p) PROVE LedgerInv'
  <2>a. \A i \in Items :
          \/ /\ PipelineOf[i] = p /\ row[i].status = "running" /\ row'[i].status = "queued"
             /\ row'[i].attempts = row[i].attempts /\ row'[i].gen = row[i].gen
             /\ faults'[i] = faults[i]
          \/ /\ PipelineOf[i] = p /\ row[i].status = "dead" /\ row'[i].status = "queued"
             /\ row'[i].attempts = 0 /\ row'[i].gen = row[i].gen /\ faults'[i] = 0
          \/ /\ PipelineOf[i] = p => row[i].status \notin {"running", "dead"}
             /\ row'[i] = row[i] /\ faults'[i] = faults[i]
    <3>1. \A i \in Items : row[i] \in RowType
      BY DEF TypeOK
    <3> QED BY <1>4, <3>1, RowEffects DEF Boot, Orphan
  <2>b. /\ held' = held /\ pc[p] = "down" /\ pc'[p] = "idle" /\ held[p] = NoJob
        /\ \A q \in Pipelines \ {p} : pc'[q] = pc[q]
    BY <1>4, <1>a DEF Boot, Orphan, HolderOK, Holding, TypeOK
  <2>c. \A i \in Items : row[i].gen \in Nat /\ row[i].attempts \in Nat /\ faults[i] \in Nat
    BY DEF TypeOK, RowType
  <2>1. HolderOK'
    <3>1. \A q \in Pipelines : \/ pc[q] \in Holding /\ pc'[q] \in Holding /\ held'[q] = held[q]
                               \/ pc'[q] \notin Holding /\ held'[q] = NoJob
      BY <1>a, <2>b DEF HolderOK, Holding
    <3>2. \A i \in Items : /\ row[i].gen <= row'[i].gen
                           /\ row'[i].status = "absent" => row'[i].attempts = 0
      BY <1>a, <2>a, <2>c DEF HolderOK
    <3> QED BY <1>a, <3>1, <3>2, HolderFrame
  <2>2. ClaimIsExclusive'
    <3> SUFFICES ASSUME NEW q \in Pipelines, NEW i \in Items,
                        pc'[q] \in Outcome \union {"run"}, held'[q].item = i,
                        row'[i].gen = held'[q].gen, row'[i].status # "absent"
                 PROVE  row'[i].status = "running" /\ row'[i].attempts = held'[q].attempts
      BY DEF ClaimIsExclusive
    <3>1. q # p /\ PipelineOf[i] = q
      BY <1>a, <2>b DEF HolderOK, Holding, Outcome
    <3> QED BY <1>a, <2>a, <2>b, <3>1 DEF ClaimIsExclusive
  <2>3. ASSUME NEW i \in Items PROVE row'[i].attempts = faults'[i] + Charge(i)'
    <3>1. PipelineOf[i] \in Pipelines /\ row[i].attempts = faults[i] + Charge(i)
      BY <1>a, JobQueueAssumption
    <3>2. CASE PipelineOf[i] = p
      <4>1. ~Flying(i) /\ ~Flying(i)'
        BY <2>b, <3>2 DEF Flying
      <4> QED BY <2>a, <2>c, <3>1, <4>1 DEF Charge
    <3>3. CASE PipelineOf[i] # p
      <4>1. Flying(i)' <=> Flying(i)
        BY <2>a, <2>b, <3>1, <3>3 DEF Flying, Claimed
      <4> QED BY <2>a, <3>1, <3>3, <4>1 DEF Charge
    <3> QED BY <3>2, <3>3
  <2>4. DeadIsEarned'
    BY <1>a, <2>a DEF DeadIsEarned
  <2> QED BY <2>1, <2>2, <2>3, <2>4, <1>b
<1>5. ASSUME NEW p \in Pipelines, EnqueueMany(p) PROVE LedgerInv'
  <2>a. \A i \in Items : \/ row'[i] = row[i]
                          \/ /\ row[i].status = "absent" /\ row'[i].status = "queued"
                             /\ row'[i].attempts = 0 /\ row'[i].gen = row[i].gen + 1
    <3>1. \A i \in Items : row[i] \in RowType
      BY DEF TypeOK
    <3> QED BY <1>5, <3>1, RowEffects DEF EnqueueMany
  <2>b. /\ UNCHANGED <<held, faults>>
        /\ \A q \in Pipelines : \/ pc'[q] = pc[q]
                                \/ pc[q] \notin Holding /\ pc'[q] \notin Holding
    <3>1. /\ pc[p] = "insert" /\ pc'[p] \in {"sleep", "drain"} /\ UNCHANGED <<held, faults>>
          /\ \A q \in Pipelines \ {p} : pc'[q] = pc[q]
      <4>1. /\ pc' = [pc EXCEPT ![p] = "sleep"] \/ pc' = [pc EXCEPT ![p] = "drain"]
            /\ pc[p] = "insert" /\ UNCHANGED <<held, faults>>
        BY <1>5 DEF EnqueueMany
      <4> QED BY <4>1 DEF TypeOK
    <3> QED BY <3>1 DEF Holding
  <2>c. \A i \in Items : row[i].gen \in Nat /\ row[i].attempts \in Nat /\ faults[i] \in Nat
    BY DEF TypeOK, RowType
  <2>1. HolderOK'
    <3>1. \A q \in Pipelines : \/ pc[q] \in Holding /\ pc'[q] \in Holding /\ held'[q] = held[q]
                               \/ pc'[q] \notin Holding /\ held'[q] = NoJob
      BY <1>a, <2>b DEF HolderOK, Holding
    <3>2. \A i \in Items : /\ row[i].gen <= row'[i].gen
                           /\ row'[i].status = "absent" => row'[i].attempts = 0
      BY <1>a, <2>a, <2>c DEF HolderOK
    <3> QED BY <1>a, <3>1, <3>2, HolderFrame
  <2>2. ClaimIsExclusive'
    <3> SUFFICES ASSUME NEW q \in Pipelines, NEW i \in Items,
                        pc'[q] \in Outcome \union {"run"}, held'[q].item = i,
                        row'[i].gen = held'[q].gen, row'[i].status # "absent"
                 PROVE  row'[i].status = "running" /\ row'[i].attempts = held'[q].attempts
      BY DEF ClaimIsExclusive
    <3>1. /\ pc[q] = pc'[q] /\ held[q] = held'[q] /\ held[q].gen <= row[i].gen
          /\ held[q].gen \in Nat
      BY <1>a, <2>b DEF HolderOK, Holding, Outcome, TypeOK, JobType
    <3>2. row'[i] = row[i]
      BY <2>a, <2>c, <3>1
    <3> QED BY <1>a, <3>1, <3>2 DEF ClaimIsExclusive
  <2>3. ASSUME NEW i \in Items PROVE row'[i].attempts = faults'[i] + Charge(i)'
    <3>1. PipelineOf[i] \in Pipelines /\ row[i].attempts = faults[i] + Charge(i)
      BY <1>a, JobQueueAssumption
    <3>2. CASE row'[i] = row[i]
      <4>1. Flying(i)' <=> Flying(i)
        BY <2>b, <3>1, <3>2 DEF Flying, Claimed, Holding
      <4> QED BY <2>b, <3>1, <3>2, <4>1 DEF Charge
    <3>3. CASE row'[i] # row[i]
      <4>1. row[i].attempts = 0 /\ ~Flying(i) /\ ~Flying(i)'
        BY <1>a, <2>a, <3>3 DEF Flying, Claimed, HolderOK
      <4> QED BY <2>a, <2>b, <2>c, <3>1, <3>3, <4>1 DEF Charge
    <3> QED BY <3>2, <3>3
  <2>4. DeadIsEarned'
    BY <1>a, <2>a, <2>b DEF DeadIsEarned
  <2> QED BY <2>1, <2>2, <2>3, <2>4, <1>b
<1>6. ASSUME NEW p \in Pipelines, NEW j \in Items, Claim(p, j) PROVE LedgerInv'
  <2>a. /\ pc[p] = "drain" /\ pc'[p] = "run" /\ faults' = faults
        /\ held'[p].item = j /\ held'[p].gen = row[j].gen
        /\ held'[p].attempts = row[j].attempts + 1
        /\ \A q \in Pipelines \ {p} : pc'[q] = pc[q] /\ held'[q] = held[q]
    BY <1>6 DEF Claim, TypeOK
  <2>b. /\ PipelineOf[j] = p /\ row[j].status = "queued"
        /\ row'[j].status = "running" /\ row'[j].attempts = row[j].attempts + 1
        /\ row'[j].gen = row[j].gen
        /\ \A i \in Items \ {j} : row'[i] = row[i]
    BY <1>6 DEF Claim, Runnable, TypeOK, RowType
  <2>c. \A i \in Items : row'[i].gen = row[i].gen
    BY <2>b
  <2>1. HolderOK'
    <3>1. \A q \in Pipelines : /\ pc'[q] \in Holding => /\ held'[q].item \in Items
                                                        /\ PipelineOf[held'[q].item] = q
                               /\ pc'[q] \notin Holding => held'[q] = NoJob
      BY <1>a, <2>a, <2>b DEF HolderOK, Holding
    <3>2. \A q \in Pipelines, i \in Items : held'[q].item = i => held'[q].gen <= row'[i].gen
      BY <1>a, <1>c, <2>a, <2>c DEF HolderOK
    <3>3. \A i \in Items : row'[i].status = "absent" => row'[i].attempts = 0
      BY <1>a, <2>b DEF HolderOK
    <3> QED BY <3>1, <3>2, <3>3 DEF HolderOK
  <2>2. ClaimIsExclusive'
    <3> SUFFICES ASSUME NEW q \in Pipelines, NEW i \in Items,
                        pc'[q] \in Outcome \union {"run"}, held'[q].item = i,
                        row'[i].gen = held'[q].gen, row'[i].status # "absent"
                 PROVE  row'[i].status = "running" /\ row'[i].attempts = held'[q].attempts
      BY DEF ClaimIsExclusive
    <3>1. CASE q = p
      BY <2>a, <2>b, <3>1
    <3>2. CASE q # p
      <4>1. i # j
        BY <1>a, <2>a, <2>b, <3>2 DEF HolderOK, Holding, Outcome
      <4> QED BY <1>a, <2>a, <2>b, <3>2, <4>1 DEF ClaimIsExclusive
    <3> QED BY <3>1, <3>2
  <2>3. ASSUME NEW i \in Items PROVE row'[i].attempts = faults'[i] + Charge(i)'
    <3>1. CASE i = j
      <4>1. Flying(j)' /\ ~Flying(j)
        BY <2>a, <2>b DEF Flying, Claimed
      <4> QED BY <1>a, <1>c, <2>a, <2>b, <3>1, <4>1 DEF Charge
    <3>2. CASE i # j
      <4>1. Flying(i)' <=> Flying(i)
        BY <1>c, <2>a, <2>b, <3>2 DEF Flying, Claimed
      <4> QED BY <1>a, <2>a, <2>b, <3>2, <4>1 DEF Charge
    <3> QED BY <3>1, <3>2
  <2>4. DeadIsEarned'
    BY <1>a, <2>a, <2>b DEF DeadIsEarned
  <2> QED BY <2>1, <2>2, <2>3, <2>4, <1>b
<1>7. ASSUME NEW p \in Pipelines, Return(p) PROVE LedgerInv'
  <2>1. /\ pc[p] = "run" /\ pc'[p] = "done" /\ UNCHANGED <<row, held, faults>>
        /\ \A q \in Pipelines \ {p} : pc'[q] = pc[q]
    BY <1>7 DEF Return, TypeOK
  <2> QED BY <1>e, <2>1 DEF Outcome
<1>8. ASSUME NEW p \in Pipelines, Raise(p) PROVE LedgerInv'
  <2>1. /\ pc[p] = "run" /\ pc'[p] = "raised" /\ UNCHANGED <<row, held>>
        /\ \A q \in Pipelines \ {p} : pc'[q] = pc[q]
        /\ \A i \in Items : faults'[i] = IF Claimed(p, i) THEN faults[i] + 1 ELSE faults[i]
    BY <1>8 DEF Raise, TypeOK
  <2> QED BY <1>e, <2>1 DEF Outcome
<1>9. ASSUME NEW p \in Pipelines, Unavailable(p) PROVE LedgerInv'
  <2>1. /\ pc[p] = "run" /\ pc'[p] = "unavailable" /\ UNCHANGED <<row, held, faults>>
        /\ \A q \in Pipelines \ {p} : pc'[q] = pc[q]
    BY <1>9 DEF Unavailable, TypeOK
  <2> QED BY <1>e, <2>1 DEF Outcome
<1>g. ASSUME NEW p \in Pipelines, pc[p] \in Outcome, faults' = faults,
             \A i \in Items : row'[i] = IF Claimed(p, i) THEN Recorded(p, row[i]) ELSE row[i],
             \A q \in Pipelines \ {p} : pc'[q] = pc[q] /\ held'[q] = held[q],
             \/ pc'[p] = "callback" /\ held'[p] = held[p]
             \/ pc'[p] \in {"drain", "sleep"} /\ held'[p] = NoJob
      PROVE  LedgerInv'
  <2>1. \A i \in Items : Claimed(p, i) =>
            /\ row[i].attempts = held[p].attempts /\ row[i].status = "running"
            /\ p = PipelineOf[i] /\ row[i] \in RowType
    BY <1>a, <1>g DEF ClaimIsExclusive, Claimed, Outcome, HolderOK, Holding, TypeOK
  <2>2. \A i \in Items : Claimed(p, i) =>
            /\ row'[i].gen = row[i].gen
            /\ row'[i].status \in {"succeeded", "dead", "queued"}
            /\ row'[i].status = "succeeded" <=> pc[p] = "done"
            /\ row'[i].status = "dead" => pc[p] = "raised" /\ row[i].attempts >= MaxAttempts
            /\ pc[p] # "unavailable" => row'[i].attempts = row[i].attempts
            /\ pc[p] = "unavailable" /\ row[i].attempts > 0
                  => row'[i].attempts = row[i].attempts - 1
    BY <1>g, <2>1, RowEffects DEF Outcome
  <2>3. \A i \in Items : ~Claimed(p, i) => row'[i] = row[i]
    BY <1>g
  <2>4. HolderOK'
    <3>1. \A q \in Pipelines : \/ pc[q] \in Holding /\ pc'[q] \in Holding /\ held'[q] = held[q]
                               \/ pc'[q] \notin Holding /\ held'[q] = NoJob
      BY <1>a, <1>g DEF HolderOK, Holding, Outcome
    <3>2. \A i \in Items : row[i].gen \in Nat
      BY DEF TypeOK, RowType
    <3>3. \A i \in Items : /\ row[i].gen <= row'[i].gen
                           /\ row'[i].status = "absent" => row'[i].attempts = 0
      BY <1>a, <2>2, <2>3, <3>2 DEF HolderOK
    <3> QED BY <1>a, <3>1, <3>3, HolderFrame
  <2>5. \A q \in Pipelines \ {p}, i \in Items : Claimed(p, i) =>
            ~(pc[q] \in Outcome \union {"run"} /\ held[q].item = i)
    BY <1>a, <2>1 DEF HolderOK, Holding, Outcome
  <2>6. ClaimIsExclusive'
    BY <1>a, <1>g, <2>2, <2>3, <2>5 DEF ClaimIsExclusive, Outcome
  <2>7. ASSUME NEW i \in Items PROVE row'[i].attempts = faults'[i] + Charge(i)'
    <3>1. row[i] \in RowType /\ faults[i] \in Nat /\ PipelineOf[i] \in Pipelines
      BY JobQueueAssumption DEF TypeOK
    <3>2. CASE Claimed(p, i)
      <4>1. ~Flying(i)'
        BY <1>g, <2>1, <3>2 DEF Flying, Outcome
      <4>2. Flying(i) <=> pc[p] # "raised"
        BY <1>g, <2>1, <3>2 DEF Flying, Outcome
      <4>3. row[i].attempts = faults[i] + (IF pc[p] # "raised" THEN 1 ELSE 0)
        BY <1>a, <2>1, <3>2, <4>2 DEF Charge
      <4>4. CASE pc[p] = "done"
        BY <1>g, <2>2, <3>2, <4>1, <4>3, <4>4 DEF Charge
      <4>5. CASE pc[p] = "raised"
        BY <1>g, <2>2, <3>2, <4>1, <4>3, <4>5 DEF Charge
      <4>6. CASE pc[p] = "unavailable"
        BY <1>g, <2>2, <3>1, <3>2, <4>1, <4>3, <4>6 DEF Charge
      <4> QED BY <1>g, <4>4, <4>5, <4>6 DEF Outcome
    <3>3. CASE ~Claimed(p, i)
      <4>1. Flying(i)' <=> Flying(i)
        <5>1. CASE PipelineOf[i] = p
          BY <1>g, <2>3, <3>3, <5>1 DEF Flying, Claimed
        <5>2. CASE PipelineOf[i] # p
          BY <1>g, <2>3, <3>1, <3>3, <5>2 DEF Flying, Claimed
        <5> QED BY <5>1, <5>2
      <4> QED BY <1>a, <1>g, <2>3, <3>3, <4>1 DEF Charge
    <3> QED BY <3>2, <3>3
  <2>8. DeadIsEarned'
    <3>1. ASSUME NEW i \in Items, row'[i].status = "dead", Claimed(p, i)
          PROVE  faults'[i] >= MaxAttempts
      <4>1. pc[p] = "raised" /\ row[i].attempts >= MaxAttempts
        BY <2>2, <3>1
      <4>2. Charge(i) = 0
        BY <2>1, <3>1, <4>1 DEF Charge, Flying
      <4>3. faults[i] \in Nat
        BY DEF TypeOK
      <4> QED BY <1>a, <1>g, <4>1, <4>2, <4>3
    <3> QED BY <1>a, <1>g, <2>3, <3>1 DEF DeadIsEarned
  <2> QED BY <1>b, <2>4, <2>6, <2>7, <2>8
<1>10. ASSUME NEW p \in Pipelines, Finish(p) PROVE LedgerInv'
  <2>1. /\ pc[p] \in Outcome /\ faults' = faults
        /\ \A i \in Items : row'[i] = IF Claimed(p, i) THEN Recorded(p, row[i]) ELSE row[i]
        /\ \A q \in Pipelines \ {p} : pc'[q] = pc[q] /\ held'[q] = held[q]
        /\ \/ pc'[p] = "callback" /\ held'[p] = held[p]
           \/ pc'[p] \in {"drain", "sleep"} /\ held'[p] = NoJob
    BY <1>10 DEF Finish, TypeOK
  <2> QED BY <1>g, <2>1
<1>11. ASSUME NEW p \in Pipelines, FinishFails(p) PROVE LedgerInv'
  <2>1. /\ pc[p] \in Outcome /\ pc'[p] = "sleep" /\ held'[p] = NoJob
        /\ \A q \in Pipelines \ {p} : pc'[q] = pc[q] /\ held'[q] = held[q]
    BY <1>11 DEF FinishFails, TypeOK
  <2>2. CASE /\ row' = row
             /\ faults' = [i \in Items |-> IF Claimed(p, i) /\ pc[p] # "raised"
                                           THEN faults[i] + 1 ELSE faults[i]]
    <3>1. \A i \in Items : faults'[i] =
             IF pc[p] \in {"run", "done", "unavailable"} /\ Claimed(p, i)
             THEN faults[i] + 1 ELSE faults[i]
      BY <2>1, <2>2 DEF Outcome
    <3> QED BY <1>f, <2>1, <2>2, <3>1 DEF Holding
  <2>3. CASE faults' = faults /\ row' = [i \in Items |->
               IF Claimed(p, i) THEN Recorded(p, row[i]) ELSE row[i]]
    <3>1. \A i \in Items : row'[i] = IF Claimed(p, i) THEN Recorded(p, row[i]) ELSE row[i]
      BY <2>3
    <3> QED BY <1>g, <2>1, <2>3, <3>1
  <2> QED BY <1>11, <2>2, <2>3 DEF FinishFails
<1>12. ASSUME NEW p \in Pipelines, Callback(p) PROVE LedgerInv'
  <2>a. \A i \in Items : \/ row'[i] = row[i]
                          \/ /\ row[i].status = "absent" /\ row'[i].status = "queued"
                             /\ row'[i].attempts = 0 /\ row'[i].gen = row[i].gen + 1
    <3>1. \A i \in Items : row[i] \in RowType
      BY DEF TypeOK
    <3> QED BY <1>12, <3>1, RowEffects DEF Callback, TypeOK
  <2>b. /\ faults' = faults
        /\ pc[p] = "callback" /\ pc'[p] = "drain" /\ held'[p] = NoJob
        /\ \A q \in Pipelines \ {p} : pc'[q] = pc[q] /\ held'[q] = held[q]
    BY <1>12 DEF Callback, TypeOK
  <2>c. \A i \in Items : row[i].gen \in Nat /\ row[i].attempts \in Nat /\ faults[i] \in Nat
    BY DEF TypeOK, RowType
  <2>1. HolderOK'
    <3>1. \A q \in Pipelines : \/ pc[q] \in Holding /\ pc'[q] \in Holding /\ held'[q] = held[q]
                               \/ pc'[q] \notin Holding /\ held'[q] = NoJob
      BY <1>a, <2>b DEF HolderOK, Holding
    <3>2. \A i \in Items : /\ row[i].gen <= row'[i].gen
                           /\ row'[i].status = "absent" => row'[i].attempts = 0
      BY <1>a, <2>a, <2>c DEF HolderOK
    <3> QED BY <1>a, <3>1, <3>2, HolderFrame
  <2>2. ClaimIsExclusive'
    <3> SUFFICES ASSUME NEW q \in Pipelines, NEW i \in Items,
                        pc'[q] \in Outcome \union {"run"}, held'[q].item = i,
                        row'[i].gen = held'[q].gen, row'[i].status # "absent"
                 PROVE  row'[i].status = "running" /\ row'[i].attempts = held'[q].attempts
      BY DEF ClaimIsExclusive
    <3>0. q # p
      BY <2>b DEF Outcome
    <3>1. /\ pc[q] = pc'[q] /\ held[q] = held'[q] /\ held[q].gen <= row[i].gen
          /\ held[q].gen \in Nat
      BY <1>a, <2>b, <3>0 DEF HolderOK, TypeOK, JobType
    <3>2. row'[i] = row[i]
      BY <2>a, <2>c, <3>1
    <3> QED BY <1>a, <3>1, <3>2 DEF ClaimIsExclusive
  <2>3. ASSUME NEW i \in Items PROVE row'[i].attempts = faults'[i] + Charge(i)'
    <3>1. PipelineOf[i] \in Pipelines /\ row[i].attempts = faults[i] + Charge(i)
      BY <1>a, JobQueueAssumption
    <3>2. CASE row'[i] = row[i]
      <4>1. Flying(i)' <=> Flying(i)
        BY <2>b, <3>1, <3>2 DEF Flying, Claimed, NoJob
      <4> QED BY <2>b, <3>1, <3>2, <4>1 DEF Charge
    <3>3. CASE row'[i] # row[i]
      <4>1. row[i].attempts = 0 /\ ~Flying(i) /\ ~Flying(i)'
        BY <1>a, <2>a, <3>3 DEF Flying, Claimed, HolderOK
      <4> QED BY <2>a, <2>b, <2>c, <3>1, <3>3, <4>1 DEF Charge
    <3> QED BY <3>2, <3>3
  <2>4. DeadIsEarned'
    BY <1>a, <2>a, <2>b DEF DeadIsEarned
  <2> QED BY <2>1, <2>2, <2>3, <2>4, <1>b
<1>13. CASE \/ \E s \in Sessions : EndSession(s)
            \/ Tick
            \/ \E p \in Pipelines : \/ Terminate(p) \/ Discover(p) \/ Drained(p)
                                    \/ Wake(p) \/ Exit(p) \/ PassFails(p)
            \/ UNCHANGED vars
            \/ UNCHANGED <<session, row, now, pc, found, held, faults>>
  <2>1. UNCHANGED <<row, held, faults>>
    BY <1>13 DEF EndSession, Tick, Terminate, Discover, Drained, Wake, Exit, PassFails, vars
  <2>2. \A p \in Pipelines : \/ pc'[p] = pc[p]
                             \/ pc[p] \notin Holding /\ pc'[p] \notin Holding
    BY <1>13 DEF EndSession, Tick, Terminate, Discover, Drained, Wake, Exit, PassFails,
                 vars, Holding, TypeOK
  <2> QED BY <2>1, <2>2, LedgerFrame
<1>14. ASSUME NEW p \in Pipelines, Step(p) PROVE LedgerInv'
  BY <1>4, <1>5, <1>6, <1>7, <1>8, <1>9, <1>10, <1>12, <1>13, <1>14 DEF Step
<1>15. CASE Next
  BY <1>1, <1>2, <1>3, <1>11, <1>13, <1>14, <1>15 DEF Next, Crash
<1> QED BY <1>3, <1>13, <1>15 DEF AnyStep

\* The ledger holds in every reachable state.
THEOREM LedgerHolds == Spec => [](TypeOK /\ LedgerInv)
<1>1. Init => TypeOK /\ LedgerInv
  BY InitType, LedgerInit
<1>2. TypeOK /\ LedgerInv /\ [Next]_vars => (TypeOK /\ LedgerInv)'
  BY StepType, LedgerStep DEF AnyStep
<1> QED BY <1>1, <1>2, PTL DEF Spec

\* No recovery, redo or deletion takes a row from under the run that claimed it.
THEOREM ClaimsAreExclusive == Spec => []ClaimIsExclusive
<1>1. TypeOK /\ LedgerInv => ClaimIsExclusive
  BY DEF LedgerInv
<1> QED BY <1>1, LedgerHolds, PTL

\* Every charge and refund of an attempt balances: outages cost nothing.
THEOREM AttemptsAreExact == Spec => []AttemptsExact
<1>1. TypeOK /\ LedgerInv => AttemptsExact
  BY DEF LedgerInv
<1> QED BY <1>1, LedgerHolds, PTL

\* A job is dead-lettered only by MaxAttempts faults of its own.
THEOREM DeathIsEarned == Spec => []DeadIsEarned
<1>1. TypeOK /\ LedgerInv => DeadIsEarned
  BY DEF LedgerInv
<1> QED BY <1>1, LedgerHolds, PTL

----------------------------------------------------------------------------
(* JobQueue implements JobLifecycle: a row that runs is worked on by the    *)
(* one worker that claimed it, and every step of the queue either moves the *)
(* jobs as the abstract specification does or leaves them where they are.   *)

\* Only the worker of an item's own pipeline can have claimed it.
Worked(i) == Claimed(PipelineOf[i], i)

LEMMA OwnClaims ==
  ASSUME HolderOK, NEW p \in Pipelines, NEW i \in Items, Claimed(p, i)
  PROVE  p = PipelineOf[i]
<1>1. held[p].item = i /\ i # NoItem
  BY JobQueueAssumption DEF Claimed
<1>2. pc[p] \in Holding
  BY <1>1 DEF HolderOK, NoJob
<1> QED BY <1>1, <1>2 DEF HolderOK

----------------------------------------------------------------------------
(* What the callbacks rely on is inductive.                                *)

LEMMA FollowInit == Init => FollowInv
BY DEF Init, FollowInv

\* A step that takes no success away but by a deletion or a redo of a job
\* nothing follows, and finishes no run, keeps the callbacks due.
LEMMA FollowFrame ==
  ASSUME TypeOK, TypeOK', HolderOK, FollowInv,
         \A p \in Pipelines :
            /\ found'[p] \subseteq Items \ Chained
            /\ pc'[p] = "callback" => pc[p] = "callback" /\ held'[p] = held[p],
         \A s \in Sessions : session[s] = "gone" => session'[s] = "gone",
         \A i \in Items :
            \/ row'[i] = row[i]
            \/ row[i].status \in {"queued", "running", "dead"} /\ row'[i].gen = row[i].gen
            \/ row[i].status = "absent" /\ row'[i].gen = row[i].gen + 1
            \/ /\ row'[i].status = "absent" /\ row'[i].gen = row[i].gen
               /\ FollowUp[i] = NoItem \/ session'[SessionOf[i]] = "gone"
  PROVE  FollowInv'
<1> SUFFICES ASSUME NEW p \in Pipelines, pc'[p] = "callback" PROVE CallbackIsDue(p)'
  BY DEF FollowInv
<1> DEFINE i == held[p].item
<1>1. /\ pc[p] = "callback" /\ held'[p] = held[p] /\ i \in Items
      /\ held[p].gen <= row[i].gen /\ SessionOf[i] \in Sessions
  BY JobQueueAssumption DEF HolderOK, Holding
<1>2. row[i].gen \in Nat /\ row'[i].gen \in Nat /\ held[p].gen \in Nat
  BY <1>1 DEF TypeOK, RowType, JobType
<1>3. /\ row[i].gen = held[p].gen => row[i].status \in {"succeeded", "absent"}
      /\ FollowUp[i] # NoItem /\ session[SessionOf[i]] # "gone"
            => row[i].status = "succeeded"
  BY <1>1 DEF FollowInv, CallbackIsDue
<1>4. session'[SessionOf[i]] # "gone" => session[SessionOf[i]] # "gone"
  BY <1>1
<1>5. row'[i].gen = held[p].gen => row'[i].status \in {"succeeded", "absent"}
  BY <1>1, <1>2, <1>3
<1>6. FollowUp[i] # NoItem /\ session'[SessionOf[i]] # "gone"
         => row'[i].status = "succeeded"
  BY <1>1, <1>3, <1>4
<1> QED BY <1>1, <1>5, <1>6 DEF CallbackIsDue

LEMMA FollowStep ==
  TypeOK /\ TypeOK' /\ LedgerInv /\ FollowInv /\ AnyStep => FollowInv'
<1> SUFFICES ASSUME TypeOK, TypeOK', LedgerInv, FollowInv, AnyStep PROVE FollowInv'
  OBVIOUS
<1>a. HolderOK
  BY DEF LedgerInv
<1>b. \A i \in Items : row[i] \in RowType
  BY DEF TypeOK
<1>c. \A p \in Pipelines : found[p] \subseteq Items \ Chained
  BY DEF FollowInv
<1>1. ASSUME NEW s \in Sessions, EndSession(s) PROVE FollowInv'
  <2>1. \A t \in Sessions : session[t] = "gone" => session'[t] = "gone"
    BY <1>1 DEF EndSession, TypeOK
  <2> QED BY <1>1, <1>a, <1>c, <2>1, FollowFrame DEF EndSession
<1>2. ASSUME NEW s \in Sessions, DeleteSession(s) PROVE FollowInv'
  <2>1. \A t \in Sessions : session[t] = "gone" => session'[t] = "gone"
    BY <1>2 DEF DeleteSession, TypeOK
  <2>2. session'[s] = "gone"
    BY <1>2 DEF DeleteSession, TypeOK
  <2>3. \A i \in Items : \/ row'[i] = row[i]
                         \/ /\ row'[i].status = "absent" /\ row'[i].gen = row[i].gen
                            /\ session'[SessionOf[i]] = "gone"
    BY <1>2, <1>b, <2>2, RowEffects DEF DeleteSession
  <2> QED BY <1>2, <1>a, <1>c, <2>1, <2>3, FollowFrame DEF DeleteSession
<1>3. ASSUME NEW j \in Items, Redo(j) PROVE FollowInv'
  <2>1. \A i \in Items : \/ row'[i] = row[i]
                         \/ /\ row'[i].status = "absent" /\ row'[i].gen = row[i].gen
                            /\ FollowUp[i] = NoItem
    BY <1>3, <1>b, RowEffects DEF Redo, TypeOK
  <2> QED BY <1>3, <1>a, <1>c, <2>1, FollowFrame DEF Redo
<1>4. ASSUME NEW p \in Pipelines, Boot(p) PROVE FollowInv'
  <2>1. \A i \in Items : \/ row'[i] = row[i]
                         \/ row[i].status \in {"running", "dead"} /\ row'[i].gen = row[i].gen
    BY <1>4, <1>b, RowEffects DEF Boot, Orphan
  <2>2. \A q \in Pipelines : pc'[q] = "callback" => pc[q] = "callback" /\ held'[q] = held[q]
    BY <1>4 DEF Boot, TypeOK
  <2> QED BY <1>4, <1>a, <1>c, <2>1, <2>2, FollowFrame DEF Boot
<1>5. ASSUME NEW p \in Pipelines, Discover(p) PROVE FollowInv'
  <2>1. \A q \in Pipelines : found'[q] \subseteq Items \ Chained
    BY <1>5, <1>c DEF Discover, Discoverable, TypeOK
  <2>2. \A q \in Pipelines : pc'[q] = "callback" => pc[q] = "callback" /\ held'[q] = held[q]
    BY <1>5 DEF Discover, TypeOK
  <2> QED BY <1>5, <1>a, <2>1, <2>2, FollowFrame DEF Discover
<1>6. ASSUME NEW p \in Pipelines, EnqueueMany(p) PROVE FollowInv'
  <2>1. \A q \in Pipelines : found'[q] \subseteq Items \ Chained
    BY <1>6, <1>c DEF EnqueueMany, TypeOK
  <2>2. \A q \in Pipelines : pc'[q] = "callback" => pc[q] = "callback" /\ held'[q] = held[q]
    BY <1>6 DEF EnqueueMany, TypeOK
  <2>3. \A i \in Items : \/ row'[i] = row[i]
                         \/ row[i].status = "absent" /\ row'[i].gen = row[i].gen + 1
    BY <1>6, RowEffects, <1>b DEF EnqueueMany
  <2> QED BY <1>6, <1>a, <2>1, <2>2, <2>3, FollowFrame DEF EnqueueMany
<1>7. ASSUME NEW p \in Pipelines, NEW j \in Items, Claim(p, j) PROVE FollowInv'
  <2>1. \A q \in Pipelines : pc'[q] = "callback" => pc[q] = "callback" /\ held'[q] = held[q]
    BY <1>7 DEF Claim, TypeOK
  <2>2. \A i \in Items : \/ row'[i] = row[i]
                         \/ row[i].status = "queued" /\ row'[i].gen = row[i].gen
    BY <1>7, <1>b DEF Claim, Runnable, TypeOK, RowType
  <2> QED BY <1>7, <1>a, <1>c, <2>1, <2>2, FollowFrame DEF Claim
<1>8. ASSUME NEW p \in Pipelines, Finish(p) PROVE FollowInv'
  <2>1. \A i \in Items : \/ row'[i] = row[i]
                         \/ row[i].status = "running" /\ row'[i].gen = row[i].gen
    BY <1>8, <1>b, RowEffects DEF Finish, Claimed
  <2>2. CASE pc'[p] # "callback"
    <3>1. \A q \in Pipelines : pc'[q] = "callback" => pc[q] = "callback" /\ held'[q] = held[q]
      BY <1>8, <2>2 DEF Finish, TypeOK
    <3> QED BY <1>8, <1>a, <1>c, <2>1, <3>1, FollowFrame DEF Finish
  <2>3. CASE pc'[p] = "callback"
    <3> DEFINE i == held[p].item
    <3>1. pc[p] = "done" /\ Claimed(p, i) /\ held' = held /\ i \in Items
      BY <1>8, <1>a, <2>3 DEF Finish, TypeOK, HolderOK, Holding, Outcome
    <3>2. row'[i].status = "succeeded"
      BY <1>8, <1>b, <3>1, RowEffects DEF Finish
    <3>3. CallbackIsDue(p)'
      BY <3>1, <3>2 DEF CallbackIsDue
    <3>4. ASSUME NEW q \in Pipelines, q # p, pc'[q] = "callback" PROVE CallbackIsDue(q)'
      <4> DEFINE j == held[q].item
      <4>1. pc[q] = "callback" /\ j \in Items /\ CallbackIsDue(q) /\ session' = session
        BY <1>8, <1>a, <3>4 DEF Finish, TypeOK, HolderOK, Holding, FollowInv
      <4>2. row'[j] = row[j] \/ (row[j].gen # held[q].gen /\ row'[j].gen = row[j].gen
                                   /\ row[j].status # "succeeded")
        BY <2>1, <4>1 DEF CallbackIsDue
      <4> QED BY <3>1, <4>1, <4>2 DEF CallbackIsDue
    <3> QED BY <1>8, <1>c, <3>3, <3>4 DEF FollowInv, Finish
  <2> QED BY <2>2, <2>3
<1>9. ASSUME NEW p \in Pipelines, FinishFails(p) PROVE FollowInv'
  <2>1. \A i \in Items : \/ row'[i] = row[i]
                         \/ row[i].status = "running" /\ row'[i].gen = row[i].gen
    BY <1>9, <1>b, RowEffects DEF FinishFails, Claimed
  <2>2. \A q \in Pipelines : pc'[q] = "callback" => pc[q] = "callback" /\ held'[q] = held[q]
    BY <1>9 DEF FinishFails, TypeOK
  <2> QED BY <1>9, <1>a, <1>c, <2>1, <2>2, FollowFrame DEF FinishFails
<1>10. ASSUME NEW p \in Pipelines, Callback(p) PROVE FollowInv'
  <2>1. \A i \in Items : \/ row'[i] = row[i]
                         \/ row[i].status = "absent" /\ row'[i].gen = row[i].gen + 1
    <3> DEFINE target == FollowUp[held[p].item]
    <3>1. target # NoItem => target \in Items
      BY <1>10, <1>a, JobQueueAssumption DEF Callback, HolderOK, Holding
    <3> QED BY <1>10, <3>1, RowEffects, <1>b DEF Callback, TypeOK
  <2>2. \A q \in Pipelines : pc'[q] = "callback" => pc[q] = "callback" /\ held'[q] = held[q]
    BY <1>10 DEF Callback, TypeOK
  <2> QED BY <1>10, <1>a, <1>c, <2>1, <2>2, FollowFrame DEF Callback
<1>11. ASSUME NEW p \in Pipelines, Die(p) \/ PassFails(p) PROVE FollowInv'
  <2>1. \A q \in Pipelines : found'[q] \subseteq Items \ Chained
    BY <1>11, <1>c DEF Die, PassFails, TypeOK
  <2>2. \A q \in Pipelines : pc'[q] = "callback" => pc[q] = "callback" /\ held'[q] = held[q]
    BY <1>11 DEF Die, PassFails, TypeOK
  <2> QED BY <1>11, <1>a, <2>1, <2>2, FollowFrame DEF Die, PassFails
<1>12. CASE \/ Tick
            \/ \E p \in Pipelines : \/ Terminate(p) \/ Drained(p) \/ Wake(p) \/ Exit(p)
                                    \/ Return(p) \/ Raise(p) \/ Unavailable(p)
            \/ UNCHANGED vars
            \/ UNCHANGED <<session, row, now, pc, found, held, faults>>
  <2>1. UNCHANGED <<session, row, held, found>>
    BY <1>12 DEF Tick, Terminate, Drained, Wake, Exit, Return, Raise, Unavailable, vars
  <2>2. \A q \in Pipelines : pc'[q] = "callback" => pc[q] = "callback"
    BY <1>12 DEF Tick, Terminate, Drained, Wake, Exit, Return, Raise, Unavailable, vars,
                 TypeOK
  <2> QED BY <1>a, <1>c, <2>1, <2>2, FollowFrame
<1>13. ASSUME NEW p \in Pipelines, Step(p) PROVE FollowInv'
  BY <1>4, <1>5, <1>6, <1>7, <1>8, <1>10, <1>12, <1>13 DEF Step
<1>14. CASE Next
  BY <1>1, <1>2, <1>3, <1>9, <1>11, <1>12, <1>13, <1>14 DEF Next, Crash
<1> QED BY <1>11, <1>12, <1>14 DEF AnyStep

----------------------------------------------------------------------------
(* The refinement mapping.                                                 *)

\* What a row and its claim say of an item is what lifecycle makes of them.
Stages ==
    \A i \in Items :
        /\ row[i].status = "absent" => lifecycle[i] = "none"
        /\ row[i].status = "queued" => lifecycle[i] = "waiting"
        /\ row[i].status = "running" /\ Worked(i) => lifecycle[i] = "working"
        /\ row[i].status = "running" /\ ~Worked(i) => lifecycle[i] = "interrupted"
        /\ row[i].status = "succeeded" => lifecycle[i] = "succeeded"
        /\ row[i].status = "dead" => lifecycle[i] = "dead"

LEMMA StagesHold == TypeOK /\ HolderOK => Stages
<1> SUFFICES ASSUME TypeOK, HolderOK, NEW i \in Items
             PROVE  /\ row[i].status = "absent" => lifecycle[i] = "none"
                    /\ row[i].status = "queued" => lifecycle[i] = "waiting"
                    /\ row[i].status = "running" /\ Worked(i) => lifecycle[i] = "working"
                    /\ row[i].status = "running" /\ ~Worked(i) => lifecycle[i] = "interrupted"
                    /\ row[i].status = "succeeded" => lifecycle[i] = "succeeded"
                    /\ row[i].status = "dead" => lifecycle[i] = "dead"
  BY DEF Stages
<1>1. (\E p \in Pipelines : Claimed(p, i)) <=> Worked(i)
  <2>1. PipelineOf[i] \in Pipelines
    BY JobQueueAssumption
  <2>2. ASSUME NEW p \in Pipelines, Claimed(p, i) PROVE Worked(i)
    BY <2>2, OwnClaims DEF Worked
  <2> QED BY <2>1, <2>2 DEF Worked
<1> DEFINE busy == \E p \in Pipelines : Claimed(p, i)
<1>2. lifecycle[i] =
        CASE row[i].status = "absent" -> "none"
          [] row[i].status = "queued" -> "waiting"
          [] row[i].status = "running" -> IF busy THEN "working" ELSE "interrupted"
          [] OTHER -> row[i].status
  BY DEF lifecycle
<1> HIDE DEF busy
<1>3. busy <=> Worked(i)
  BY <1>1 DEF busy
<1> QED BY <1>2, <1>3

LEMMA StagesHoldNext == (TypeOK /\ HolderOK)' => Stages'
BY StagesHold, PTL

LEMMA LifecycleIsFunction ==
  /\ lifecycle = [i \in Items |-> lifecycle[i]]
  /\ lifecycle' = [i \in Items |-> lifecycle'[i]]
BY DEF lifecycle

\* An item whose row and claim a step leaves alone stays where it is.
LEMMA Unmoved ==
  ASSUME TypeOK, Stages, Stages', NEW i \in Items,
         row'[i] = row[i], Worked(i)' <=> Worked(i)
  PROVE  lifecycle'[i] = lifecycle[i]
<1>1. row[i].status \in Status
  BY DEF TypeOK, RowType
<1> QED BY <1>1 DEF Stages, Status

\* A step that moves the items of S alike is a Move of JobLifecycle.
LEMMA Moved ==
  ASSUME NEW S \in SUBSET Items, NEW from, NEW to,
         \A i \in S : lifecycle[i] \in from /\ lifecycle'[i] = to,
         \A i \in Items \ S : lifecycle'[i] = lifecycle[i]
  PROVE  Lifecycle!Move(S, from, to)
BY LifecycleIsFunction DEF Lifecycle!Move

LEMMA StepOrStutter ==
  ASSUME \/ \E i \in Items : \/ Lifecycle!Start(i) \/ Lifecycle!Succeed(i)
                              \/ Lifecycle!Fail(i) \/ Lifecycle!Interrupt(i)
         \/ \E S \in SUBSET Items : \/ Lifecycle!Queue(S) \/ Lifecycle!Recover(S)
                                     \/ Lifecycle!Forget(S)
         \/ \A i \in Items : lifecycle'[i] = lifecycle[i]
  PROVE  [Lifecycle!Next]_lifecycle
BY LifecycleIsFunction DEF Lifecycle!Next

\* A worker that holds nothing has claimed nothing.
LEMMA Idle ==
  ASSUME HolderOK, NEW i \in Items, pc[PipelineOf[i]] \notin Holding
  PROVE  ~Worked(i)
<1>1. PipelineOf[i] \in Pipelines /\ i # NoItem
  BY JobQueueAssumption
<1> QED BY <1>1 DEF HolderOK, Worked, Claimed, NoJob

\* Every step of the queue is a step of JobLifecycle, or none.
LEMMA LifecycleStep ==
  TypeOK /\ TypeOK' /\ LedgerInv /\ LedgerInv' /\ FollowInv /\ AnyStep
     => [Lifecycle!Next]_lifecycle
<1> SUFFICES ASSUME TypeOK, TypeOK', LedgerInv, LedgerInv', FollowInv, AnyStep
             PROVE  [Lifecycle!Next]_lifecycle
  OBVIOUS
<1>a. HolderOK /\ HolderOK' /\ Stages /\ Stages'
  BY StagesHold, StagesHoldNext DEF LedgerInv
<1>b. \A i \in Items : row[i] \in RowType /\ PipelineOf[i] \in Pipelines
  BY JobQueueAssumption DEF TypeOK
<1>c. \A i \in Items : row'[i] = row[i] /\ (Worked(i)' <=> Worked(i))
                         => lifecycle'[i] = lifecycle[i]
  BY <1>a, Unmoved
<1>1. ASSUME NEW s \in Sessions, DeleteSession(s) PROVE [Lifecycle!Next]_lifecycle
  <2> DEFINE S == {i \in Items : SessionOf[i] = s}
  <2>1. \A i \in S : lifecycle[i] \in Lifecycle!State /\ lifecycle'[i] = "none"
    <3>1. \A i \in S : row'[i].status = "absent"
      BY <1>1, <1>b, RowEffects DEF DeleteSession
    <3>2. \A i \in S : row[i].status \in Status
      BY <1>b DEF RowType
    <3> QED BY <1>a, <3>1, <3>2 DEF Stages, Status, Lifecycle!State
  <2>2. \A i \in Items \ S : lifecycle'[i] = lifecycle[i]
    BY <1>1, <1>c DEF DeleteSession, Worked, Claimed
  <2>3. Lifecycle!Move(S, Lifecycle!State, "none")
    BY <2>1, <2>2, Moved
  <2>4. \A i \in S : FollowUp[i] # NoItem => FollowUp[i] \in S
    BY JobQueueAssumption
  <2>5. Lifecycle!Forget(S)
    BY <2>3, <2>4 DEF Lifecycle!Forget
  <2> QED BY <2>5, StepOrStutter
<1>2. ASSUME NEW j \in Items, Redo(j) PROVE [Lifecycle!Next]_lifecycle
  <2>1. lifecycle[j] \in Lifecycle!State /\ lifecycle'[j] = "none"
    <3>1. row'[j].status = "absent"
      BY <1>2, <1>b, RowEffects DEF Redo, TypeOK
    <3>2. row[j].status \in Status
      BY <1>b DEF RowType
    <3> QED BY <1>a, <3>1, <3>2 DEF Stages, Status, Lifecycle!State
  <2>2. \A i \in Items \ {j} : lifecycle'[i] = lifecycle[i]
    BY <1>2, <1>c DEF Redo, Worked, Claimed, TypeOK
  <2>3. Lifecycle!Move({j}, Lifecycle!State, "none")
    BY <2>1, <2>2, Moved
  <2>4. Lifecycle!Forget({j})
    BY <1>2, <2>3 DEF Lifecycle!Forget, Redo
  <2> QED BY <2>4, StepOrStutter
<1>3. ASSUME NEW p \in Pipelines, Boot(p) PROVE [Lifecycle!Next]_lifecycle
  <2> DEFINE S == {i \in Items : Orphan(p, i)}
  <2>1. \A i \in S : lifecycle[i] \in {"interrupted", "dead"} /\ lifecycle'[i] = "waiting"
    <3>1. \A i \in S : ~Worked(i) /\ row[i].status \in {"running", "dead"}
      BY <1>3, <1>a, Idle DEF Boot, Orphan, Holding
    <3>2. \A i \in S : row'[i].status = "queued"
      BY <1>3, <1>b, RowEffects DEF Boot
    <3> QED BY <1>a, <3>1, <3>2 DEF Stages
  <2>2. \A i \in Items \ S : lifecycle'[i] = lifecycle[i]
    BY <1>3, <1>c DEF Boot, Worked, Claimed
  <2>3. Lifecycle!Recover(S)
    BY <2>1, <2>2, Moved DEF Lifecycle!Recover
  <2> QED BY <2>3, StepOrStutter
<1>4. ASSUME NEW p \in Pipelines, EnqueueMany(p) PROVE [Lifecycle!Next]_lifecycle
  <2>1. CASE row' = row
    BY <1>4, <1>c, <2>1, StepOrStutter DEF EnqueueMany, Worked, Claimed
  <2>2. CASE row' # row
    <3> DEFINE S == {i \in found[p] : row[i].status = "absent"}
    <3>0. S \in SUBSET Items /\ \A i \in S : i \notin Chained
      BY DEF FollowInv
    <3>1. \A i \in S : lifecycle[i] \in {"none"} /\ lifecycle'[i] = "waiting"
      <4>1. \A i \in S : row'[i].status = "queued"
        BY <1>4, <1>b, <2>2, <3>0, RowEffects DEF EnqueueMany
      <4> QED BY <1>a, <3>0, <4>1 DEF Stages
    <3>2. \A i \in Items \ S : lifecycle'[i] = lifecycle[i]
      BY <1>4, <1>c, <2>2 DEF EnqueueMany, Worked, Claimed
    <3>3. \A i \in Items : FollowUp[i] \notin S
      BY <3>0 DEF Chained
    <3>4. Lifecycle!Queue(S)
      BY <3>0, <3>1, <3>2, <3>3, Moved DEF Lifecycle!Queue
    <3> QED BY <3>0, <3>4, StepOrStutter
  <2> QED BY <2>1, <2>2
<1>5. ASSUME NEW p \in Pipelines, NEW j \in Items, Claim(p, j)
      PROVE  [Lifecycle!Next]_lifecycle
  <2>0. PipelineOf[j] = p /\ row[j].status = "queued"
    BY <1>5 DEF Claim, Runnable
  <2>1. lifecycle[j] \in {"waiting"} /\ lifecycle'[j] = "working"
    <3>1. /\ row'[j].status = "running" /\ row'[j].gen = row[j].gen
          /\ held'[p].item = j /\ held'[p].gen = row[j].gen
      BY <1>5, <1>b DEF Claim, TypeOK, RowType
    <3>2. Worked(j)'
      BY <2>0, <3>1 DEF Worked, Claimed
    <3> QED BY <1>a, <2>0, <3>1, <3>2 DEF Stages
  <2>2. ASSUME NEW i \in Items \ {j} PROVE lifecycle'[i] = lifecycle[i]
    <3>1. row'[i] = row[i]
      BY <1>5 DEF Claim, TypeOK
    <3>2. CASE PipelineOf[i] # p
      BY <1>5, <1>b, <1>c, <3>1, <3>2 DEF Claim, Worked, Claimed, TypeOK
    <3>3. CASE PipelineOf[i] = p
      <4>1. ~Worked(i)
        BY <1>5, <1>a, <3>3, Idle DEF Claim, Holding
      <4>2. ~Worked(i)'
        BY <1>5, <3>3 DEF Claim, Worked, Claimed, TypeOK
      <4> QED BY <1>c, <3>1, <4>1, <4>2
    <3> QED BY <3>2, <3>3
  <2>3. Lifecycle!Start(j)
    BY <2>1, <2>2, Moved DEF Lifecycle!Start
  <2> QED BY <2>3, StepOrStutter
\* A worker lets go of what it holds, and its row is as it was.
<1>6. ASSUME NEW p \in Pipelines, row' = row, held' = [held EXCEPT ![p] = NoJob]
      PROVE  [Lifecycle!Next]_lifecycle
  <2>1. ASSUME NEW i \in Items, ~(PipelineOf[i] = p /\ Worked(i))
        PROVE  lifecycle'[i] = lifecycle[i]
    <3>1. CASE PipelineOf[i] # p
      BY <1>6, <1>b, <1>c, <3>1 DEF Worked, Claimed, TypeOK
    <3>2. CASE PipelineOf[i] = p
      <4>1. ~Worked(i)'
        BY <1>6, <3>2, JobQueueAssumption DEF Worked, Claimed, TypeOK, NoJob
      <4> QED BY <1>6, <1>c, <2>1, <3>2, <4>1
    <3> QED BY <3>1, <3>2
  <2>2. CASE \E i \in Items : PipelineOf[i] = p /\ Worked(i)
    <3>1. PICK j \in Items : PipelineOf[j] = p /\ Worked(j)
      BY <2>2
    <3>2. \A i \in Items \ {j} : ~(PipelineOf[i] = p /\ Worked(i))
      BY <3>1 DEF Worked, Claimed
    <3>3. ~Worked(j)'
      BY <1>6, <3>1, JobQueueAssumption DEF Worked, Claimed, TypeOK, NoJob
    <3>4. lifecycle[j] \in {"working"} /\ lifecycle'[j] = "interrupted"
      BY <1>6, <1>a, <3>1, <3>3 DEF Stages, Worked, Claimed
    <3>5. Lifecycle!Interrupt(j)
      BY <2>1, <3>2, <3>4, Moved DEF Lifecycle!Interrupt
    <3> QED BY <3>5, StepOrStutter
  <2>3. CASE ~\E i \in Items : PipelineOf[i] = p /\ Worked(i)
    BY <2>1, <2>3, StepOrStutter
  <2> QED BY <2>2, <2>3
\* A worker records the outcome of its run, if its row is still there.
<1>7. ASSUME NEW p \in Pipelines,
             row' = [i \in Items |-> IF Claimed(p, i) THEN Recorded(p, row[i]) ELSE row[i]],
             held' = held \/ held' = [held EXCEPT ![p] = NoJob],
             held[p].item \in Items => PipelineOf[held[p].item] = p
      PROVE  [Lifecycle!Next]_lifecycle
  <2>0. \A i \in Items : Claimed(p, i) =>
           /\ PipelineOf[i] = p /\ Worked(i) /\ i = held[p].item
           /\ row'[i].status \in {"succeeded", "dead", "queued"}
    BY <1>7, <1>b, RowEffects DEF Claimed, Worked
  <2>1. ASSUME NEW i \in Items, ~Claimed(p, i) PROVE lifecycle'[i] = lifecycle[i]
    <3>1. row'[i] = row[i]
      BY <1>7, <2>1
    <3>2. CASE PipelineOf[i] # p
      BY <1>7, <1>b, <1>c, <3>1, <3>2 DEF Worked, Claimed, TypeOK
    <3>3. CASE PipelineOf[i] = p
      <4>1. ~Worked(i) /\ ~Worked(i)'
        BY <1>7, <2>1, <3>1, <3>3, JobQueueAssumption DEF Worked, Claimed, TypeOK, NoJob
      <4> QED BY <1>c, <3>1, <4>1
    <3> QED BY <3>2, <3>3
  <2>2. CASE \E i \in Items : Claimed(p, i)
    <3>1. PICK j \in Items : Claimed(p, j)
      BY <2>2
    <3>2. \A i \in Items \ {j} : ~Claimed(p, i)
      BY <3>1 DEF Claimed
    <3>3. /\ lifecycle[j] \in {"working"}
          /\ lifecycle'[j] \in {"succeeded", "dead", "waiting"}
      BY <1>a, <2>0, <3>1 DEF Stages, Claimed
    <3>4. \A i \in Items \ {j} : lifecycle'[i] = lifecycle[i]
      BY <2>1, <3>2
    <3>5. Lifecycle!Move({j}, {"working"}, lifecycle'[j])
      BY <3>3, <3>4, Moved
    <3>6. Lifecycle!Succeed(j) \/ Lifecycle!Fail(j)
      BY <3>3, <3>5 DEF Lifecycle!Succeed, Lifecycle!Fail
    <3> QED BY <3>6, StepOrStutter
  <2>3. CASE ~\E i \in Items : Claimed(p, i)
    BY <2>1, <2>3, StepOrStutter
  <2> QED BY <2>2, <2>3
<1>8. ASSUME NEW p \in Pipelines, Finish(p) PROVE [Lifecycle!Next]_lifecycle
  BY <1>7, <1>8, <1>a DEF Finish, HolderOK, Holding, Outcome
<1>9. ASSUME NEW p \in Pipelines, FinishFails(p) PROVE [Lifecycle!Next]_lifecycle
  <2>1. CASE row' = row
    BY <1>6, <1>9, <2>1 DEF FinishFails
  <2>2. CASE row' = [i \in Items |->
                       IF Claimed(p, i) THEN Recorded(p, row[i]) ELSE row[i]]
    BY <1>7, <1>9, <1>a, <2>2 DEF FinishFails, HolderOK, Holding, Outcome
  <2> QED BY <1>9, <2>1, <2>2 DEF FinishFails
<1>10. ASSUME NEW p \in Pipelines, Callback(p) PROVE [Lifecycle!Next]_lifecycle
  <2> DEFINE target == FollowUp[held[p].item]
  <2>1. CASE row' = row
    BY <1>6, <1>10, <2>1 DEF Callback
  <2>2. CASE /\ target # NoItem /\ row[target].status = "absent"
             /\ session[SessionOf[target]] # "gone"
             /\ row' = [row EXCEPT ![target] = Inserted(target)]
    <3>1. /\ held[p].item \in Items /\ target \in Items
          /\ SessionOf[target] = SessionOf[held[p].item]
          /\ PipelineOf[held[p].item] = p /\ pc[p] = "callback"
      BY <1>10, <1>a, <2>2, JobQueueAssumption DEF Callback, HolderOK, Holding
    <3>2. row[held[p].item].status = "succeeded"
      BY <2>2, <3>1 DEF FollowInv, CallbackIsDue
    <3>3. row'[target].status = "queued"
      BY <2>2, <3>1, <1>b, RowEffects DEF TypeOK
    <3>4. lifecycle[target] \in {"none"} /\ lifecycle'[target] = "waiting"
      BY <1>a, <2>2, <3>1, <3>3 DEF Stages
    <3>5. ASSUME NEW i \in Items \ {target} PROVE lifecycle'[i] = lifecycle[i]
      <4>1. row'[i] = row[i]
        BY <2>2, <3>1 DEF TypeOK
      <4>2. CASE PipelineOf[i] # p
        BY <1>10, <1>b, <1>c, <4>1, <4>2 DEF Callback, Worked, Claimed, TypeOK
      <4>3. CASE PipelineOf[i] = p
        <5>1. ~Worked(i)
          BY <3>1, <3>2, <4>3 DEF Worked, Claimed
        <5>2. ~Worked(i)'
          BY <1>10, <4>3, JobQueueAssumption DEF Callback, Worked, Claimed, TypeOK, NoJob
        <5> QED BY <1>c, <4>1, <5>1, <5>2
      <4> QED BY <4>2, <4>3
    <3>6. \A i \in Items : FollowUp[i] \in {target} => lifecycle[i] = "succeeded"
      BY <1>a, <2>2, <3>1, <3>2, FollowUpAssumption DEF Stages
    <3>7. Lifecycle!Queue({target})
      BY <3>1, <3>4, <3>5, <3>6, Moved DEF Lifecycle!Queue
    <3> QED BY <3>1, <3>7, StepOrStutter
  <2> QED BY <1>10, <2>1, <2>2 DEF Callback
<1>11. ASSUME NEW p \in Pipelines, Die(p) PROVE [Lifecycle!Next]_lifecycle
  BY <1>6, <1>11 DEF Die
<1>12. CASE \/ Tick
            \/ \E s \in Sessions : EndSession(s)
            \/ \E p \in Pipelines : \/ Terminate(p) \/ Discover(p) \/ Drained(p) \/ Wake(p)
                                    \/ Exit(p) \/ Return(p) \/ Raise(p) \/ Unavailable(p)
                                    \/ PassFails(p)
            \/ UNCHANGED vars
            \/ UNCHANGED <<session, row, now, pc, found, held, faults>>
  <2>1. UNCHANGED <<row, held>>
    BY <1>12 DEF Tick, EndSession, Terminate, Discover, Drained, Wake, Exit, Return,
                 Raise, Unavailable, PassFails, vars
  <2> QED BY <1>c, <2>1, StepOrStutter DEF Worked, Claimed
<1>13. ASSUME NEW p \in Pipelines, Step(p) PROVE [Lifecycle!Next]_lifecycle
  BY <1>3, <1>4, <1>5, <1>8, <1>10, <1>12, <1>13 DEF Step
<1>14. CASE Next
  BY <1>1, <1>2, <1>9, <1>11, <1>12, <1>13, <1>14 DEF Next, Crash
<1> QED BY <1>11, <1>12, <1>14 DEF AnyStep

LEMMA LifecycleInit == Init => Lifecycle!Init
BY DEF Init, Lifecycle!Init, lifecycle

\* The queue implements JobLifecycle: whatever crashes, fails or is redone, a
\* job is taken up by one worker at a time, has one outcome per run, is taken
\* up again when it was interrupted and not when it succeeded, and a follow-up
\* is only ever queued behind a success.
THEOREM LifecycleIsImplemented == Spec => ImplementsLifecycle
<1> DEFINE Inv == TypeOK /\ LedgerInv /\ FollowInv
<1>1. Init => Inv
  BY InitType, LedgerInit, FollowInit
<1>2. Inv /\ [Next]_vars => Inv'
  BY StepType, LedgerStep, FollowStep DEF AnyStep
<1>3. Inv /\ Inv' /\ [Next]_vars => [Lifecycle!Next]_lifecycle
  BY LifecycleStep DEF AnyStep
<1> QED
  BY <1>1, <1>2, <1>3, LifecycleInit, PTL DEF Spec, ImplementsLifecycle, Lifecycle!Spec

----------------------------------------------------------------------------
(* The queue under the supervisor.                                         *)

\* Whatever the supervisor, its children or the environment do is something
\* that can happen to the queue.
LEMMA SupStepIsQueueStep == [SupNext]_allVars => AnyStep
<1> SUFFICES ASSUME [SupNext]_allVars PROVE AnyStep
  OBVIOUS
<1>1. CASE Pass \/ Stopped \/ Signal \/ SupTick \/ UNCHANGED allVars
  BY <1>1 DEF Pass, Stopped, Signal, SupTick, allVars, vars, AnyStep
<1>2. ASSUME NEW p \in Pipelines, Look(p) PROVE AnyStep
  BY <1>2 DEF Look, vars, AnyStep
<1>3. CASE TerminateAll
  BY <1>3 DEF TerminateAll, AnyStep
<1>4. ASSUME NEW p \in Pipelines, Kill(p) PROVE AnyStep
  BY <1>4 DEF Kill, AnyStep
<1>5. ASSUME NEW p \in Pipelines, Works(p) PROVE AnyStep
  BY <1>5 DEF Works, Next, AnyStep
<1>6. ASSUME NEW p \in Pipelines, Dies(p) PROVE AnyStep
  BY <1>6 DEF Dies, Next, AnyStep
<1>7. ASSUME NEW p \in Pipelines, DiesAtBoot(p) PROVE AnyStep
  BY <1>7 DEF DiesAtBoot, AnyStep
<1>8. CASE Environment
  BY <1>8 DEF Environment, Next, AnyStep
<1> QED BY <1>1, <1>2, <1>3, <1>4, <1>5, <1>6, <1>7, <1>8 DEF SupNext, Supervise

\* The supervisor keeps the types of the queue's variables: it writes them
\* itself only when it signals, kills, or a child dies before its loop.
LEMMA SupStepType == TypeOK /\ [SupNext]_allVars => TypeOK'
<1> SUFFICES ASSUME TypeOK, [SupNext]_allVars PROVE TypeOK'
  OBVIOUS
<1>1. CASE TerminateAll
  BY <1>1 DEF TerminateAll, TypeOK
<1>2. ASSUME NEW p \in Pipelines, Kill(p) PROVE TypeOK'
  <2>1. NoJob \in JobType
    BY DEF NoJob, JobType
  <2> QED BY <1>2, <2>1 DEF Kill, Die, TypeOK, Pc
<1>3. ASSUME NEW p \in Pipelines, DiesAtBoot(p) PROVE TypeOK'
  <2>1. budget' \in [stops : Nat, outages : Nat, db : Nat]
    BY <1>3 DEF DiesAtBoot, TypeOK
  <2> QED BY <1>3, <2>1 DEF DiesAtBoot, TypeOK
<1>4. CASE \/ Pass \/ Stopped \/ Signal \/ SupTick \/ Environment
           \/ \E p \in Pipelines : Look(p) \/ Works(p) \/ Dies(p)
           \/ UNCHANGED allVars
  <2>1. [Next]_vars
    BY <1>4 DEF Pass, Stopped, Signal, SupTick, Environment, Look, Works, Dies, allVars, Next
  <2> QED BY <2>1, StepType
<1> QED BY <1>1, <1>2, <1>3, <1>4 DEF SupNext, Supervise

\* What the queue keeps under the supervisor.
QueueInv == TypeOK /\ LedgerInv /\ FollowInv

LEMMA SupInitQueue == SupInit => QueueInv
BY InitType, LedgerInit, FollowInit DEF SupInit, QueueInv

LEMMA SupStepQueue == QueueInv /\ [SupNext]_allVars => QueueInv'
<1> SUFFICES ASSUME QueueInv, [SupNext]_allVars PROVE QueueInv'
  OBVIOUS
<1>1. TypeOK /\ TypeOK' /\ AnyStep
  BY SupStepType, SupStepIsQueueStep DEF QueueInv
<1>2. LedgerInv'
  BY <1>1, LedgerStep DEF QueueInv
<1>3. FollowInv'
  BY <1>1, FollowStep DEF QueueInv
<1> QED BY <1>1, <1>2, <1>3 DEF QueueInv

\* The restarts, the signals and the kills of the supervisor leave the queue
\* exact: no run loses its row, every attempt is accounted for, and only a
\* job's own faults ever dead-letter it.
THEOREM LedgerHoldsSupervised ==
  SupSpec => [](ClaimIsExclusive /\ AttemptsExact /\ DeadIsEarned)
<1>1. QueueInv => ClaimIsExclusive /\ AttemptsExact /\ DeadIsEarned
  BY DEF QueueInv, LedgerInv
<1> QED BY <1>1, SupInitQueue, SupStepQueue, PTL DEF SupSpec

\* The queue implements JobLifecycle when its workers are children that only
\* the supervisor starts, after delays, and that it may kill in a run.
THEOREM LifecycleIsImplementedSupervised == SupSpec => ImplementsLifecycle
<1>1. QueueInv /\ QueueInv' /\ [SupNext]_allVars => [Lifecycle!Next]_lifecycle
  <2>1. QueueInv => TypeOK /\ LedgerInv /\ FollowInv
    BY DEF QueueInv
  <2>2. QueueInv' => TypeOK' /\ LedgerInv'
    BY DEF QueueInv
  <2> QED BY <2>1, <2>2, SupStepIsQueueStep, LifecycleStep
<1>2. SupInit => Lifecycle!Init
  BY LifecycleInit DEF SupInit
<1> QED
  BY <1>1, <1>2, SupInitQueue, SupStepQueue, PTL
     DEF SupSpec, ImplementsLifecycle, Lifecycle!Spec

----------------------------------------------------------------------------
(* The supervisor's own state.                                             *)

LEMMA EarliestGrows ==
  /\ Earliest[0] = 0 /\ Earliest[1] = RestartBase
  /\ Earliest[2] = RestartBase + Least(RestartCap, 2 * RestartBase)
  /\ Earliest[1] <= Earliest[2]
  /\ \A n \in 0..2 : Earliest[n] \in Nat /\ Earliest[n] <= Earliest[2]
<1>1. /\ Earliest[0] = 0 /\ Earliest[1] = RestartBase
      /\ Earliest[2] = RestartBase + Least(RestartCap, 2 * RestartBase)
  BY DEF Earliest
<1>2. RestartBase \in Nat /\ Least(RestartCap, 2 * RestartBase) \in Nat
  BY SupervisorAssumption DEF Least
<1> QED BY <1>1, <1>2

LEMMA SupInitType == SupInit => SupTypeOK
BY InitType, SupervisorAssumption DEF SupInit, SupTypeOK

\* What one look at a child does to it.
LEMMA LookEffects ==
  ASSUME SupTypeOK, NEW p \in Pipelines, Look(p)
  PROVE  /\ lag' = lag
         /\ \A q \in Pipelines \ {p} :
               /\ child'[q] = child[q] /\ wait'[q] = wait[q] /\ delay'[q] = delay[q]
               /\ up'[q] = up[q] /\ streak'[q] = streak[q] /\ since'[q] = since[q]
         \* Not dead: started once nothing is left of its delay.
         /\ child[p] # "dead" =>
               /\ wait'[p] = wait[p] /\ delay'[p] = delay[p]
               /\ streak'[p] = streak[p] /\ since'[p] = since[p]
               /\ \/ child'[p] = child[p]
                  \/ child[p] = "none" /\ wait[p] = 0 /\ child'[p] = "alive"
         \* Dead: a death that begins a streak, or one that carries it on.
         /\ child[p] = "dead" =>
               /\ child'[p] = "none"
               /\ \/ /\ up[p] >= RestartReset
                     /\ wait'[p] = RestartBase /\ streak'[p] = 1 /\ since'[p] = lag
                     /\ delay'[p] = Least(RestartCap, 2 * RestartBase)
                  \/ /\ wait'[p] = delay[p] /\ streak'[p] = Least(2, streak[p] + 1)
                     /\ since'[p] = IF streak'[p] = 1 THEN lag ELSE since[p]
                     /\ delay'[p] = Least(RestartCap, 2 * delay[p])
<1> DEFINE died == child[p] = "dead"
           earned == died /\ RanForAWhile(p)
           pause == IF earned THEN RestartBase ELSE delay[p]
           left == IF died THEN pause ELSE wait[p]
           starts == child[p] # "alive" /\ left = 0
<1>1. /\ wait' = [wait EXCEPT ![p] = left]
      /\ delay' = [delay EXCEPT ![p] = IF died THEN Least(RestartCap, 2 * pause) ELSE @]
      /\ child' = [child EXCEPT ![p] = IF starts THEN "alive" ELSE IF died THEN "none" ELSE @]
      /\ up' = [up EXCEPT ![p] = IF starts THEN -lag ELSE IF died THEN 0 ELSE @]
      /\ streak' = [streak EXCEPT ![p] =
            IF ~died THEN @ ELSE IF up[p] >= RestartReset THEN 1 ELSE Least(2, @ + 1)]
      /\ since' = [since EXCEPT ![p] = IF died /\ streak'[p] = 1 THEN lag ELSE @]
  BY DEF Look
<1>2. /\ child \in [Pipelines -> {"none", "alive", "dead"}]
      /\ wait \in [Pipelines -> Nat] /\ delay \in [Pipelines -> Nat \ {0}]
      /\ up \in [Pipelines -> Int] /\ since \in [Pipelines -> Nat]
      /\ streak \in [Pipelines -> 0..2]
  BY DEF SupTypeOK
<1>3. RestartBase \in Nat \ {0}
  BY SupervisorAssumption
<1>4. \A q \in Pipelines \ {p} :
         /\ child'[q] = child[q] /\ wait'[q] = wait[q] /\ delay'[q] = delay[q]
         /\ up'[q] = up[q] /\ streak'[q] = streak[q] /\ since'[q] = since[q]
  BY <1>1, <1>2
<1>5. /\ wait'[p] = left
      /\ delay'[p] = IF died THEN Least(RestartCap, 2 * pause) ELSE delay[p]
      /\ child'[p] = IF starts THEN "alive" ELSE IF died THEN "none" ELSE child[p]
      /\ streak'[p] = IF ~died THEN streak[p]
                      ELSE IF up[p] >= RestartReset THEN 1 ELSE Least(2, streak[p] + 1)
      /\ since'[p] = IF died /\ streak'[p] = 1 THEN lag ELSE since[p]
  BY <1>1, <1>2
<1>0. lag' = lag
  BY DEF Look
<1>6. CASE ~died
  <2>1. /\ wait'[p] = wait[p] /\ delay'[p] = delay[p]
        /\ streak'[p] = streak[p] /\ since'[p] = since[p]
    BY <1>5, <1>6
  <2>2. \/ child'[p] = child[p]
        \/ child[p] = "none" /\ wait[p] = 0 /\ child'[p] = "alive"
    BY <1>2, <1>5, <1>6
  <2> QED BY <1>0, <1>4, <1>6, <2>1, <2>2
<1>7. CASE died
  <2>1. left \in Nat \ {0} /\ left = pause
    BY <1>2, <1>3, <1>7
  <2>2. child'[p] = "none"
    BY <1>5, <1>7, <2>1
  <2>3. CASE up[p] >= RestartReset
    <3>1. pause = RestartBase
      BY <1>7, <2>3 DEF RanForAWhile
    <3> QED BY <1>0, <1>4, <1>5, <1>7, <2>1, <2>2, <2>3, <3>1
  <2>4. CASE ~(up[p] >= RestartReset)
    <3>1. pause = delay[p]
      BY <1>7, <2>4 DEF RanForAWhile
    <3> QED BY <1>0, <1>4, <1>5, <1>7, <2>1, <2>2, <2>4, <3>1
  <2> QED BY <2>3, <2>4
<1> QED BY <1>6, <1>7

LEMMA SupTypeStep == SupTypeOK /\ [SupNext]_allVars => SupTypeOK'
<1> SUFFICES ASSUME SupTypeOK, [SupNext]_allVars PROVE SupTypeOK'
  OBVIOUS
<1>a. TypeOK'
  BY SupStepType DEF SupTypeOK
<1>b. /\ RestartBase \in Nat \ {0} /\ RestartCap \in Nat \ {0} /\ RestartReset \in Nat
      /\ MaxLag \in Nat /\ lag \in 0..MaxLag /\ 0 \in 0..MaxLag
      /\ \A n \in Nat \ {0} : Least(RestartCap, 2 * n) \in Nat \ {0}
      /\ \A n \in 0..2 : Least(2, n + 1) \in 0..2
  BY SupervisorAssumption DEF Least, SupTypeOK
<1>1. CASE Stopped \/ Signal \/ Environment \/ UNCHANGED allVars
  BY <1>1, <1>a DEF Stopped, Signal, Environment, allVars, sup, SupTypeOK
<1>2. ASSUME NEW p \in Pipelines, Look(p) PROVE SupTypeOK'
  <2>1. /\ phase' = phase /\ lag' = lag /\ todo' \in SUBSET Pipelines
        /\ up' \in [Pipelines -> Int]
    BY <1>2, <1>b DEF Look, SupTypeOK
  <2>2. ASSUME NEW q \in Pipelines
        PROVE  /\ child'[q] \in {"none", "alive", "dead"} /\ wait'[q] \in Nat
               /\ delay'[q] \in Nat \ {0} /\ streak'[q] \in 0..2 /\ since'[q] \in Nat
    <3>1. /\ child[q] \in {"none", "alive", "dead"} /\ wait[q] \in Nat
          /\ delay[q] \in Nat \ {0} /\ streak[q] \in 0..2 /\ since[q] \in Nat
      BY DEF SupTypeOK
    <3>2. CASE q # p \/ child[p] # "dead"
      BY <1>2, <3>1, <3>2, LookEffects
    <3>3. CASE q = p /\ child[p] = "dead"
      BY <1>2, <1>b, <3>1, <3>3, LookEffects
    <3> QED BY <3>2, <3>3
  <2>3. /\ child' = [q \in Pipelines |-> child'[q]] /\ wait' = [q \in Pipelines |-> wait'[q]]
        /\ delay' = [q \in Pipelines |-> delay'[q]]
        /\ streak' = [q \in Pipelines |-> streak'[q]]
        /\ since' = [q \in Pipelines |-> since'[q]]
    BY <1>2 DEF Look, SupTypeOK
  <2>4. /\ child' \in [Pipelines -> {"none", "alive", "dead"}]
        /\ wait' \in [Pipelines -> Nat] /\ delay' \in [Pipelines -> Nat \ {0}]
        /\ streak' \in [Pipelines -> 0..2] /\ since' \in [Pipelines -> Nat]
    BY <2>2, <2>3
  <2> QED BY <1>a, <1>b, <2>1, <2>4 DEF SupTypeOK
<1>3. CASE TerminateAll
  BY <1>3, <1>a DEF TerminateAll, SupTypeOK
<1>4. ASSUME NEW p \in Pipelines, Kill(p) \/ DiesAtBoot(p) PROVE SupTypeOK'
  BY <1>4, <1>a DEF Kill, DiesAtBoot, SupTypeOK
<1>5. ASSUME NEW p \in Pipelines, Works(p) \/ Dies(p) PROVE SupTypeOK'
  BY <1>5, <1>a DEF Works, Dies, ChildFollows, SupTypeOK
<1>6. CASE SupTick
  <2>1. /\ UNCHANGED <<phase, todo, child, wait, delay, up, streak>>
        /\ lag < MaxLag /\ lag' = lag + 1
        /\ since' = [p \in Pipelines |->
                       IF streak[p] = 0 THEN 0 ELSE Least(Earliest[2] + MaxLag, since[p] + 1)]
    BY <1>6 DEF SupTick
  <2>2. \A p \in Pipelines : since[p] \in Nat
    BY DEF SupTypeOK
  <2>3. Earliest[2] \in Nat /\ lag' \in 0..MaxLag
    BY <1>b, <2>1, EarliestGrows
  <2>4. since' \in [Pipelines -> Nat]
    BY <1>b, <2>1, <2>2, <2>3 DEF Least
  <2> QED BY <1>a, <2>1, <2>3, <2>4 DEF SupTypeOK
<1>7. CASE Pass
  <2>1. /\ UNCHANGED <<phase, child, delay, streak, since>>
        /\ todo' = Pipelines /\ lag' = 0
        /\ wait' = [p \in Pipelines |-> IF wait[p] > lag THEN wait[p] - lag ELSE 0]
        /\ up' = [p \in Pipelines |->
                    IF child[p] = "none" THEN 0 ELSE Least(RestartReset, up[p] + lag)]
    BY <1>7 DEF Pass
  <2>2. \A p \in Pipelines : wait[p] \in Nat /\ up[p] \in Int
    BY DEF SupTypeOK
  <2>3. wait' \in [Pipelines -> Nat]
    BY <1>b, <2>1, <2>2
  <2>4. up' \in [Pipelines -> Int]
    BY <1>b, <2>1, <2>2 DEF Least
  <2> QED BY <1>a, <1>b, <2>1, <2>3, <2>4 DEF SupTypeOK
<1> QED BY <1>1, <1>2, <1>3, <1>4, <1>5, <1>6, <1>7 DEF SupNext, Supervise

\* Every variable of the supervisor and of the queue under it keeps its type.
THEOREM SupTypeCorrect == SupSpec => []SupTypeOK
<1>1. QED BY SupInitType, SupTypeStep, PTL DEF SupSpec

----------------------------------------------------------------------------
(* The crash loop.                                                         *)

LEMMA ThrottleInit == SupInit => ThrottleInv
BY SupervisorAssumption, EarliestGrows DEF SupInit, ThrottleInv

\* Nothing but the loop and the clock has a say in the delays: a child that
\* dies, or is killed, is still one that was started late enough.
LEMMA ThrottleFrame ==
  ASSUME ThrottleInv, UNCHANGED <<lag, wait, delay, streak, since>>,
         \A p \in Pipelines : child'[p] = "none" <=> child[p] = "none"
  PROVE  ThrottleInv'
BY DEF ThrottleInv, Owed

\* A look at a child that is not dead: it is started only when it owes nothing.
LEMMA LookThrottled ==
  ASSUME SupTypeOK, ThrottleInv, NEW p \in Pipelines, Look(p), child[p] # "dead",
         streak'[p] # 0
  PROVE  since'[p] - lag' + Owed(p)' >= Earliest[streak'[p]]
<1>1. /\ lag' = lag /\ wait'[p] = wait[p] /\ streak'[p] = streak[p] /\ since'[p] = since[p]
      /\ \/ child'[p] = child[p]
         \/ child[p] = "none" /\ wait[p] = 0 /\ child'[p] = "alive"
  BY LookEffects
<1>2. since[p] - lag + Owed(p) >= Earliest[streak[p]]
  BY <1>1 DEF ThrottleInv
<1>3. Owed(p)' = Owed(p)
  BY <1>1 DEF Owed
<1> QED BY <1>1, <1>2, <1>3

\* A look at a dead child: the delay it is given is the next of its streak.
LEMMA DeathThrottled ==
  ASSUME SupTypeOK, ThrottleInv, NEW p \in Pipelines, Look(p), child[p] = "dead"
  PROVE  /\ streak'[p] \in 1..2
         /\ since'[p] - lag' + Owed(p)' >= Earliest[streak'[p]]
         /\ streak'[p] = 1 => delay'[p] = Least(RestartCap, 2 * RestartBase)
<1>a. /\ RestartBase \in Nat \ {0} /\ RestartCap \in Nat
      /\ lag \in Nat /\ wait[p] \in Nat /\ delay[p] \in Nat \ {0}
      /\ since[p] \in Nat /\ streak[p] \in 0..2
  BY SupervisorAssumption DEF SupTypeOK
<1>b. lag' = lag /\ child'[p] = "none" /\ Owed(p)' = wait'[p]
  BY LookEffects DEF Owed
<1>c. streak[p] # 0 => since[p] - lag >= Earliest[streak[p]]
  <2>1. Owed(p) = 0
    BY DEF Owed
  <2> QED BY <1>a, <2>1 DEF ThrottleInv
<1>1. CASE /\ wait'[p] = RestartBase /\ streak'[p] = 1 /\ since'[p] = lag
           /\ delay'[p] = Least(RestartCap, 2 * RestartBase)
  BY <1>a, <1>b, <1>1, EarliestGrows
<1>2. CASE /\ wait'[p] = delay[p] /\ streak'[p] = Least(2, streak[p] + 1)
           /\ since'[p] = IF streak'[p] = 1 THEN lag ELSE since[p]
           /\ delay'[p] = Least(RestartCap, 2 * delay[p])
  <2>1. CASE streak[p] = 0
    <3>1. streak'[p] = 1 /\ since'[p] = lag /\ delay[p] = RestartBase
      BY <1>2, <2>1 DEF Least, ThrottleInv
    <3> QED BY <1>a, <1>b, <1>2, <3>1, EarliestGrows
  <2>2. CASE streak[p] = 1
    <3>1. /\ streak'[p] = 2 /\ since'[p] = since[p] /\ since[p] - lag >= RestartBase
          /\ delay[p] = Least(RestartCap, 2 * RestartBase)
      BY <1>2, <1>c, <2>2, EarliestGrows DEF Least, ThrottleInv
    <3>2. since[p] - lag + delay[p] >= Earliest[2]
      BY <1>a, <3>1, EarliestGrows
    <3> QED BY <1>b, <1>2, <3>1, <3>2
  <2>3. CASE streak[p] = 2
    <3>1. streak'[p] = 2 /\ since'[p] = since[p] /\ since[p] - lag >= Earliest[2]
      BY <1>2, <1>c, <2>3 DEF Least
    <3>2. since[p] - lag + delay[p] >= Earliest[2]
      BY <1>a, <3>1, EarliestGrows
    <3> QED BY <1>b, <1>2, <3>1, <3>2
  <2> QED BY <1>a, <2>1, <2>2, <2>3
<1> QED BY <1>1, <1>2, LookEffects

LEMMA ThrottleStep == SupTypeOK /\ ThrottleInv /\ [SupNext]_allVars => ThrottleInv'
<1> SUFFICES ASSUME SupTypeOK, ThrottleInv, [SupNext]_allVars PROVE ThrottleInv'
  OBVIOUS
<1>a. /\ \A q \in Pipelines : /\ wait[q] \in Nat /\ since[q] \in Nat /\ streak[q] \in 0..2
      /\ MaxLag \in Nat /\ lag \in 0..MaxLag
  BY SupervisorAssumption DEF SupTypeOK
<1>1. CASE Stopped \/ Signal \/ Environment \/ UNCHANGED allVars
  BY <1>1, ThrottleFrame DEF Stopped, Signal, Environment, allVars, sup
<1>2. ASSUME NEW p \in Pipelines, Look(p) PROVE ThrottleInv'
  <2>1. ASSUME NEW q \in Pipelines \ {p}
        PROVE  /\ streak'[q] # 0 => since'[q] - lag' + Owed(q)' >= Earliest[streak'[q]]
               /\ streak'[q] = 0 => delay'[q] = RestartBase
               /\ streak'[q] = 1 => delay'[q] = Least(RestartCap, 2 * RestartBase)
    BY <1>2, LookEffects DEF ThrottleInv, Owed
  <2>2. CASE child[p] # "dead"
    <3>1. delay'[p] = delay[p] /\ streak'[p] = streak[p]
      BY <1>2, <2>2, LookEffects
    <3> QED BY <1>2, <2>1, <2>2, <3>1, LookThrottled DEF ThrottleInv
  <2>3. CASE child[p] = "dead"
    BY <1>2, <2>1, <2>3, DeathThrottled DEF ThrottleInv
  <2> QED BY <2>2, <2>3
<1>3. CASE TerminateAll
  <2>1. \A p \in Pipelines : child'[p] = "none" <=> child[p] = "none"
    BY <1>3 DEF TerminateAll, Live, Alive
  <2> QED BY <1>3, <2>1, ThrottleFrame DEF TerminateAll
<1>4. ASSUME NEW p \in Pipelines, Kill(p) \/ DiesAtBoot(p) PROVE ThrottleInv'
  <2>1. \A q \in Pipelines : child'[q] = "none" <=> child[q] = "none"
    BY <1>4 DEF Kill, DiesAtBoot, Live, Alive, SupTypeOK
  <2> QED BY <1>4, <2>1, ThrottleFrame DEF Kill, DiesAtBoot
<1>5. ASSUME NEW p \in Pipelines, Works(p) \/ Dies(p) PROVE ThrottleInv'
  <2>1. \A q \in Pipelines : child'[q] = "none" <=> child[q] = "none"
    BY <1>5 DEF Works, Dies, ChildFollows, SupTypeOK
  <2> QED BY <1>5, <2>1, ThrottleFrame DEF Works, Dies
\* Between two samples what has passed and the lag grow together.
<1>6. CASE SupTick
  <2> SUFFICES ASSUME NEW q \in Pipelines, streak[q] # 0
               PROVE  since'[q] - lag' + Owed(q) >= Earliest[streak[q]]
    BY <1>6 DEF SupTick, ThrottleInv, Owed
  <2>1. /\ lag < MaxLag /\ lag' = lag + 1
        /\ since'[q] = Least(Earliest[2] + MaxLag, since[q] + 1)
    BY <1>6 DEF SupTick
  <2>2. /\ Earliest[streak[q]] \in Nat /\ Earliest[2] \in Nat
        /\ Earliest[streak[q]] <= Earliest[2]
    BY <1>a, EarliestGrows
  <2>3. since[q] - lag + Owed(q) >= Earliest[streak[q]] /\ Owed(q) \in Nat
    BY <1>a DEF ThrottleInv, Owed
  <2>4. since'[q] = Earliest[2] + MaxLag \/ since'[q] = since[q] + 1
    BY <2>1 DEF Least
  <2> QED BY <1>a, <2>1, <2>2, <2>3, <2>4
\* A new sample takes off a delay at most what has passed since the last.
<1>7. CASE Pass
  <2> SUFFICES ASSUME NEW q \in Pipelines, streak[q] # 0
               PROVE  since[q] - lag' + Owed(q)' >= Earliest[streak[q]]
    BY <1>7 DEF Pass, ThrottleInv
  <2>1. lag' = 0 /\ wait'[q] = IF wait[q] > lag THEN wait[q] - lag ELSE 0
    BY <1>7 DEF Pass
  <2>2. child'[q] = child[q]
    BY <1>7 DEF Pass
  <2>3. since[q] - lag + Owed(q) >= Earliest[streak[q]] /\ Earliest[streak[q]] \in Nat
    BY <1>a, EarliestGrows DEF ThrottleInv
  <2> QED BY <1>a, <2>1, <2>2, <2>3 DEF Owed
<1> QED BY <1>1, <1>2, <1>3, <1>4, <1>5, <1>6, <1>7 DEF SupNext, Supervise

\* A child that keeps dying is restarted ever later, whatever it dies of, for
\* every base, cap and reset and however the deaths, the passes and the clock
\* interleave.
THEOREM CrashLoopsAreThrottled == SupSpec => []CrashLoopIsThrottled
<1>1. SupInit => SupTypeOK /\ ThrottleInv
  BY SupInitType, ThrottleInit
<1>2. SupTypeOK /\ ThrottleInv /\ [SupNext]_allVars => (SupTypeOK /\ ThrottleInv)'
  BY SupTypeStep, ThrottleStep
<1>3. SupTypeOK /\ ThrottleInv => CrashLoopIsThrottled
  <2> SUFFICES ASSUME SupTypeOK, ThrottleInv, NEW p \in Pipelines, child[p] = "alive"
               PROVE  since[p] >= Earliest[streak[p]]
    BY DEF CrashLoopIsThrottled
  <2>1. /\ since[p] \in Nat /\ lag \in Nat /\ streak[p] \in 0..2
        /\ Earliest[0] = 0 /\ Earliest[streak[p]] \in Nat /\ Owed(p) = 0
    BY EarliestGrows DEF SupTypeOK, Owed
  <2> QED BY <2>1 DEF ThrottleInv
<1> QED BY <1>1, <1>2, <1>3, PTL DEF SupSpec

----------------------------------------------------------------------------
(* The end of the supervisor.                                              *)

LEMMA ChildrenInit == SupInit => ChildrenInv
BY DEF SupInit, Init, ChildrenInv

LEMMA ChildrenStep == SupTypeOK /\ ChildrenInv /\ [SupNext]_allVars => ChildrenInv'
<1> SUFFICES ASSUME SupTypeOK, ChildrenInv, [SupNext]_allVars PROVE ChildrenInv'
  OBVIOUS
<1>a. /\ pc \in [Pipelines -> Pc] /\ child \in [Pipelines -> {"none", "alive", "dead"}]
  BY DEF SupTypeOK, TypeOK
<1>b. \A p \in Pipelines : pc[p] # "down" => child[p] = "alive"
  BY DEF ChildrenInv
<1>c. phase = "stopped" => \A p \in Pipelines : child[p] # "alive"
  BY DEF ChildrenInv, Live, Alive
<1>d. ASSUME \A p \in Pipelines : pc'[p] # "down" => child'[p] = "alive",
             phase' = "stopped" => \A p \in Pipelines : child'[p] # "alive"
      PROVE  ChildrenInv'
  BY <1>d DEF ChildrenInv, Live, Alive
<1>1. CASE Pass \/ Signal \/ SupTick \/ UNCHANGED allVars
  BY <1>1, <1>b, <1>c, <1>d DEF Pass, Signal, SupTick, allVars, vars, sup
<1>2. CASE Stopped
  BY <1>2, <1>b, <1>d DEF Stopped, vars, Live, Alive
<1>3. CASE Environment
  <2>1. pc' = pc
    BY <1>3 DEF Environment, EndSession, DeleteSession, Redo, Tick
  <2> QED BY <1>3, <1>b, <1>c, <1>d, <2>1 DEF Environment, sup
<1>4. ASSUME NEW p \in Pipelines, Look(p) PROVE ChildrenInv'
  <2>1. pc' = pc /\ phase' = phase /\ phase # "stopped"
    BY <1>4 DEF Look, vars
  <2>2. \A q \in Pipelines : child[q] = "alive" => child'[q] = "alive"
    BY <1>4, <1>a, LookEffects
  <2> QED BY <1>b, <1>d, <2>1, <2>2
<1>5. CASE TerminateAll
  <2>1. pc' = pc /\ phase' = "grace"
    BY <1>5 DEF TerminateAll
  <2>2. \A p \in Pipelines : pc[p] # "down" => child'[p] = child[p]
    BY <1>5 DEF TerminateAll
  <2> QED BY <1>b, <1>d, <2>1, <2>2
<1>6. ASSUME NEW p \in Pipelines, Kill(p) PROVE ChildrenInv'
  <2>1. /\ phase' = "grace" /\ pc'[p] = "down"
        /\ \A q \in Pipelines \ {p} : pc'[q] = pc[q] /\ child'[q] = child[q]
    BY <1>6, <1>a DEF Kill, Die
  <2> QED BY <1>b, <1>d, <2>1
<1>7. ASSUME NEW p \in Pipelines, DiesAtBoot(p) PROVE ChildrenInv'
  <2>1. /\ phase' = phase /\ pc' = pc /\ pc[p] = "down" /\ child[p] = "alive"
        /\ \A q \in Pipelines \ {p} : child'[q] = child[q]
    BY <1>7, <1>a DEF DiesAtBoot
  <2> QED BY <1>b, <1>c, <1>d, <2>1
<1>8. ASSUME NEW p \in Pipelines, Works(p) \/ Dies(p) PROVE ChildrenInv'
  <2>1. /\ phase' = phase /\ child[p] = "alive" /\ ChildFollows(p)
        /\ \A q \in Pipelines \ {p} : pc'[q] = pc[q]
    <3>1. CASE Dies(p)
      BY <3>1, <1>a DEF Dies, Crash, Die
    <3>2. CASE Works(p)
      <4>1. Step(p) /\ phase' = phase /\ child[p] = "alive" /\ ChildFollows(p)
        BY <3>2 DEF Works
      <4>2. \A q \in Pipelines \ {p} : pc'[q] = pc[q]
        <5>1. CASE \/ Boot(p) \/ Discover(p) \/ Drained(p) \/ Return(p) \/ Raise(p)
                   \/ Unavailable(p) \/ Callback(p) \/ Wake(p) \/ Exit(p)
                   \/ \E i \in Items : Claim(p, i)
          BY <5>1, <1>a DEF Boot, Discover, Drained, Return, Raise, Unavailable, Callback,
                           Wake, Exit, Claim
        <5>2. CASE EnqueueMany(p) \/ Finish(p)
          BY <5>2, <1>a DEF EnqueueMany, Finish
        <5> QED BY <4>1, <5>1, <5>2 DEF Step
      <4> QED BY <4>1, <4>2
    <3> QED BY <1>8, <3>1, <3>2
  <2>2. /\ \A q \in Pipelines \ {p} : child'[q] = child[q]
        /\ pc'[p] # "down" => child'[p] = "alive"
    BY <1>a, <2>1 DEF ChildFollows
  <2> QED BY <1>b, <1>c, <1>d, <2>1, <2>2
<1> QED BY <1>1, <1>2, <1>3, <1>4, <1>5, <1>6, <1>7, <1>8 DEF SupNext, Supervise

\* No worker outlives the supervisor: one that was importing when SIGTERM went
\* round, one the last pass started, one that ignored the signal.
THEOREM NobodyIsLeftBehind == SupSpec => []NobodyIsLeft
<1>1. SupInit => SupTypeOK /\ ChildrenInv
  BY SupInitType, ChildrenInit
<1>2. SupTypeOK /\ ChildrenInv /\ [SupNext]_allVars => (SupTypeOK /\ ChildrenInv)'
  BY SupTypeStep, ChildrenStep
<1>3. ChildrenInv => NobodyIsLeft
  BY DEF ChildrenInv, NobodyIsLeft, Live, Alive
<1> QED BY <1>1, <1>2, <1>3, PTL DEF SupSpec
=============================================================================
