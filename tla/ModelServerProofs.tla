------------------------- MODULE ModelServerProofs -------------------------
(***************************************************************************)
(* Proofs about ModelServer for every number of requests, idle spells,     *)
(* wedges and retries: inference keeps the models it was given, a failure  *)
(* is owned up to, and a process gives up on itself only for cause.        *)
(***************************************************************************)
EXTENDS ModelServer, TLAPS

\* Every idle spell makes one copy at most.
CopiesAreCounted ==
    /\ copy + budget.quiets <= Quiets
    /\ quiet /\ state = "loaded" => copy + budget.quiets < Quiets

\* Who loads holds _lifecycle, and whoever infers, or serves the diarizer,
\* holds the GPU; a process that is gone holds nothing and serves nobody.
HoldersOK ==
    /\ \A r \in Requests :
          /\ pc[r] \in {"load", "loaded"} => lifecycle = r
          /\ pc[r] = "infer" => gpu = r
          /\ kind = "diar" /\ pc[r] \in {"ensure", "load", "loaded"} => gpu = r
    /\ ~alive => /\ lifecycle = "nobody"
                 /\ \A r \in Requests : pc[r] \in Answered \union {"free"}

\* _state tells what _models has.
StateTells ==
    /\ state = "loaded" => Resident = Expected
    /\ state = "failed" => Resident # Expected
    /\ lastFailed => state = "failed"

\* Once a process is to die no load begins, so that none can succeed.
DyingIsFinal ==
    /\ failures = streak
    /\ dying => /\ streak >= ReloadRetryLimit /\ backoff
                /\ lifecycle \notin {"startup", "watchdog"}
                /\ \A r \in Requests : pc[r] # "load"

\* A request that was given its models waits for the GPU with them.
GivenOK == kind # "diar" => \A r \in Requests : pc[r] = "gpu" => key[r] \in contents[ref[r]]

ServerInv ==
    /\ HoldersOK /\ StateTells /\ DyingIsFinal
    /\ InferenceHasItsModels /\ GivenOK

----------------------------------------------------------------------------
(* Types.                                                                  *)

LEMMA InitType == Init => TypeOK /\ CopiesAreCounted
<1> SUFFICES ASSUME Init PROVE TypeOK /\ CopiesAreCounted
  OBVIOUS
<1>1. contents \in [0..Quiets -> SUBSET Expected] /\ copy \in 0..Quiets
  BY ModelServerAssumption DEF Init
<1>2. ref \in [Requests -> 0..Quiets] /\ pc \in [Requests -> Pc]
  BY ModelServerAssumption DEF Init, Pc
<1>3. /\ budget \in [quiets : Nat, wedges : Nat]
      /\ copy + budget.quiets <= Quiets /\ state = "loading"
  BY ModelServerAssumption DEF Init
<1>4. CopiesAreCounted
  BY <1>3 DEF CopiesAreCounted
<1> QED BY <1>1, <1>2, <1>3, <1>4 DEF Init, TypeOK

\* What a load leaves: the models of the copy, and the books.
LEMMA LoadEffect ==
  ASSUME TypeOK, LoadModels
  PROVE  /\ contents' \in [0..Quiets -> SUBSET Expected]
         /\ \A g \in 0..Quiets : contents[g] \subseteq contents'[g]
         /\ \/ state' = "loaded" /\ contents'[copy] = Expected /\ ~quiet' /\ ~lastFailed'
            \/ state' = "failed" /\ contents'[copy] # Expected /\ quiet' = quiet
         /\ {quiet', backoff', everLoaded', dying', lastFailed'} \subseteq BOOLEAN
         /\ failures' \in Nat /\ streak' \in Nat
         /\ failures = streak => failures' = streak'
         /\ dying' => dying \/ (backoff' /\ failures' >= ReloadRetryLimit)
<1>1. PICK fresh \in SUBSET (Expected \ Resident) :
        LET all == Resident \union fresh = Expected
        IN  /\ all = ~wedged
            /\ contents' = [contents EXCEPT ![copy] = @ \union fresh]
            /\ state' = StateAfter(all)
            /\ RecordLoadResult(all)
            /\ lastFailed' = ~all
            /\ streak' = IF all THEN 0 ELSE IF everLoaded THEN streak + 1 ELSE streak
  BY Zenon DEF LoadModels
<1> DEFINE all == Resident \union fresh = Expected
<1>2. /\ contents' = [contents EXCEPT ![copy] = @ \union fresh]
      /\ state' = StateAfter(all)
      /\ RecordLoadResult(all)
      /\ lastFailed' = ~all
      /\ streak' = IF all THEN 0 ELSE IF everLoaded THEN streak + 1 ELSE streak
  BY <1>1, Zenon
<1>3. /\ copy \in 0..Quiets /\ Resident = contents[copy] /\ Resident \subseteq Expected
      /\ contents \in [0..Quiets -> SUBSET Expected]
  BY DEF TypeOK, Resident
<1>4. /\ contents' \in [0..Quiets -> SUBSET Expected]
      /\ \A g \in 0..Quiets : contents[g] \subseteq contents'[g]
      /\ contents'[copy] = Resident \union fresh
  BY <1>2, <1>3
<1>5. contents'[copy] = Expected <=> all
  BY <1>4
<1> HIDE DEF all
<1>6. CASE all
  <2>1. RecordLoadResult(TRUE) /\ state' = "loaded" /\ ~lastFailed' /\ streak' = 0
    <3>1. all = TRUE
      BY <1>6
    <3> QED BY <1>2, <3>1 DEF StateAfter
  <2>2. everLoaded' = TRUE /\ failures' = 0 /\ backoff' = FALSE /\ quiet' = FALSE
        /\ dying' = dying
    BY <2>1 DEF RecordLoadResult
  <2>3. {quiet', backoff', everLoaded', dying'} \subseteq BOOLEAN
    BY <2>2 DEF TypeOK
  <2>4. lastFailed' \in BOOLEAN
    BY <1>2
  <2> QED BY <1>4, <1>5, <1>6, <2>1, <2>2, <2>3, <2>4
<1>7. CASE ~all
  <2>1. /\ RecordLoadResult(FALSE) /\ state' = "failed" /\ lastFailed'
        /\ streak' = IF everLoaded THEN streak + 1 ELSE streak
    <3>1. all = FALSE
      BY <1>7
    <3> QED BY <1>2, <3>1 DEF StateAfter
  <2>2. /\ backoff' /\ UNCHANGED <<everLoaded, quiet>>
        /\ failures' = IF everLoaded THEN failures + 1 ELSE failures
        /\ dying' = (dying \/ failures' >= ReloadRetryLimit)
    BY <2>1 DEF RecordLoadResult
  <2>3. dying' \in BOOLEAN /\ (dying' => dying \/ failures' >= ReloadRetryLimit)
    BY <2>2
  <2>4. failures' \in Nat /\ streak' \in Nat /\ (failures = streak => failures' = streak')
    BY <2>1, <2>2 DEF TypeOK
  <2> QED BY <1>4, <1>5, <1>7, <2>1, <2>2, <2>3, <2>4 DEF TypeOK
<1> QED BY <1>6, <1>7

LEMMA GotoType ==
  ASSUME TypeOK, NEW r, NEW where \in Pc, Goto(r, where)
  PROVE  pc' \in [Requests -> Pc]
BY DEF TypeOK, Goto

\* What a request gets from _ensure_loaded.
LEMMA ObtainType ==
  ASSUME TypeOK, NEW r \in Requests, Obtain(r)
  PROVE  /\ pc' \in [Requests -> Pc] /\ ref' \in [Requests -> 0..Quiets]
         /\ quiet' \in BOOLEAN /\ (quiet' => quiet)
         /\ gpu' \in Requests \union {"nobody"}
<1>1. {"infer", "gpu", "unavailable"} \subseteq Pc
  BY DEF Pc, Answered
<1>2. CASE Usable(key[r])
  BY <1>1, <1>2, GotoType DEF Obtain, TypeOK
<1>3. CASE ~Usable(key[r])
  BY <1>1, <1>3, GotoType DEF Obtain, TypeOK
<1> QED BY <1>2, <1>3

LEMMA StepType ==
  TypeOK /\ CopiesAreCounted /\ [Next]_vars => (TypeOK /\ CopiesAreCounted)'
<1> SUFFICES ASSUME TypeOK, CopiesAreCounted, [Next]_vars
             PROVE  TypeOK' /\ CopiesAreCounted'
  OBVIOUS
<1>0. /\ {"unavailable", "gpu", "ensure", "load", "loaded", "infer", "stamp", "ok", "failed",
          "killed", "free"} \subseteq Pc
      /\ Quiets \in Nat /\ budget.quiets \in Nat
  BY ModelServerAssumption DEF Pc, Answered, TypeOK
<1>a. ASSUME LoadModels, UNCHANGED <<kind, copy, budget>>
      PROVE  /\ contents' \in [0..Quiets -> SUBSET Expected']
             /\ state' \in {"loading", "loaded", "idle", "failed"}
             /\ {quiet', backoff', everLoaded', dying', lastFailed'} \subseteq BOOLEAN
             /\ failures' \in Nat /\ streak' \in Nat
             /\ CopiesAreCounted'
  <2>1. Expected' = Expected
    BY <1>a DEF Expected
  <2> QED BY <1>a, <2>1, LoadEffect DEF CopiesAreCounted
<1>b. UNCHANGED kind => Expected' = Expected
  BY DEF Expected
<1>1. CASE StartupLoads
  BY <1>1, <1>a, <1>b DEF StartupLoads, TypeOK
<1>2. CASE WatchdogRetries
  BY <1>2, <1>b DEF WatchdogRetries, TypeOK, CopiesAreCounted, memory, ledger
<1>3. CASE WatchdogLoads
  BY <1>3, <1>a, <1>b DEF WatchdogLoads, TypeOK
<1>4. CASE Evict
  <2>1. /\ copy + budget.quiets < Quiets /\ budget' = budget /\ state' = "idle"
        /\ quiet' = quiet
    BY <1>4 DEF Evict, CopiesAreCounted
  <2>2. copy' \in 0..Quiets /\ contents' \in [0..Quiets -> SUBSET Expected]
        /\ copy' + budget.quiets <= Quiets
    BY <1>0, <1>4, <2>1 DEF Evict, Evicted, EvictedInPlace, TypeOK, CopiesAreCounted
  <2> QED BY <1>4, <1>b, <2>1, <2>2 DEF Evict, TypeOK, CopiesAreCounted, ledger, locks
<1>5. ASSUME NEW r \in Requests, Arrive(r) PROVE TypeOK' /\ CopiesAreCounted'
  <2>1. pc' \in [Requests -> Pc]
    BY <1>0, <1>5, GotoType DEF Arrive
  <2> QED BY <1>5, <1>b, <2>1 DEF Arrive, TypeOK, CopiesAreCounted, memory, ledger, locks
<1>6. ASSUME NEW r \in Requests, Ensure(r) PROVE TypeOK' /\ CopiesAreCounted'
  <2>1. /\ pc' \in [Requests -> Pc] /\ ref' \in [Requests -> 0..Quiets]
        /\ quiet' \in BOOLEAN /\ (quiet' => quiet)
        /\ gpu' \in Requests \union {"nobody"}
        /\ lifecycle' \in Requests \union {"startup", "watchdog", "nobody"}
    <3>1. CASE NeedsLoad
      BY <1>0, <1>6, <3>1, GotoType DEF Ensure, TypeOK
    <3>2. CASE ~NeedsLoad
      BY <1>6, <3>2, ObtainType DEF Ensure, TypeOK
    <3> QED BY <3>1, <3>2
  <2> QED BY <1>6, <1>b, <2>1 DEF Ensure, TypeOK, CopiesAreCounted, memory, ledger
<1>7. ASSUME NEW r \in Requests, RequestLoads(r) PROVE TypeOK' /\ CopiesAreCounted'
  <2>1. pc' \in [Requests -> Pc]
    BY <1>0, <1>7, GotoType DEF RequestLoads
  <2> QED BY <1>7, <1>a, <1>b, <2>1 DEF RequestLoads, TypeOK, locks
<1>8. ASSUME NEW r \in Requests, Loaded(r) PROVE TypeOK' /\ CopiesAreCounted'
  BY <1>8, <1>b, ObtainType DEF Loaded, TypeOK, CopiesAreCounted, memory, ledger
<1>9. ASSUME NEW r \in Requests, TakeGpu(r) PROVE TypeOK' /\ CopiesAreCounted'
  <2>1. pc' \in [Requests -> Pc]
    BY <1>0, <1>9, GotoType DEF TakeGpu
  <2> QED BY <1>9, <1>b, <2>1 DEF TakeGpu, TypeOK, CopiesAreCounted, memory, ledger
<1>10. ASSUME NEW r \in Requests, DecodeEnds(r) PROVE TypeOK' /\ CopiesAreCounted'
  <2>1. pc' \in [Requests -> Pc]
    BY <1>0, <1>10, GotoType DEF DecodeEnds
  <2> QED BY <1>10, <1>b, <2>1 DEF DecodeEnds, TypeOK, CopiesAreCounted, memory, ledger, locks
<1>11. ASSUME NEW r \in Requests, Infer(r) PROVE TypeOK' /\ CopiesAreCounted'
  <2>1. pc' \in [Requests -> Pc]
    BY <1>0, <1>11, GotoType DEF Infer
  <2>2. quiet' \in BOOLEAN /\ (quiet' => quiet)
    <3>1. quiet' = quiet \/ quiet' = FALSE
      BY <1>11 DEF Infer
    <3>2. quiet \in BOOLEAN
      BY DEF TypeOK
    <3>3. CASE quiet' = quiet
      BY <3>2, <3>3
    <3>4. CASE quiet' = FALSE
      BY <3>4
    <3> QED BY <3>1, <3>3, <3>4
  <2> QED BY <1>11, <1>b, <2>1, <2>2 DEF Infer, TypeOK, CopiesAreCounted, memory, ledger
<1>12. ASSUME NEW r \in Requests, Stamp(r) PROVE TypeOK' /\ CopiesAreCounted'
  <2>1. pc' \in [Requests -> Pc]
    BY <1>0, <1>12, GotoType DEF Stamp
  <2> QED BY <1>12, <1>b, <2>1 DEF Stamp, TypeOK, CopiesAreCounted, memory, ledger, locks
<1>13. CASE Quiet
  <2>1. /\ budget' \in [quiets : Nat, wedges : Nat] /\ budget'.quiets = budget.quiets - 1
        /\ copy' = copy
    <3>1. /\ budget' = [budget EXCEPT !.quiets = @ - 1] /\ budget.quiets > 0
          /\ budget \in [quiets : Nat, wedges : Nat] /\ UNCHANGED memory
      BY <1>13 DEF Quiet, TypeOK
    <3> QED BY <3>1 DEF memory
  <2>2. CopiesAreCounted'
    BY <1>0, <2>1 DEF CopiesAreCounted, TypeOK
  <2> QED BY <1>13, <1>b, <2>1, <2>2 DEF Quiet, TypeOK, memory, ledger, locks
<1>14. CASE BackoffOver
  BY <1>14, <1>b DEF BackoffOver, TypeOK, CopiesAreCounted, memory, ledger, locks
<1>15. CASE Wedge
  <2>1. budget' \in [quiets : Nat, wedges : Nat] /\ budget'.quiets = budget.quiets
    BY <1>15 DEF Wedge, TypeOK
  <2> QED BY <1>15, <1>b, <2>1 DEF Wedge, TypeOK, CopiesAreCounted, memory, ledger, locks
<1>16. CASE Unwedge
  BY <1>16, <1>b DEF Unwedge, TypeOK, CopiesAreCounted, memory, ledger, locks
<1>17. CASE Exit
  <2>1. pc' \in [Requests -> Pc]
    BY <1>0, <1>17 DEF Exit, TypeOK
  <2> QED BY <1>17, <1>b, <2>1 DEF Exit, TypeOK, CopiesAreCounted, memory, ledger
<1>18. CASE Restart
  <2>1. /\ copy' \in 0..Quiets /\ copy' = 0
        /\ contents' \in [0..Quiets -> SUBSET Expected]
        /\ ref' \in [Requests -> 0..Quiets]
    BY <1>0, <1>18 DEF Restart
  <2>2. CopiesAreCounted'
    BY <1>0, <1>18, <2>1 DEF Restart, CopiesAreCounted, TypeOK
  <2> QED BY <1>18, <1>b, <2>1, <2>2 DEF Restart, TypeOK
<1>19. CASE UNCHANGED vars
  BY <1>19, <1>b DEF vars, TypeOK, CopiesAreCounted
<1> QED
  BY <1>1, <1>2, <1>3, <1>4, <1>5, <1>6, <1>7, <1>8, <1>9, <1>10, <1>11, <1>12, <1>13,
     <1>14, <1>15, <1>16, <1>17, <1>18, <1>19 DEF Next, Step, Process

\* A server's globals, its locks and its requests keep their types.
THEOREM TypeCorrect == Spec => []TypeOK
<1>1. QED BY InitType, StepType, PTL DEF Spec

----------------------------------------------------------------------------
(* The invariant.                                                          *)

LEMMA ServerInit == Init => ServerInv
<1> SUFFICES ASSUME Init PROVE ServerInv
  OBVIOUS
<1>1. HoldersOK /\ StateTells /\ DyingIsFinal /\ InferenceHasItsModels /\ GivenOK
  BY DEF Init, HoldersOK, StateTells, DyingIsFinal, InferenceHasItsModels, GivenOK
<1> QED BY <1>1 DEF ServerInv

\* What a request is given by _ensure_loaded is there.
LEMMA ObtainEffect ==
  ASSUME TypeOK, StateTells, NEW r \in Requests, Obtain(r)
  PROVE  \/ /\ pc' = [pc EXCEPT ![r] = IF kind = "diar" THEN "infer" ELSE "gpu"]
            /\ ref' = [ref EXCEPT ![r] = copy] /\ key[r] \in contents[copy]
            /\ UNCHANGED gpu
         \/ /\ pc' = [pc EXCEPT ![r] = "unavailable"]
            /\ gpu' = IF gpu = r THEN "nobody" ELSE gpu
            /\ UNCHANGED ref
<1>1. CASE Usable(key[r])
  <2>1. key[r] \in contents[copy]
    BY <1>1 DEF Usable, StateTells, Resident, TypeOK
  <2> QED BY <1>1, <2>1 DEF Obtain, Goto
<1>2. CASE ~Usable(key[r])
  BY <1>2 DEF Obtain, Goto
<1> QED BY <1>1, <1>2

\* A step that leaves the server alone and moves one request to a place where
\* it holds nothing keeps everything.
LEMMA QuietMove ==
  ASSUME TypeOK, ServerInv, NEW r \in Requests,
         UNCHANGED <<kind, alive, state, memory, backoff, ledger, lifecycle, key, ref>>,
         NEW where \in Pc \ {"load", "loaded", "infer"}, Goto(r, where),
         pc[r] \notin {"load", "loaded"},
         gpu' = gpu \/ gpu = r \/ (gpu = "nobody" /\ gpu' = r),
         kind = "diar" /\ where = "ensure" => gpu' = r,
         kind # "diar" => where # "gpu",
         alive
  PROVE  ServerInv'
<1>1. /\ pc' = [pc EXCEPT ![r] = where]
      /\ \A q \in Requests \ {r} : pc'[q] = pc[q]
      /\ pc'[r] = where
  BY DEF Goto, TypeOK
<1>2. /\ HoldersOK /\ StateTells /\ DyingIsFinal /\ InferenceHasItsModels /\ GivenOK
      /\ contents' = contents /\ copy' = copy
      /\ "nobody" \notin Requests
  BY ModelServerAssumption DEF ServerInv, memory
<1>3. HoldersOK'
  BY <1>1, <1>2 DEF HoldersOK
<1>4. StateTells'
  BY <1>2 DEF StateTells, Resident, Expected, ledger
<1>5. DyingIsFinal'
  BY <1>1, <1>2 DEF DyingIsFinal, ledger
<1>6. InferenceHasItsModels' /\ GivenOK'
  BY <1>1, <1>2 DEF InferenceHasItsModels, GivenOK
<1> QED BY <1>3, <1>4, <1>5, <1>6 DEF ServerInv

\* A request that is given its models holds the GPU, or queues for it.
LEMMA ObtainMove ==
  ASSUME TypeOK, ServerInv, NEW r \in Requests, Obtain(r),
         UNCHANGED <<kind, alive, state, memory, backoff, ledger, key>>,
         alive, pc[r] \in {"ensure", "loaded"},
         lifecycle' = lifecycle \/ (lifecycle = r /\ lifecycle' = "nobody")
  PROVE  ServerInv'
<1>1. /\ HoldersOK /\ StateTells /\ DyingIsFinal /\ InferenceHasItsModels /\ GivenOK
      /\ contents' = contents /\ copy' = copy
      /\ "nobody" \notin Requests
  BY ModelServerAssumption DEF ServerInv, memory
<1>2. StateTells'
  BY <1>1 DEF StateTells, Resident, Expected, ledger
<1>3. CASE /\ pc' = [pc EXCEPT ![r] = IF kind = "diar" THEN "infer" ELSE "gpu"]
           /\ ref' = [ref EXCEPT ![r] = copy] /\ key[r] \in contents[copy]
           /\ UNCHANGED gpu
  <2>1. /\ \A q \in Requests \ {r} : pc'[q] = pc[q] /\ ref'[q] = ref[q]
        /\ pc'[r] = IF kind = "diar" THEN "infer" ELSE "gpu"
        /\ ref'[r] = copy
    BY <1>3 DEF TypeOK
  <2>2. HoldersOK'
    BY <1>1, <1>3, <2>1 DEF HoldersOK
  <2>3. DyingIsFinal'
    BY <1>1, <2>1 DEF DyingIsFinal, ledger
  <2>4. InferenceHasItsModels' /\ GivenOK'
    BY <1>1, <1>3, <2>1 DEF InferenceHasItsModels, GivenOK
  <2> QED BY <1>2, <2>2, <2>3, <2>4 DEF ServerInv
<1>4. CASE /\ pc' = [pc EXCEPT ![r] = "unavailable"]
           /\ gpu' = IF gpu = r THEN "nobody" ELSE gpu
           /\ UNCHANGED ref
  <2>1. /\ \A q \in Requests \ {r} : pc'[q] = pc[q]
        /\ pc'[r] = "unavailable"
    BY <1>4 DEF TypeOK
  <2>2. HoldersOK'
    BY <1>1, <1>4, <2>1 DEF HoldersOK
  <2>3. DyingIsFinal'
    BY <1>1, <2>1 DEF DyingIsFinal, ledger
  <2>4. InferenceHasItsModels' /\ GivenOK'
    BY <1>1, <1>4, <2>1 DEF InferenceHasItsModels, GivenOK
  <2> QED BY <1>2, <2>2, <2>3, <2>4 DEF ServerInv
<1> QED BY <1>1, <1>3, <1>4, ObtainEffect

\* A load, by whoever holds _lifecycle in a process that is not to die.
LEMMA LoadMove ==
  ASSUME TypeOK, ServerInv, LoadModels, ~dying,
         UNCHANGED <<kind, alive, copy, gpu, key, ref>>,
         HoldersOK', lifecycle' \notin {"startup", "watchdog"},
         \A r \in Requests : /\ pc'[r] # "load"
                             /\ pc'[r] \in {"infer", "gpu"} => pc'[r] = pc[r]
  PROVE  ServerInv'
<1>1. /\ StateTells /\ DyingIsFinal /\ InferenceHasItsModels /\ GivenOK
  BY DEF ServerInv
<1>2. StateTells'
  BY LoadEffect, ModelServerAssumption DEF StateTells, Resident, Expected, LoadModels
<1>3. DyingIsFinal'
  BY <1>1, LoadEffect DEF DyingIsFinal
<1>4. \A r \in Requests : ref[r] \in 0..Quiets
  BY DEF TypeOK
<1>5. InferenceHasItsModels' /\ GivenOK'
  BY <1>1, <1>4, LoadEffect DEF InferenceHasItsModels, GivenOK
<1> QED BY <1>2, <1>3, <1>5 DEF ServerInv

\* The other steps of the watchdog and the clock leave the requests alone.
LEMMA ServerMove ==
  ASSUME TypeOK, ServerInv,
         UNCHANGED <<kind, alive, state, memory, ledger, gpu, pc, key, ref>>,
         dying => backoff' = backoff /\ UNCHANGED lifecycle,
         UNCHANGED lifecycle \/ (alive /\ lifecycle = "nobody")
  PROVE  ServerInv'
<1>1. /\ HoldersOK /\ StateTells /\ DyingIsFinal /\ InferenceHasItsModels /\ GivenOK
      /\ contents' = contents /\ copy' = copy
      /\ "nobody" \notin Requests
  BY ModelServerAssumption DEF ServerInv, memory
<1>2. HoldersOK'
  BY <1>1 DEF HoldersOK
<1>3. StateTells'
  BY <1>1 DEF StateTells, Resident, Expected, ledger
<1>4. DyingIsFinal'
  BY <1>1 DEF DyingIsFinal, ledger
<1>5. InferenceHasItsModels' /\ GivenOK'
  BY <1>1 DEF InferenceHasItsModels, GivenOK
<1> QED BY <1>2, <1>3, <1>4, <1>5 DEF ServerInv

LEMMA ServerStep ==
  TypeOK /\ TypeOK' /\ ServerInv /\ [Next]_vars => ServerInv'
<1> SUFFICES ASSUME TypeOK, TypeOK', ServerInv, [Next]_vars PROVE ServerInv'
  OBVIOUS
<1>0. /\ HoldersOK /\ StateTells /\ DyingIsFinal /\ InferenceHasItsModels /\ GivenOK
      /\ Requests \intersect {"startup", "watchdog", "nobody"} = {}
      /\ Pc \ {"load", "loaded", "infer"}
           = {"free", "ensure", "gpu", "stamp", "ok", "unavailable", "failed", "killed"}
      /\ \A r \in Requests : pc[r] \in Pc
  BY ModelServerAssumption DEF ServerInv, Pc, Answered, TypeOK
<1>a. ASSUME ~alive PROVE \A r \in Requests : pc[r] \in Answered \union {"free"}
  BY <1>0, <1>a DEF HoldersOK
<1>1. CASE StartupLoads
  <2>1. /\ lifecycle = "startup" /\ lifecycle' = "nobody" /\ LoadModels
        /\ UNCHANGED <<kind, alive, copy, gpu, pc, key, ref>>
    BY <1>1 DEF StartupLoads
  <2>2. ~dying /\ \A r \in Requests : pc[r] \notin {"load", "loaded"}
    BY <1>0, <2>1 DEF DyingIsFinal, HoldersOK
  <2>3. HoldersOK'
    BY <1>0, <2>1, <2>2 DEF HoldersOK
  <2> QED BY <2>1, <2>2, <2>3, LoadMove
<1>2. CASE WatchdogRetries
  BY <1>0, <1>2, ServerMove DEF WatchdogRetries, WatchdogMustRetry, DyingIsFinal
<1>3. CASE WatchdogLoads
  <2>1. /\ lifecycle = "watchdog" /\ lifecycle' = "nobody" /\ LoadModels
        /\ UNCHANGED <<kind, alive, copy, gpu, pc, key, ref>>
    BY <1>3 DEF WatchdogLoads
  <2>2. ~dying /\ \A r \in Requests : pc[r] \notin {"load", "loaded"}
    BY <1>0, <2>1 DEF DyingIsFinal, HoldersOK
  <2>3. HoldersOK'
    BY <1>0, <2>1, <2>2 DEF HoldersOK
  <2> QED BY <2>1, <2>2, <2>3, LoadMove
<1>4. CASE Evict
  <2>1. /\ alive /\ gpu = "nobody" /\ state = "loaded" /\ state' = "idle" /\ Evicted
        /\ UNCHANGED <<kind, alive, backoff, ledger, locks, pc, key, ref>>
    BY <1>4 DEF Evict
  <2>2. HoldersOK' /\ DyingIsFinal'
    BY <1>0, <2>1 DEF HoldersOK, DyingIsFinal, ledger, locks
  <2>3. ~lastFailed
    BY <1>0, <2>1 DEF StateTells, TypeOK
  <2>4. StateTells'
    BY <2>1, <2>3 DEF StateTells, ledger
  <2>5. InferenceHasItsModels' /\ GivenOK'
    <3>1. CASE kind = "diar"
      <4>1. \A r \in Requests : pc[r] # "infer"
        BY <1>0, <2>1 DEF HoldersOK
      <4> QED BY <2>1, <3>1, <4>1 DEF InferenceHasItsModels, GivenOK
    <3>2. CASE kind # "diar"
      <4>1. contents' = contents
        BY <2>1, <3>2 DEF Evicted
      <4> QED BY <1>0, <2>1, <4>1 DEF InferenceHasItsModels, GivenOK
    <3> QED BY <3>1, <3>2
  <2> QED BY <2>2, <2>4, <2>5 DEF ServerInv
<1>5. ASSUME NEW r \in Requests, Arrive(r) PROVE ServerInv'
  <2>1. /\ alive /\ pc[r] = "free"
        /\ UNCHANGED <<kind, alive, state, memory, backoff, ledger, lifecycle, gpu, key, ref>>
    BY <1>5 DEF Arrive, locks
  <2>2. CASE Goto(r, "unavailable")
    BY <1>0, <2>1, <2>2, QuietMove
  <2>3. CASE Goto(r, "gpu") /\ kind = "diar"
    BY <1>0, <2>1, <2>3, QuietMove
  <2>4. CASE Goto(r, "ensure") /\ kind # "diar"
    BY <1>0, <2>1, <2>4, QuietMove
  <2> QED BY <1>5, <2>2, <2>3, <2>4 DEF Arrive
<1>6. ASSUME NEW r \in Requests, Ensure(r) PROVE ServerInv'
  <2>1. /\ pc[r] = "ensure" /\ lifecycle = "nobody" /\ alive
        /\ UNCHANGED <<kind, alive, state, memory, backoff, ledger, key>>
    BY <1>6, <1>a DEF Ensure, Answered
  <2>2. CASE NeedsLoad
    <3>1. lifecycle' = r /\ Goto(r, "load") /\ UNCHANGED <<gpu, ref>> /\ ~dying
      BY <1>0, <1>6, <2>2 DEF Ensure, NeedsLoad, DyingIsFinal
    <3>2. /\ \A q \in Requests \ {r} : pc'[q] = pc[q]
          /\ pc'[r] = "load" /\ contents' = contents /\ copy' = copy
      BY <2>1, <3>1 DEF Goto, TypeOK, memory
    <3>3. HoldersOK'
      BY <1>0, <2>1, <3>1, <3>2 DEF HoldersOK
    <3>4. StateTells' /\ DyingIsFinal'
      BY <1>0, <2>1, <3>1, <3>2 DEF StateTells, DyingIsFinal, Resident, Expected, ledger
    <3>5. InferenceHasItsModels' /\ GivenOK'
      BY <1>0, <2>1, <3>1, <3>2 DEF InferenceHasItsModels, GivenOK
    <3> QED BY <3>3, <3>4, <3>5 DEF ServerInv
  <2>3. CASE ~NeedsLoad
    <3>1. Obtain(r) /\ UNCHANGED lifecycle
      BY <1>6, <2>3 DEF Ensure
    <3> QED BY <2>1, <3>1, ObtainMove
  <2> QED BY <2>2, <2>3
<1>7. ASSUME NEW r \in Requests, RequestLoads(r) PROVE ServerInv'
  <2>1. /\ pc[r] = "load" /\ LoadModels /\ Goto(r, "loaded")
        /\ UNCHANGED <<kind, alive, copy, lifecycle, gpu, key, ref>>
    BY <1>7 DEF RequestLoads, locks
  <2>2. /\ \A q \in Requests \ {r} : pc'[q] = pc[q]
        /\ pc'[r] = "loaded"
    BY <2>1 DEF Goto, TypeOK
  <2>3. /\ lifecycle = r /\ ~dying
        /\ \A q \in Requests \ {r} : pc[q] \notin {"load", "loaded"}
    BY <1>0, <2>1 DEF HoldersOK, DyingIsFinal
  <2>4. HoldersOK'
    BY <1>0, <2>1, <2>2, <2>3 DEF HoldersOK, Answered
  <2> QED BY <1>0, <2>1, <2>2, <2>3, <2>4, LoadMove
<1>8. ASSUME NEW r \in Requests, Loaded(r) PROVE ServerInv'
  <2>1. /\ pc[r] = "loaded" /\ Obtain(r) /\ lifecycle' = "nobody" /\ alive /\ lifecycle = r
        /\ UNCHANGED <<kind, alive, state, memory, backoff, ledger, key>>
    BY <1>0, <1>8, <1>a DEF Loaded, HoldersOK, Answered
  <2> QED BY <2>1, ObtainMove
<1>9. ASSUME NEW r \in Requests, TakeGpu(r) PROVE ServerInv'
  <2>1. /\ pc[r] = "gpu" /\ gpu = "nobody" /\ gpu' = r /\ alive
        /\ UNCHANGED <<kind, alive, state, memory, backoff, ledger, lifecycle, key, ref>>
    BY <1>9, <1>a DEF TakeGpu, Answered
  <2>2. CASE kind = "diar"
    <3>1. Goto(r, "ensure")
      BY <1>9, <2>2 DEF TakeGpu
    <3> QED BY <1>0, <2>1, <2>2, <3>1, QuietMove
  <2>3. CASE kind # "diar"
    <3>1. /\ \A q \in Requests \ {r} : pc'[q] = pc[q]
          /\ pc'[r] = "infer" /\ contents' = contents /\ copy' = copy
      BY <1>9, <2>3 DEF TakeGpu, Goto, TypeOK, memory
    <3>2. HoldersOK'
      BY <1>0, <2>1, <2>3, <3>1 DEF HoldersOK
    <3>3. StateTells' /\ DyingIsFinal'
      BY <1>0, <2>1, <3>1 DEF StateTells, DyingIsFinal, Resident, Expected, ledger
    <3>4. InferenceHasItsModels' /\ GivenOK'
      BY <1>0, <2>1, <2>3, <3>1 DEF InferenceHasItsModels, GivenOK
    <3> QED BY <3>2, <3>3, <3>4 DEF ServerInv
  <2> QED BY <2>2, <2>3
<1>10. ASSUME NEW r \in Requests, DecodeEnds(r) PROVE ServerInv'
  <2>1. PICK answer \in {"ok", "failed"} : Goto(r, answer)
    BY <1>10 DEF DecodeEnds
  <2>2. /\ pc[r] = "gpu" /\ alive
        /\ UNCHANGED <<kind, alive, state, memory, backoff, ledger, lifecycle, gpu, key, ref>>
    BY <1>10, <1>a DEF DecodeEnds, locks, Answered
  <2> QED BY <1>0, <2>1, <2>2, QuietMove
<1>11. ASSUME NEW r \in Requests, Infer(r) PROVE ServerInv'
  <2>1. PICK where \in {"stamp", "failed", "ok"} : Goto(r, where)
    BY <1>11 DEF Infer
  <2>2. /\ pc[r] = "infer" /\ alive /\ gpu = r
        /\ UNCHANGED <<kind, alive, state, memory, backoff, ledger, lifecycle, key, ref>>
    BY <1>0, <1>11, <1>a DEF Infer, HoldersOK, Answered
  <2> QED BY <1>0, <2>1, <2>2, QuietMove
<1>12. ASSUME NEW r \in Requests, Stamp(r) PROVE ServerInv'
  <2>1. /\ pc[r] = "stamp" /\ alive /\ Goto(r, "ok")
        /\ UNCHANGED <<kind, alive, state, memory, backoff, ledger, lifecycle, gpu, key, ref>>
    BY <1>12, <1>a DEF Stamp, locks, Answered
  <2> QED BY <1>0, <2>1, QuietMove
<1>13. CASE Quiet \/ BackoffOver \/ Wedge \/ Unwedge
  BY <1>13, ServerMove DEF Quiet, BackoffOver, Wedge, Unwedge, locks
<1>14. CASE Exit
  <2>1. /\ lifecycle' = "nobody"
        /\ \A r \in Requests : pc'[r] \in Answered \union {"free"}
        /\ UNCHANGED <<kind, state, contents, copy, backoff, ledger, key, ref>>
    BY <1>14 DEF Exit, memory, Answered
  <2>2. HoldersOK' /\ InferenceHasItsModels' /\ GivenOK'
    BY <2>1 DEF HoldersOK, InferenceHasItsModels, GivenOK, Answered
  <2>3. StateTells' /\ DyingIsFinal'
    BY <1>0, <2>1 DEF StateTells, DyingIsFinal, Resident, Expected, ledger, Answered
  <2> QED BY <2>2, <2>3 DEF ServerInv
<1>15. CASE Restart
  <2>1. /\ \A r \in Requests : pc'[r] \in Answered \union {"free"}
        /\ state' = "loading" /\ ~lastFailed' /\ ~dying' /\ failures' = 0 /\ streak' = 0
        /\ alive'
    BY <1>15, <1>a DEF Restart
  <2>2. HoldersOK' /\ InferenceHasItsModels' /\ GivenOK'
    BY <2>1 DEF HoldersOK, InferenceHasItsModels, GivenOK, Answered
  <2>3. StateTells' /\ DyingIsFinal'
    BY <2>1 DEF StateTells, DyingIsFinal
  <2> QED BY <2>2, <2>3 DEF ServerInv
<1>16. CASE UNCHANGED vars
  BY <1>16, ServerMove DEF vars, memory, ledger
<1> QED
  BY <1>1, <1>2, <1>3, <1>4, <1>5, <1>6, <1>7, <1>8, <1>9, <1>10, <1>11, <1>12, <1>13,
     <1>14, <1>15, <1>16 DEF Next, Step, Process

----------------------------------------------------------------------------
(* The theorems.                                                           *)

\* The invariant holds: locks and their holders, what _state tells of the
\* models, what requests were given, and that dying is final.
THEOREM ServerHolds == Spec => [](TypeOK /\ ServerInv)
<1>1. Init => TypeOK /\ CopiesAreCounted /\ ServerInv
  BY InitType, ServerInit
<1>2. /\ TypeOK /\ CopiesAreCounted /\ ServerInv /\ [Next]_vars
      => (TypeOK /\ CopiesAreCounted /\ ServerInv)'
  BY StepType, ServerStep
<1> QED BY <1>1, <1>2, PTL DEF Spec

\* The watchdog never takes the models from under an inference.
THEOREM InferenceKeepsItsModels == Spec => []InferenceHasItsModels
<1>1. ServerInv => InferenceHasItsModels
  BY DEF ServerInv
<1> QED BY <1>1, ServerHolds, PTL

\* A server whose last load failed never looks healthy, and a process gives
\* up on itself only after the reloads it is allowed failed one after the other.
THEOREM FailuresAreOwnedUp == Spec => []FailureIsOwnedUp
<1>1. TypeOK /\ ServerInv => FailureIsOwnedUp
  <2> SUFFICES ASSUME TypeOK, ServerInv PROVE FailureIsOwnedUp
    OBVIOUS
  <2>1. dying => streak >= ReloadRetryLimit
    BY DEF ServerInv, DyingIsFinal
  <2>2. ASSUME lastFailed PROVE ~Green
    <3>1. state = "failed" /\ Resident # Expected /\ Resident \subseteq Expected
      BY <2>2 DEF ServerInv, StateTells, TypeOK, Resident
    <3>2. CASE kind = "asr"
      BY <3>1, <3>2 DEF Green
    <3>3. CASE kind = "tagger"
      BY <3>1, <3>3 DEF Green
    <3>4. CASE kind = "diar"
      <4>1. Resident = {}
        BY <3>1, <3>4 DEF Expected
      <4> QED BY <3>1, <3>4, <4>1 DEF Green
    <3> QED BY <3>2, <3>3, <3>4, ModelServerAssumption DEF TypeOK
  <2> QED BY <2>1, <2>2 DEF FailureIsOwnedUp
<1> QED BY <1>1, ServerHolds, PTL

=============================================================================
