---------------------------- MODULE ModelServer ----------------------------
(***************************************************************************)
(* The serving layer of the three inference sidecars: the transcriber      *)
(* (sidecars/asr_parakeet, two models of which a request names one), the   *)
(* tagger (sidecars/audio_tagger) and the diarizer (sidecars/diar_pyannote).*)
(* Models load in a thread, a watchdog evicts them after an idle spell and *)
(* retries a failed reload, requests reload them on demand, and a process  *)
(* that cannot reload exits, to be restarted by its container.             *)
(*                                                                         *)
(* The three keep the same state machine and differ in one thing: the      *)
(* transcriber and the tagger take a reference to the models and then wait *)
(* for the GPU, the diarizer takes the GPU and then reads the globals.     *)
(* Which one runs is chosen in Init.                                       *)
(***************************************************************************)
EXTENDS Naturals, FiniteSets

CONSTANTS
    Requests,
    Kinds,          \* the servers to look at, of {"asr", "tagger", "diar"}
    ReloadRetryLimit,   \* RELOAD_RETRY_LIMIT
    Watchdog,       \* IDLE_UNLOAD_SECONDS > 0
    Quiets,         \* bound: idle spells of a process
    Wedges          \* bound: times the checkpoint stops loading

ASSUME ModelServerAssumption ==
    /\ Kinds \subseteq {"asr", "tagger", "diar"}
    /\ ReloadRetryLimit \in Nat \ {0}
    /\ Watchdog \in BOOLEAN
    /\ Quiets \in Nat /\ Wedges \in Nat
    /\ Requests \intersect {"startup", "watchdog", "nobody"} = {}

VARIABLES
    kind,       \* which server this is
    alive,      \* FALSE between the exit of a process and the next one
    state,      \* _state
    copy,       \* which dict or tuple _models is bound to
    contents,   \* the models in each of them
    quiet,      \* IDLE_UNLOAD_SECONDS have passed since _last_used
    backoff,    \* _retry_after is in the future
    everLoaded, \* _ever_loaded
    failures,   \* _reload_failures
    dying,      \* _die has started its timer
    lifecycle,  \* who holds _lifecycle
    gpu,        \* who holds _gpu_lock
    pc,         \* where each request is
    key,        \* the model it asks for
    ref,        \* the models it got from _ensure_loaded
    wedged,     \* the environment: a load would fail now
    streak,     \* history: loads that failed in a row, in a process that worked
    lastFailed, \* history: the last load to end was a failure
    budget      \* what is left of the bounds

locks == <<lifecycle, gpu>>
memory == <<copy, contents>>
ledger == <<everLoaded, failures, dying, streak, lastFailed>>
vars == <<kind, alive, state, copy, contents, quiet, backoff, everLoaded, failures, dying,
          lifecycle, gpu, pc, key, ref, wedged, streak, lastFailed, budget>>

\* _expected(): the transcriber serves two models, the others one bundle.
Expected == IF kind = "asr" THEN {"parakeet", "whisper"} ELSE {"bundle"}
Models == {"parakeet", "whisper", "bundle"}

Answered == {"ok", "unavailable", "failed", "killed"}
Pc == {"free", "ensure", "load", "loaded", "gpu", "infer", "stamp"} \union Answered

\* What the name _models is bound to now.
Resident == contents[copy]

\* The check at the head of _ensure_loaded.
NeedsLoad == state \in {"idle", "failed"} /\ ~backoff

\* The check at its tail: the transcriber asks for the one model it needs.
Usable(k) == IF kind = "asr" THEN k \in Resident ELSE state = "loaded"

----------------------------------------------------------------------------
\* A process starts: the startup thread holds _lifecycle and loads.
Init ==
    /\ kind \in Kinds
    /\ alive = TRUE
    /\ state = "loading"
    /\ copy = 0
    /\ contents = [g \in 0..Quiets |-> {}]
    /\ quiet = FALSE /\ backoff = FALSE
    /\ everLoaded = FALSE /\ failures = 0 /\ dying = FALSE
    /\ lifecycle = "startup" /\ gpu = "nobody"
    /\ pc = [r \in Requests |-> "free"]
    /\ key \in [Requests -> Expected]
    /\ ref = [r \in Requests |-> 0]
    /\ wedged \in BOOLEAN
    /\ streak = 0 /\ lastFailed = FALSE
    /\ budget = [quiets |-> Quiets, wedges |-> Wedges]

----------------------------------------------------------------------------
(* Loading.                                                                *)

\* Variant: the failures of a process are counted up for good.
RecordWithoutReset(ok) ==
    IF ok
    THEN /\ everLoaded' = TRUE
         /\ backoff' = FALSE
         /\ quiet' = FALSE
         /\ UNCHANGED <<failures, dying>>
    ELSE /\ backoff' = TRUE
         /\ failures' = IF everLoaded THEN failures + 1 ELSE failures
         /\ dying' = (dying \/ failures' >= ReloadRetryLimit)
         /\ UNCHANGED <<everLoaded, quiet>>

\* _record_load_result: a success forgives, a failure backs off and, in a
\* process that once worked, counts toward its exit.
RecordLoadResult(ok) ==
    IF ok
    THEN /\ everLoaded' = TRUE
         /\ failures' = 0
         /\ backoff' = FALSE
         /\ quiet' = FALSE
         /\ UNCHANGED dying
    ELSE /\ backoff' = TRUE
         /\ failures' = IF everLoaded THEN failures + 1 ELSE failures
         /\ dying' = (dying \/ failures' >= ReloadRetryLimit)
         /\ UNCHANGED <<everLoaded, quiet>>

\* _state after a load: every expected model is there, or it failed.
StateAfter(all) == IF all THEN "loaded" ELSE "failed"

\* _load_models: each missing model is loaded into the dict in place; the
\* bundle comes whole or not at all.  A wedged process misses at least one.
LoadModels ==
    \E fresh \in SUBSET (Expected \ Resident) :
        LET all == Resident \union fresh = Expected
        IN  /\ all = ~wedged
            /\ contents' = [contents EXCEPT ![copy] = @ \union fresh]
            /\ state' = StateAfter(all)
            /\ RecordLoadResult(all)
            /\ lastFailed' = ~all
            /\ streak' = IF all THEN 0 ELSE IF everLoaded THEN streak + 1 ELSE streak

\* _load_models_locked, in the startup thread.
StartupLoads ==
    /\ lifecycle = "startup"
    /\ LoadModels
    /\ lifecycle' = "nobody"
    /\ UNCHANGED <<kind, alive, copy, gpu, pc, key, ref, wedged, budget>>

\* Variant: the watchdog waits for requests to drive the retries.
RetryNever == FALSE

\* _watchdog_tick, first branch: it retries a failed reload by itself.
WatchdogMustRetry == state = "failed" /\ everLoaded /\ ~backoff

WatchdogRetries ==
    /\ Watchdog /\ alive
    /\ lifecycle = "nobody"
    /\ WatchdogMustRetry
    /\ lifecycle' = "watchdog"
    /\ UNCHANGED <<kind, alive, state, memory, quiet, backoff, ledger, gpu, pc, key, ref,
                   wedged, budget>>

WatchdogLoads ==
    /\ lifecycle = "watchdog"
    /\ state = "failed"
    /\ LoadModels
    /\ lifecycle' = "nobody"
    /\ UNCHANGED <<kind, alive, copy, gpu, pc, key, ref, wedged, budget>>

\* Variants: eviction empties the models in place, under whoever still has a
\* reference to them; or the watchdog waits for the GPU with _lifecycle held.
EvictedInPlace ==
    /\ contents' = [contents EXCEPT ![copy] = {}]
    /\ UNCHANGED copy

\* Rebound, not cleared, where requests hold references; the diarizer's
\* globals are dropped.
Evicted ==
    IF kind = "diar"
    THEN EvictedInPlace
    ELSE copy' = copy + 1 /\ UNCHANGED contents

EvictBlocking ==
    /\ Watchdog /\ alive
    /\ \/ /\ lifecycle = "nobody" /\ state = "loaded" /\ quiet
          /\ lifecycle' = "watchdog"
          /\ UNCHANGED <<memory, state>>
       \/ /\ lifecycle = "watchdog" /\ state = "loaded" /\ gpu = "nobody"
          /\ Evicted
          /\ state' = "idle"
          /\ lifecycle' = "nobody"
    /\ UNCHANGED <<kind, alive, quiet, backoff, ledger, gpu, pc, key, ref, wedged, budget>>

\* _watchdog_tick, second branch.  Both locks are held to the end of it; the
\* GPU's is only tried, so a busy GPU skips the tick.
Evict ==
    /\ Watchdog /\ alive
    /\ lifecycle = "nobody" /\ gpu = "nobody"
    /\ state = "loaded" /\ quiet
    /\ Evicted
    /\ state' = "idle"
    /\ UNCHANGED <<kind, alive, quiet, backoff, ledger, locks, pc, key, ref, wedged, budget>>

----------------------------------------------------------------------------
(* Requests.                                                               *)

Goto(r, where) == pc' = [pc EXCEPT ![r] = where]

\* Only the cold start answers 503 at the door: a failed server must reach
\* _ensure_loaded.  The transcriber lets those in whose model has been loaded
\* while the other one still is.
ShortCircuits(r) == state = "loading"
MayPass(r) == ShortCircuits(r) => kind = "asr" /\ key[r] = "parakeet"

Arrive(r) ==
    /\ alive /\ pc[r] = "free"
    /\ \/ ShortCircuits(r) /\ Goto(r, "unavailable")
       \/ MayPass(r) /\ Goto(r, IF kind = "diar" THEN "gpu" ELSE "ensure")
    /\ UNCHANGED <<kind, alive, state, memory, quiet, backoff, ledger, locks, key, ref,
                   wedged, budget>>

\* The tail of _ensure_loaded, and where its caller goes from there.  A
\* diarizer that raises gives the GPU back.
Obtain(r) ==
    IF Usable(key[r])
    THEN /\ quiet' = FALSE
         /\ ref' = [ref EXCEPT ![r] = copy]
         /\ Goto(r, IF kind = "diar" THEN "infer" ELSE "gpu")
         /\ UNCHANGED gpu
    ELSE /\ Goto(r, "unavailable")
         /\ gpu' = IF gpu = r THEN "nobody" ELSE gpu
         /\ UNCHANGED <<quiet, ref>>

\* _ensure_loaded, all of it under _lifecycle: with nothing to load ...
Ensure(r) ==
    /\ pc[r] = "ensure" /\ lifecycle = "nobody"
    /\ IF NeedsLoad
       THEN lifecycle' = r /\ Goto(r, "load") /\ UNCHANGED <<quiet, gpu, ref>>
       ELSE Obtain(r) /\ UNCHANGED lifecycle
    /\ UNCHANGED <<kind, alive, state, memory, backoff, ledger, key, wedged, budget>>

\* ... or after a reload, which takes minutes, and for which others wait.
RequestLoads(r) ==
    /\ pc[r] = "load"
    /\ LoadModels
    /\ Goto(r, "loaded")
    /\ UNCHANGED <<kind, alive, copy, locks, key, ref, wedged, budget>>

Loaded(r) ==
    /\ pc[r] = "loaded"
    /\ Obtain(r)
    /\ lifecycle' = "nobody"
    /\ UNCHANGED <<kind, alive, state, memory, backoff, ledger, key, wedged, budget>>

\* with _gpu_lock: the diarizer's first step, the others' second.
TakeGpu(r) ==
    /\ pc[r] = "gpu" /\ gpu = "nobody"
    /\ gpu' = r
    /\ Goto(r, IF kind = "diar" THEN "ensure" ELSE "infer")
    /\ UNCHANGED <<kind, alive, state, memory, quiet, backoff, ledger, lifecycle, key, ref,
                   wedged, budget>>

\* The tagger decodes before it takes the GPU: bad audio is an error, an
\* empty clip an answer.
DecodeEnds(r) ==
    /\ kind = "tagger" /\ pc[r] = "gpu"
    /\ \E answer \in {"ok", "failed"} : Goto(r, answer)
    /\ UNCHANGED <<kind, alive, state, memory, quiet, backoff, ledger, locks, key, ref,
                   wedged, budget>>

\* Inference returns or raises; either way the GPU is free.  A silent block
\* answers, and stamps the clock, while the diarizer still has the lock.
Infer(r) ==
    /\ pc[r] = "infer"
    /\ gpu' = "nobody"
    /\ \/ Goto(r, "stamp") /\ UNCHANGED quiet
       \/ Goto(r, "failed") /\ UNCHANGED quiet
       \/ kind = "diar" /\ Goto(r, "ok") /\ quiet' = FALSE
    /\ UNCHANGED <<kind, alive, state, memory, backoff, ledger, lifecycle, key, ref, wedged,
                   budget>>

\* The idle clock starts after the work, and after the lock.
Stamp(r) ==
    /\ pc[r] = "stamp"
    /\ quiet' = FALSE
    /\ Goto(r, "ok")
    /\ UNCHANGED <<kind, alive, state, memory, backoff, ledger, locks, key, ref, wedged,
                   budget>>

----------------------------------------------------------------------------
(* Time, trouble and the container.                                        *)

\* An idle spell: only the eviction looks at it.
Quiet ==
    /\ Watchdog /\ alive /\ ~quiet /\ state = "loaded" /\ budget.quiets > 0
    /\ quiet' = TRUE
    /\ budget' = [budget EXCEPT !.quiets = @ - 1]
    /\ UNCHANGED <<kind, alive, state, memory, backoff, ledger, locks, pc, key, ref, wedged>>

\* _RELOAD_BACKOFF_SECONDS pass.  _DIE_DELAY_SECONDS are over long before.
BackoffOver ==
    /\ backoff /\ ~dying
    /\ backoff' = FALSE
    /\ UNCHANGED <<kind, alive, state, memory, quiet, ledger, locks, pc, key, ref, wedged,
                   budget>>

\* The long-lived process cannot load again; or the trouble passes.
Wedge ==
    /\ alive /\ everLoaded /\ ~wedged /\ budget.wedges > 0
    /\ wedged' = TRUE
    /\ budget' = [budget EXCEPT !.wedges = @ - 1]
    /\ UNCHANGED <<kind, alive, state, memory, quiet, backoff, ledger, locks, pc, key, ref>>

Unwedge ==
    /\ alive /\ wedged
    /\ wedged' = FALSE
    /\ UNCHANGED <<kind, alive, state, memory, quiet, backoff, ledger, locks, pc, key, ref,
                   budget>>

\* _die's timer: os._exit, in the middle of whatever else is going on.
Exit ==
    /\ alive /\ dying
    /\ alive' = FALSE
    /\ lifecycle' = "nobody" /\ gpu' = "nobody"
    /\ pc' = [r \in Requests |-> IF pc[r] \in Answered \union {"free"} THEN pc[r] ELSE "killed"]
    /\ UNCHANGED <<kind, state, memory, quiet, backoff, ledger, key, ref, wedged, budget>>

\* The restart policy: a fresh process, which always works.
Restart ==
    /\ ~alive
    /\ alive' = TRUE
    /\ state' = "loading"
    /\ copy' = 0 /\ contents' = [g \in 0..Quiets |-> {}]
    /\ quiet' = FALSE /\ backoff' = FALSE
    /\ everLoaded' = FALSE /\ failures' = 0 /\ dying' = FALSE
    /\ lifecycle' = "startup" /\ gpu' = "nobody"
    /\ ref' = [r \in Requests |-> 0]
    /\ wedged' = FALSE
    /\ streak' = 0 /\ lastFailed' = FALSE
    /\ UNCHANGED <<kind, pc, key, budget>>

----------------------------------------------------------------------------
Step(r) ==
    \/ Ensure(r) \/ RequestLoads(r) \/ Loaded(r) \/ TakeGpu(r)
    \/ DecodeEnds(r) \/ Infer(r) \/ Stamp(r)

Process == StartupLoads \/ WatchdogRetries \/ WatchdogLoads \/ Exit \/ Restart

Next ==
    \/ \E r \in Requests : Arrive(r) \/ Step(r)
    \/ Process \/ Evict
    \/ Quiet \/ BackoffOver \/ Wedge \/ Unwedge

Spec == Init /\ [][Next]_vars

\* Threads that can run do, a timer fires, the container restarts what exits.
\* No request is owed, and no trouble is owed an end.
FairSpec ==
    /\ Spec
    /\ \A r \in Requests : WF_vars(Step(r))
    /\ WF_vars(Process) /\ WF_vars(Evict) /\ WF_vars(BackoffOver)

----------------------------------------------------------------------------
TypeOK ==
    /\ kind \in Kinds
    /\ alive \in BOOLEAN
    /\ state \in {"loading", "loaded", "idle", "failed"}
    /\ copy \in 0..Quiets
    /\ contents \in [0..Quiets -> SUBSET Expected]
    /\ quiet \in BOOLEAN /\ backoff \in BOOLEAN
    /\ everLoaded \in BOOLEAN /\ failures \in Nat /\ dying \in BOOLEAN
    /\ lifecycle \in Requests \union {"startup", "watchdog", "nobody"}
    /\ gpu \in Requests \union {"nobody"}
    /\ pc \in [Requests -> Pc]
    /\ key \in [Requests -> Expected]
    /\ ref \in [Requests -> 0..Quiets]
    /\ wedged \in BOOLEAN
    /\ streak \in Nat /\ lastFailed \in BOOLEAN
    /\ budget \in [quiets : Nat, wedges : Nat]

(* Properties.                                                             *)

\* Whatever a request computes with is still there: the watchdog never takes
\* the models from under one that has been given them, whether it holds the
\* GPU, waits for it, or was overtaken by an eviction and a reload.
InferenceHasItsModels ==
    \A r \in Requests : pc[r] = "infer" => key[r] \in contents[ref[r]]

\* What GET /health answers 200 to.
Green ==
    CASE kind = "asr" -> state = "idle" \/ Resident = Expected
      [] kind = "tagger" -> state \in {"loaded", "idle"}
      [] kind = "diar" -> state = "idle" \/ Resident # {}

\* A failure is owned up to, and not made more of than it is: a server whose
\* last load failed never looks healthy, however it came to it, the deliberate
\* 200 of an idle one included; and a process gives up on itself only after
\* ReloadRetryLimit loads that failed one after the other, never when it did
\* not once work, which a restart would not help.
FailureIsOwnedUp ==
    /\ alive /\ Green => ~lastFailed
    /\ dying => streak >= ReloadRetryLimit

\* Every request is answered, or killed with its process: the two locks,
\* which the three servers and the watchdog take in different orders, never
\* leave anybody waiting.
RequestsAreAnswered ==
    \A r \in Requests : pc[r] # "free" ~> pc[r] \in Answered

\* A process that worked and then cannot reload comes to an end, and a working
\* one takes its place, without any traffic to drive the retries.
WedgeIsResolved == state = "failed" /\ everLoaded ~> state = "loaded"
=============================================================================
