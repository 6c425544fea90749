--------------------------- MODULE PipelineTiers ---------------------------
(***************************************************************************)
(* The processing tiers of one session (processing/pipelines/*.py): how    *)
(* each discovers the output of the tier above, what it reads, what it     *)
(* replaces in pipeline_artifacts, and how the CLI redoes a tier.          *)
(*                                                                         *)
(*   session-> session-stats                                               *)
(*   session -> speech-detect -> diarize -> conversation                   *)
(*                                       -> transcribe (per utterance)     *)
(*   session -> audio-tag -> sound-span                                    *)
(*                                                                         *)
(* A publication replaces the rows of a tier and the map that completes    *)
(* them in one transaction, so a map's id stands for its rows as well.     *)
(* Retry, backoff and the worker's loop are JobQueue's; here a job is one  *)
(* row with a status and its attempts.  A source names what a job          *)
(* consumes: <<g, 0>> the session (g = 0) or the map of generation g,      *)
(* <<g, u>> utterance u of that map.  Ids are never reused, so the job's   *)
(* artifact_id is NULL (ON DELETE SET NULL) exactly when its source is     *)
(* gone.                                                                   *)
(***************************************************************************)
EXTENDS Integers, FiniteSets

CONSTANTS
    Utterances,    \* bound: utterances a diarize run may find
    Deployments,   \* sets of pipelines a supervisor may run (--only)
    MaxAttempts,   \* settings.max_attempts
    Failures,      \* bound: workers killed and started again, runs that raise
    Redos          \* bound: CLI commands that redo a tier

Detectors == {"speech-detect", "audio-tag"}
Readers == {"diarize", "conversation", "sound-span"}
Publishers == Detectors \union Readers
Pipelines == Publishers \union {"session-stats", "transcribe"}

ASSUME PipelineTiersAssumption ==
    /\ Utterances \in Nat
    /\ Deployments \subseteq SUBSET Pipelines
    /\ MaxAttempts \in Nat \ {0}
    /\ Failures \in Nat /\ Redos \in Nat

VARIABLES
    deployed,     \* the pipelines that have a worker
    audio,        \* the session has segments, of audio
    ended,        \* recording_sessions.ended_at IS NOT NULL
    map,          \* each publisher's completion marker and its provenance
    minted,       \* the last map id each tier used
    utterances,   \* the utterances of the present diarize-map
    transcripts,  \* transcript artifacts
    stats,        \* session-stats artifacts
    jobs,         \* processing_jobs
    run,          \* what each worker is doing
    left          \* what is left of the bounds on the environment

vars == <<deployed, audio, ended, map, minted, utterances, transcripts, stats,
          jobs, run, left>>

Slots == 1..Utterances
Session == <<0, 0>>

\* _SOURCE_PIPELINE of a tier that consumes artifacts.
Upstream(p) ==
    CASE p = "diarize"    -> "speech-detect"
      [] p = "sound-span" -> "audio-tag"
      [] OTHER            -> "diarize"

\* Maps another tier consumes: only their ids are told apart.
Consumed == {"speech-detect", "audio-tag", "diarize"}

\* id: the map, 0 when the tier has none.  source: the map its job was
\* scoped to.  of: the map whose rows it was computed from.
Nothing == [id |-> 0, source |-> 0, of |-> 0]

\* "start": claimed.  "rows": the consumed map was found, its rows not yet
\* read.  "publish": working on what was read.  "checked": the publishing
\* transaction found its source present.  "commit": diarize's has issued its
\* deletes.  "raised" and "done": process() ended, not recorded yet.
Pc == {"idle", "start", "rows", "publish", "checked", "commit", "raised", "done"}

\* doomed, grouped: the transcripts, and whether a conversation output, that
\* diarize's deletes have hit.
Idle == [pc |-> "idle", source |-> Session, seen |-> 0, doomed |-> {},
         grouped |-> FALSE]

\* What p may be enqueued for: the shapes of PipelineDiscovery,
\* maps_without_jobs and utterances_without_jobs.
Sources(p) ==
    LET up == map[Upstream(p)].id
    IN  IF p \in Detectors THEN {s \in {Session} : ended /\ audio}
        ELSE IF p = "session-stats" THEN {s \in {Session} : ended}
        ELSE IF p = "transcribe" THEN {up} \X utterances
        ELSE {s \in {<<up, 0>>} : up # 0}

Transcribed(u) == {t \in transcripts : t.utterance = u}

IsJob(j, p, s) == j.pipeline = p /\ j.source = s

\* The running row of p's worker, moved to another status; every outcome is
\* recorded WHERE status = 'running', so a row deleted mid-run stays gone.
Recorded(p, status) ==
    {IF IsJob(j, p, run[p].source) /\ j.status = "running"
     THEN [j EXCEPT !.status = status] ELSE j : j \in jobs}

Goto(p, pc) == run' = [run EXCEPT ![p].pc = pc]

Init ==
    /\ deployed \in Deployments
    /\ audio \in BOOLEAN
    /\ ended = FALSE
    /\ map = [p \in Publishers |-> Nothing]
    /\ minted = [p \in Consumed |-> 0]
    /\ utterances = {}
    /\ transcripts = {}
    /\ stats = 0
    /\ jobs = {}
    /\ run = [p \in Pipelines |-> Idle]
    /\ left = [failures |-> Failures, redos |-> Redos]

artifacts == <<map, minted, utterances, transcripts, stats>>
settings == <<deployed, audio>>

EndSession ==
    /\ ~ended
    /\ ended' = TRUE
    /\ UNCHANGED <<settings, artifacts, jobs, run, left>>

----------------------------------------------------------------------------
(* The worker's share: discover, claim, record.                            *)

\* Variant: the anti-join of the session pipelines, on any job of the session.
DiscoverOnce(p) ==
    /\ run[p].pc = "idle"
    /\ Sources(p) # {} /\ ~\E j \in jobs : j.pipeline = p
    /\ jobs' = jobs \union
         {[pipeline |-> p, source |-> s, status |-> "queued", attempts |-> 0] :
            s \in Sources(p)}
    /\ UNCHANGED <<settings, ended, artifacts, run, left>>

\* The anti-join and enqueue_many.
Discover(p) ==
    LET new == {s \in Sources(p) : ~\E j \in jobs : IsJob(j, p, s)}
    IN  /\ run[p].pc = "idle"
        /\ new # {}
        /\ jobs' = jobs \union
             {[pipeline |-> p, source |-> s, status |-> "queued", attempts |-> 0] :
                s \in new}
        /\ UNCHANGED <<settings, ended, artifacts, run, left>>

\* The first line of process(): a job whose artifact_id is NULL is skipped,
\* except that diarize asserts there is one.
Opening(p, s) ==
    CASE s \in Sources(p) -> "start"
      [] p = "diarize"    -> "raised"
      [] OTHER            -> "done"

Claim(p) ==
    /\ run[p].pc = "idle"
    /\ \E j \in jobs :
         /\ j.pipeline = p /\ j.status = "queued"
         /\ jobs' = (jobs \ {j}) \union
              {[j EXCEPT !.status = "running", !.attempts = @ + 1]}
         /\ run' = [run EXCEPT ![p] =
              [Idle EXCEPT !.pc = Opening(p, j.source), !.source = j.source]]
    /\ UNCHANGED <<settings, ended, artifacts, left>>

Succeed(p) ==
    /\ run[p].pc = "done"
    /\ jobs' = Recorded(p, "succeeded")
    /\ run' = [run EXCEPT ![p] = Idle]
    /\ UNCHANGED <<settings, ended, artifacts, left>>

\* Retry, or dead when the attempts are spent.
Fail(p) ==
    /\ run[p].pc = "raised"
    /\ \E spent \in BOOLEAN :
         /\ spent <=> \E j \in jobs : /\ IsJob(j, p, run[p].source)
                                      /\ j.attempts >= MaxAttempts
         /\ jobs' = Recorded(p, IF spent THEN "dead" ELSE "queued")
    /\ run' = [run EXCEPT ![p] = Idle]
    /\ UNCHANGED <<settings, ended, artifacts, left>>

----------------------------------------------------------------------------
(* process() of each tier.                                                 *)

\* session-stats inserts and never replaces: with segments its object_key is
\* the same every time, and UNIQUE; without, it is NULL.
WriteStats ==
    LET p == "session-stats"
        refused == audio /\ stats > 0
    IN  /\ run[p].pc = "start"
        /\ stats' = IF refused THEN stats ELSE stats + 1
        /\ Goto(p, IF refused THEN "raised" ELSE "done")
        /\ UNCHANGED <<settings, ended, map, minted, utterances, transcripts, jobs, left>>

\* speech-detect, audio-tag: delete_for_pipeline, rows and map at once.
Detect(p) ==
    /\ run[p].pc = "start"
    /\ minted' = [minted EXCEPT ![p] = @ + 1]
    /\ map' = [map EXCEPT ![p] = [Nothing EXCEPT !.id = minted[p] + 1]]
    /\ Goto(p, "done")
    /\ UNCHANGED <<settings, ended, utterances, transcripts, stats, jobs, left>>

\* Two statements, each on its own snapshot: is the consumed map there, and
\* what rows does its pipeline have now.
ReadMap(p) ==
    /\ run[p].pc = "start"
    /\ Goto(p, IF run[p].source \in Sources(p) THEN "rows" ELSE "done")
    /\ UNCHANGED <<settings, ended, artifacts, jobs, left>>

ReadRows(p) ==
    /\ run[p].pc = "rows"
    /\ run' = [run EXCEPT ![p].pc = "publish", ![p].seen = map[Upstream(p)].id]
    /\ UNCHANGED <<settings, ended, artifacts, jobs, left>>

\* What a publication writes.
Output(p, id) == [id |-> id, source |-> run[p].source[1], of |-> run[p].seen]

\* Variant: the transcripts are left to the tier below.
DeleteOwn ==
    /\ run["diarize"].pc = "publish"
    /\ run' = [run EXCEPT !["diarize"].pc = "commit",
                          !["diarize"].grouped = map["conversation"].id # 0]
    /\ UNCHANGED <<settings, ended, artifacts, jobs, left>>

\* diarize does not look at its speech-map again.  Its transaction deletes
\* its own rows, the transcripts and the conversations that are committed by
\* then, and holds them, and the jobs they null, until it commits.
DeleteBelow ==
    /\ run["diarize"].pc = "publish"
    /\ run' = [run EXCEPT !["diarize"].pc = "commit",
                          !["diarize"].doomed = transcripts,
                          !["diarize"].grouped = map["conversation"].id # 0]
    /\ UNCHANGED <<settings, ended, artifacts, jobs, left>>

PublishDiarize ==
    LET p == "diarize"
        id == minted[p] + 1
    IN  /\ run[p].pc = "commit"
        /\ map' = [map EXCEPT ![p] = Output(p, id),
                              !["conversation"] = IF run[p].grouped THEN Nothing ELSE @]
        /\ minted' = [minted EXCEPT ![p] = id]
        /\ utterances' \in SUBSET Slots
        /\ transcripts' = transcripts \ run[p].doomed
        /\ run' = [run EXCEPT ![p].pc = "done", ![p].doomed = {}, ![p].grouped = FALSE]
        /\ UNCHANGED <<settings, ended, stats, jobs, left>>

\* Variant: the map found at the start of the run is taken to be there still.
Unchecked(p) ==
    /\ run[p].pc = "publish"
    /\ Goto(p, "checked")
    /\ UNCHANGED <<settings, ended, artifacts, jobs, left>>

\* conversation, sound-span: _publish looks again for the map, then replaces.
Recheck(p) ==
    /\ run[p].pc = "publish"
    /\ Goto(p, IF run[p].source \in Sources(p) THEN "checked" ELSE "done")
    /\ UNCHANGED <<settings, ended, artifacts, jobs, left>>

\* Deleting rows that diarize has deleted waits for its commit.
HeldByDiarize(p) ==
    /\ run["diarize"].pc = "commit"
    /\ CASE p = "conversation" -> run["diarize"].grouped
         [] p = "transcribe"   -> run["diarize"].doomed # {} \/ utterances # {}
         [] OTHER              -> FALSE

PublishLeaf(p) ==
    /\ run[p].pc = "checked"
    /\ ~HeldByDiarize(p)
    /\ map' = [map EXCEPT ![p] = Output(p, 1)]
    /\ Goto(p, "done")
    /\ UNCHANGED <<settings, ended, minted, utterances, transcripts, stats, jobs, left>>

\* Variant: without transcript_exists.
CheckPresent ==
    LET p == "transcribe" IN
    /\ run[p].pc = "start"
    /\ Goto(p, IF run[p].source \in Sources(p) THEN "checked" ELSE "done")
    /\ UNCHANGED <<settings, ended, artifacts, jobs, left>>

\* transcribe: the utterance must still be there and have no transcript.
CheckUtterance ==
    LET p == "transcribe"
        u == run[p].source
    IN  /\ run[p].pc = "start"
        /\ Goto(p, IF u \in Sources(p) /\ Transcribed(u) = {} THEN "checked" ELSE "done")
        /\ UNCHANGED <<settings, ended, artifacts, jobs, left>>

\* late is history: the utterance was gone, or being replaced, by then.
NewTranscript(u) ==
    [utterance |-> u,
     copy |-> Cardinality(Transcribed(u)) + 1,
     late |-> u \notin Sources("transcribe") \/ run["diarize"].pc = "commit"]

PublishTranscript ==
    LET p == "transcribe" IN
    /\ run[p].pc = "checked"
    /\ transcripts' = transcripts \union {NewTranscript(run[p].source)}
    /\ Goto(p, "done")
    /\ UNCHANGED <<settings, ended, map, minted, utterances, stats, jobs, left>>

----------------------------------------------------------------------------
(* Failures, and the operator.                                             *)

\* Anything in process() raises; an open transaction rolls back.
Fault(p) ==
    /\ left.failures > 0
    /\ run[p].pc \in Pc \ {"idle", "raised", "done"}
    /\ run' = [run EXCEPT ![p].pc = "raised", ![p].doomed = {}, ![p].grouped = FALSE]
    /\ left' = [left EXCEPT !.failures = @ - 1]
    /\ UNCHANGED <<settings, ended, artifacts, jobs>>

\* requeue_running, for one row of the pipeline that boots.
Requeued(j) ==
    [j EXCEPT !.status = IF @ \in {"running", "dead"} THEN "queued" ELSE @,
              !.attempts = IF j.status = "dead" THEN 0 ELSE @]

\* The worker dies and its successor boots; nothing of p happens between.
Crash(p) ==
    /\ left.failures > 0
    /\ run[p].pc # "idle"
    /\ run' = [run EXCEPT ![p] = Idle]
    /\ jobs' = {IF j.pipeline = p THEN Requeued(j) ELSE j : j \in jobs}
    /\ left' = [left EXCEPT !.failures = @ - 1]
    /\ UNCHANGED <<settings, ended, artifacts>>

\* delete_for_session on the job history of some pipelines.
Forget(ps) ==
    /\ jobs' = {j \in jobs : j.pipeline \notin ps}
    /\ left' = [left EXCEPT !.redos = @ - 1]
    /\ UNCHANGED <<settings, ended, minted, stats, run>>

\* cli sessions retranscribe.
Retranscribe ==
    /\ left.redos > 0
    /\ ~HeldByDiarize("transcribe")
    /\ transcripts' = {}
    /\ Forget({"transcribe"})
    /\ UNCHANGED <<map, utterances>>

\* cli sessions rediarize, kept out of diarize's publication by the lock.
Rediarize ==
    /\ left.redos > 0
    /\ run["diarize"].pc # "commit"
    /\ map' = [map EXCEPT !["diarize"] = Nothing, !["conversation"] = Nothing]
    /\ utterances' = {}
    /\ transcripts' = {}
    /\ Forget({"diarize", "transcribe", "conversation"})

\* cli conversations rebuild.
RebuildConversations ==
    /\ left.redos > 0
    /\ ~HeldByDiarize("conversation")
    /\ map' = [map EXCEPT !["conversation"] = Nothing]
    /\ Forget({"conversation"})
    /\ UNCHANGED <<utterances, transcripts>>

----------------------------------------------------------------------------
Process(p) ==
    \/ p = "session-stats" /\ WriteStats
    \/ p \in Detectors /\ Detect(p)
    \/ p \in Readers /\ (ReadMap(p) \/ ReadRows(p))
    \/ p = "diarize" /\ (DeleteBelow \/ PublishDiarize)
    \/ p \in Readers \ {"diarize"} /\ (Recheck(p) \/ PublishLeaf(p))
    \/ p = "transcribe" /\ (CheckUtterance \/ PublishTranscript)

Work(p) ==
    /\ p \in deployed
    /\ Discover(p) \/ Claim(p) \/ Process(p) \/ Succeed(p) \/ Fail(p)

Next ==
    \/ EndSession
    \/ \E p \in Pipelines : Work(p) \/ Fault(p) \/ Crash(p)
    \/ Retranscribe \/ Rediarize \/ RebuildConversations

Spec == Init /\ [][Next]_vars

\* A worker's loop keeps going and the supervisor restarts it; nothing makes
\* the operator act or a fault happen.
Fairness == \A p \in Pipelines : WF_vars(Work(p))

FairSpec == Spec /\ Fairness

----------------------------------------------------------------------------
(* Properties.                                                             *)

Transcript == [utterance : Nat \X Slots, copy : Nat, late : BOOLEAN]
Job == [pipeline : Pipelines, source : Nat \X Nat, attempts : Nat,
        status : {"queued", "running", "succeeded", "dead"}]
Run == [pc : Pc, source : Nat \X Nat, seen : Nat, doomed : SUBSET Transcript,
        grouped : BOOLEAN]

\* Every variable keeps its type.
TypeOK ==
    /\ deployed \in Deployments /\ audio \in BOOLEAN /\ ended \in BOOLEAN
    /\ map \in [Publishers -> [id : Nat, source : Nat, of : Nat]]
    /\ minted \in [Consumed -> Nat]
    /\ utterances \subseteq Slots
    /\ transcripts \subseteq Transcript
    /\ stats \in Nat
    /\ jobs \subseteq Job
    /\ run \in [Pipelines -> Run]
    /\ left \in [failures : Nat, redos : Nat]

\* No utterance ever has two transcripts (TranscribeQueries.transcript_exists
\* is the only guard: redone, crashed and in-flight runs all meet here).
TranscriptsAreUnique ==
    \A t1, t2 \in transcripts : t1.utterance = t2.utterance => t1 = t2

\* A transcript that outlives its utterance was committed while diarize was
\* replacing it: every transcript committed before that is removed with it
\* (DiarizePipeline._publish owns invalidating the tier below).
OnlyRacersAreStray ==
    \A t \in transcripts : t.utterance \notin Sources("transcribe") => t.late

\* What conversation and sound-span publish is linked to the map whose rows
\* it was computed from, though map and rows are read by two statements.
OutputsAreOfOneGeneration ==
    \A p \in {"conversation", "sound-span"} : map[p].source = map[p].of

\* The output of a pipeline, computed for the input s, is there.
HasOutput(p, s) ==
    CASE p = "session-stats" -> stats > 0
      [] p \in Detectors     -> map[p].id # 0
      [] p = "transcribe"    -> Transcribed(s) # {}
      [] OTHER               -> map[p].id # 0 /\ map[p].source = s[1]

\* After faults, crashes and redos, every deployed tier ends with an output
\* computed from the tier above as it is, unless faults alone can use up a job's
\* attempts.
Settled ==
    \A p \in deployed : \A s \in Sources(p) :
        /\ HasOutput(p, s)
        /\ p \in Readers => map[p].of = s[1]

TiersConverge == Failures < MaxAttempts => <>[]Settled
=============================================================================
