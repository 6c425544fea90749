# Verification of audio-pipeline

TLA+ models of the parts of this repository whose correctness depends on the
order in which things happen: the job queue, its workers and their supervisor,
the storage of segments in two stores, the streaming upload, the life of a
recording session, the tiers of pipelines that replace one another's input, a
user's curation of speakers against reruns and rebuilds, the live layer, the
model servers, and the pure algorithms of the pipelines and read paths. TLC
checks the models on small instances; TLAPS proves the most important invariants,
and that the queue implements what it promises of a job, for every instance.

Paths below are relative to the repository root.

## 1. The system

A client records a *session* and uploads numbered *segments* (audio, locations),
one at a time over REST or as a stream over a websocket. Bytes go to an object
store, rows to Postgres. When a session ends, background *pipelines* discover it,
one worker process per pipeline, and produce artifacts (speech spans,
transcripts, diarized turns, conversations, sound spans, speaker clusters) that
read paths serve to a web client. A live layer taps the stream for wakeword
effects; sidecars wrap the models over HTTP.

| component | state it keeps | operations | interacts with | hard behaviours | what makes it correct |
|---|---|---|---|---|---|
| job queue and worker: `database/repos/jobs.py`, `processing/worker.py`, `processing/base.py` | `processing_jobs`; the worker's loop, the job in hand, its stop event | discover, enqueue, claim, succeed, retry, dead-letter, refund, requeue at boot, callback | sessions (read, cascade), supervisor, pipelines, redo commands | crash between claim and outcome, lost transactions, deletion and re-creation under a run, outages, signals | one live run per row, exact attempts, only earned deaths, every job settles |
| worker supervisor: `processing/supervisor.py` | children, restart backoff | spawn, restart, shut down | workers | quick exits, signals in the middle of a pass, children without a handler yet | a dead child comes back, a crash loop is throttled, a stop leaves nobody |
| segment storage: `services/segments.py`, `database/repos/segments.py`, `storage/` | `resource_segments` rows, objects | ingest, stream, delete segment, delete session | both stores, streams, REST | the two stores share no transaction; calls fail before or after taking effect; sequence races | no dangling row, no orphan, races settle |
| streaming upload: `api/routes/stream.py`, `api/stream_pool.py` | per connection: ack tracker, pool, slots, timers | attach, receive, pool, store, ack, finish, settle, teardown | segment storage, sessions, live tap | concurrent stores out of order, retries, reconnects, timers, backpressure | acks are durable, nothing stored twice, nothing lost in silence, bounded memory, ended sessions noticed |
| recording sessions: `database/repos/sessions.py`, the sweeper in `api/main.py`, `api/routes/sessions.py` | `recording_sessions` | touch, end, end_stale, split, rotate, delete | streams, queue, storage | finish against sweeper against split against rotation; heartbeats that are rarely written; sweeps that fail or overlap | a session in use is spared, an abandoned one ends, only a rotation restarts a device, once a day |
| live layer: `live/` | tap queue and socket, worker connections, gate ring, windows and feeds | attach, forward, reconnect, trigger, feed, close a window | stream (frames in, events out) | slow pipelines, dropped frames, worker crashes | frames in order and fresh, pipelines end, no worker left |
| pipelines: `processing/pipelines/` | `pipeline_artifacts` per tier | discover by missing artifact or job, process, republish in one transaction | queue, storage, sidecars | tiers read what other tiers wrote; reruns | republication is atomic and idempotent |
| algorithms: `processing/vad.py`, `services/stitch.py`, `services/timeline.py`, `processing/clustering.py`, `api/ranges.py` ... | none | merge, pad, split, stitch, map, cluster | pipelines, read paths | boundaries, gaps, overlaps | the output covers what it must, in order |
| speaker curation: `services/label_carry.py`, `database/repos/speakers.py`, `api/routes/speakers.py`, `processing/pipelines/speaker_cluster.py` | voice-prints, pins, speakers, label snapshots | reassign, unpin, merge, name, rebuild, snapshot, re-key | diarize, clustering, redo commands | a rebuild racing a user's edit, a rerun under other labels | what the user said survives reruns, rebuilds honour it |
| read paths: `api/timeline_events.py`, `api/session_audio.py`, search, conversations | a stitched-audio cache | read | all tables | stale cache, seams of windows | what is served and shown matches the rows |
| rows without interleavings: users, tokens, tags, locations, A/B votes | their tables | insert, read | - | - | constraints |
| sidecars: `sidecars/` | models, idle clock, load state, two locks | infer, load, evict, retry, exit | pipelines over HTTP, the container | eviction racing requests, locks in two orders, loads that keep failing | a request keeps its models and is answered, a wedged process resolves itself |
| command line, frontend, migrations, deployment | - | - | API and tables | - | - |

`PROJECT.json` lists them all with their status, and under `hazards` the places
where each of these behaviours bites, with the properties that watch them.

## 2. Modules

| module | models |
|---|---|
| `JobQueue` | the queue and one worker per pipeline |
| `JobLifecycle` | what the queue promises of each job: the abstract specification of `JobQueue` |
| `SupervisedWorkers` | the supervisor over the workers of `JobQueue` |
| `JobQueueProofs` | theorems of both: the queue's invariants, that it implements `JobLifecycle`, and what holds under the supervisor |
| `SegmentStore` | requests on one session's rows and objects |
| `SegmentStoreProofs` | its theorems |
| `StreamUpload` | successive or overlapping websocket connections to one session |
| `StreamUploadProofs` | its theorems |
| `RecordingSessions` | sessions, the device that streams into them, their owner, sweepers and rotation |
| `RecordingSessionsProofs` | its theorems |
| `PipelineTiers` | the pipelines of one session and the redo commands |
| `SpeakerCuration` | one user's voice-prints, pins and speakers, rebuilds, and reruns of diarize |
| `SpeakerCurationProofs` | its theorems |
| `SpeechSpans` | `processing/vad.py`, and diarize's blocks |
| `SpeakerTurns` | utterances and interjection hosts of `processing/pipelines/diarize.py` |
| `LabelSplits` | `split_labels` of diarize: which turns of a mixed label go to which voice |
| `Conversations` | `processing/pipelines/conversation.py`, its summaries included |
| `SoundSpans` | `audio_tag.py` and `sound_span.py` of `processing/pipelines`, and the tagger's windowing |
| `SessionTimeline` | `services/stitch.py`, `services/timeline.py`, `api/ranges.py`: when segments can be stitched, the file, its parts, its windows |
| `LabelCarry` | `processing/label_carry.py` |
| `SessionViews` | the event timeline, its windows and pages, the lists, the speakers of a session, fixes by session and by wall clock, the thinned track |
| `SessionAudio` | the media cache of `api/session_audio.py` |
| `Algorithms` | calls of the operators of these nine, on a bounded space of inputs |
| `Intervals` | what they share: order, overlap and coalescing of intervals |
| `ProcessingProofs` | theorems of `PipelineTiers`, of `LabelCarry` and of `Algorithms` |
| `Live` | the live layer under one websocket |
| `LiveProofs` | its theorems |
| `ModelServer` | the serving layer of the three sidecars |
| `ModelServerProofs` | its theorems |
| `MC...` | the instances of the modules for TLC, one for each that a run checks |

Operators whose comment says *Variant* are deliberate mistakes (a dropped guard,
a missing reset). No specification uses them: each is substituted for the
operator it is a variant of, to confirm that a property notices.

### JobQueue

An item stands for a dedup key, the work of one pipeline on one session; the
partial unique index on `(pipeline, dedup_key)` makes the table a function of the
item. `row[i]` has the columns the queue decides on (`status`, `attempts`,
`run_at`); `gen` stands for the row's uuid, fresh at every insert, so that a
worker's stale reference never matches a re-created row. `pc[p]` is the position
of pipeline `p`'s worker in `_worker_main`, `_discover`, `_drain` and `_run_one`;
every transaction is one step.

| action | code |
|---|---|
| `Boot` | spawn, `requeue_running` |
| `Discover`, `EnqueueMany` | `discover()`, then `enqueue_many` in a later transaction |
| `Claim`, `Drained` | `claim` by priority, then `run_at`; an empty queue |
| `Return`, `Raise`, `Unavailable` | the three ways out of `process()` |
| `Finish` | `succeed`, `retry`, `mark_dead`, `retry(count_attempt=False)`, each guarded by `status = 'running'` |
| `FinishFails`, `PassFails` | a transaction that raises, its commit lost or landed |
| `Callback` | `maybe_callback`, whose exceptions are swallowed |
| `Wake`, `Exit`, `Terminate`, `Crash` | the wait, the stop event, SIGTERM, a kill |
| `EndSession`, `DeleteSession`, `Redo`, `Tick` | sessions, cascades, redo commands, the database clock |

Abstracted: payloads and results, the LISTEN connection (a worker may wake at any
time), `FOR UPDATE SKIP LOCKED` (there is one worker per pipeline, so no claim
meets another), what `process()` does. Discovery returns any batch of the
eligible items: the ordering of each pipeline's own query does not matter here.

`JobLifecycle` forgets the table, the workers and the clock: a job is waiting,
worked on, interrupted, succeeded, dead or not there. The refinement mapping
`lifecycle` calls a running row worked on while the worker that claimed this very
incarnation still holds it, and interrupted afterwards; that is what recovery at
boot must tell apart and cannot see in the row.

### SupervisedWorkers

`JobQueue` assumes that a dead worker boots again. Here only the supervisor makes
it so: `Boot` needs a child that `Look` has spawned. The module extends `JobQueue`
and keeps its actions, so the composition is the conjunction of the two states.

| action | code |
|---|---|
| `Pass`, `Look` | one round of the loop of `run()`, child by child; the stop flag and the clock are read only at its head |
| `Signal`, `TerminateAll`, `Kill`, `Stopped` | `_handle_signal`; `_shutdown` with its grace |
| `Works`, `Dies`, `DiesAtBoot` | a child takes a step of `JobQueue`, is killed, or dies before its loop |
| `SupTick` | the monotonic clock, in units of `restart_backoff_base_seconds` |

The clock a pass judges its children by is the sample at its head: `wait` and `up`
are `not_before` and `started_at` relative to that sample, and `lag` is its age. So a
child that dies in the middle of a pass waits from the head of the pass, less than
its delay after its death. A SIGTERM that reaches a child before it installed its
handler kills it, one after that sets its stop event, in `setup()` as in the loop:
`TerminateAll` has both. A failed transaction leaves the child alive and is checked in
`JobQueue`.

### SegmentStore

A request is one call of `ingest_segment` (`ingest`, or `ingestAt` with a
caller's sequence), `stream_segment`, `delete_segment` or `delete_session`. Its
steps are the transactions and blob calls it awaits. `objects` are keys; a key
names the sequence and the uuid of the attempt that wrote it. A database call may
fail and roll back, or commit and be reported as failed; a blob call may raise
with or without its effect, or leave some keys of a batch and report success
(`PurgeSpares`); a process may die anywhere. A session's deletion goes through the
keys under its prefix page by page, so it may or may not see what is put meanwhile. `marred` remembers the
keys such a fault left to nobody, so that `OrphanIsAccountedFor` excuses nothing
else.

`Settle` is `ingest_segment`'s retry loop, `Raise` the way an exception leaves
`_ingest_once`, `Cleanup` its `except BaseException`. Reads, presigned URLs and
validation change nothing and are left out. One session suffices: keys carry the
session's prefix and rows its id.

### StreamUpload

`rows` are the session's segments: their sequence, the frames they cover, and
whether their object is intact. Everything else is indexed by connection: the
receive loop (`pump`), the tracker (`base`, `through`, `above`, and `dups`, what
was reported as a duplicate), the pooler (`highest`, `buffer`, `failed`), the
chunk pool (`flights` hold a slot, `waiting` queue for one, `fatal`).

| action | code |
|---|---|
| `Attach` | `_attach`, the tracker's and the pooler's base |
| `Top` | the head of `_pump_frames`; it is reached only when `submit` and `add` let go |
| `ReceiveChunk`, `ReceiveBad`, `ReceiveStale`, `ReceiveFrame` | the branches of `_ingest_v2_frame` |
| `TimerFires` | `_flush_later` |
| `Leave`, `QuietSlice`, `Close` | finish, disconnect and protocol errors; the receive timeout; the drained end, with `sessions.end` |
| `StoreLands`, `StoreIsDuplicate`, `StoreIsLate`, `StoreFails` | the outcomes of `_store_with_retries` and `_ingest_decoded` |
| `Crash`, `EndSession` | cancellation or death of a handler; the session ended elsewhere |

A store is one step: `SegmentStore` shows what happens inside. Its failure leaves
nothing, or (a commit whose reply was lost) a row whose object the cleanup
deleted. Sizes are counted in frames. An envelope that fails validation is
refused on receipt, although the code decodes it inside its store task; nothing
depends on the difference. The outbox is left out: it sends what the tracker
holds. `pool.failure` is left out too: every store catches what it raises.

A freed slot passes straight to the first waiter. That is how the semaphore and
the task set interact in one event loop: the release wakes the waiter before the
finished task's callbacks run, so `drain` never sees the set empty while a flush
still waits.

### RecordingSessions

Times are ages: a tick makes every row and every open transaction older, so the
state space stays finite although sessions have real timestamps. A transaction
takes its `now()` at its start, and a heartbeat that waited for its row writes a
time that is `late`. A sweep is one transaction with two updates (`end_stale`, then
`split_started_before`): rows the first has locked make other writers wait and are
read as they were until the commit.

| action | code |
|---|---|
| `Create`, `Attach`, `Chunk`, `Touch`, `Insert`, `Check`, `Teardown` | a device's connection: the row, the throttled heartbeat, the chunk, the look at the row, `_ended_teardown` |
| `Finish`, `End`, `Split`, `Delete` | the client's finish, and the owner's requests |
| `EndStale`, `Rotate`, `SweepFails` | a pass of `_sweep_sessions`, in every API process |
| `Instant`, `ChangeClocks`, `Tick` | the daily rotation time comes by, under one UTC offset or the other; the offset changes; time passes |

A sweep computes its cutoff anew, as the last time it was `API_SESSION_ROTATE_AT` by the
UTC offset of that moment. So a day has an instant for either offset, the summer's an hour
before the winter's, `due` holds those that have come since a session started, and
`StartedBefore` asks for the one of the offset in force.

`cause`, `silence` and the count `clock.back` are history. A session created with a `started_at` of the
client's own (an import) is left out, since nobody streams into it.

### PipelineTiers

`JobQueue` asks how a job is run, whatever it does; `PipelineTiers` asks what the
runs of different pipelines do to each other's output. A job here is a row with a
status, its attempts and the artifact it is scoped to; retry, crash and recovery
keep their effect on the row, without backoff and without the loop.

A publication deletes a tier's rows and inserts the new ones with their *map*, the
completion marker the tier below discovers, in one transaction. So `map[p].id`
stands for the rows as well, and only for a tier whose map another tier consumes
(`Consumed`) are successive ids told apart. Statements that a concurrent
transaction can fall between are separate steps:

| action | code |
|---|---|
| `Discover`, `Claim`, `Succeed`, `Fail` | the anti-join of each tier, and the queue |
| `WriteStats` | session-stats, which inserts and never replaces |
| `Detect` | speech-detect and audio-tag: replace and publish |
| `ReadMap`, `ReadRows` | a tier below reads its map, then the rows of the map's pipeline |
| `DeleteBelow`, `PublishDiarize` | diarize deletes its rows, the transcripts and the conversations; inserts, and commits |
| `Recheck`, `PublishLeaf` | conversation and sound-span look for their map again in the publishing transaction |
| `CheckUtterance`, `PublishTranscript` | transcribe's two checks, and its insert |
| `Retranscribe`, `Rediarize`, `RebuildConversations` | the redo commands, each one transaction |
| `Crash`, `Fault` | a worker dies and recovers; something in `process()` raises |

A row diarize has deleted and not yet committed blocks whoever deletes it too
(`HeldByDiarize`); `rediarize` takes the user's clustering lock, as diarize does,
so the two exclude each other. A job's `artifact_id` is set to NULL when the
artifact goes; since ids are not reused, that is the test whether its source is
among `Sources(p)`. Left out: a run that finds its audio gone or unrenderable
(transcribe then succeeds without a transcript) and `transcribe-ab`; label
carry-over and speaker clustering are in `SpeakerCuration`. The deadlocks Postgres resolves by aborting a transaction are `Fault`s.

### SpeakerCuration

One user's voice-prints in one embedding model. `prints` is `speaker_embeddings`
by address (session and label): the voice it was computed from, and the speaker
it is assigned to; `pins` is `speaker_pins`; `speakers` and `named` are the
`speakers` rows. Three variables are no state of the code, and remember for the
properties what happened: `meant` what the user last said of a voice in a session,
`stood` the voices a label ever stood for, and `dropped` the voices of which
something meant was lost, in a rerun without carrying or in one that did not hear
them. A label is a name, of its block's start and a number of the diarizer's
(`b{start}:SPEAKER_XX`): a diarization may give any voice any name, a name of an
earlier one included (`Hearings`).

| action | code |
|---|---|
| `Reassign`, `Unpin`, `Merge`, `Name` | the requests of `api/routes/speakers.py`, one transaction each, without a lock |
| `RebuildRead` | `rebuild_user_clusters` reads the corpus with its pins, and clusters it |
| `RebuildWrite`, `RebuildFails` | `_reconcile` and the pruning; a rollback. `Reconciling[n]` is its loop after n clusters: `Who` a cluster is, and `Place` |
| `Rediarize` | the command: a snapshot with `--carry-labels`, the deletion of the tier |
| `Publish` | diarize inserts the new prints and applies the snapshot, in one transaction. `Carrying` is the loop of `apply_labels` over the records |

What `cluster_corpus` finds depends on distances; `Clusterings` admits every
result that obeys its two rules (equal pins together, different pins apart) and
the talk gate, so the properties hold whatever the geometry. A label is heard as
one voice and a voice has one label in a diarization; every label has a
voice-print. `map_labels` then sends a label to the label its voice has now,
which is what `LabelCarry` shows of overlapping speech. `Merge` speaks of the
members it shows: prints without a member row are not said to be anybody's.

### Live

One websocket. Frames are numbers; the socket is a sequence of messages with room
for `WireRoom` before `drain()` waits. Every queue that drops is `Push`.

| action | code |
|---|---|
| `SendFrame`, `Connect`, `Write`, `DrainEnds`, `Lose`, `Detach` | `live/tap.py` |
| `Greet`, `ReadAudio`, `ReadEof`, `HandlerFails`, `Ended` | `_serve_connection` of `live/worker.py` |
| `FeedGate` with `OpenWindow`, `CloseWindow`, `WindowClosed`, `Finish` | `live/gate.py`; whether the detector triggers is nondeterministic |
| `Consume`, `Return` | a pipeline reads a frame, or is done before its window |
| `Notice`, `Respawn`, `Stop`, `WorkerStops`, `WorkerDies` | `live/supervisor.py` |

The events a pipeline emits are left out, and so is a reconnect while the handler
of the old connection is still closing its window, which then serves nobody.

### ModelServer

The three servers keep the same state machine, and `kind` chooses one. `copy` is
the dict `_models` is bound to and `contents` what is in each: eviction rebinds the
name, so a request that was given the old dict keeps it. The diarizer has globals
instead, and takes the GPU before it looks at them. `wedged` is the environment: a
checkpoint or CUDA context that does not load.

| action | code |
|---|---|
| `StartupLoads`, `WatchdogRetries`, `WatchdogLoads`, `Evict` | the startup thread and `_watchdog_tick` |
| `Arrive`, `Ensure`, `RequestLoads`, `Loaded`, `TakeGpu`, `Infer`, `Stamp` | a request: the door, `_ensure_loaded`, the GPU, the idle clock |
| `Exit`, `Restart` | `_die`, and the container's restart policy |

### Algorithms

The code's loops are recursive functions or folds, in the order in which the
code goes through its input; the references beside them (`SpeechMs`,
`HysteresisOf`, `Bytes`, ...) are sets of instants or bytes, without an order.
An action of `Algorithms` is one call, and its state is the input together with
the result. Probabilities and scores are levels 0 to 2. Left out: confidences,
means and other displayed numbers, exclusions of utterances (nothing supplies any
yet). `started_at` is given in tenths of a millisecond, because the two views of a
fix convert it differently (`Truncated`, `Rounded`). In `LabelSplits` an embedding is a voice, a place on a line, or none; voices are
further apart than what `cluster_corpus` joins, so its clusters are the voices heard.

## 3. Runs

| run | question | bounds |
|---|---|---|
| `JobQueue` | exclusive claims, exact attempts, earned deaths; does the queue implement `JobLifecycle`? | two pipelines, three items (a chain of two, and a redoable one), two sessions, two attempts, two rows per item; one crash or signal, one outage, one failed transaction |
| `SupervisedWorkers` | is a crash loop throttled, a stop clean, and does every job settle? | one worker, two items of different priority, two attempts, two deaths, a delay that doubles once to its cap, a pass in which time may move on by one |
| `SegmentStore` | rows keep their objects, orphans are accounted for, racers settle | five requests of every kind, three attempts, one fault of each sort |
| `StreamUpload` | durable acks above the resume point, no double storage, nothing lost in silence | two connections in succession, three frames of which one enveloped, two slots, five messages of which one malformed, one fault, one crash |
| `StreamUploadLive` | bounded memory, every accepted frame settles and every end is noticed | one connection, four frames, one slot, five messages, one fault, one lost reply |
| `StreamUploadHole` | *violation*: acks cover a hole below the resume point | compliant clients |
| `RecordingSessions` | who is told to restart; how often does the schedule split; who is swept, and is it in the end? | one device with a session and its successor, two sweepers, one day's rotation instants, one change of the clocks, a reconnect, a failed sweep; a stale window of three ticks, a heartbeat and a wait of one |
| `PipelineTiers` | unique transcripts, only racers outlive their utterance, outputs of one generation, tiers converge | the speech half and the sound half of the pipelines, one utterance, two attempts, one fault or crash, one redo command |
| `SpeakerCuration` | curation carried over reruns, pins honoured, identities last | one session, two labels, two voices, five speakers ever, two acts of the user, two rebuilds, two reruns, under any of the labels |
| `Live` | order and freshness of frames, do pipelines end, is a worker left behind? | two pipelines, five frames through queues, ring and window of two, one death or failure |
| `ModelServer` | does inference keep its models, are failures owned up to, requests answered, wedges resolved? | each server with two requests, two idle spells, two wedges, two failures before the exit |
| `Algorithms` | do the algorithms do what they say, on every input? | see below |

The bounds are the smallest at which the interesting cases exist: two sessions of
different fate, a chain, a job retried and then dead-lettered, a deletion under a
run; a number two requests compete for while both deletions run; a flush that
fails while a later one lands, followed by a reconnect; more frames than the
buffer holds with every slot busy. Faults are bounded by budgets, because each
property is about the trace one fault leaves, and a second one of the same sort
starts over from a state the first already reaches. `Horizon` and the clock:
only comparisons with `run_at` matter, so the clock moves only while a row waits.
The two halves of `PipelineTiers` (`BothHalves`) share no artifact and no lock, so
checking them side by side would only multiply their states; within a half every
worker interleaves with every other. One redo is enough to put two generations of
diarize's output, and a run of each generation, side by side.

`SpeakerCuration` needs two voices for a swap or a theft of identity, two
acts for a pin and what undoes it, and two reruns for a snapshot that is replaced
before it was used. The two voices can keep their labels, as in
`tests/e2e/test_label_carry.py`, and one can move on and come back to a name it had;
longer chains are left to the theorem, which has any number of labels and reruns.
What neither can show is
`CurationIsCarried` of voices that have shared a label (`Shares`): it is false there,
for two reasons. `apply_labels` moves one pin after the other, and loses the first of
two that swap (see below). And a pin is keyed by session and
label and outlives the diarization: when a voice with a pin is not heard any more,
its pin stays on the label, and the next voice with this label inherits it.
Two reruns under different parameters make labels shared only when two blocks
begin at the same millisecond, as the first block of a session may; one with the same
parameters may do so by numbering the voices in another order.

`RecordingSessions` needs two sweepers for a pass that repeats another's, a
successor for a rotation to hit by mistake, and windows that differ in order
(a heartbeat and a wait fit into the stale window, as 60 s and a transaction do
into five minutes). `Live` needs every queue to overflow: five frames through rooms of
two. `ModelServer` needs a request to hold one copy, a second to reload another,
and a process to fail, recover and fail again: two of each. `SupervisedWorkers`
needs the delay to reach its cap, which two deaths and the first start do.

`Algorithms` takes all scores of up to eight frames; all lists of up to three
turns of three speakers; talks of up to five turns, one more than two churn
windows need; recordings of up to five windows; sessions several
tagger spans long; stitched files of up to three segments, the empty one and the
one cut inside its header included; every byte range of them; sessions of two segments loaded, and of three scanned in
windows of up to five ms; audits of up to four turns of three voices; up to two
batches of fixes, their spans declared or derived, of a session that starts at a
millisecond, before or after the middle of it; up to four utterances of an old
label and of two new ones; timelines of up to three
artifacts of every kind, tracks of up to twelve fixes, and seven events around a cache with
room for one piece, two sessions and two requests in flight. The constants are
small and keep the order relations that the settings have (a gap shorter than a
span, a span shorter than a block, an enter score above a sustain score).

Deadlock is checked everywhere but in models that really stop: in
`PipelineTiers` nothing is left to do once every tier has settled and the budgets
are spent, and `TiersConverge` says that it stops only there; `SpeakerCuration`
stops when its budgets are spent, and a call of `Algorithms` is over when it has
returned; `SupervisedWorkers` and `Live` end with their supervisor, and
`ModelServer` when every request is answered and nothing is left to go wrong.
`Returned` and `Over` are the states in which the modelled requests and
connections have all ended; `JobQueue` and `RecordingSessions` never stop.

The violation run shows what the code does where a document says otherwise;
`PROJECT.json` quotes both sides under `findings`. The documents
disagree with the code on more points, which the models follow the code in and no
run is spent on:

- `session_stats.py:80` inserts without replacing, so a run repeated after its
  commit and before its success was recorded appends a second artifact, or fails on
  the unique object key until it is dead; `database/repos/artifacts.py:84` says that
  a retrying job clears its own previous output. `TiersConverge` asks of
  session-stats only that it settles;
- `api/timeline_events.py:219` says that adjacent windows partition the stream
  without gaps; the rows of a window are those with `end_ms > from_ms`
  (`database/repos/artifacts.py:201`), so a speech-end exactly at the seam is in
  neither window (`WindowsTile` states the exception);
- `SegmentSetFingerprint` says that any change of the segments moves one of its
  fields; a deletion and an addition can make up for each other in all three, and
  the cache then serves the old audio (`ServesTheSession` asks for no deletion);
- an owner's end of a session that was split, before its device noticed, keeps the
  row's `rotated`, and the device is still told to record on, although
  `docs/streaming-protocol.md:302` promises that only of sessions a rotation ended
  (`OnlyRotationsRestart` speaks of what ended the session first);
- a comment at `processing/worker.py:68` says that a database outage degrades "to
  retrying next pass", and an outcome whose transaction fails leaves its row
  running until the worker's next boot;
- the comment at `api/stream_pool.py:151` takes a duplicate flush for stored data,
  and the row it collides with may cover other frames when a client reattaches
  before its old handler is done (`Overlap`, FALSE in every run; the first three theorems of `StreamUploadProofs`
  hold of overlapping connections too);
- `docs/streaming-protocol.md:254` says that acknowledged chunks have their bytes in
  the object store, and `stream_segment` deletes the object after a commit whose
  reply was lost, while the retry takes its own row for a stored duplicate
  (`LostReplies`; `RowHasObject` names the exception);
- the comment at `services/segments.py:151` says that a failure of the COMMIT itself
  still orphans the object. The transaction commits when its context manager
  exits, inside the `try`, so such a failure is cleaned up after like any other, and the
  model does so (`InsertFails`, then `Cleanup`). `OrphanIsAccountedFor` holds of this
  case because the code is better than its comment; the price is the row without an
  object of the point above, when only the reply was lost;
- `api/schema/locations.py:17` says that `at_ms` of a fix is the position on its
  session's timeline, and `database/repos/locations.py:99` that the windows match the
  timeline's. The query subtracts `started_at` rounded to the nearest millisecond
  (`::bigint`, line 28), the timeline truncated (`int()`, `api/timeline_events.py:163`):
  when it lies in the later half of a millisecond, every fix of the session is one less
  here, and a window that begins at its place on the timeline does not contain it.
  `FixesAreFound` says no more than holds: all of a session's fixes are at
  their places, or all are a millisecond before them;
- `database/repos/sessions.py:172` says that bounding by `started_at` makes re-runs of the
  rotation no-ops, and `api/main.py:68` that every pass is idempotent. Every pass computes
  the cutoff anew, as HH:MM under the UTC offset of that moment (lines 51-56 and 85): when
  the clocks go back after a rotation, the cutoff lies an hour later, past the
  `started_at` of the successor that rotation made, and the successor is split as well.
  `RotatesOncePerInstant` names this exception;
- `docs/processing-pipelines.md:480` says that diarize re-keys pins onto the new label
  covering the same speech. `apply_labels` re-keys one pin after the other, and
  deletes the pin under a record's old label (`services/label_carry.py:95`) also when an
  earlier record has just been moved onto that name: when two voices with a pin swap
  their labels, or when the first moves to the name of the second and the second moves
  on, the pin moved first is lost. `CurationIsCarried` excepts voices that
  have shared a label;
- `delete_session` returns the number of objects removed; `_delete_batch` counts the
  keys it asked to delete, and drops the errors the store reports for single keys
  (`OrphanIsAccountedFor` counts these among the faults);
- `database/repos/speakers.py:272` says that every future rebuild honours a pin, and
  a rebuild that has read the corpus before a print is ejected into a fresh unnamed
  speaker moves it back, prunes the emptied speaker, and with it the pin: the user's
  act is lost without a trace. `RebuildHonoursPins` and `CurationIsCarried` name this
  exception (the pin has to be there still, the speaker to exist);
- the comment at `services/label_carry.py:89` says that a vanished speaker "held no
  curation"; it may be one a print is pinned to, when it has no name and was pruned
  while the session's prints were away, or one the user has merged away meanwhile;
- `apply_labels` is idempotent, but the publication around it is not: a repeated
  publication inserts unassigned prints and carries the assignments no second time
  (pins are kept);
- the pin of a label that nothing overlaps any more stays on its name, and a later
  diarization may give that name to another voice;
- `utterances_from_turns` says that overlapping turns of a speaker collapse; they do
  not when the cap refuses the merge, and the same speech is then transcribed twice
  (`CurationFollowsSpeech` assumes that it is not);
- `interjection_hosts` says that nested containment resolves to the outermost span; an
  utterance inside an interjection of another speaker, and inside a longer span of its
  own speaker, is left without a host;
- `parse_range` says that a malformed range is ignored; one whose last byte is before
  its first is answered with 416.

Others, of the other parts:

- the lifecycle in `docs/processing-pipelines.md` calls `dead` terminal, and
  `requeue_running` revives dead rows at every boot;
- the same page (line 55) says that crashes count against `max_attempts`: they are
  counted, but nothing compares the count at claim or at recovery, so a job that
  kills its worker is claimed without end;
- `docs/streaming-protocol.md` (line 268) lets a client retransmit a refused frame
  at any time, and `ReceiveStale` refuses it once a later frame has passed;
- a comment in `api/routes/sessions.py` says that the audio of a closed session
  never grows, and a chunk whose liveness check came before the end still lands;
- `docs/processing-pipelines.md` says that jobs whose artifact is gone skip;
  diarize asserts that it is there, and such a job goes dead;
- `resources/location.py` (line 10) says that every stored row spans its batch, as a
  contract of the wall-clock queries; a device that declares `captured_at` or
  `duration_ms` is believed, and those queries then miss its fixes outside the span
  (`FixesAreFound` assumes that declared spans hold);
- `check_uniform` says that it rejects mixed formats before any byte is sent; it
  compares declared rates only, so a segment that declares none is stitched into a
  file of another's rate (`TimelinesAreUniform` states what does hold).

### Properties worth naming

- `AttemptsExact`: `attempts` equals the number of faults of the row's runs plus
  the run in flight or succeeded. Charges at claim and refunds after outages are
  far apart, and crashes and lost transactions fall between them.
- `ClaimIsExclusive`: recovery, redo and deletion never take a row from under its
  run.
- `ImplementsLifecycle`: no success without a run, no run of what already succeeded,
  no follow-up without its parent's success, no recovery of a job that is being
  worked on; in one formula, against every interleaving the queue allows.
- `CrashLoopIsThrottled`: delay, uptime and reset are judged by a sample of the clock
  that is stale by then, against a start that was read afresh; this bounds the restarts
  by the sum of the delays, counted from the sample that noticed the first death.
- `ShutdownIsClean`: a signal may fall between the look at one child and the next.
- `JobsSettleUnderSupervision`: liveness across both clocks, without assuming that
  anybody restarts a worker.
- `RowHasObject`: a loser's cleanup, a deletion or a retry never removes an
  object that some row points at. The one exception is named, not hidden: a row
  whose own commit was reported as failed.
- `AcksAboveBaseAreDurable`: what a connection acknowledges above its resume
  point is stored. Below it the claim is false (`StreamUploadHole`).
- `NoFrameIsLost`: an accepted frame is stored, on its way, or named in an error.
- `MemoryIsBounded`: the pool stays within one frame of its cap.
- `TranscriptsAreUnique`: a redo can run one utterance twice at a time; the check
  in the inserting transaction is enough because one worker does all of them.
- `OnlyRacersAreStray`: the code's own comment concedes that a transcript racing
  diarize's delete survives; this says that nothing else does.
- `OutputsAreOfOneGeneration`: map and rows are read by two statements, without a
  snapshot over both. The second look at the map in the publishing transaction is
  what makes it safe: if the map is still there, nothing replaced its rows.
- `CurationIsCarried`: pins, prints, labels and snapshots are four tables that reruns,
  rebuilds and requests change; this relates what the user said to where the voice is
  heard now, over any number of them, and forbids that a pin left on an old name
  comes back.
- `IdentitiesLast`: pinned identities are claimed before the majority is asked, so
  that neither of two clusters is folded into the other by its history, and a
  speaker the user named is not pruned while it is empty.
- `SpeechIsCovered`, `UtterancesAreFaithful`, `SoundsAreTagged`: several passes
  that undo one another's work, against one definition of what must come out. The
  tagger's spans and hop agree only because the span is a window plus a whole number
  of hops; `SoundSpansAssumption` says so.
- `TiersConverge`: discovery never looks at a succeeded job again, so whatever takes
  an output away must take its job, or its source, too.
- `SweepSparesTheActive`: the sweeper reads a timestamp that most chunks do not
  write, and that a waiting transaction writes late; the bound adds up.
- `OnlyRotationsRestart`: `rotated` and `ended_at` are written by five statements, each
  with its own guard.
- `RotatesOncePerInstant`: nothing records that a rotation is done but the successor's
  `started_at`, against a cutoff that every pass computes again. A change of the offset
  moves it; otherwise one instant splits once.
- `AudioFlows`: order over two drop-oldest queues, a ring that overlaps the window it
  opens, and a socket that loses what is in hand.
- `PipelinesEnd`: the sentinel goes through a queue that drops, and an instance may be
  waiting for it inside the handler that would fill the queue again.
- `InferenceHasItsModels`, `RequestsAreAnswered`: two locks, taken in one order by the
  diarizer and in the other by the watchdog, which is why one is only tried.
- `FailureIsOwnedUp`, `WedgeIsResolved`: what `/health` says and when the process
  exits, over failures in a row, in a process that may have worked before.
- `SessionsAreShown`, `MediaIsServed`: reads that are made of two statements or of two
  windows, against what the tables hold.

## 4. Fairness

`SupervisedWorkers` assumes that the supervisor's thread and each live child take
their next step and that both clocks move; that a dead child comes back is what the
run shows. Signals, crashes, outages and database failures are never owed and are
bounded. `StreamUploadLive` assumes what the
event loop gives: the receive loop, the pool's timer and the stores run when they
can; blob and database calls return or raise. A quiet slice comes round when no
message does. Messages are bounded, so a client that never falls silent is not
covered: one whose every frame is refused keeps an ended session's stream open,
because only a store or a quiet slice looks at the session
(`api/routes/stream.py`, the `TimeoutError` branch). `PipelineTiers` assumes weak
fairness of each deployed worker as a whole: its loop runs, and the supervisor
restarts it. Faults and the operator are never owed; a session that is never ended
is never processed, and `TiersConverge` asks nothing of it.

`RecordingSessions` assumes that the handler of a connection and the sweep tasks run
(`_sweep_sessions` loops forever and survives its exceptions) and that time passes;
no chunk, request or failure is owed. `Live` assumes that the two event loops run,
that a pipeline reads its feed or returns, and that a client goes away in the end;
a pipeline that does neither would hold up its connection for good, since nothing
in `live/gate.py` times it out. `ModelServer` assumes that threads which can take
their lock eventually do, that loads and inference end, that timers fire and that
the container restarts what exits. No trouble is owed an end: a wedged process
exits because its retries fail.

## 5. Proofs

`JobQueueProofs`, for any pipelines, items, sessions, delays and numbers of
faults, from `JobQueueAssumption` alone:

- `TypeCorrect`: `TypeOK` is inductive as it stands.
- `LedgerHolds`: `LedgerInv` is inductive. `AttemptsExact` alone is not: a step of
  one worker could change what "in flight" means for another's row. `HolderOK`
  adds that a worker holds a job exactly while it runs it, only of its own
  pipeline, and never one newer than the row; then only the worker of the item's
  pipeline can be running it (`FlyingIsInFlight`). `ClaimIsExclusive` gives the
  held attempts, from which the dead-letter decision is made.
- `ClaimsAreExclusive`, `AttemptsAreExact`, `DeathIsEarned` follow from it.
- `LifecycleIsImplemented`: `Spec => ImplementsLifecycle`. `LifecycleInit` maps the
  initial state, and `LifecycleStep` every action to a step of `JobLifecycle` or to
  a stutter: `StepOrStutter` once and for all, then one lemma's worth of steps per
  action. Two invariants carry it besides `LedgerInv`: `OwnClaims`, that only the
  worker of an item's pipeline can hold its claim, so that a recovery at boot finds
  only what nobody works on any more; and `FollowInv`, that a worker about to run a
  callback leaves behind a success that nothing but a redo or a deletion takes away.
  `FollowUpAssumption` (follow-ups have one parent each) is what the registry's
  callbacks guarantee.

The invariants are kept by `AnyStep`, which is a step of the queue, or a death of a
worker whoever kills it, or anything that only touches signals and budgets. So they
hold under whatever supervises the workers.

In the same module, for the same parameters and any backoff base, cap and reset with
`SupervisorAssumption`, of `SupSpec`:

- `SupTypeCorrect`.
- `LedgerHoldsSupervised` and `LifecycleIsImplementedSupervised`: every step of
  supervisor and children is an `AnyStep` (`SupStepIsQueueStep`), so the queue is exact
  and implements `JobLifecycle` when only the supervisor starts its workers.
- `CrashLoopsAreThrottled`: `CrashLoopIsThrottled` says nothing of a child that waits;
  `ThrottleInv` adds that at the last sample of the clock what had passed and what is
  left of the delay add up to the sum that is due, and that the next delay is the one
  the streak has come to.
- `NobodyIsLeftBehind`, the safety half of `ShutdownIsClean`: `ChildrenInv` adds that
  only a live child runs the loop, so that the supervisor, which waits for its live
  children, waits for every worker.

`SegmentStoreProofs`, for any requests, kinds, retries and numbers of faults, from
`SegmentStoreAssumption` alone:

- `TypeCorrect`.
- `StoreHolds`: `CustodyInv` together with the two properties is inductive. A row
  belongs to the last attempt of a request that is done with it
  (`RowsAreCommitted`), an attempt that may still insert has its object
  (`AttemptHasObject`), a deletion unlinks only keys whose row is gone for good
  (`DoomedAreGone`), and inline requests never touch the store (`PlacesOK`). The
  freshness of uuids enters as the shape of `SegmentId`.
- `RowsKeepTheirObjects`, `OrphansAreAccountedFor` follow from it.
- `RacesAreSettled`, for a finite set of inserting requests no larger than `Retries`:
  `RaceInv` charges each attempt a request lost to another request that has inserted
  for good (`Landed`), a different one each time. A row is deleted at most once and
  never moves, so a charge stays (`ChargesStay`); with fewer other requests than
  attempts, one attempt is never lost. The deletions are why this needs a history: the
  numbers themselves may go down again.

`ProcessingProofs`, of `PipelineTiers`, for any number of utterances, any set of deployed pipelines
and any number of faults and redos, from `PipelineTiersAssumption` alone:

- `TypeCorrect`.
- `TiersHold`: `TiersInv` is inductive. `OutputsAreOfOneGeneration` is about what
  was published, so `LeafInv` follows the run that will publish: it works for a map
  that was minted, and as long as that map is there the rows it read are that
  map's; ids only grow, so a map once gone never returns. `TranscriptInv` says that
  nobody else writes a transcript between transcribe's check and its insert, and
  that while diarize commits, the transcripts its deletes missed are the racers.
- `TranscriptsUnique`, `OnlyRacersStray`, `OutputsOfOneGeneration` follow from it.

`StreamUploadProofs`, for any connections, frames, envelopes, slots, pool and buffer
sizes, retries and numbers of faults, from `StreamUploadAssumption`:

- `TypeCorrect`. The one fact about data it needs, that a set of sequences has a
  maximum, comes from the bound on `Frames` (`MaxOfFrames`).
- `MemoryHolds`: `MemoryInv` adds that a loop which receives has room, and then a
  message adds one frame to what is held (`ActorHolds`).
- `LocalHolds`: whatever overlaps, `LocalInv` is inductive. Only a running handler has
  anything under way, pooled flights carry distinct frames apart from the buffer and
  from envelopes, a handler in its loop has no reason to leave, and a row ends with
  its own sequence.
- `StoredOnce` and `NothingIsLost` assume `~Overlap`: with it the code does store a
  frame twice and drops another, see section 3. `TurnsInv` says that every row a running handler can meet is a flight
  of its own or lies behind its watermark. A flight that collides with a row therefore
  finds exactly its own frames in it (`DuplicateIsCovered`), and one that does not
  shares no frame with any row (`StoredOnceStep`). `ActorKeeps` then follows each
  accepted frame from the buffer to a flight to a row or an error.
- `AcksAreKept` assumes `LostReplies = 0` as well: what is told is stored
  (`ToldIsStored`), and only a lost reply leaves a row without its object
  (`RepliesInv`).

`RecordingSessionsProofs`, for any sessions, sweepers, instants and numbers of faults,
from `RecordingSessionsAssumption` alone:

- `TypeCorrect`.
- `SessionsHold`: `SessionsInv` is inductive. Its parts are that a device has one
  session at a time, that the stop flag it reads at its teardown follows the cause of
  the end, that a row the sweep has locked stays stale until it commits, that a row's
  age is at most the silence plus a heartbeat and a wait, that the sessions the
  schedule has ended or is about to end are no more than the instants that passed by the
  offset in force and the times the clocks went back, and (`LatestIsDue`) that whatever is
  due by the older of a day's two instants is due by the newer.
- `OnlyRotationsRestartDevices`, `RotationsAreSpent` and the action property
  `ActiveAreSpared` follow from it.

`ModelServerProofs`, for any requests, quiet spells, wedges and reload limit and each of
the three servers, from `ModelServerAssumption` alone:

- `TypeCorrect`, with the count of the copies that are left.
- `ServerHolds`: `ServerInv` is inductive. Who holds a lock is at a place that needs
  it; `_state` tells what `_models` holds; a request waits for the GPU with the models
  it was given; and dying is final, since the backoff that comes with it lets no load
  begin, so that the failures in a row can no longer be reset.
- `InferenceKeepsItsModels`, `FailuresAreOwnedUp` follow from it.

`LiveProofs`, for any pipelines and any size of queue, socket, ring, window and feed,
from the assumptions of `Live`:

- `TypeCorrect`.
- `AudioKeepsItsOrder`: `FlowInv` says that what the ring or a pipeline has read, in
  order, is behind the socket (`Behind`), the socket behind the tap's queue, and the
  queue behind the frame to come; `QueueInv` that the queue is the end of the stream
  without a gap. A trigger hands a pipeline the ring, of which its feed keeps
  the latest frames (`Latest`); `LatestIsPushed` shows that this is what pushing the
  ring frame by frame leaves, which is how the code does it.
- `WorkerStaysGone`: `NoWorkerIsLeft` is inductive as it stands; the stop takes the
  monitor before it takes the worker, and nobody else starts one.

`SpeakerCurationProofs`, for any finite sets of sessions and voices and any number of
labels, speakers, acts, rebuilds and reruns, from `SpeakerCurationAssumption`:

- `TypeCorrect`, with the foreign keys: what is assigned or pinned exists. Together
  with `TypeOK` two invariants are inductive: `HearingInv`, that a voice is heard under
  one label, which stood for it; and `ViewInv`, that what a rebuild has read is
  still heard where it was (the lock keeps diarize out), and that its clusters are
  apart, agree in their pins, and are led by those with a pin.
- `PinsAreHonoured`, `IdentitiesAreKept`: `_reconcile` is a loop over the clusters, and
  `EveryClusterIsPlaced` goes through it: the speakers claimed so far are exactly those
  of the clusters so far, and the next one is none of them. For a match or a
  fresh speaker that is how it is chosen; for a pin, because clusters with a
  pin come first, their pins differ, and a fresh speaker in place of one that is gone
  is no speaker that existed.
- `LabelsAreCarried` is `CurationIsCarried` for any labels, old names and new ones; it
  excepts voices that have shared a label (section 3 says what happens to these).
  `CarryInv` says what a rerun in between must not lose: a label that never stood for
  anyone has no pin; nothing is meant of a voice that is not heard unless a
  snapshot awaits its use, and then that snapshot `Holds` what was meant, for each
  voice once, under a label that stood for it; and of a voice that shares no label the
  pin `Follows` it, and its old labels are `Clean`. Requests and rebuilds disturb none
  of this (`Considerate`). `RekeyedAtTheEnd` follows the loop of `apply_labels` record
  by record: what is done for other records does not touch the labels of a voice that
  are its own (`Alone`).

In `ProcessingProofs` too, of `LabelCarry`, for any lists of spans:

- `LabelsGoWithSpeech`: `LabelsFollowSpeech` holds of labels whose spans are in order
  and apart. `OverlapIsExact` is the heart of it: the span that the loop of
  `overlap_ms` leaves meets none of the other list beyond the one at its pointer, so
  what is counted and what the rest of the lists share add up to the same at every step.
- `VoicesKeepTheirLabels`: when all of a label's speech is under one new label, it is
  carried there. This is the form in which `SpeakerCuration` uses the mapping.
- `EditsGoWithSpeech`: `EditsAreCovered` holds of any edits and utterances. The edit
  carried so far is the best of those seen that fit, and two utterances that are apart
  share no more of an edit than there is of it.

- `CurationFollowed`: `CurationFollowsSpeech`, for the labels and utterances of any call
  of `CarryOver`, from the first and the third. Spans that overlap are excused from the
  first, see section 3.

And of `Algorithms`, for any scores, sizes, times, ranges, windows and numbers of
segments, sessions, listeners and cached pieces, from the assumptions of
`SessionTimeline` (the units of time and of frames are positive, there are no fewer
frames than milliseconds), `SessionAudio` (the budget is a natural number), `SpeechSpans`
(settings are natural numbers; three quarters of the longest span are a frame at least,
and a block can hold it) and `Algorithms` (a score is a level):

- `MediaServed`: `MediaIsServed`, for each kind of call what it promises.
  - `RangesAreExact`: reading the `slices` of an inclusive range yields exactly those
    bytes of the file. `PlanIsLaid` follows `plan` segment by segment: its pieces lie end
    to end behind the header (`Laid`), and so the file is their concatenation.
    `SlicesAreRead` follows `slices` piece by piece: what was read is the part of the
    range before the end of the piece, whether the piece is skipped or cut (`CutIsRead`).
  - `ScansAreClips`: a window of `iter_windows` is what `byte_range` names for its time.
    `SessionIsRead` keeps, piece by piece, that the windows given out and the rest in the
    buffer are the file up to there (`ReadsTo`). It holds of windows that are a whole
    number of frames, which is the exception `WindowsAreClips` names.
  - `ClipsDoTile`, `RangeIsAnswered`, `TimelineIsUniform`: arithmetic of division, and
    a set with one member.
  - `MediaInv` is inductive, and every step of a request keeps it. That the cache serves
    the session's present audio is not inductive: an entry's rows were read after its
    print, and a print later than the entry's means other rows. `EntriesAreEarlier` and
    `RequestsAreEarlier` say that in a session that lost no segment what was read is part
    of what is there, and that the count in a print is at most the number of rows read
    with it. Then equal prints mean equally many rows, and with that the same rows.
    `PiecesAreCounted` and `OneEntryEach` are about the cache's own books: `Trimmed`
    drops from the front until what is left fits (`TrimKeeps`).
- `SpeechCovered`: `SpeechIsCovered`, pass by pass of `spans_from_scores`.
  - `RawIsSpeech`: the runs are the loud frames, with a quiet one between any two.
    `MergedIsChains` says what merging makes of them, and `MergedIsStretches` that these
    are the stretches of the reference, which knows no order: a link leads from frame to
    frame within a merged span, and none leads over the silence between two
    (`SilenceParts`). `SelectedAreLong` keeps the long ones.
  - `JoinedArePadded`, `PaddedIsSpeech`: joining spans that were widened and clipped adds
    nothing to what they hold and leaves them apart, so that here they hold `SpeechMs`.
  - `SplitTiles`: the pieces of a span hold what it held, in order, and each fits the
    window. A cut goes on by a millisecond at least and the window at most, wherever the
    quietest frame is (`CutIsInside`; this is what three quarters of the window being a
    frame is for), so as many rounds as there are milliseconds are enough.
  - `BlocksHold`: every span is in exactly one block, a block keeps to its cap, and each
    begins with a span that the one before could not take.

The loops of `_reconcile`, `apply_labels`, `overlap_ms`, `carried_text`, `plan`, `slices`,
`iter_windows`, `spans_from_scores` and `blocks_from_spans` are recursive functions on
numbers. `UpTo` is the induction they need, in the first order: of the numbers up to a bound, the least one without a property would
have a predecessor with it. `Loop` and `ReconcilingSteps` show in the same way that the
functions exist.

Only model-checked: `UtterancesAreFaithful`, `ConversationsAreWhole`, `SoundsAreTagged`
and `SessionsAreShown` of `Algorithms`, and every liveness property.
Temporal reasoning under fairness is out of the provers' reach. The induction theorems
of the library take an operator as a parameter, which the installed provers cannot
instantiate; where a loop is a function of a number, `UpTo` stands in for them, and the
algorithms of those four are folds over sequences, filters and sums. `SortSeq` has no
definition the provers know; where a sort matters to a proof, it is `Sorted` of
`Intervals`, by rank.

## 6. Not modelled

- The superseding of queued cluster jobs (`speaker_cluster.py:37`), snapshots of
  several sessions at once, `transcribe-ab` and its votes: each needs a second user
  or session next to a model that is already at its bounds.
- `cluster_corpus` beyond the constraints its result obeys; model inference, embeddings, projections, signal detection: real numbers.
- The events of live pipelines on their way back to the client, the outbox of the
  streaming route: queues that only send what another state already holds.
- Users, tokens, tags, labels, votes, search and the other lists of the API: single
  statements without an interleaving that matters.
- The frontend, a read-mostly client with little state of its own; the generated
  schema, SQL and HTTP wording, deployment files.

Worth proving next: `UtterancesAreFaithful`. Its merging pass is the same `Coalesce` that
the proofs about speech follow, between sorts and filters that are not yet functions of a
number.
