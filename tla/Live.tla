-------------------------------- MODULE Live --------------------------------
(***************************************************************************)
(* The live layer under one streaming websocket: the tap in the API        *)
(* process (live/tap.py), the worker that serves its Unix socket           *)
(* (live/worker.py, sessions.py), the wakeword gate and the feeds of the   *)
(* pipelines it starts (live/gate.py), and the supervisor that respawns    *)
(* the worker (live/supervisor.py).                                        *)
(*                                                                         *)
(* Audio frames are the numbers 1, 2, ... in the order the websocket       *)
(* forwards them.  All of it is best effort: what matters is what may be   *)
(* lost, that nothing is reordered, and that everything comes to its end.  *)
(***************************************************************************)
EXTENDS Naturals, Sequences, SequencesExt

CONSTANTS
    Pipelines,          \* the live pipelines the client asked for
    TapQueue,           \* tap_queue_frames
    FeedQueue,          \* pipeline_queue_frames
    Preroll,            \* preroll_ms, in frames
    GateWindow,         \* gate_window_ms, in frames
    WireRoom,           \* messages the socket takes before drain() waits
    Frames,             \* bound: frames the websocket forwards
    Deaths              \* bound: deaths of the worker and failures of a handler

ASSUME LiveAssumption ==
    /\ TapQueue \in Nat \ {0} /\ FeedQueue \in Nat \ {0}
    /\ Preroll \in Nat \ {0} /\ GateWindow \in Nat \ {0}
    /\ WireRoom \in Nat \ {0}
    /\ Frames \in Nat /\ Deaths \in Nat

VARIABLES
    sent,       \* frames forwarded so far
    queue,      \* the tap's bounded queue
    tap,        \* its task: "away", "open", "drain", or "closed" for good
    wire,       \* messages on the socket, HELLO first
    eof,        \* the tap closed its end
    broken,     \* the worker's end is gone
    worker,     \* "up" or "down"
    watch,      \* the supervisor: "watching", "pausing", "stopping", "stopped"
    handler,    \* _serve_connection: where it is
    preroll,    \* the gate's ring
    active,     \* the gate holds an open window
    windowed,   \* frames the open window has had
    feed,       \* each pipeline's bounded feed
    task,       \* each pipeline's task: "off", "running" or "done"
    seen,       \* history: the frames an instance has been given
    deaths      \* what is left of the bound

tapVars == <<sent, queue, tap>>
socket == <<wire, eof, broken>>
gate == <<preroll, active, windowed, feed, task, seen>>
vars == <<tapVars, socket, worker, watch, handler, gate, deaths>>

Hello == 0
End == 0        \* the sentinel of a feed

Init ==
    /\ sent = 0 /\ queue = <<>> /\ tap = "away"
    /\ wire = <<>> /\ eof = FALSE /\ broken = FALSE
    /\ worker = "down" /\ watch = "pausing"
    /\ handler = "none"
    /\ preroll = <<>> /\ active = FALSE /\ windowed = 0
    /\ feed = [p \in Pipelines |-> <<>>]
    /\ task = [p \in Pipelines |-> "off"]
    /\ seen = [p \in Pipelines |-> <<>>]
    /\ deaths = Deaths

----------------------------------------------------------------------------
(* Two queues that drop.                                                   *)

\* put_nowait, and on QueueFull the oldest makes room.
Push(q, item, limit) == Append(IF Len(q) < limit THEN q ELSE Tail(q), item)

\* Variant: a full feed refuses the sentinel.
FeedPushIfRoom(q, item) == IF Len(q) < FeedQueue THEN Append(q, item) ELSE q

\* The gate's feeds, where it is _FrameFeed.push.
FeedPush(q, item) == Push(q, item, FeedQueue)

----------------------------------------------------------------------------
(* The tap.                                                                *)

\* send_frame: never waits, never raises.
SendFrame ==
    /\ tap # "closed" /\ sent < Frames
    /\ sent' = sent + 1
    /\ queue' = Push(queue, sent + 1, TapQueue)
    /\ UNCHANGED <<tap, socket, worker, watch, handler, gate, deaths>>

\* open_unix_connection succeeds, and the HELLO goes out.  While the worker is
\* down the task sleeps and tries again.
Connect ==
    /\ tap = "away" /\ worker = "up" /\ handler = "none"
    /\ tap' = "open"
    /\ wire' = <<Hello>> /\ eof' = FALSE /\ broken' = FALSE
    /\ handler' = "greet"
    /\ UNCHANGED <<sent, queue, worker, watch, gate, deaths>>

\* writer.write of the oldest message; drain() waits when the socket is full.
Write ==
    /\ tap = "open" /\ queue # <<>> /\ ~broken
    /\ wire' = Append(wire, Head(queue))
    /\ queue' = Tail(queue)
    /\ tap' = IF Len(wire') < WireRoom THEN "open" ELSE "drain"
    /\ UNCHANGED <<sent, eof, broken, worker, watch, handler, gate, deaths>>

DrainEnds ==
    /\ tap = "drain" /\ ~broken /\ Len(wire) < WireRoom
    /\ tap' = "open"
    /\ UNCHANGED <<sent, queue, socket, worker, watch, handler, gate, deaths>>

\* A dead socket is noticed in drain(), or by the next write, whose message
\* is lost; the rest of the queue waits for the next connection.
Lose ==
    /\ broken
    /\ \/ tap = "drain" /\ queue' = queue
       \/ tap = "open" /\ queue # <<>> /\ queue' = Tail(queue)
    /\ tap' = "away"
    /\ UNCHANGED <<sent, wire, eof, broken, worker, watch, handler, gate, deaths>>

\* detach(): the task is cancelled and closes the socket; what is queued is
\* dropped, what is on the wire arrives.
Detach ==
    /\ tap # "closed"
    /\ tap' = "closed"
    /\ queue' = <<>>
    /\ eof' = (tap \in {"open", "drain"})
    /\ UNCHANGED <<sent, wire, broken, worker, watch, handler, gate, deaths>>

----------------------------------------------------------------------------
(* The gate.                                                               *)

\* _remember: the ring keeps the last Preroll frames.
Remember(f) ==
    LET ring == Append(preroll, f)
    IN  IF Len(ring) > Preroll THEN Tail(ring) ELSE ring

\* What a fresh feed holds once a ring has been pushed into it.
Latest(ring) ==
    IF Len(ring) <= FeedQueue THEN ring
    ELSE SubSeq(ring, Len(ring) - FeedQueue + 1, Len(ring))

\* Variant: the frame that triggered is pushed after the ring that ends in it.
OpenWindowRepeating(ring) ==
    /\ active' = TRUE
    /\ windowed' = 0
    /\ feed' = [p \in Pipelines |-> FeedPush(Latest(ring), Last(ring))]
    /\ task' = [p \in Pipelines |-> "running"]
    /\ seen' = [p \in Pipelines |-> <<>>]

\* _open_window: an instance of each pipeline, fed the ring, whose last frame
\* is the one that triggered.
OpenWindow(ring) ==
    /\ active' = TRUE
    /\ windowed' = 0
    /\ feed' = [p \in Pipelines |-> Latest(ring)]
    /\ task' = [p \in Pipelines |-> "running"]
    /\ seen' = [p \in Pipelines |-> <<>>]

\* _close_window up to its await: the sentinels are pushed and the lists
\* emptied, so that the window is closed for everybody else.
CloseWindow(feeds) ==
    /\ active' = FALSE
    /\ feed' = [p \in Pipelines |-> FeedPush(feeds[p], End)]
    /\ UNCHANGED <<task, seen>>

\* WakewordGate.feed of one frame.  The detector sees it only outside a
\* window; whether it triggers is its own affair.
FeedGate(f) ==
    /\ preroll' = Remember(f)
    /\ IF active
       THEN LET feeds == [p \in Pipelines |-> FeedPush(feed[p], f)]
            IN  /\ windowed' = windowed + 1
                /\ IF windowed' >= GateWindow
                   THEN CloseWindow(feeds) /\ handler' = "closing"
                   ELSE feed' = feeds /\ UNCHANGED <<active, task, seen, handler>>
       ELSE /\ UNCHANGED handler
            /\ \/ OpenWindow(preroll')
               \/ UNCHANGED <<active, windowed, feed, task, seen>>

----------------------------------------------------------------------------
(* The worker's handler of the connection.                                 *)

Greet ==
    /\ handler = "greet" /\ wire # <<>>
    /\ wire' = Tail(wire)
    /\ handler' = "reading"
    /\ preroll' = <<>> /\ active' = FALSE /\ windowed' = 0
    /\ feed' = [p \in Pipelines |-> <<>>]
    /\ task' = [p \in Pipelines |-> "off"]
    /\ seen' = [p \in Pipelines |-> <<>>]
    /\ UNCHANGED <<tapVars, eof, broken, worker, watch, deaths>>

ReadAudio ==
    /\ handler = "reading" /\ wire # <<>>
    /\ wire' = Tail(wire)
    /\ FeedGate(Head(wire))
    /\ UNCHANGED <<tapVars, eof, broken, worker, watch, deaths>>

AllDone == \A p \in Pipelines : task[p] # "running"

\* gather() returned: the detector is reset and the handler reads on.
WindowClosed ==
    /\ handler = "closing" /\ AllDone
    /\ handler' = "reading"
    /\ UNCHANGED <<tapVars, socket, worker, watch, gate, deaths>>

\* The finally of _serve_connection: gate.close() finishes an open window.
Finish ==
    /\ handler' = "ending"
    /\ IF active
       THEN CloseWindow(feed) /\ UNCHANGED <<preroll, windowed>>
       ELSE UNCHANGED gate

\* The end of the stream, after everything that was on the wire.
ReadEof ==
    /\ handler \in {"greet", "reading"} /\ wire = <<>> /\ eof
    /\ Finish
    /\ UNCHANGED <<tapVars, socket, worker, watch, deaths>>

\* feed() raises: a pipeline that cannot be built, a detector that fails.
HandlerFails ==
    /\ handler = "reading" /\ wire # <<>> /\ deaths > 0
    /\ wire' = Tail(wire)
    /\ Finish
    /\ deaths' = deaths - 1
    /\ UNCHANGED <<tapVars, eof, broken, worker, watch>>

\* gather() in close() returned, and the writer is closed.
Ended ==
    /\ handler = "ending" /\ AllDone
    /\ handler' = "none"
    /\ broken' = TRUE /\ wire' = <<>>
    /\ UNCHANGED <<tapVars, eof, worker, watch, gate, deaths>>

----------------------------------------------------------------------------
(* The pipelines.                                                          *)

\* async for frame in feed: one more frame, or the sentinel and the end.
Consume(p) ==
    /\ task[p] = "running" /\ feed[p] # <<>>
    /\ feed' = [feed EXCEPT ![p] = Tail(@)]
    /\ IF Head(feed[p]) = End
       THEN task' = [task EXCEPT ![p] = "done"] /\ UNCHANGED seen
       ELSE seen' = [seen EXCEPT ![p] = Append(@, Head(feed[p]))] /\ UNCHANGED task
    /\ UNCHANGED <<tapVars, socket, worker, watch, handler, preroll, active, windowed, deaths>>

\* It has heard enough, or raised, which _run swallows: its feed fills up and
\* the window stays open without it.
Return(p) ==
    /\ task[p] = "running"
    /\ task' = [task EXCEPT ![p] = "done"]
    /\ UNCHANGED <<tapVars, socket, worker, watch, handler, preroll, active, windowed, feed,
                   seen, deaths>>

----------------------------------------------------------------------------
(* The worker process and its supervisor.                                  *)

\* Everything in the process goes with it.
WorkerGone ==
    /\ worker' = "down"
    /\ handler' = "none"
    /\ broken' = TRUE /\ wire' = <<>>
    /\ preroll' = <<>> /\ active' = FALSE /\ windowed' = 0
    /\ feed' = [p \in Pipelines |-> <<>>]
    /\ task' = [p \in Pipelines |-> "off"]
    /\ seen' = [p \in Pipelines |-> <<>>]
    /\ UNCHANGED <<tapVars, eof>>

WorkerDies ==
    /\ worker = "up" /\ deaths > 0
    /\ deaths' = deaths - 1
    /\ WorkerGone
    /\ UNCHANGED watch

\* _watch polls, sleeps its backoff, and respawns.
Notice ==
    /\ watch = "watching" /\ worker = "down"
    /\ watch' = "pausing"
    /\ UNCHANGED <<tapVars, socket, worker, handler, gate, deaths>>

\* Variant: the respawn is not cancelled with the monitor.
RespawnAnyway ==
    /\ worker = "down" /\ watch \in {"pausing", "stopped"}
    /\ worker' = "up"
    /\ watch' = IF watch = "pausing" THEN "watching" ELSE watch
    /\ UNCHANGED <<tapVars, socket, handler, gate, deaths>>

\* _spawn, by start() the first time; the worker takes over the socket path.
Respawn ==
    /\ watch = "pausing"
    /\ worker' = "up"
    /\ watch' = "watching"
    /\ UNCHANGED <<tapVars, socket, handler, gate, deaths>>

\* stop(): the monitor is cancelled wherever it is, then SIGTERM, which waits
\* for the connections, and after the grace SIGKILL.
Stop ==
    /\ watch \in {"watching", "pausing"}
    /\ watch' = IF worker = "up" THEN "stopping" ELSE "stopped"
    /\ UNCHANGED <<tapVars, socket, worker, handler, gate, deaths>>

WorkerStops ==
    /\ watch = "stopping"
    /\ watch' = "stopped"
    /\ WorkerGone
    /\ UNCHANGED deaths

----------------------------------------------------------------------------
TapStep == Connect \/ Write \/ DrainEnds \/ Lose
HandlerStep == Greet \/ ReadAudio \/ WindowClosed \/ ReadEof \/ Ended
Supervise == Notice \/ Respawn \/ WorkerStops

Next ==
    \/ SendFrame \/ Detach \/ TapStep \/ HandlerStep \/ HandlerFails
    \/ \E p \in Pipelines : Consume(p) \/ Return(p)
    \/ WorkerDies \/ Supervise \/ Stop

Spec == Init /\ [][Next]_vars

\* The event loops run their tasks, a pipeline reads its feed, a client goes
\* away in the end.  Nobody owes a frame, a return, a death or a stop.
FairSpec ==
    /\ Spec
    /\ WF_vars(TapStep) /\ WF_vars(HandlerStep) /\ WF_vars(Supervise) /\ WF_vars(Detach)
    /\ \A p \in Pipelines : WF_vars(Consume(p))

----------------------------------------------------------------------------
(* Properties.                                                             *)

Below(S, T) == \A x \in S, y \in T : x # 0 /\ y # 0 => x < y

\* Of two frames in q, the first was forwarded first.
Increasing(q) == \A j \in 1..Len(q) : \A i \in 1..j - 1 : Below({q[i]}, {q[j]})

\* From what a pipeline has heard, over its feed and the socket, to the tap's
\* queue, no frame is repeated or overtakes another: not at a trigger, whose
\* ring and window overlap, not in a window that closes while frames keep
\* coming, and not over a reconnect.  And however long the worker is away or
\* busy closing a window, what waits for it is the end of the stream, without
\* a gap.
AudioFlows ==
    /\ \A p \in Pipelines : Increasing(seen[p] \o feed[p] \o wire \o queue)
    /\ tap # "closed" =>
          /\ \A i \in 1..Len(queue) : queue[i] = sent - Len(queue) + i
          /\ Len(queue) <= TapQueue

\* Every instance a trigger started is told the end and finishes, through a
\* feed that is full, when the window's time is up, the client leaves, the
\* handler fails or the worker dies.
PipelinesEnd == \A p \in Pipelines : task[p] = "running" ~> task[p] # "running"

\* Once stopped, the supervisor leaves no worker behind, whether the worker was
\* up, just dead, or about to be respawned.
NoWorkerIsLeft == watch = "stopped" => worker = "down"

\* Every variable stays in the set of values the processes can hold.
TypeOK ==
    /\ sent \in Nat /\ queue \in Seq(Nat) /\ tap \in {"away", "open", "drain", "closed"}
    /\ wire \in Seq(Nat) /\ eof \in BOOLEAN /\ broken \in BOOLEAN
    /\ worker \in {"up", "down"}
    /\ watch \in {"watching", "pausing", "stopping", "stopped"}
    /\ handler \in {"none", "greet", "reading", "closing", "ending"}
    /\ preroll \in Seq(Nat) /\ active \in BOOLEAN /\ windowed \in Nat
    /\ feed \in [Pipelines -> Seq(Nat)] /\ seen \in [Pipelines -> Seq(Nat)]
    /\ task \in [Pipelines -> {"off", "running", "done"}]
    /\ deaths \in Nat

\* What keeps the audio in order: whatever was read, by the gate's ring or by
\* a pipeline, is behind the socket, which is behind the queue, which is behind
\* the frame to come.
Behind(front) ==
    /\ Increasing(front)
    /\ Below(Range(front), Range(wire) \union Range(queue) \union {sent + 1})

FlowInv ==
    /\ Increasing(wire) /\ Below(Range(wire), Range(queue) \union {sent + 1})
    /\ Increasing(queue) /\ Below(Range(queue), {sent + 1})
    /\ Behind(preroll)
    /\ \A p \in Pipelines : Behind(seen[p] \o feed[p])

\* What keeps the queue without a gap.
QueueInv ==
    /\ tap = "closed" => queue = <<>>
    /\ Len(queue) <= TapQueue /\ Len(queue) <= sent
    /\ \A i \in 1..Len(queue) : queue[i] = sent - Len(queue) + i
=============================================================================
