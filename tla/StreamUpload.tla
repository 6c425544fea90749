---------------------------- MODULE StreamUpload ----------------------------
(***************************************************************************)
(* The streaming upload websocket: api/routes/stream.py (the receive loop, *)
(* the chunk pool and the ack tracker) and api/stream_pool.py (v2 pooling).*)
(* Connections attach to one open session and upload numbered frames; each *)
(* connection's stores run concurrently, fail and are retried on their     *)
(* own, and the only thing that outlives a connection is the rows.         *)
(*                                                                         *)
(* A store is one step here: SegmentStore has the steps inside it.  The    *)
(* outbox is left out: what the tracker holds is what the client is told,  *)
(* with the next ack or the bye.  A v1 connection is one whose frames all  *)
(* travel in envelopes; v2 pools the rest.                                 *)
(***************************************************************************)
EXTENDS Integers, FiniteSets, Sequences, FiniteSetsExt, SequencesExt

CONSTANTS
    Connections,
    Frames,       \* the sequences clients send, 0..n
    Enveloped,    \* those that travel as self-contained chunks
    Slots,        \* stream_ingest_concurrency
    PoolTarget,   \* stream_pool_target_bytes, in frames
    MaxBuffer,    \* stream_pool_max_buffer_bytes, in frames
    FlushRetries, \* stream_pool_flush_retries
    Overlap,      \* may a client reattach before its old handler is done?
    InOrder,      \* do clients send consecutively from the resume point?
    Sends,        \* bound: messages received
    BadFrames,    \* bound: of which fail validation
    Faults,       \* bound: database and blob store failures
    LostReplies,  \* bound: commits that land and are reported as failed
    Crashes       \* bound: handlers killed or cancelled

ASSUME StreamUploadAssumption ==
    /\ Frames \subseteq Nat /\ \E n \in Frames : \A m \in Frames : m <= n
    /\ Enveloped \subseteq Frames
    /\ Slots \in Nat \ {0} /\ PoolTarget \in Nat \ {0}
    /\ MaxBuffer \in Nat /\ PoolTarget <= MaxBuffer
    /\ FlushRetries \in Nat
    /\ Overlap \in BOOLEAN /\ InOrder \in BOOLEAN
    /\ Sends \in Nat /\ BadFrames \in Nat
    /\ Faults \in Nat /\ LostReplies \in Nat /\ Crashes \in Nat

VARIABLES
    session,  \* "open" or "ended"
    rows,     \* its stored segments: sequence, frames covered, object intact
    pump,     \* where each connection's receive loop stands
    cause,    \* why it left the loop
    base,     \* the highest sequence stored when it attached
    through,  \* _AckTracker.through
    above,    \* _AckTracker._stored
    dups,     \* every sequence reported to the client as a duplicate
    refused,  \* <<sequence, code>> of every chunk-scoped error
    highest,  \* PcmPooler.highest_sequence
    buffer,   \* PcmPooler._frames
    flights,  \* _ChunkPool._tasks: the stores under way
    waiting,  \* submits waiting for a slot, in order
    fatal,    \* _ChunkPool.fatal
    failed,   \* PcmPooler.failed
    taken,    \* history: the frames accepted for storage
    budget    \* what is left of the bounds

vars == <<session, rows, pump, cause, base, through, above, dups, refused, highest,
          buffer, flights, waiting, fatal, failed, taken, budget>>

tracker == <<base, through, above, dups>>
pooler == <<highest, buffer, failed, taken>>
pool == <<flights, waiting, fatal>>

Attached == {"top", "receive", "drain"}
Causes == {"none", "finish", "idle", "disconnect", "protocol", "ended", "failed",
           "internal", "crash"}
Codes == {"bad_frame", "bad_sequence", "storage_failure"}

\* One _store or _ingest_decoded call.
Flight(S, pooled, again) ==
    [frames |-> S, pooled |-> pooled, again |-> again,
     left |-> IF pooled THEN FlushRetries ELSE 0]

\* The row a flight inserts carries the LAST sequence it covers.
Sequence(f) == Max(f.frames)
IsStored(n) == \E x \in rows : x.sequence = n
Covered == UNION {x.frames : x \in rows}
Durable == UNION {x.frames : x \in {y \in rows : y.intact}}

\* Variant: a connection that starts from scratch.
ResumeFromScratch == -1

\* next_sequence - 1 = MAX(sequence), -1 for an empty session.
Resume == Max({-1} \union {x.sequence : x \in rows})

Init ==
    /\ session = "open"
    /\ rows = {}
    /\ pump = [c \in Connections |-> "away"]
    /\ cause = [c \in Connections |-> "none"]
    /\ base = [c \in Connections |-> -1]
    /\ through = [c \in Connections |-> -1]
    /\ above = [c \in Connections |-> {}]
    /\ dups = [c \in Connections |-> {}]
    /\ refused = [c \in Connections |-> {}]
    /\ highest = [c \in Connections |-> -1]
    /\ buffer = [c \in Connections |-> {}]
    /\ flights = [c \in Connections |-> {}]
    /\ waiting = [c \in Connections |-> <<>>]
    /\ fatal = [c \in Connections |-> FALSE]
    /\ failed = [c \in Connections |-> FALSE]
    /\ taken = [c \in Connections |-> {}]
    /\ budget = [send |-> Sends, bad |-> BadFrames, fault |-> Faults,
                 lost |-> LostReplies, crash |-> Crashes]

----------------------------------------------------------------------------
(* The ack tracker.                                                        *)

\* Variant: the highest stored sequence, gaps or not.
HighestStored(b, S) == Max({b} \union S)

\* _advance: the watermark passes everything stored without a gap.
Contiguous(b, S) == Max({b} \union {n \in S : (b + 1)..n \subseteq S})

Note(c, S) ==
    LET known == above[c] \union S
        mark == Contiguous(through[c], known)
    IN  /\ through' = [through EXCEPT ![c] = mark]
        /\ above' = [above EXCEPT ![c] = known \ ((through[c] + 1)..mark)]
        /\ base' = base

NoteStored(c, S) == Note(c, S) /\ dups' = dups
NoteDuplicate(c, S) == Note(c, S) /\ dups' = [dups EXCEPT ![c] = @ \union S]

Refuse(c, S, code) == refused' = [refused EXCEPT ![c] = @ \union (S \X {code})]

(* The chunk pool: a semaphore whose waiters start in order.               *)

\* Who waits is told apart: the receive loop stops while its own submit does.
Submit(c, f, inline) ==
    IF waiting[c] = <<>> /\ Cardinality(flights[c]) < Slots
    THEN flights' = [flights EXCEPT ![c] = @ \union {f}] /\ waiting' = waiting
    ELSE /\ waiting' = [waiting EXCEPT ![c] = Append(@, [flight |-> f, inline |-> inline])]
         /\ flights' = flights

\* Variant: a freed slot wakes nobody.
LandWithoutHandoff(c, f) ==
    flights' = [flights EXCEPT ![c] = @ \ {f}] /\ waiting' = waiting

\* A store that ends hands its slot to the first waiter.
Land(c, f) ==
    IF waiting[c] = <<>>
    THEN flights' = [flights EXCEPT ![c] = @ \ {f}] /\ waiting' = waiting
    ELSE /\ flights' = [flights EXCEPT ![c] = (@ \ {f}) \union {Head(waiting[c]).flight}]
         /\ waiting' = [waiting EXCEPT ![c] = Tail(@)]

InFlight(c) == flights[c] \union {w.flight : w \in ToSet(waiting[c])}
Drained(c) == InFlight(c) = {}

\* Frames buffered or on their way, as PcmPooler.add counts them.
Buffered(c) ==
    Cardinality(buffer[c] \union UNION {f.frames : f \in {g \in InFlight(c) : g.pooled}})

\* Variant: no backpressure.
PumpOnlySubmits(c) == \A w \in ToSet(waiting[c]) : ~w.inline

PumpIsFree(c) ==
    /\ \A w \in ToSet(waiting[c]) : ~w.inline
    /\ Buffered(c) <= MaxBuffer

----------------------------------------------------------------------------
(* The receive loop.                                                       *)

\* The upgrade: the session must be open, and its rows are the resume point.
Attach(c) ==
    /\ pump[c] = "away" /\ session = "open"
    /\ Overlap \/ \A d \in Connections : pump[d] \in {"away", "closed"}
    /\ pump' = [pump EXCEPT ![c] = "top"]
    /\ base' = [base EXCEPT ![c] = Resume]
    /\ through' = [through EXCEPT ![c] = Resume]
    /\ highest' = [highest EXCEPT ![c] = Resume]
    /\ UNCHANGED <<session, rows, cause, above, dups, refused, buffer, pool, failed,
                   taken, budget>>

\* The top of the loop: outcomes of stores end it, or it receives.  It only
\* gets here when its last submit found a slot and the buffer has room.
Top(c) ==
    /\ pump[c] = "top" /\ PumpIsFree(c)
    /\ IF fatal[c] \/ failed[c]
       THEN /\ pump' = [pump EXCEPT ![c] = "drain"]
            /\ cause' = [cause EXCEPT ![c] = IF fatal[c] THEN "ended" ELSE "failed"]
       ELSE pump' = [pump EXCEPT ![c] = "receive"] /\ cause' = cause
    /\ UNCHANGED <<session, rows, tracker, refused, pooler, pool, budget>>

Receive(c) ==
    /\ pump[c] = "receive" /\ budget.send > 0
    /\ pump' = [pump EXCEPT ![c] = "top"]
    /\ UNCHANGED <<session, rows, cause, fatal, failed>>

\* The client's side of the protocol, from welcome.next_sequence on.
MaySend(c, n) ==
    InOrder => \A m \in Frames : m < n => \/ m <= base[c] \/ m \in taken[c]
                                         \/ \E code \in Codes : <<m, code>> \in refused[c]

ReceiveSound(c) == Receive(c) /\ budget' = [budget EXCEPT !.send = @ - 1]

\* An envelope: stored on its own, whatever the audio frames' order.  A
\* retransmit may race its original.
ReceiveChunk(c, n) ==
    /\ ReceiveSound(c)
    /\ n \in Enveloped /\ MaySend(c, n)
    /\ \E again \in BOOLEAN :
          /\ again <=> Flight({n}, FALSE, FALSE) \in InFlight(c)
          /\ Flight({n}, FALSE, again) \notin InFlight(c)
          /\ Submit(c, Flight({n}, FALSE, again), TRUE)
    /\ taken' = [taken EXCEPT ![c] = @ \union {n}]
    /\ UNCHANGED <<tracker, refused, highest, buffer>>

\* A frame or chunk that fails validation is reported and dropped.
ReceiveBad(c, n) ==
    /\ Receive(c) /\ budget.bad > 0
    /\ budget' = [budget EXCEPT !.send = @ - 1, !.bad = @ - 1]
    /\ Refuse(c, {n}, "bad_frame")
    /\ UNCHANGED <<tracker, highest, buffer, flights, waiting, taken>>

\* An audio frame at or below the watermark of the ordering rule.
ReceiveStale(c, n) ==
    /\ ReceiveSound(c)
    /\ n \notin Enveloped /\ n <= highest[c]
    /\ IF n <= through[c]
       THEN NoteDuplicate(c, {n}) /\ refused' = refused
       ELSE Refuse(c, {n}, "bad_sequence") /\ UNCHANGED tracker
    /\ UNCHANGED <<highest, buffer, flights, waiting, taken>>

\* PcmPooler.add: a full pool is flushed at once.
ReceiveFrame(c, n) ==
    /\ ReceiveSound(c)
    /\ n \notin Enveloped /\ n > highest[c] /\ MaySend(c, n)
    /\ highest' = [highest EXCEPT ![c] = n]
    /\ taken' = [taken EXCEPT ![c] = @ \union {n}]
    /\ LET held == buffer[c] \union {n} IN
       IF Cardinality(held) >= PoolTarget
       THEN /\ Submit(c, Flight(held, TRUE, FALSE), TRUE)
            /\ buffer' = [buffer EXCEPT ![c] = {}]
       ELSE /\ buffer' = [buffer EXCEPT ![c] = held]
            /\ UNCHANGED <<flights, waiting>>
    /\ UNCHANGED <<tracker, refused>>

\* PcmPooler.flush
Flush(c, inline) ==
    IF buffer[c] = {} THEN UNCHANGED <<buffer, flights, waiting>>
    ELSE /\ Submit(c, Flight(buffer[c], TRUE, FALSE), inline)
         /\ buffer' = [buffer EXCEPT ![c] = {}]

\* The pool's latency ceiling; its timer outlives the loop until it closes.
TimerFires(c) ==
    /\ pump[c] \in Attached /\ buffer[c] # {}
    /\ Flush(c, FALSE)
    /\ UNCHANGED <<session, rows, pump, cause, tracker, refused, highest, failed, taken,
                   fatal, budget>>

\* finish and a disconnect flush the pool before they drain it; a message
\* that does not parse does not.
Leave(c) ==
    /\ pump[c] = "receive"
    /\ \E why \in {"finish", "disconnect", "protocol"} :
          /\ cause' = [cause EXCEPT ![c] = why]
          /\ IF why = "protocol" THEN UNCHANGED <<buffer, flights, waiting>>
             ELSE Flush(c, TRUE)
    /\ pump' = [pump EXCEPT ![c] = "drain"]
    /\ UNCHANGED <<session, rows, tracker, refused, highest, failed, taken, fatal, budget>>

\* A quiet interval: the stores settle first, then a long silence ends the
\* stream, or an ended session does.
QuietSlice(c) ==
    /\ pump[c] = "receive" /\ Drained(c)
    /\ \/ /\ fatal[c] \/ session = "ended"
          /\ cause' = [cause EXCEPT ![c] = "ended"]
          /\ UNCHANGED <<buffer, flights, waiting>>
       \/ /\ ~fatal[c]
          /\ cause' = [cause EXCEPT ![c] = "idle"]
          /\ Flush(c, TRUE)
    /\ pump' = [pump EXCEPT ![c] = "drain"]
    /\ UNCHANGED <<session, rows, tracker, refused, highest, failed, taken, fatal, budget>>

\* What the drained stream comes to: a store that found the session ended
\* overrides a finish or an idle close, a failed flush a finish.
Verdict(c) ==
    IF fatal[c] /\ cause[c] \in {"finish", "idle"} THEN "ended"
    ELSE IF failed[c] /\ cause[c] = "finish" THEN "failed"
    ELSE cause[c]

Close(c) ==
    /\ pump[c] = "drain" /\ Drained(c)
    /\ pump' = [pump EXCEPT ![c] = "closed"]
    /\ buffer' = [buffer EXCEPT ![c] = {}]
    /\ \/ /\ cause' = [cause EXCEPT ![c] = Verdict(c)]
          /\ session' = IF Verdict(c) = "finish" THEN "ended" ELSE session
          /\ budget' = budget
       \/ /\ Verdict(c) = "finish" /\ budget.fault > 0   \* sessions.end raises
          /\ cause' = [cause EXCEPT ![c] = "internal"]
          /\ session' = session
          /\ budget' = [budget EXCEPT !.fault = @ - 1]
    /\ UNCHANGED <<rows, tracker, refused, highest, failed, taken, pool>>

----------------------------------------------------------------------------
(* The stores.                                                             *)

\* stream_segment inserts the row; the tracker hears of every frame in it.
StoreLands(c, f) ==
    /\ session = "open" /\ ~IsStored(Sequence(f))
    /\ rows' = rows \union {[sequence |-> Sequence(f), frames |-> f.frames, intact |-> TRUE]}
    /\ Land(c, f)
    /\ NoteStored(c, f.frames)
    /\ UNCHANGED <<session, pump, cause, refused, pooler, fatal, budget>>

\* DuplicateSequenceError: every frame of the flight counts as stored.
StoreIsDuplicate(c, f) ==
    /\ session = "open" /\ IsStored(Sequence(f))
    /\ Land(c, f)
    /\ NoteDuplicate(c, f.frames)
    /\ UNCHANGED <<session, rows, pump, cause, refused, pooler, fatal, budget>>

\* SessionEndedError: fatal to the stream.
StoreIsLate(c, f) ==
    /\ session = "ended"
    /\ Land(c, f)
    /\ fatal' = [fatal EXCEPT ![c] = TRUE]
    /\ UNCHANGED <<session, rows, pump, cause, tracker, refused, pooler, budget>>

\* Variant: the last failure is logged and not reported.
AttemptedInSilence(c, f) ==
    IF f.left > 0
    THEN /\ flights' = [flights EXCEPT ![c] = (@ \ {f}) \union {[f EXCEPT !.left = @ - 1]}]
         /\ UNCHANGED <<waiting, refused, failed>>
    ELSE Land(c, f) /\ UNCHANGED <<refused, failed>>

\* The failed attempt of a chunk is reported; a pooled flush is tried again,
\* keeping its slot, and is fatal to the stream when its retries run out.
Attempted(c, f) ==
    IF f.left > 0
    THEN /\ flights' = [flights EXCEPT ![c] = (@ \ {f}) \union {[f EXCEPT !.left = @ - 1]}]
         /\ UNCHANGED <<waiting, refused, failed>>
    ELSE /\ Land(c, f)
         /\ IF f.pooled
            THEN failed' = [failed EXCEPT ![c] = TRUE] /\ refused' = refused
            ELSE Refuse(c, f.frames, "storage_failure") /\ failed' = failed

\* An attempt raises, with nothing stored; or its commit landed all the same,
\* and its cleanup has deleted the object the row points at.
StoreFails(c, f) ==
    /\ \/ /\ budget.fault > 0
          /\ budget' = [budget EXCEPT !.fault = @ - 1]
          /\ rows' = rows
       \/ /\ budget.lost > 0
          /\ session = "open" /\ ~IsStored(Sequence(f))
          /\ budget' = [budget EXCEPT !.lost = @ - 1]
          /\ rows' = rows \union {[sequence |-> Sequence(f), frames |-> f.frames,
                                   intact |-> FALSE]}
    /\ Attempted(c, f)
    /\ UNCHANGED <<session, pump, cause, tracker, highest, buffer, taken, fatal>>

Store(c) ==
    \E f \in flights[c] :
        StoreLands(c, f) \/ StoreIsDuplicate(c, f) \/ StoreIsLate(c, f) \/ StoreFails(c, f)

\* The process dies or the handler is cancelled; a store that was under way
\* and landed is a StoreLands before this step.
Crash(c) ==
    /\ pump[c] \in Attached /\ budget.crash > 0
    /\ budget' = [budget EXCEPT !.crash = @ - 1]
    /\ pump' = [pump EXCEPT ![c] = "closed"]
    /\ cause' = [cause EXCEPT ![c] = "crash"]
    /\ buffer' = [buffer EXCEPT ![c] = {}]
    /\ flights' = [flights EXCEPT ![c] = {}]
    /\ waiting' = [waiting EXCEPT ![c] = <<>>]
    /\ UNCHANGED <<session, rows, tracker, refused, highest, failed, taken, fatal>>

\* The session is ended by someone else: REST, the sweeper, a split.
EndSession ==
    /\ session = "open"
    /\ session' = "ended"
    /\ UNCHANGED <<rows, pump, cause, tracker, refused, pooler, pool, budget>>

\* Every connection is closed, or none can attach any more.
Over ==
    /\ \A c \in Connections : pump[c] \in {"away", "closed"}
    /\ UNCHANGED vars

Message(c) ==
    \E n \in Frames :
        ReceiveChunk(c, n) \/ ReceiveBad(c, n) \/ ReceiveStale(c, n) \/ ReceiveFrame(c, n)

Next ==
    \/ \E c \in Connections :
          Attach(c) \/ Top(c) \/ Message(c) \/ TimerFires(c) \/ Leave(c) \/ QuietSlice(c)
            \/ Close(c) \/ Store(c) \/ Crash(c)
    \/ EndSession
    \/ Over

Spec == Init /\ [][Next]_vars

\* The event loop runs every task that can run: the receive loop, the pool's
\* timer, and the stores, whose calls return.  A quiet slice comes round
\* whenever no message does.  What clients send and the end of the session
\* are not owed.
FairSpec ==
    /\ Spec
    /\ \A c \in Connections :
          /\ WF_vars(Top(c)) /\ WF_vars(Close(c))
          /\ WF_vars(TimerFires(c)) /\ WF_vars(Store(c))
          /\ WF_vars(QuietSlice(c))

----------------------------------------------------------------------------
(* Properties.                                                             *)

FlightType ==
    [frames : (SUBSET Frames) \ {{}}, pooled : BOOLEAN, again : BOOLEAN, left : 0..FlushRetries]

\* Every variable stays in the values the handler and the two stores can hold.
TypeOK ==
    /\ session \in {"open", "ended"}
    /\ rows \subseteq [sequence : Frames, frames : SUBSET Frames, intact : BOOLEAN]
    /\ pump \in [Connections -> Attached \union {"away", "closed"}]
    /\ cause \in [Connections -> Causes]
    /\ base \in [Connections -> Frames \union {-1}]
    /\ through \in [Connections -> Frames \union {-1}]
    /\ above \in [Connections -> SUBSET Frames]
    /\ dups \in [Connections -> SUBSET Frames]
    /\ refused \in [Connections -> SUBSET (Frames \X Codes)]
    /\ highest \in [Connections -> Frames \union {-1}]
    /\ buffer \in [Connections -> SUBSET Frames]
    /\ flights \in [Connections -> SUBSET FlightType]
    /\ waiting \in [Connections -> Seq([flight : FlightType, inline : BOOLEAN])]
    /\ fatal \in [Connections -> BOOLEAN]
    /\ failed \in [Connections -> BOOLEAN]
    /\ taken \in [Connections -> SUBSET Frames]
    /\ budget \in [send : Nat, bad : Nat, fault : Nat, lost : Nat, crash : Nat]

\* What connection c tells its client is stored.
Told(c) == (0..through[c]) \union above[c] \union dups[c]

\* Nothing above its resume point is acknowledged on a connection before it is
\* stored, in whatever order the concurrent stores finish, fail and retry.
AcksAboveBaseAreDurable ==
    \A c \in Connections : {n \in Told(c) : n > base[c]} \subseteq Durable

\* Connections that follow one another never store a frame twice, whatever
\* is retransmitted and wherever the predecessor broke off.
FramesAreStoredOnce ==
    \A x, y \in rows : x # y => x.frames \intersect y.frames = {}

Healthy(c) ==
    ~fatal[c] /\ ~failed[c] /\ cause[c] \notin {"protocol", "ended", "failed", "crash"}

\* An accepted frame is never dropped in silence: as long as nothing fatal
\* has been reported it is in a row, on its way to one, or named in an error
\* event; after a finish, a disconnect or an idle close it is settled.
NoFrameIsLost ==
    \A c \in Connections : Healthy(c) =>
        taken[c] \subseteq Covered \union {e[1] : e \in refused[c]} \union buffer[c]
                             \union UNION {f.frames : f \in InFlight(c)}

\* However the latency timer, full pools and storage outages interleave, the
\* audio a connection holds in memory stays within one frame of its cap.
MemoryIsBounded ==
    \A c \in Connections : Buffered(c) <= MaxBuffer + 1

\* streaming-protocol.md, ack: "every sequence <= through is durably stored",
\* asked of the sequences clients did send.
AcksAreDurable ==
    \A c, d \in Connections : {n \in taken[d] : n <= through[c]} \subseteq Durable

\* Stored, named in an error, or its stream has failed and says so.
FrameIsSettled(c, n) ==
    n \in Covered \/ ~Healthy(c) \/ \E code \in Codes : <<n, code>> \in refused[c]

\* A stream comes to its end: every frame it accepted is settled within the
\* pool's latency and the retries, and a session that ended is noticed, even
\* by a stream that is quiet, blocked on a full buffer, or draining.
StreamsSettle ==
    \A c \in Connections :
        /\ \A n \in Frames : n \in taken[c] ~> FrameIsSettled(c, n)
        /\ session = "ended" /\ pump[c] \in Attached ~> pump[c] = "closed"
=============================================================================
