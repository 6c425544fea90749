------------------------- MODULE RecordingSessions -------------------------
(***************************************************************************)
(* The life of recording sessions (database/repos/sessions.py): a device   *)
(* opens one and streams into it, its heartbeats keep it fresh, and its    *)
(* owner, the device's finish, the sweepers of api/main.py and the daily   *)
(* rotation race to end it.  A session ended as a rotation tells a         *)
(* connected device to open a successor; any other end must not.           *)
(*                                                                         *)
(* Time is relative: a tick ages every row and every open transaction, an  *)
(* instant is the daily rotation's time of day coming by, under one of the *)
(* two UTC offsets of the container's time zone.  A transaction reads      *)
(* now() once, when it starts, so a heartbeat that has been waiting writes *)
(* a time that is already `late`.  A sweep compares with its own now() and *)
(* never with a later one.                                                 *)
(***************************************************************************)
EXTENDS Integers, FiniteSets

CONSTANTS
    Sessions,  \* ids; a device opens as many as are left
    Sweepers,  \* the API processes, each with its sweep task
    Stale,     \* session_stale_seconds, in ticks
    Heartbeat, \* touch_if_stale's min_interval_seconds, in ticks
    Wait,      \* bound: ticks a transaction lasts
    Instants,  \* bound: days whose rotation instants come by
    Changes,   \* bound: changes of the UTC offset
    Returns,   \* bound: reconnects of the device
    DbFailures \* bound: sweeps that fail

ASSUME RecordingSessionsAssumption ==
    /\ IsFiniteSet(Sessions) /\ Sessions # {} /\ Sweepers # {}
    /\ Heartbeat \in Nat \ {0} /\ Wait \in 0..Heartbeat
    /\ Stale \in Nat /\ Stale > Heartbeat + Wait
    /\ Instants \in Nat /\ Changes \in Nat /\ Returns \in Nat /\ DbFailures \in Nat

VARIABLES
    row,      \* recording_sessions: state, age of updated_at, rotated; and due, the
              \* offsets under which it was started before the last rotation instant
    cause,    \* history: what ended each session first
    device,   \* where the device stands, its session, its transaction's lateness
    silence,  \* history: ticks since each session last took a chunk or an attach
    sweep,    \* each sweeper's step, and the rows it has ended but not committed
    clock,    \* the UTC offset in force, the instants so far under each, and
              \* history: how often the clocks went back
    budget

vars == <<row, cause, device, silence, sweep, clock, budget>>

\* The same time of day comes an hour earlier in summer.
Offsets == {"summer", "winter"}

Ancient == Stale + 1   \* ages beyond this are all alike
Older(n) == IF n < Ancient THEN n + 1 ELSE n

Open == {s \in Sessions : row[s].state = "open"}
Existing == {s \in Sessions : row[s].state \in {"open", "ended"}}

Rotations == {"split", "schedule"}
Causes == {"none", "finish", "stop", "stale", "delete"} \union Rotations

Asleep == [at |-> "asleep", stale |-> {}]

Init ==
    /\ row = [s \in Sessions |->
                 [state |-> "unused", age |-> 0, due |-> {}, rotated |-> FALSE]]
    /\ cause = [s \in Sessions |-> "none"]
    /\ device = [at |-> "ready", session |-> CHOOSE s \in Sessions : TRUE, late |-> 0]
    /\ silence = [s \in Sessions |-> 0]
    /\ sweep = [w \in Sweepers |-> Asleep]
    /\ clock \in {[offset |-> o, passed |-> [x \in Offsets |-> 0], back |-> 0] : o \in Offsets}
    /\ budget = [returns |-> Returns, db |-> DbFailures, changes |-> Changes]

\* Rows a sweep has updated and not committed: a writer waits for them, a
\* reader sees them as they were.
Locked == UNION {sweep[w].stale : w \in Sweepers}

\* Ending sessions S for reason why; only the first end is remembered, and
\* what is left of the row is whether it was a rotation.
Ended(S, why) ==
    /\ row' = [s \in Sessions |->
                  IF s \in S
                  THEN [row[s] EXCEPT !.state = "ended", !.age = 0, !.due = {},
                                      !.rotated = @ \/ why \in Rotations]
                  ELSE row[s]]
    /\ cause' = [s \in Sessions |->
                    IF s \in S /\ cause[s] = "none" THEN why ELSE cause[s]]

Goto(where) == device' = [device EXCEPT !.at = where, !.late = 0]
Mine == device.session

----------------------------------------------------------------------------
(* The device, and the handler of its connection.                          *)

\* POST /sessions, without a started_at of its own.
Create(s) ==
    /\ device.at \in {"ready", "rotate"} /\ row[s].state = "unused"
    /\ row' = [row EXCEPT ![s] = [state |-> "open", age |-> 0, due |-> {},
                                  rotated |-> FALSE]]
    /\ device' = [at |-> "connecting", session |-> s, late |-> 0]
    /\ silence' = [silence EXCEPT ![s] = 0]
    /\ UNCHANGED <<cause, sweep, clock, budget>>

\* _attach loads the session: it must be open.
Attach ==
    /\ device.at = "connecting"
    /\ Goto(IF Mine \in Open THEN "attaching" ELSE "stopped")
    /\ UNCHANGED <<row, cause, silence, sweep, clock, budget>>

\* Variant: the heartbeat is written as rarely as the sweeper looks for it.
AgedLate(s) == row[s].age > Stale

\* touch_if_stale reads updated_at: is it time for another heartbeat?
Aged(s) == row[s].age > Heartbeat

\* A chunk's liveness check: a fresh row is not written at all, and one that
\* has ended is the end of the stream.
Chunk ==
    /\ device.at = "attached"
    /\ IF Mine \notin Open THEN Goto("ending")
       ELSE Goto(IF Aged(Mine) THEN "touching" ELSE "inserting")
    /\ UNCHANGED <<row, cause, silence, sweep, clock, budget>>

\* touch: the UPDATE waits for the row, and skips one that ended meanwhile.
Touch ==
    /\ device.at \in {"attaching", "touching"} /\ Mine \notin Locked
    /\ row' = IF Mine \in Open THEN [row EXCEPT ![Mine].age = device.late] ELSE row
    /\ device' = [device EXCEPT !.at = IF @ = "touching" THEN "inserting" ELSE "attached"]
    /\ silence' = [silence EXCEPT ![Mine] = 0]
    /\ UNCHANGED <<cause, sweep, clock, budget>>

\* The insert and its commit, which need the session but not that it is open.
Insert ==
    /\ device.at = "inserting"
    /\ Goto(IF Mine \in Existing THEN "attached" ELSE "ending")
    /\ silence' = [silence EXCEPT ![Mine] = 0]
    /\ UNCHANGED <<row, cause, sweep, clock, budget>>

\* A quiet connection looks at its session's row.
Check ==
    /\ device.at = "attached" /\ Mine \notin Open
    /\ Goto("ending")
    /\ UNCHANGED <<row, cause, silence, sweep, clock, budget>>

\* _ended_teardown reads the row again: a rotated one is announced as such.
Teardown ==
    /\ device.at = "ending"
    /\ Goto(IF Mine \in Existing /\ row[Mine].rotated THEN "rotate" ELSE "stopped")
    /\ UNCHANGED <<row, cause, silence, sweep, clock, budget>>

\* The client's finish: SessionsRepo.end moves the end of an ended session.
Finish ==
    /\ device.at = "attached" /\ Mine \notin Locked
    /\ IF Mine \in Existing THEN Ended({Mine}, "finish") ELSE UNCHANGED <<row, cause>>
    /\ Goto("stopped")
    /\ UNCHANGED <<silence, sweep, clock, budget>>

\* The connection breaks, or idles out; the device may come back, once the
\* transaction in hand is over.
Disconnect ==
    /\ device.at = "attached"
    /\ \/ budget.returns > 0
          /\ budget' = [budget EXCEPT !.returns = @ - 1]
          /\ Goto("connecting")
       \/ Goto("lost") /\ UNCHANGED budget
    /\ UNCHANGED <<row, cause, silence, sweep, clock>>

----------------------------------------------------------------------------
(* The owner's requests.                                                   *)

\* POST /sessions/{id}/end
End(s) ==
    /\ s \in Existing \ Locked
    /\ Ended({s}, "stop")
    /\ UNCHANGED <<device, silence, sweep, clock, budget>>

\* Variant: a split that does not look whether the session is open.
SplittableAnyway == Existing

\* The guard every split carries in its WHERE.
Splittable == Open

\* POST /sessions/{id}/split and POST /sessions/split.
Split(S) ==
    /\ S # {} /\ S \subseteq Splittable \ Locked
    /\ Cardinality(S) = 1 \/ S = Splittable
    /\ Ended(S, "split")
    /\ UNCHANGED <<device, silence, sweep, clock, budget>>

Delete(s) ==
    /\ s \in Existing \ Locked
    /\ row' = [row EXCEPT ![s] = [@ EXCEPT !.state = "gone", !.age = 0, !.due = {}]]
    /\ cause' = [cause EXCEPT ![s] = IF @ = "none" THEN "delete" ELSE @]
    /\ UNCHANGED <<device, silence, sweep, clock, budget>>

----------------------------------------------------------------------------
(* A sweep: one transaction with two updates, that may last.               *)

\* end_stale waits for rows another sweep has locked.
EndStale(w) ==
    /\ sweep[w].at = "asleep"
    /\ LET abandoned == {s \in Open : row[s].age > Stale} IN
       /\ abandoned \intersect Locked = {}
       /\ sweep' = [sweep EXCEPT ![w] = [at |-> "rotate", stale |-> abandoned]]
    /\ UNCHANGED <<row, cause, device, silence, clock, budget>>

\* Variant: the present instead of the last rotation instant.
StartedBeforeNow == {s \in Sessions : row[s].state # "unused"}

\* Sessions whose started_at lies before _last_rotation_instant(): the last time
\* it was that time of day by the offset of this very moment, whatever the
\* offset was then.
StartedBefore == {s \in Sessions : clock.offset \in row[s].due}

\* split_started_before, which waits as well, and the commit of both.
Rotate(w) ==
    /\ sweep[w].at = "rotate"
    /\ LET ended == sweep[w].stale
           split == (StartedBefore \intersect Open) \ ended
       IN
       /\ split \intersect Locked = {}
       /\ row' = [s \in Sessions |->
             IF s \in ended \union split
             THEN [row[s] EXCEPT !.state = "ended", !.age = 0, !.due = {},
                                 !.rotated = s \in split]
             ELSE row[s]]
       /\ cause' = [s \in Sessions |->
             IF s \in ended THEN "stale" ELSE IF s \in split THEN "schedule" ELSE cause[s]]
    /\ sweep' = [sweep EXCEPT ![w] = Asleep]
    /\ UNCHANGED <<device, silence, clock, budget>>

\* Variant: a failed sweep ends the task, and an outage is met by every process.
SweepDies(w) ==
    /\ sweep[w].at = "rotate" /\ budget.db > 0
    /\ budget' = [budget EXCEPT !.db = @ - 1]
    /\ sweep' = [v \in Sweepers |-> [at |-> "dead", stale |-> {}]]
    /\ UNCHANGED <<row, cause, device, silence, clock>>

\* "session sweep failed; will retry": rolled back, or the process restarts.
SweepFails(w) ==
    /\ sweep[w].at = "rotate" /\ budget.db > 0
    /\ budget' = [budget EXCEPT !.db = @ - 1]
    /\ sweep' = [sweep EXCEPT ![w] = Asleep]
    /\ UNCHANGED <<row, cause, device, silence, clock>>

----------------------------------------------------------------------------
InTransaction == device.at \in {"attaching", "touching", "inserting"}

\* A tick: a chunk's transaction is short.
Tick ==
    /\ InTransaction => device.late < Wait
    /\ row' = [s \in Sessions |-> [row[s] EXCEPT !.age =
                  IF s \in Open THEN Older(@) ELSE @]]
    /\ silence' = [s \in Sessions |-> IF s \in Open THEN Older(silence[s]) ELSE 0]
    /\ device' = [device EXCEPT !.late = IF InTransaction THEN @ + 1 ELSE @]
    /\ UNCHANGED <<cause, sweep, clock, budget>>

\* The time of day of API_SESSION_ROTATE_AT, by offset o: what was started before
\* is due by it.  Each day has one of either offset, the summer's first.
Instant(o) ==
    /\ clock.passed[o] < Instants
    /\ o = "summer" <=> clock.passed["summer"] = clock.passed["winter"]
    /\ clock' = [clock EXCEPT !.passed[o] = @ + 1]
    /\ row' = [s \in Sessions |->
                  [row[s] EXCEPT !.due = IF s \in Open THEN @ \union {o} ELSE {}]]
    /\ UNCHANGED <<cause, device, silence, sweep, budget>>

\* The zone's offset changes; to winter the clocks go back.
ChangeClocks ==
    /\ budget.changes > 0
    /\ budget' = [budget EXCEPT !.changes = @ - 1]
    /\ clock' = IF clock.offset = "summer"
                THEN [clock EXCEPT !.offset = "winter", !.back = @ + 1]
                ELSE [clock EXCEPT !.offset = "summer"]
    /\ UNCHANGED <<row, cause, device, silence, sweep>>

Sweep(w) == EndStale(w) \/ Rotate(w)

Handler == Attach \/ Touch \/ Insert \/ Check \/ Teardown

Next ==
    \/ \E s \in Sessions : Create(s) \/ End(s) \/ Delete(s)
    \/ \E S \in SUBSET Sessions : Split(S)
    \/ Handler \/ Chunk \/ Finish \/ Disconnect
    \/ \E w \in Sweepers : Sweep(w) \/ SweepFails(w)
    \/ Tick \/ ChangeClocks
    \/ \E o \in Offsets : Instant(o)

Spec == Init /\ [][Next]_vars

\* The sweep task loops forever, a connection's handler runs, time passes.
FairSpec ==
    /\ Spec
    /\ WF_vars(Tick) /\ WF_vars(Handler)
    /\ \A w \in Sweepers : WF_vars(Sweep(w))

----------------------------------------------------------------------------
States == {"unused", "open", "ended", "gone"}
Places == {"ready", "connecting", "attaching", "attached", "touching", "inserting",
           "ending", "rotate", "stopped", "lost"}

RowType == [state : States, age : Nat, due : SUBSET Offsets, rotated : BOOLEAN]

TypeOK ==
    /\ row \in [Sessions -> RowType]
    /\ cause \in [Sessions -> Causes]
    /\ device \in [at : Places, session : Sessions, late : 0..Wait]
    /\ silence \in [Sessions -> 0..Ancient]
    /\ sweep \in [Sweepers -> [at : {"asleep", "rotate"}, stale : SUBSET Sessions]]
    /\ clock \in [offset : Offsets, passed : [Offsets -> Nat], back : Nat]
    /\ budget \in [returns : Nat, db : Nat, changes : Nat]

----------------------------------------------------------------------------
(* Properties.                                                             *)

\* The sweeper spares a session in use: what it ends has been without a
\* chunk for the stale window less one heartbeat and one wait, although most
\* chunks write no heartbeat and the one that does may wait for its row.
SweepSparesTheActive ==
    [][\A s \in Sessions :
          cause[s] = "none" /\ cause'[s] = "stale" => silence[s] > Stale - Heartbeat - Wait]_vars

\* A device is told to record on only when a rotation is what ended its
\* session: no race of the owner's stop, a finish, a sweep or a deletion
\* with the splits makes a deliberate stop restart it.
OnlyRotationsRestart ==
    device.at = "rotate" => cause[Mine] \in Rotations

SplitBySchedule == {s \in Sessions : cause[s] = "schedule"}

\* A device's recording is rotated once per daily instant: however many
\* sweepers pass, fail and pass again, no successor is split by the instant
\* that made it.  The exception is a change of offset: once for every time the
\* clocks went back the instant comes again, an hour later, after the successor
\* has started.
RotatesOncePerInstant ==
    Cardinality(SplitBySchedule) <= clock.passed[clock.offset] + clock.back

\* A session whose device is gone for good ends, which is what starts its
\* processing, although sweeps fail.
AbandonedSessionsEnd ==
    device.at = "lost" ~> Mine \notin Open
=============================================================================
