---------------------- MODULE RecordingSessionsProofs ----------------------
(***************************************************************************)
(* Proofs about RecordingSessions for every number of sessions, sweepers   *)
(* and rotation instants, every change of the clocks, and every stale      *)
(* window, heartbeat and wait: only rotations restart a device, one per    *)
(* instant and one more when the clocks have gone back, and no sweep ends  *)
(* a session in use.                                                       *)
(***************************************************************************)
EXTENDS RecordingSessions, FiniteSetTheorems, TLAPS

\* The device has one session at a time.
OneAtATime ==
    /\ Open \subseteq {Mine}
    /\ device.at = "ready" => Open = {}

\* A row's flag and its state follow from what ended it first.
FlagFollowsCause ==
    \A s \in Sessions :
        /\ row[s].state \in {"unused", "open"} => cause[s] = "none" /\ ~row[s].rotated
        /\ row[s].state = "ended" => cause[s] # "none"
        /\ row[s].rotated => cause[s] \in Rotations

\* What a sweep has locked is stale and stays so, and no other sweep has it.
LockedStaysStale ==
    \A w \in Sweepers :
        /\ sweep[w].at = "asleep" => sweep[w].stale = {}
        /\ \A s \in sweep[w].stale : s \in Open /\ row[s].age > Stale
        /\ \A v \in Sweepers \ {w} : sweep[v].stale \intersect sweep[w].stale = {}

\* A row is hardly older than the silence of its session, and a chunk about to
\* be inserted has found or made it fresh.
AgeFollowsSilence ==
    /\ \A s \in Open : row[s].age <= silence[s] + Heartbeat + Wait
    /\ device.at = "inserting" /\ Mine \in Open => row[Mine].age <= Heartbeat + device.late

\* Sessions the schedule has ended, or will at the next sweep.
Scheduled == {s \in Sessions : cause[s] = "schedule" \/ clock.offset \in row[s].due}

\* Each day's instants come in order, so what was open at an earlier one and is
\* still open was open at the latest.
LatestIsDue ==
    \/ /\ clock.passed["summer"] = clock.passed["winter"]
       /\ \A s \in Sessions : "summer" \in row[s].due => "winter" \in row[s].due
    \/ /\ clock.passed["summer"] = clock.passed["winter"] + 1
       /\ \A s \in Sessions : "winter" \in row[s].due => "summer" \in row[s].due

\* A row is due only while it is open, and instants come one at a time.
InstantsAreSpent ==
    /\ \A s \in Sessions : row[s].due # {} => s \in Open
    /\ LatestIsDue
    /\ Cardinality(Scheduled) <= clock.passed[clock.offset] + clock.back

SessionsInv ==
    /\ OneAtATime /\ FlagFollowsCause /\ OnlyRotationsRestart /\ LockedStaysStale
    /\ AgeFollowsSilence /\ InstantsAreSpent

----------------------------------------------------------------------------
(* Types.                                                                  *)

LEMMA InitType == Init => TypeOK
BY RecordingSessionsAssumption
   DEF Init, TypeOK, RowType, States, Places, Causes, Rotations, Asleep, Ancient, Offsets

LEMMA EndedRow ==
  ASSUME NEW x \in RowType, NEW y, NEW flag \in {TRUE, FALSE},
         y = [x EXCEPT !.state = "ended", !.age = 0, !.due = {}, !.rotated = flag]
  PROVE  y \in RowType /\ y.state = "ended" /\ y.age = 0
BY DEF RowType, States

\* An end for any reason leaves well-formed rows.
LEMMA EndedType ==
  ASSUME TypeOK, NEW S, NEW why \in Causes, Ended(S, why)
  PROVE  /\ row' \in [Sessions -> RowType]
         /\ cause' \in [Sessions -> Causes]
<1>1. ASSUME NEW s \in Sessions
      PROVE  row'[s] \in RowType
  <2>1. row[s] \in RowType
    BY DEF TypeOK
  <2>2. CASE s \in S
    <3> DEFINE flag == row[s].rotated \/ why \in Rotations
    <3>1. flag \in {TRUE, FALSE}
      BY Zenon
    <3>2. row'[s] = [row[s] EXCEPT !.state = "ended", !.age = 0, !.due = {}, !.rotated = flag]
      BY <2>2, Zenon DEF Ended
    <3> HIDE DEF flag
    <3> QED BY <2>1, <3>1, <3>2, EndedRow
  <2>3. CASE s \notin S
    BY <2>1, <2>3 DEF Ended
  <2> QED BY <2>2, <2>3
<1>2. row' = [s \in Sessions |-> row'[s]]
  BY DEF Ended
<1> QED BY <1>1, <1>2 DEF TypeOK, Ended

LEMMA GotoType ==
  ASSUME TypeOK, NEW where \in Places, Goto(where)
  PROVE  device' \in [at : Places, session : Sessions, late : 0..Wait]
<1>1. 0 \in 0..Wait
  BY RecordingSessionsAssumption
<1> QED BY <1>1 DEF TypeOK, Goto

\* A committed sweep, row by row: what was stale, what was due, and the rest.
Overdue(w) == (StartedBefore \intersect Open) \ sweep[w].stale

LEMMA RotateEffect ==
  ASSUME TypeOK, NEW w \in Sweepers, Rotate(w)
  PROVE  /\ Overdue(w) \intersect Locked = {}
         /\ row' \in [Sessions -> RowType]
         /\ \A s \in sweep[w].stale \union Overdue(w) :
              /\ row'[s].state = "ended" /\ row'[s].age = 0 /\ row'[s].due = {}
              /\ row'[s].rotated <=> s \in Overdue(w)
              /\ cause'[s] = IF s \in sweep[w].stale THEN "stale" ELSE "schedule"
         /\ \A s \in Sessions \ (sweep[w].stale \union Overdue(w)) :
              row'[s] = row[s] /\ cause'[s] = cause[s]
<1>1. /\ Overdue(w) \intersect Locked = {}
      /\ row' = [s \in Sessions |->
                    IF s \in sweep[w].stale \union Overdue(w)
                    THEN [row[s] EXCEPT !.state = "ended", !.age = 0, !.due = {},
                                        !.rotated = s \in Overdue(w)]
                    ELSE row[s]]
      /\ cause' = [s \in Sessions |->
                      IF s \in sweep[w].stale THEN "stale"
                      ELSE IF s \in Overdue(w) THEN "schedule" ELSE cause[s]]
  BY Zenon DEF Rotate, Overdue
<1>2. sweep[w].stale \subseteq Sessions /\ Overdue(w) \subseteq Sessions
  BY DEF TypeOK, Overdue, StartedBefore
<1>3. ASSUME NEW s \in Sessions, s \in sweep[w].stale \union Overdue(w)
      PROVE  /\ row'[s] \in RowType
             /\ row'[s].state = "ended" /\ row'[s].age = 0 /\ row'[s].due = {}
             /\ row'[s].rotated <=> s \in Overdue(w)
  <2>1. row[s] \in RowType
    BY DEF TypeOK
  <2>2. row'[s] = [row[s] EXCEPT !.state = "ended", !.age = 0, !.due = {},
                                 !.rotated = s \in Overdue(w)]
    BY <1>1, <1>3, Zenon
  <2>3. CASE s \in Overdue(w)
    <3>1. (s \in Overdue(w)) = TRUE
      BY <2>3
    <3>2. row'[s] = [row[s] EXCEPT !.state = "ended", !.age = 0, !.due = {},
                                   !.rotated = TRUE]
      BY <2>2, <3>1
    <3>3. row'[s] \in RowType /\ row'[s].state = "ended" /\ row'[s].age = 0
      BY <2>1, <3>2, EndedRow
    <3>4. row'[s].due = {} /\ row'[s].rotated
      BY <2>1, <3>2 DEF RowType
    <3> QED BY <2>3, <3>3, <3>4, Zenon
  <2>4. CASE s \notin Overdue(w)
    <3>1. (s \in Overdue(w)) = FALSE
      BY <2>4
    <3>2. row'[s] = [row[s] EXCEPT !.state = "ended", !.age = 0, !.due = {},
                                   !.rotated = FALSE]
      BY <2>2, <3>1
    <3>3. row'[s] \in RowType /\ row'[s].state = "ended" /\ row'[s].age = 0
      BY <2>1, <3>2, EndedRow
    <3>4. row'[s].due = {} /\ ~row'[s].rotated
      BY <2>1, <3>2 DEF RowType
    <3> QED BY <2>4, <3>3, <3>4, Zenon
  <2> QED BY <2>3, <2>4
<1>4. ASSUME NEW s \in Sessions, s \notin sweep[w].stale \union Overdue(w)
      PROVE  row'[s] = row[s] /\ cause'[s] = cause[s]
  BY <1>1, <1>4, Zenon
<1>5. ASSUME NEW s \in Sessions PROVE row'[s] \in RowType
  BY <1>3, <1>4 DEF TypeOK
<1>6. row' \in [Sessions -> RowType]
  BY <1>1, <1>5
<1>7. \A s \in sweep[w].stale \union Overdue(w) :
        cause'[s] = IF s \in sweep[w].stale THEN "stale" ELSE "schedule"
  BY <1>1, <1>2
<1> QED BY <1>1, <1>2, <1>3, <1>4, <1>6, <1>7

\* An instant, row by row.
LEMMA InstantEffect ==
  ASSUME TypeOK, NEW o \in Offsets, Instant(o)
  PROVE  /\ row' \in [Sessions -> RowType]
         /\ \A s \in Sessions :
              /\ row'[s].state = row[s].state /\ row'[s].age = row[s].age
              /\ row'[s].rotated = row[s].rotated
              /\ row'[s].due = IF s \in Open THEN row[s].due \union {o} ELSE {}
         /\ clock' = [clock EXCEPT !.passed[o] = @ + 1]
         /\ UNCHANGED <<cause, device, silence, sweep, budget>>
<1>1. /\ row' = [s \in Sessions |->
                   [row[s] EXCEPT !.due = IF s \in Open THEN @ \union {o} ELSE {}]]
      /\ clock' = [clock EXCEPT !.passed[o] = @ + 1]
      /\ UNCHANGED <<cause, device, silence, sweep, budget>>
  BY DEF Instant
<1>2. ASSUME NEW s \in Sessions
      PROVE  /\ row'[s] \in RowType
             /\ row'[s].state = row[s].state /\ row'[s].age = row[s].age
             /\ row'[s].rotated = row[s].rotated
             /\ row'[s].due = IF s \in Open THEN row[s].due \union {o} ELSE {}
  <2>1. row[s] \in RowType
    BY DEF TypeOK
  <2> QED BY <1>1, <2>1 DEF RowType
<1> QED BY <1>1, <1>2

LEMMA OlderType ==
  /\ Ancient \in Nat
  /\ \A n \in Nat : Older(n) \in Nat /\ Older(n) \in n..(n + 1)
  /\ \A n \in 0..Ancient : Older(n) \in 0..Ancient
BY RecordingSessionsAssumption DEF Ancient, Older

LEMMA StepType == TypeOK /\ [Next]_vars => TypeOK'
<1> SUFFICES ASSUME TypeOK, [Next]_vars PROVE TypeOK'
  OBVIOUS
<1>0. /\ {"connecting", "attaching", "attached", "touching", "inserting", "ending",
          "rotate", "stopped", "lost"} \subseteq Places
      /\ {"finish", "stop", "split", "stale", "delete", "schedule", "none"} \subseteq Causes
      /\ Mine \in Sessions
  BY DEF Places, Causes, Rotations, TypeOK, Mine
<1>1. ASSUME NEW s \in Sessions, Create(s) PROVE TypeOK'
  BY <1>1, RecordingSessionsAssumption, OlderType DEF Create, TypeOK, RowType, States, Places
<1>2. ASSUME NEW s \in Sessions, End(s) PROVE TypeOK'
  BY <1>2, <1>0, EndedType DEF End, TypeOK
<1>3. ASSUME NEW s \in Sessions, Delete(s) PROVE TypeOK'
  <2>1. row[s] \in RowType /\ row \in [Sessions -> RowType]
    BY DEF TypeOK
  <2>2. [row[s] EXCEPT !.state = "gone", !.age = 0, !.due = {}] \in RowType
    BY <2>1 DEF RowType, States
  <2>3. row' \in [Sessions -> RowType]
    BY <1>3, <2>1, <2>2 DEF Delete
  <2> QED BY <1>3, <1>0, <2>3 DEF Delete, TypeOK
<1>4. ASSUME NEW S \in SUBSET Sessions, Split(S) PROVE TypeOK'
  BY <1>4, <1>0, EndedType DEF Split, TypeOK
<1>5. CASE Attach
  BY <1>5, <1>0, GotoType DEF Attach, TypeOK
<1>6. CASE Touch
  <2>1. row[Mine] \in RowType /\ row \in [Sessions -> RowType] /\ device.late \in Nat
    BY <1>0, RecordingSessionsAssumption DEF TypeOK
  <2>2. [row[Mine] EXCEPT !.age = device.late] \in RowType
    BY <2>1 DEF RowType
  <2>3. row' \in [Sessions -> RowType]
    BY <1>6, <2>1, <2>2 DEF Touch
  <2>4. device' \in [at : Places, session : Sessions, late : 0..Wait]
    BY <1>6, <1>0 DEF Touch, TypeOK
  <2>5. silence' \in [Sessions -> 0..Ancient]
    BY <1>6, <1>0, OlderType DEF Touch, TypeOK
  <2> QED BY <1>6, <2>3, <2>4, <2>5 DEF Touch, TypeOK
<1>7. CASE Insert
  BY <1>7, <1>0, GotoType, OlderType DEF Insert, TypeOK
<1>8. CASE Check
  BY <1>8, <1>0, GotoType DEF Check, TypeOK
<1>9. CASE Teardown
  BY <1>9, <1>0, GotoType DEF Teardown, TypeOK
<1>10. CASE Chunk
  BY <1>10, <1>0, GotoType DEF Chunk, TypeOK
<1>11. CASE Finish
  BY <1>11, <1>0, GotoType, EndedType DEF Finish, TypeOK
<1>12. CASE Disconnect
  BY <1>12, <1>0, GotoType DEF Disconnect, TypeOK
<1>13. ASSUME NEW w \in Sweepers, EndStale(w) PROVE TypeOK'
  BY <1>13 DEF EndStale, Open, TypeOK
<1>14. ASSUME NEW w \in Sweepers, Rotate(w) PROVE TypeOK'
  <2>1. row' \in [Sessions -> RowType]
    BY <1>14, RotateEffect
  <2>2. cause' \in [Sessions -> Causes]
    BY <1>14, <1>0 DEF Rotate, TypeOK
  <2>3. sweep' \in [Sweepers -> [at : {"asleep", "rotate"}, stale : SUBSET Sessions]]
    BY <1>14 DEF Rotate, Asleep, TypeOK
  <2> QED BY <1>14, <2>1, <2>2, <2>3 DEF Rotate, TypeOK
<1>15. ASSUME NEW w \in Sweepers, SweepFails(w) PROVE TypeOK'
  BY <1>15 DEF SweepFails, Asleep, TypeOK
<1>16. CASE Tick
  <2>1. row' \in [Sessions -> RowType]
    <3>1. ASSUME NEW s \in Sessions
          PROVE  [row[s] EXCEPT !.age = IF s \in Open THEN Older(@) ELSE @] \in RowType
      <4>1. row[s] \in RowType
        BY DEF TypeOK
      <4>2. ASSUME NEW n \in Nat PROVE [row[s] EXCEPT !.age = n] \in RowType
        BY <4>1 DEF RowType
      <4>3. (IF s \in Open THEN Older(row[s].age) ELSE row[s].age) \in Nat
        BY <4>1, OlderType DEF RowType
      <4> QED BY <4>2, <4>3
    <3> QED BY <1>16, <3>1 DEF Tick
  <2>2. silence' \in [Sessions -> 0..Ancient]
    BY <1>16, OlderType DEF Tick, TypeOK
  <2>3. device' \in [at : Places, session : Sessions, late : 0..Wait]
    <3>1. Wait \in Nat /\ device.late \in 0..Wait
      BY RecordingSessionsAssumption DEF TypeOK
    <3>2. InTransaction => device.late + 1 \in 0..Wait
      BY <1>16, <3>1 DEF Tick
    <3> QED BY <1>16, <3>1, <3>2 DEF Tick, TypeOK
  <2>4. UNCHANGED <<cause, sweep, clock, budget>>
    BY <1>16 DEF Tick
  <2> QED BY <2>1, <2>2, <2>3, <2>4 DEF TypeOK
<1>17. ASSUME NEW o \in Offsets, Instant(o) PROVE TypeOK'
  <2>1. clock' \in [offset : Offsets, passed : [Offsets -> Nat], back : Nat]
    BY <1>17, InstantEffect DEF TypeOK
  <2> QED BY <1>17, <2>1, InstantEffect DEF TypeOK
<1>19. CASE ChangeClocks
  <2>1. clock' \in [offset : Offsets, passed : [Offsets -> Nat], back : Nat]
    <3> DEFINE Clocks == [offset : Offsets, passed : [Offsets -> Nat], back : Nat]
    <3>1. clock \in Clocks /\ clock.back + 1 \in Nat
      BY DEF TypeOK
    <3>2. {"summer", "winter"} \subseteq Offsets
      BY DEF Offsets
    <3>3. [clock EXCEPT !.offset = "winter", !.back = @ + 1] \in Clocks
      BY <3>1, <3>2
    <3>4. [clock EXCEPT !.offset = "summer"] \in Clocks
      BY <3>1, <3>2
    <3> QED BY <1>19, <3>3, <3>4 DEF ChangeClocks
  <2>2. budget' \in [returns : Nat, db : Nat, changes : Nat]
    BY <1>19 DEF ChangeClocks, TypeOK
  <2> QED BY <1>19, <2>1, <2>2 DEF ChangeClocks, TypeOK
<1>18. CASE UNCHANGED vars
  BY <1>18 DEF vars, TypeOK
<1> QED
  BY <1>1, <1>2, <1>3, <1>4, <1>5, <1>6, <1>7, <1>8, <1>9, <1>10, <1>11, <1>12, <1>13,
     <1>14, <1>15, <1>16, <1>17, <1>18, <1>19 DEF Next, Handler, Sweep

\* The rows, the device and the sweeps keep their types.
THEOREM TypeCorrect == Spec => []TypeOK
<1>1. QED BY InitType, StepType, PTL DEF Spec

----------------------------------------------------------------------------
(* The invariant.                                                          *)

LEMMA SessionsInit == Init => SessionsInv
<1> SUFFICES ASSUME Init PROVE SessionsInv
  OBVIOUS
<1>1. OneAtATime /\ FlagFollowsCause /\ LockedStaysStale /\ AgeFollowsSilence
  BY RecordingSessionsAssumption
     DEF Init, Asleep, Open, OneAtATime, FlagFollowsCause, LockedStaysStale,
         AgeFollowsSilence
<1>a. OnlyRotationsRestart
  BY DEF Init, OnlyRotationsRestart
<1>2. Scheduled = {} /\ \A s \in Sessions : row[s].due = {}
  BY DEF Init, Scheduled
<1>3. InstantsAreSpent
  BY <1>2, FS_EmptySet DEF Init, InstantsAreSpent, LatestIsDue, Offsets
<1> QED BY <1>1, <1>a, <1>3 DEF SessionsInv

\* An end for any reason, row by row.
LEMMA EndedEffect ==
  ASSUME TypeOK, NEW S, NEW why, Ended(S, why)
  PROVE  \A s \in Sessions :
           /\ s \notin S => row'[s] = row[s] /\ cause'[s] = cause[s]
           /\ s \in S => /\ row'[s].state = "ended" /\ row'[s].age = 0 /\ row'[s].due = {}
                         /\ row'[s].rotated <=> row[s].rotated \/ why \in Rotations
                         /\ cause'[s] = IF cause[s] = "none" THEN why ELSE cause[s]
<1> SUFFICES ASSUME NEW s \in Sessions
             PROVE  /\ s \notin S => row'[s] = row[s] /\ cause'[s] = cause[s]
                    /\ s \in S => /\ row'[s].state = "ended" /\ row'[s].age = 0
                                  /\ row'[s].due = {}
                                  /\ row'[s].rotated <=> row[s].rotated \/ why \in Rotations
                                  /\ cause'[s] = IF cause[s] = "none" THEN why ELSE cause[s]
  OBVIOUS
<1>1. row[s] \in RowType
  BY DEF TypeOK
<1>2. CASE s \in S
  BY <1>1, <1>2 DEF Ended, RowType
<1>3. CASE s \notin S
  BY <1>3 DEF Ended
<1> QED BY <1>2, <1>3

\* The device has one session at a time.
LEMMA OneStep ==
  ASSUME TypeOK, TypeOK', SessionsInv, Next
  PROVE  OneAtATime'
<1> USE DEF OneAtATime, Mine, Open
<1>0. OneAtATime /\ FlagFollowsCause /\ Mine \in Sessions
  BY DEF SessionsInv, TypeOK
<1>a. ASSUME NEW S, NEW why, Ended(S, why), device'.session = device.session,
             device'.at = "ready" => device.at = "ready"
      PROVE  OneAtATime'
  BY <1>0, <1>a, EndedEffect
<1>b. ASSUME \A s \in Sessions : row'[s].state = "open" => row[s].state = "open",
             device'.session = device.session, device'.at = "ready" => device.at = "ready"
      PROVE  OneAtATime'
  BY <1>0, <1>b
<1>1. ASSUME NEW s \in Sessions, Create(s) PROVE OneAtATime'
  <2>1. Open = {}
    BY <1>0, <1>1 DEF Create, SessionsInv, OnlyRotationsRestart, FlagFollowsCause, Rotations
  <2>2. Open' = {s}
    BY <1>1, <2>1 DEF Create, TypeOK
  <2> QED BY <1>1, <2>2 DEF Create
<1>2. ASSUME NEW s \in Sessions, End(s) PROVE OneAtATime'
  BY <1>2, <1>a DEF End
<1>3. ASSUME NEW s \in Sessions, Delete(s) PROVE OneAtATime'
  BY <1>3, <1>b DEF Delete, TypeOK
<1>4. ASSUME NEW S \in SUBSET Sessions, Split(S) PROVE OneAtATime'
  BY <1>4, <1>a DEF Split
<1>5. CASE Attach \/ Insert \/ Check \/ Teardown \/ Chunk \/ Disconnect
  <2>1. row' = row
    BY <1>5 DEF Attach, Insert, Check, Teardown, Chunk, Disconnect
  <2>2. PICK where \in Places \ {"ready"} : Goto(where)
    BY <1>5 DEF Attach, Insert, Check, Teardown, Chunk, Disconnect, Places
  <2>3. device'.session = device.session /\ device'.at # "ready"
    BY <2>2 DEF Goto, TypeOK
  <2> QED BY <1>b, <2>1, <2>3
<1>6. CASE Touch
  BY <1>6, <1>b DEF Touch, TypeOK
<1>7. CASE Finish
  BY <1>7, <1>a, <1>b DEF Finish, Goto, TypeOK
<1>8. ASSUME NEW w \in Sweepers, EndStale(w) \/ SweepFails(w) PROVE OneAtATime'
  BY <1>8, <1>b DEF EndStale, SweepFails
<1>9. ASSUME NEW w \in Sweepers, Rotate(w) PROVE OneAtATime'
  <2>1. \A s \in Sessions : row'[s].state = "open" => row[s].state = "open"
    BY <1>9, RotateEffect
  <2> QED BY <1>9, <2>1, <1>b DEF Rotate
<1>10. CASE Tick
  <2>1. \A s \in Sessions : row'[s].state = row[s].state
    BY <1>10 DEF Tick, TypeOK, RowType
  <2>2. device'.session = device.session /\ device'.at = device.at
    BY <1>10 DEF Tick, TypeOK
  <2> QED BY <2>1, <2>2, <1>b
<1>11. CASE (\E o \in Offsets : Instant(o)) \/ ChangeClocks
  <2>1. /\ \A s \in Sessions : row'[s].state = row[s].state
        /\ device' = device
    BY <1>11, InstantEffect DEF ChangeClocks
  <2> QED BY <2>1, <1>b
<1> QED
  BY <1>1, <1>2, <1>3, <1>4, <1>5, <1>6, <1>7, <1>8, <1>9, <1>10, <1>11
     DEF Next, Handler, Sweep

\* The rotated flag belongs to what ended the session first, and a device that
\* was told to record on saw it.
LEMMA FlagStep ==
  ASSUME TypeOK, TypeOK', SessionsInv, Next
  PROVE  FlagFollowsCause' /\ OnlyRotationsRestart'
<1> DEFINE Fits(s) == /\ row[s].state \in {"unused", "open"} =>
                             cause[s] = "none" /\ ~row[s].rotated
                      /\ row[s].state = "ended" => cause[s] # "none"
                      /\ row[s].rotated => cause[s] \in Rotations
<1>0. /\ \A s \in Sessions : Fits(s)
      /\ OnlyRotationsRestart /\ LockedStaysStale /\ Mine \in Sessions
  BY DEF SessionsInv, FlagFollowsCause, TypeOK, Mine
<1>a. ASSUME NEW S, NEW why \in Causes \ {"none"}, Ended(S, why),
             why \in Rotations => S \subseteq Open
      PROVE  \A s \in Sessions : Fits(s)'
  <2> SUFFICES ASSUME NEW s \in Sessions PROVE Fits(s)'
    OBVIOUS
  <2>1. CASE s \notin S
    BY <1>0, <1>a, <2>1, EndedEffect
  <2>2. CASE s \in S /\ why \in Rotations
    <3>1. cause[s] = "none"
      BY <1>0, <1>a, <2>2 DEF Open
    <3>2. row'[s].state = "ended" /\ cause'[s] = why
      BY <1>a, <2>2, <3>1, EndedEffect
    <3> QED BY <1>a, <2>2, <3>2
  <2>3. CASE s \in S /\ why \notin Rotations
    <3>1. /\ row'[s].state = "ended"
          /\ row'[s].rotated <=> row[s].rotated
          /\ cause'[s] = IF cause[s] = "none" THEN why ELSE cause[s]
      BY <1>a, <2>3, EndedEffect
    <3> QED BY <1>0, <1>a, <2>3, <3>1 DEF Rotations
  <2> QED BY <2>1, <2>2, <2>3
<1>b. ASSUME UNCHANGED cause,
             \A s \in Sessions : /\ row'[s].state = row[s].state
                                 /\ row'[s].rotated <=> row[s].rotated
      PROVE  \A s \in Sessions : Fits(s)'
  BY <1>0, <1>b
<1>c. ASSUME \A s \in Sessions : cause[s] \in Rotations => cause'[s] = cause[s],
             device'.at = "rotate" => device.at = "rotate" /\ UNCHANGED device
      PROVE  OnlyRotationsRestart'
  BY <1>0, <1>c DEF OnlyRotationsRestart, Mine
<1>d. ASSUME NEW S, NEW why, Ended(S, why)
      PROVE  \A s \in Sessions : cause[s] \in Rotations => cause'[s] = cause[s]
  BY <1>d, EndedEffect DEF Rotations
<1> SUFFICES (\A s \in Sessions : Fits(s)') /\ OnlyRotationsRestart'
  BY DEF FlagFollowsCause
<1>1. ASSUME NEW s \in Sessions, Create(s)
      PROVE  (\A t \in Sessions : Fits(t)') /\ OnlyRotationsRestart'
  <2>1. \A t \in Sessions : Fits(t)'
    BY <1>0, <1>1 DEF Create, TypeOK
  <2> QED BY <1>1, <2>1, <1>c DEF Create
<1>2. ASSUME NEW s \in Sessions, End(s)
      PROVE  (\A t \in Sessions : Fits(t)') /\ OnlyRotationsRestart'
  BY <1>2, <1>a, <1>c, <1>d DEF End, Causes, Rotations
<1>3. ASSUME NEW s \in Sessions, Delete(s)
      PROVE  (\A t \in Sessions : Fits(t)') /\ OnlyRotationsRestart'
  <2>1. \A t \in Sessions : Fits(t)'
    BY <1>0, <1>3 DEF Delete, TypeOK, RowType, Rotations
  <2>2. \A t \in Sessions : cause[t] \in Rotations => cause'[t] = cause[t]
    BY <1>3 DEF Delete, TypeOK, Rotations
  <2> QED BY <1>3, <2>1, <2>2, <1>c DEF Delete
<1>4. ASSUME NEW S \in SUBSET Sessions, Split(S)
      PROVE  (\A t \in Sessions : Fits(t)') /\ OnlyRotationsRestart'
  <2>1. S \subseteq Open /\ Ended(S, "split") /\ UNCHANGED device
    BY <1>4 DEF Split, Splittable
  <2> QED BY <2>1, <1>a, <1>c, <1>d DEF Causes, Rotations
<1>5. CASE Attach \/ Insert \/ Check \/ Chunk \/ Disconnect
  <2>1. UNCHANGED <<row, cause>> /\ device'.at # "rotate"
    BY <1>5 DEF Attach, Insert, Check, Chunk, Disconnect, Goto, TypeOK
  <2> QED BY <2>1, <1>b, <1>c
<1>6. CASE Teardown
  <2>1. UNCHANGED <<row, cause>> /\ device'.session = device.session
    BY <1>6 DEF Teardown, Goto, TypeOK
  <2>2. device'.at = "rotate" => row[Mine].rotated
    BY <1>6 DEF Teardown, Goto, TypeOK
  <2> QED BY <1>0, <2>1, <2>2, <1>b DEF OnlyRotationsRestart, Mine
<1>7. CASE Touch
  <2>1. \A s \in Sessions : /\ row'[s].state = row[s].state
                            /\ row'[s].rotated <=> row[s].rotated
    BY <1>7 DEF Touch, TypeOK, RowType
  <2>2. UNCHANGED cause /\ device'.at # "rotate"
    BY <1>7 DEF Touch, TypeOK
  <2> QED BY <2>1, <2>2, <1>b, <1>c
<1>8. CASE Finish
  <2>1. device'.at # "rotate"
    BY <1>8 DEF Finish, Goto, TypeOK
  <2>2. CASE Mine \in Existing
    BY <1>8, <2>1, <2>2, <1>a, <1>c, <1>d DEF Finish, Causes, Rotations
  <2>3. CASE Mine \notin Existing
    BY <1>8, <2>1, <2>3, <1>b, <1>c DEF Finish
  <2> QED BY <2>2, <2>3
<1>9. ASSUME NEW w \in Sweepers, EndStale(w) \/ SweepFails(w)
      PROVE  (\A t \in Sessions : Fits(t)') /\ OnlyRotationsRestart'
  BY <1>9, <1>b, <1>c DEF EndStale, SweepFails
<1>10. ASSUME NEW w \in Sweepers, Rotate(w)
       PROVE  (\A t \in Sessions : Fits(t)') /\ OnlyRotationsRestart'
  <2>1. /\ sweep[w].stale \union Overdue(w) \subseteq Open
        /\ sweep[w].stale \intersect Overdue(w) = {}
    BY <1>0 DEF LockedStaysStale, Overdue
  <2>2. \A t \in Sessions : Fits(t)'
    BY <1>0, <1>10, <2>1, RotateEffect DEF Open, Rotations
  <2>3. \A t \in Sessions : cause[t] \in Rotations => cause'[t] = cause[t]
    BY <1>0, <1>10, <2>1, RotateEffect DEF Open, Rotations
  <2> QED BY <1>10, <2>2, <2>3, <1>c DEF Rotate
<1>11. CASE Tick
  <2>1. \A s \in Sessions : /\ row'[s].state = row[s].state
                            /\ row'[s].rotated <=> row[s].rotated
    BY <1>11 DEF Tick, TypeOK, RowType
  <2>2. device'.at = device.at /\ device'.session = device.session /\ UNCHANGED cause
    BY <1>11 DEF Tick, TypeOK
  <2> QED BY <1>0, <2>1, <2>2, <1>b DEF OnlyRotationsRestart, Mine
<1>12. CASE (\E o \in Offsets : Instant(o)) \/ ChangeClocks
  <2>1. /\ \A s \in Sessions : /\ row'[s].state = row[s].state
                               /\ row'[s].rotated <=> row[s].rotated
        /\ UNCHANGED <<cause, device>>
    BY <1>12, InstantEffect DEF ChangeClocks
  <2> QED BY <2>1, <1>b, <1>c
<1> QED
  BY <1>1, <1>2, <1>3, <1>4, <1>5, <1>6, <1>7, <1>8, <1>9, <1>10, <1>11, <1>12
     DEF Next, Handler, Sweep

\* Nobody but its sweep touches a locked row, and time only makes it staler.
LEMMA LockStep ==
  ASSUME TypeOK, TypeOK', SessionsInv, Next
  PROVE  LockedStaysStale'
<1>0. /\ LockedStaysStale /\ Mine \in Sessions
      /\ \A s \in Locked : s \in Sessions /\ row[s].state = "open" /\ row[s].age > Stale
      /\ Stale \in Nat
  BY RecordingSessionsAssumption
     DEF SessionsInv, LockedStaysStale, TypeOK, Mine, Locked, Open
<1>a. ASSUME UNCHANGED sweep,
             \A s \in Locked : row'[s].state = "open" /\ row'[s].age >= row[s].age
      PROVE  LockedStaysStale'
  <2>1. \A s \in Locked : s \in Open' /\ row'[s].age > Stale
    BY <1>0, <1>a DEF Open, TypeOK, RowType
  <2>2. \A w \in Sweepers : sweep[w].stale \subseteq Locked
    BY DEF Locked
  <2> QED BY <1>0, <1>a, <2>1, <2>2 DEF LockedStaysStale
<1>b. ASSUME UNCHANGED sweep, \A s \in Locked : row'[s] = row[s]
      PROVE  LockedStaysStale'
  BY <1>0, <1>a, <1>b DEF TypeOK, RowType
<1>c. ASSUME NEW S, NEW why, Ended(S, why), S \intersect Locked = {}, UNCHANGED sweep
      PROVE  LockedStaysStale'
  BY <1>0, <1>b, <1>c, EndedEffect
<1>1. ASSUME NEW s \in Sessions, Create(s) PROVE LockedStaysStale'
  BY <1>0, <1>1, <1>b DEF Create, TypeOK
<1>2. ASSUME NEW s \in Sessions, End(s) PROVE LockedStaysStale'
  BY <1>2, <1>c DEF End
<1>3. ASSUME NEW s \in Sessions, Delete(s) PROVE LockedStaysStale'
  BY <1>0, <1>3, <1>b DEF Delete, TypeOK
<1>4. ASSUME NEW S \in SUBSET Sessions, Split(S) PROVE LockedStaysStale'
  BY <1>4, <1>c DEF Split
<1>5. CASE Attach \/ Insert \/ Check \/ Teardown \/ Chunk \/ Disconnect
  BY <1>5, <1>b DEF Attach, Insert, Check, Teardown, Chunk, Disconnect
<1>6. CASE Touch
  BY <1>0, <1>6, <1>b DEF Touch, TypeOK
<1>7. CASE Finish
  <2>1. {Mine} \intersect Locked = {}
    BY <1>7 DEF Finish
  <2> QED BY <1>7, <2>1, <1>b, <1>c DEF Finish
<1>8. ASSUME NEW w \in Sweepers, EndStale(w) PROVE LockedStaysStale'
  <2> DEFINE abandoned == {s \in Open : row[s].age > Stale}
  <2>1. /\ abandoned \intersect Locked = {} /\ UNCHANGED row
        /\ sweep' = [sweep EXCEPT ![w] = [at |-> "rotate", stale |-> abandoned]]
    BY <1>8 DEF EndStale
  <2>2. /\ sweep'[w].stale = abandoned /\ sweep'[w].at = "rotate"
        /\ \A v \in Sweepers \ {w} : sweep'[v] = sweep[v]
    BY <2>1 DEF TypeOK
  <2>3. \A v \in Sweepers \ {w} : sweep[v].stale \intersect abandoned = {}
    BY <2>1 DEF Locked
  <2>4. /\ Open' = Open
        /\ \A s \in abandoned : s \in Open /\ row[s].age > Stale
    BY <2>1 DEF Open
  <2> HIDE DEF abandoned
  <2> QED BY <1>0, <2>1, <2>2, <2>3, <2>4 DEF LockedStaysStale
<1>9. ASSUME NEW w \in Sweepers, sweep' = [sweep EXCEPT ![w] = Asleep],
             \A v \in Sweepers \ {w} : \A s \in sweep[v].stale : row'[s] = row[s]
      PROVE  LockedStaysStale'
  <2>1. /\ sweep'[w].stale = {} /\ \A v \in Sweepers \ {w} : sweep'[v] = sweep[v]
    BY <1>9 DEF TypeOK, Asleep
  <2>2. \A v \in Sweepers \ {w} : \A s \in sweep[v].stale : s \in Open' /\ row'[s].age > Stale
    BY <1>0, <1>9 DEF LockedStaysStale, Open
  <2> QED BY <1>0, <2>1, <2>2 DEF LockedStaysStale
<1>10. ASSUME NEW w \in Sweepers, Rotate(w) PROVE LockedStaysStale'
  <2>1. \A v \in Sweepers \ {w} : \A s \in sweep[v].stale :
          s \in Sessions \ (sweep[w].stale \union Overdue(w))
    BY <1>0, <1>10, RotateEffect DEF LockedStaysStale, Locked, TypeOK
  <2>2. \A v \in Sweepers \ {w} : \A s \in sweep[v].stale : row'[s] = row[s]
    BY <1>10, <2>1, RotateEffect
  <2> QED BY <1>9, <1>10, <2>2 DEF Rotate
<1>11. ASSUME NEW w \in Sweepers, SweepFails(w) PROVE LockedStaysStale'
  BY <1>9, <1>11 DEF SweepFails
<1>12. CASE Tick
  <2>1. \A s \in Sessions : row'[s].state = row[s].state /\ row'[s].age >= row[s].age
    BY <1>12, OlderType DEF Tick, TypeOK, RowType
  <2> QED BY <1>0, <1>12, <2>1, <1>a DEF Tick
<1>13. CASE (\E o \in Offsets : Instant(o)) \/ ChangeClocks
  <2>1. /\ \A s \in Sessions : row'[s].state = row[s].state /\ row'[s].age = row[s].age
        /\ UNCHANGED sweep
    BY <1>13, InstantEffect DEF ChangeClocks
  <2> QED BY <1>0, <1>a, <2>1 DEF TypeOK, RowType
<1> QED
  BY <1>1, <1>2, <1>3, <1>4, <1>5, <1>6, <1>7, <1>8, <1>10, <1>11, <1>12, <1>13
     DEF Next, Handler, Sweep

\* Whatever makes a session's silence short makes its row young, or found it
\* young a transaction ago.
LEMMA AgeStep ==
  ASSUME TypeOK, TypeOK', SessionsInv, Next
  PROVE  AgeFollowsSilence'
<1> DEFINE Young(s) == row[s].state = "open" => row[s].age <= silence[s] + Heartbeat + Wait
<1>0. /\ \A s \in Sessions : Young(s)
      /\ device.at = "inserting" /\ row[Mine].state = "open"
           => row[Mine].age <= Heartbeat + device.late
      /\ Mine \in Sessions /\ device.late \in 0..Wait
      /\ Heartbeat \in Nat /\ Wait \in Nat
      /\ \A s \in Sessions : row[s].age \in Nat /\ silence[s] \in Nat /\ silence[s] <= Ancient
  BY RecordingSessionsAssumption, OlderType
     DEF SessionsInv, AgeFollowsSilence, TypeOK, RowType, Mine, Open
<1>1. SUFFICES /\ \A s \in Sessions : Young(s)'
               /\ device'.at = "inserting" /\ row'[Mine'].state = "open"
                    => row'[Mine'].age <= Heartbeat + device'.late
  BY DEF AgeFollowsSilence, Open, TypeOK
<1> DEFINE Goal == /\ \A s \in Sessions : Young(s)'
                   /\ device'.at = "inserting" /\ row'[Mine'].state = "open"
                        => row'[Mine'].age <= Heartbeat + device'.late
<1>a. ASSUME UNCHANGED silence,
             \A s \in Sessions : row'[s].state = "open" => /\ row[s].state = "open"
                                                           /\ row'[s].age = row[s].age,
             device'.at = "inserting" => UNCHANGED device
      PROVE  Goal
  BY <1>0, <1>a DEF Mine
<1>b. ASSUME NEW S, NEW why, Ended(S, why), UNCHANGED silence,
             device'.at = "inserting" => UNCHANGED device
      PROVE  Goal
  <2>1. \A s \in Sessions : row'[s].state = "open" => /\ row[s].state = "open"
                                                      /\ row'[s].age = row[s].age
    BY <1>b, EndedEffect
  <2> QED BY <1>a, <1>b, <2>1
<1>2. ASSUME NEW s \in Sessions, Create(s) PROVE Goal
  <2>1. /\ row'[s].age = 0 /\ silence'[s] = 0 /\ device'.at = "connecting"
        /\ \A t \in Sessions \ {s} : row'[t] = row[t] /\ silence'[t] = silence[t]
    BY <1>2 DEF Create, TypeOK
  <2> QED BY <1>0, <2>1
<1>3. ASSUME NEW s \in Sessions, End(s) PROVE Goal
  BY <1>3, <1>b DEF End
<1>4. ASSUME NEW s \in Sessions, Delete(s) PROVE Goal
  <2>1. \A t \in Sessions : row'[t].state = "open" => /\ row[t].state = "open"
                                                      /\ row'[t].age = row[t].age
    BY <1>4 DEF Delete, TypeOK, RowType
  <2> QED BY <1>4, <2>1, <1>a DEF Delete
<1>5. ASSUME NEW S \in SUBSET Sessions, Split(S) PROVE Goal
  BY <1>5, <1>b DEF Split
<1>6. CASE Attach \/ Check \/ Teardown \/ Disconnect
  <2>1. UNCHANGED <<row, silence>>
    BY <1>6 DEF Attach, Check, Teardown, Disconnect
  <2>2. PICK where \in {"attaching", "stopped", "ending", "rotate", "connecting", "lost"} :
          Goto(where)
    BY <1>6 DEF Attach, Check, Teardown, Disconnect
  <2>3. device'.at # "inserting"
    BY <2>2 DEF Goto, TypeOK
  <2> QED BY <2>1, <2>3, <1>a
<1>7. CASE Chunk
  <2>1. /\ UNCHANGED <<row, silence>>
        /\ device'.session = device.session /\ device'.late = 0
        /\ device'.at = "inserting" => ~Aged(Mine)
    BY <1>7 DEF Chunk, Goto, TypeOK
  <2> QED BY <1>0, <2>1 DEF Aged, Mine
<1>8. CASE Touch
  <2>1. /\ \A s \in Sessions \ {Mine} : row'[s] = row[s] /\ silence'[s] = silence[s]
        /\ silence'[Mine] = 0 /\ row'[Mine].state = row[Mine].state
        /\ row[Mine].state = "open" => row'[Mine].age = device.late
        /\ device'.session = device.session /\ device'.late = device.late
    BY <1>0, <1>8 DEF Touch, TypeOK, RowType, Open
  <2> QED BY <1>0, <2>1 DEF Mine
<1>9. CASE Insert
  <2>1. /\ UNCHANGED row /\ device'.at # "inserting" /\ device.at = "inserting"
        /\ \A s \in Sessions \ {Mine} : silence'[s] = silence[s]
        /\ silence'[Mine] = 0
    BY <1>0, <1>9 DEF Insert, Goto, TypeOK
  <2> QED BY <1>0, <2>1
<1>10. CASE Finish
  <2>1. device'.at # "inserting" /\ UNCHANGED silence
    BY <1>10 DEF Finish, Goto, TypeOK
  <2> QED BY <1>10, <2>1, <1>a, <1>b DEF Finish
<1>11. ASSUME NEW w \in Sweepers, EndStale(w) \/ SweepFails(w) PROVE Goal
  BY <1>11, <1>a DEF EndStale, SweepFails
<1>12. ASSUME NEW w \in Sweepers, Rotate(w) PROVE Goal
  <2>1. \A s \in Sessions : row'[s].state = "open" => /\ row[s].state = "open"
                                                      /\ row'[s].age = row[s].age
    BY <1>12, RotateEffect
  <2> QED BY <1>12, <2>1, <1>a DEF Rotate
<1>13. CASE Tick
  <2>1. /\ device'.session = device.session /\ device'.at = device.at
        /\ device.at = "inserting" => device'.late = device.late + 1
    BY <1>13 DEF Tick, InTransaction, TypeOK
  <2>2. \A s \in Sessions : /\ row'[s].state = row[s].state
                            /\ row[s].state = "open" => /\ row'[s].age = Older(row[s].age)
                                                        /\ silence'[s] = Older(silence[s])
    BY <1>13 DEF Tick, TypeOK, RowType, Open
  <2>3. \A s \in Sessions : Young(s)'
    BY <1>0, <2>2, OlderType DEF Older
  <2>4. Mine' = Mine
    BY <2>1 DEF Mine
  <2> QED BY <1>0, <2>1, <2>2, <2>3, <2>4, OlderType
<1>14. CASE (\E o \in Offsets : Instant(o)) \/ ChangeClocks
  <2>1. /\ \A s \in Sessions : row'[s].state = row[s].state /\ row'[s].age = row[s].age
        /\ UNCHANGED <<device, silence>>
    BY <1>14, InstantEffect DEF ChangeClocks
  <2> QED BY <2>1, <1>a
<1> QED
  BY <1>2, <1>3, <1>4, <1>5, <1>6, <1>7, <1>8, <1>9, <1>10, <1>11, <1>12, <1>13, <1>14
     DEF Next, Handler, Sweep

\* What is due is spent, kept or dropped by everything but the clock: a session
\* split by the schedule was due.
LEMMA SpentStep ==
  ASSUME TypeOK, TypeOK', SessionsInv, UNCHANGED clock,
         \A s \in Sessions : \/ row'[s].due = {}
                             \/ row'[s].due = row[s].due /\ row'[s].state = row[s].state,
         \A s \in Sessions :
            cause'[s] = "schedule" => cause[s] = "schedule" \/ clock.offset \in row[s].due
  PROVE  InstantsAreSpent'
<1>1. InstantsAreSpent /\ clock.passed[clock.offset] + clock.back \in Nat
  BY DEF SessionsInv, TypeOK
<1>2. \A s \in Sessions : row'[s].due # {} => s \in Open'
  BY <1>1 DEF InstantsAreSpent, Open
<1>3. LatestIsDue'
  BY <1>1 DEF InstantsAreSpent, LatestIsDue
<1>4. Scheduled' \subseteq Scheduled /\ IsFiniteSet(Scheduled)
  BY RecordingSessionsAssumption, FS_Subset DEF Scheduled
<1>5. /\ Cardinality(Scheduled') <= Cardinality(Scheduled)
      /\ IsFiniteSet(Scheduled')
  BY <1>4, FS_Subset
<1>6. Cardinality(Scheduled') \in Nat /\ Cardinality(Scheduled) \in Nat
  BY <1>4, <1>5, FS_CardinalityType
<1>7. Cardinality(Scheduled') <= clock'.passed[clock'.offset] + clock'.back
  BY <1>1, <1>5, <1>6 DEF InstantsAreSpent
<1> QED BY <1>2, <1>3, <1>7 DEF InstantsAreSpent

\* One session at most is due, and so one at most becomes scheduled at once.
LEMMA OneMore ==
  ASSUME TypeOK, SessionsInv, UNCHANGED cause,
         \A s \in Sessions : row'[s].due # {} => s \in Open
  PROVE  /\ Cardinality(Scheduled) \in Nat /\ Cardinality(Scheduled') \in Nat
         /\ Cardinality(Scheduled') <= Cardinality(Scheduled) + 1
<1>0. Mine \in Sessions /\ IsFiniteSet(Scheduled)
  BY RecordingSessionsAssumption, FS_Subset DEF Scheduled, TypeOK, Mine
<1>1. Scheduled' \subseteq Scheduled \union {Mine}
  BY DEF Scheduled, SessionsInv, OneAtATime
<1>2. /\ IsFiniteSet(Scheduled \union {Mine})
      /\ Cardinality(Scheduled \union {Mine}) <= Cardinality(Scheduled) + 1
      /\ Cardinality(Scheduled \union {Mine}) \in Nat /\ Cardinality(Scheduled) \in Nat
  BY <1>0, FS_AddElement, FS_CardinalityType
<1>3. /\ Cardinality(Scheduled') <= Cardinality(Scheduled \union {Mine})
      /\ IsFiniteSet(Scheduled')
  BY <1>1, <1>2, FS_Subset
<1>4. Cardinality(Scheduled') \in Nat
  BY <1>3, FS_CardinalityType
<1> QED BY <1>2, <1>3, <1>4

\* Nothing becomes scheduled when what is due now was due before.
LEMMA NoMore ==
  ASSUME TypeOK, UNCHANGED cause,
         \A s \in Sessions : clock'.offset \in row'[s].due => clock.offset \in row[s].due
  PROVE  /\ Cardinality(Scheduled) \in Nat /\ Cardinality(Scheduled') \in Nat
         /\ Cardinality(Scheduled') <= Cardinality(Scheduled)
<1>1. Scheduled' \subseteq Scheduled /\ IsFiniteSet(Scheduled)
  BY RecordingSessionsAssumption, FS_Subset DEF Scheduled
<1>2. Cardinality(Scheduled') <= Cardinality(Scheduled) /\ IsFiniteSet(Scheduled')
  BY <1>1, FS_Subset
<1> QED BY <1>1, <1>2, FS_CardinalityType

\* An instant makes what is open due.
LEMMA InstantSpends ==
  ASSUME TypeOK, SessionsInv, NEW o \in Offsets, Instant(o)
  PROVE  InstantsAreSpent'
<1>0. /\ InstantsAreSpent /\ clock.offset \in Offsets /\ clock.back \in Nat
      /\ clock.passed \in [Offsets -> Nat]
  BY DEF SessionsInv, TypeOK
<1>1. /\ \A s \in Sessions :
           /\ row'[s].state = row[s].state
           /\ row'[s].due = IF s \in Open THEN row[s].due \union {o} ELSE {}
      /\ UNCHANGED cause
      /\ clock'.offset = clock.offset /\ clock'.back = clock.back
      /\ clock'.passed = [clock.passed EXCEPT ![o] = @ + 1]
  <2>1. clock' = [clock EXCEPT !.passed[o] = @ + 1]
    BY InstantEffect
  <2>2. /\ clock'.offset = clock.offset /\ clock'.back = clock.back
        /\ clock'.passed = [clock.passed EXCEPT ![o] = @ + 1]
    BY <2>1 DEF TypeOK
  <2> QED BY <2>2, InstantEffect
<1>2. \A s \in Sessions : row'[s].due # {} => s \in Open /\ s \in Open'
  BY <1>1 DEF Open
<1>3. LatestIsDue'
  <2>1. o = "summer" <=> clock.passed["summer"] = clock.passed["winter"]
    BY DEF Instant
  <2>2. CASE o = "summer"
    <3>1. \A s \in Sessions : row'[s].due # {} => "summer" \in row'[s].due
      BY <1>1, <1>2, <2>2
    <3>2. clock'.passed["summer"] = clock'.passed["winter"] + 1
      BY <1>0, <1>1, <2>1, <2>2 DEF Offsets
    <3> QED BY <3>1, <3>2 DEF LatestIsDue
  <2>3. CASE o = "winter"
    <3>1. \A s \in Sessions : row'[s].due # {} => "winter" \in row'[s].due
      BY <1>1, <1>2, <2>3
    <3>2. clock'.passed["summer"] = clock'.passed["winter"]
      <4>1. clock.passed["summer"] = clock.passed["winter"] + 1
        BY <1>0, <2>1, <2>3 DEF InstantsAreSpent, LatestIsDue
      <4> QED BY <1>0, <1>1, <2>3, <4>1 DEF Offsets
    <3> QED BY <3>1, <3>2 DEF LatestIsDue
  <2> QED BY <2>2, <2>3 DEF Offsets
<1>4. Cardinality(Scheduled') <= clock'.passed[clock'.offset] + clock'.back
  <2>1. CASE o = clock.offset
    <3>1. clock'.passed[clock'.offset] = clock.passed[clock.offset] + 1
      BY <1>0, <1>1, <2>1
    <3>2. Cardinality(Scheduled') <= Cardinality(Scheduled) + 1
      BY <1>1, <1>2, OneMore
    <3> QED BY <1>0, <1>1, <1>2, <3>1, <3>2, OneMore DEF InstantsAreSpent
  <2>2. CASE o # clock.offset
    <3>1. clock'.passed[clock'.offset] = clock.passed[clock.offset]
      BY <1>0, <1>1, <2>2
    <3>2. \A s \in Sessions : clock'.offset \in row'[s].due => clock.offset \in row[s].due
      BY <1>1, <2>2
    <3> QED BY <1>0, <1>1, <3>1, <3>2, NoMore DEF InstantsAreSpent
  <2> QED BY <2>1, <2>2
<1> QED BY <1>2, <1>3, <1>4 DEF InstantsAreSpent

\* When the clocks go back, what was rotated today may be due again, once; when
\* they go forward, nothing is that was not.
LEMMA ChangeSpends ==
  ASSUME TypeOK, SessionsInv, ChangeClocks
  PROVE  InstantsAreSpent'
<1>0. /\ InstantsAreSpent /\ LatestIsDue /\ clock.offset \in Offsets /\ clock.back \in Nat
      /\ clock.passed["summer"] \in Nat /\ clock.passed["winter"] \in Nat
  BY DEF SessionsInv, InstantsAreSpent, TypeOK, Offsets
<1>1. /\ UNCHANGED <<row, cause>> /\ clock'.passed = clock.passed
      /\ clock.offset = "summer" => clock'.offset = "winter" /\ clock'.back = clock.back + 1
      /\ clock.offset # "summer" => clock'.offset = "summer" /\ clock'.back = clock.back
  BY DEF ChangeClocks, TypeOK
<1>2. /\ \A s \in Sessions : row'[s].due # {} => s \in Open /\ s \in Open'
      /\ LatestIsDue'
  BY <1>0, <1>1 DEF InstantsAreSpent, LatestIsDue, Open
<1>3. /\ Cardinality(Scheduled) \in Nat /\ Cardinality(Scheduled') \in Nat
      /\ Cardinality(Scheduled') <= Cardinality(Scheduled) + 1
  BY <1>1, <1>2, OneMore
<1>4. Cardinality(Scheduled) <= clock.passed[clock.offset] + clock.back
  BY <1>0 DEF InstantsAreSpent
<1>5. Cardinality(Scheduled') <= clock'.passed[clock'.offset] + clock'.back
  <2>1. CASE /\ clock.offset = "summer"
             /\ clock.passed["summer"] = clock.passed["winter"]
    BY <1>0, <1>1, <1>3, <1>4, <2>1
  <2>2. CASE /\ clock.offset = "summer"
             /\ clock.passed["summer"] = clock.passed["winter"] + 1
             /\ \A s \in Sessions : "winter" \in row[s].due => "summer" \in row[s].due
    <3>1. Cardinality(Scheduled') <= Cardinality(Scheduled)
      BY <1>1, <2>2, NoMore
    <3> QED BY <1>0, <1>1, <1>3, <1>4, <2>2, <3>1
  <2>3. CASE /\ clock.offset = "winter"
             /\ clock.passed["summer"] = clock.passed["winter"]
             /\ \A s \in Sessions : "summer" \in row[s].due => "winter" \in row[s].due
    <3>1. Cardinality(Scheduled') <= Cardinality(Scheduled)
      BY <1>1, <2>3, NoMore
    <3> QED BY <1>0, <1>1, <1>3, <1>4, <2>3, <3>1
  <2>4. CASE /\ clock.offset = "winter"
             /\ clock.passed["summer"] = clock.passed["winter"] + 1
    BY <1>0, <1>1, <1>3, <1>4, <2>4
  <2> QED BY <1>0, <2>1, <2>2, <2>3, <2>4 DEF LatestIsDue, Offsets
<1> QED BY <1>2, <1>5 DEF InstantsAreSpent

LEMMA InstantStep ==
  ASSUME TypeOK, TypeOK', SessionsInv, Next
  PROVE  InstantsAreSpent'
<1>a. /\ \A s \in Sessions : row[s].due # {} => row[s].state = "open"
      /\ Mine \in Sessions
  BY DEF SessionsInv, InstantsAreSpent, Open, TypeOK, Mine
<1>c. ASSUME UNCHANGED clock, UNCHANGED cause,
             \A s \in Sessions : row'[s].state = row[s].state /\ row'[s].due = row[s].due
      PROVE  InstantsAreSpent'
  BY <1>c, SpentStep
<1>d. ASSUME NEW S, NEW why, Ended(S, why), why # "schedule", UNCHANGED clock
      PROVE  InstantsAreSpent'
  <2>1. \A s \in Sessions : \/ row'[s].due = {}
                            \/ row'[s].due = row[s].due /\ row'[s].state = row[s].state
    BY <1>d, EndedEffect
  <2>2. \A s \in Sessions : cause'[s] = "schedule" => cause[s] = "schedule"
    BY <1>d, EndedEffect
  <2> QED BY <1>d, <2>1, <2>2, SpentStep
<1>1. ASSUME NEW s \in Sessions, Create(s) PROVE InstantsAreSpent'
  <2>1. \A q \in Sessions : \/ row'[q].due = {}
                            \/ row'[q].due = row[q].due /\ row'[q].state = row[q].state
    BY <1>1 DEF Create, TypeOK
  <2> QED BY <1>1, <2>1, SpentStep DEF Create
<1>2. ASSUME NEW s \in Sessions, End(s) PROVE InstantsAreSpent'
  BY <1>2, <1>d DEF End
<1>3. ASSUME NEW s \in Sessions, Delete(s) PROVE InstantsAreSpent'
  <2>1. \A q \in Sessions : \/ row'[q].due = {}
                            \/ row'[q].due = row[q].due /\ row'[q].state = row[q].state
    BY <1>3 DEF Delete, TypeOK, RowType
  <2>2. \A q \in Sessions : cause'[q] = "schedule" => cause[q] = "schedule"
    BY <1>3 DEF Delete, TypeOK
  <2> QED BY <1>3, <2>1, <2>2, SpentStep DEF Delete
<1>4. ASSUME NEW S \in SUBSET Sessions, Split(S) PROVE InstantsAreSpent'
  BY <1>4, <1>d DEF Split
<1>5. CASE Attach \/ Insert \/ Check \/ Teardown \/ Chunk \/ Disconnect
  BY <1>5, <1>c DEF Attach, Insert, Check, Teardown, Chunk, Disconnect
<1>6. CASE Touch
  <2>1. \A s \in Sessions : row'[s].state = row[s].state /\ row'[s].due = row[s].due
    BY <1>6 DEF Touch, TypeOK, RowType
  <2> QED BY <1>6, <2>1, <1>c DEF Touch
<1>7. CASE Finish
  BY <1>7, <1>c, <1>d DEF Finish
<1>8. ASSUME NEW w \in Sweepers, EndStale(w) \/ SweepFails(w) PROVE InstantsAreSpent'
  BY <1>8, <1>c DEF EndStale, SweepFails
<1>9. ASSUME NEW w \in Sweepers, Rotate(w) PROVE InstantsAreSpent'
  <2>1. \A s \in Overdue(w) : clock.offset \in row[s].due
    BY DEF Overdue, StartedBefore
  <2>2. sweep[w].stale \subseteq Sessions /\ Overdue(w) \subseteq Sessions
    BY DEF TypeOK, Overdue, StartedBefore
  <2>3. \A s \in Sessions : \/ row'[s].due = {}
                            \/ row'[s].due = row[s].due /\ row'[s].state = row[s].state
    BY <1>9, RotateEffect
  <2>4. \A s \in Sessions :
           cause'[s] = "schedule" => cause[s] = "schedule" \/ clock.offset \in row[s].due
    BY <1>9, <2>1, RotateEffect
  <2> QED BY <1>9, <2>3, <2>4, SpentStep DEF Rotate
<1>10. CASE Tick
  <2>1. \A s \in Sessions : row'[s].state = row[s].state /\ row'[s].due = row[s].due
    BY <1>10 DEF Tick, TypeOK, RowType
  <2> QED BY <1>10, <2>1, <1>c DEF Tick
<1> QED
  BY <1>1, <1>2, <1>3, <1>4, <1>5, <1>6, <1>7, <1>8, <1>9, <1>10, InstantSpends,
     ChangeSpends DEF Next, Handler, Sweep

LEMMA SessionsStep == TypeOK /\ TypeOK' /\ SessionsInv /\ [Next]_vars => SessionsInv'
<1> SUFFICES ASSUME TypeOK, TypeOK', SessionsInv, [Next]_vars PROVE SessionsInv'
  OBVIOUS
<1>1. CASE Next
  BY <1>1, OneStep, FlagStep, LockStep, AgeStep, InstantStep DEF SessionsInv
<1>2. CASE UNCHANGED vars
  BY <1>2 DEF vars, SessionsInv, OneAtATime, FlagFollowsCause, OnlyRotationsRestart,
              LockedStaysStale, AgeFollowsSilence, InstantsAreSpent, Open, Mine,
              LatestIsDue, Scheduled
<1> QED BY <1>1, <1>2

----------------------------------------------------------------------------
(* The theorems.                                                           *)

\* The invariant holds: one session at a time, flags that follow causes,
\* locked rows that stay stale, rows no older than their silence, and instants
\* that are spent once, and once more for each time the clocks went back.
THEOREM SessionsHold == Spec => [](TypeOK /\ SessionsInv)
<1>1. Init => TypeOK /\ SessionsInv
  BY InitType, SessionsInit
<1>2. TypeOK /\ SessionsInv /\ [Next]_vars => (TypeOK /\ SessionsInv)'
  BY StepType, SessionsStep
<1> QED BY <1>1, <1>2, PTL DEF Spec

\* A device is told to record on only when a rotation ended its session.
THEOREM OnlyRotationsRestartDevices == Spec => []OnlyRotationsRestart
<1>1. SessionsInv => OnlyRotationsRestart
  BY DEF SessionsInv
<1> QED BY <1>1, SessionsHold, PTL

\* The daily rotation splits a device's recording once per instant of the offset
\* in force, and once more for each time the clocks went back.
THEOREM RotationsAreSpent == Spec => []RotatesOncePerInstant
<1>1. TypeOK /\ SessionsInv => RotatesOncePerInstant
  <2> SUFFICES ASSUME TypeOK, SessionsInv PROVE RotatesOncePerInstant
    OBVIOUS
  <2>1. SplitBySchedule \subseteq Scheduled /\ Scheduled \subseteq Sessions
    BY DEF Scheduled, SplitBySchedule
  <2>2. IsFiniteSet(Scheduled)
    BY <2>1, FS_Subset, RecordingSessionsAssumption
  <2>3. /\ Cardinality(SplitBySchedule) <= Cardinality(Scheduled)
        /\ IsFiniteSet(SplitBySchedule)
    BY <2>1, <2>2, FS_Subset
  <2>4. Cardinality(SplitBySchedule) \in Nat /\ Cardinality(Scheduled) \in Nat
    BY <2>2, <2>3, FS_CardinalityType
  <2>5. /\ Cardinality(Scheduled) <= clock.passed[clock.offset] + clock.back
        /\ clock.passed[clock.offset] + clock.back \in Nat
    BY DEF SessionsInv, InstantsAreSpent, TypeOK
  <2> QED BY <2>3, <2>4, <2>5 DEF RotatesOncePerInstant
<1> QED BY <1>1, SessionsHold, PTL

\* A sweep ends no session that has been in use within the stale window, less
\* a heartbeat and a wait.
THEOREM ActiveAreSpared == Spec => SweepSparesTheActive
<1> DEFINE Spared == \A s \in Sessions :
                       cause[s] = "none" /\ cause'[s] = "stale"
                         => silence[s] > Stale - Heartbeat - Wait
<1>1. TypeOK /\ SessionsInv /\ [Next]_vars => [Spared]_vars
  <2> SUFFICES ASSUME TypeOK, SessionsInv, Next, NEW s \in Sessions,
                      cause[s] = "none", cause'[s] = "stale"
               PROVE  silence[s] > Stale - Heartbeat - Wait
    OBVIOUS
  <2>1. PICK w \in Sweepers : Rotate(w)
    <3>1. ASSUME NEW S, NEW why, Ended(S, why), why # "stale" PROVE FALSE
      BY <3>1, EndedEffect
    <3> QED
      BY <3>1 DEF Next, Handler, Sweep, Create, Attach, Chunk, Touch, Insert, Check,
                  Teardown, Finish, Disconnect, End, Split, Delete, EndStale, SweepFails,
                  Tick, Instant, ChangeClocks, TypeOK
  <2>2. s \in sweep[w].stale
    BY <2>1, RotateEffect
  <2>3. s \in Open /\ row[s].age > Stale
    BY <2>2 DEF SessionsInv, LockedStaysStale
  <2>4. row[s].age <= silence[s] + Heartbeat + Wait
    BY <2>3 DEF SessionsInv, AgeFollowsSilence
  <2>5. /\ row[s].age \in Nat /\ silence[s] \in Nat
        /\ Stale \in Nat /\ Heartbeat \in Nat /\ Wait \in Nat
    BY RecordingSessionsAssumption, OlderType DEF TypeOK, RowType
  <2> QED BY <2>3, <2>4, <2>5
<1> QED BY <1>1, SessionsHold, PTL DEF Spec, SweepSparesTheActive

=============================================================================
