---------------------------- MODULE SegmentStore ----------------------------
(***************************************************************************)
(* services/segments.py: a session's segments live in two stores that      *)
(* share no transaction, a row in resource_segments and an object in the   *)
(* blob store.  Each request is one call of ingest_segment, stream_segment,*)
(* delete_segment or delete_session; its steps are the transactions and    *)
(* the blob calls it awaits, between which every other request may run,    *)
(* the process may die, and a call may fail - before or after it took      *)
(* effect.  One session is modelled: keys and rows name theirs, and no     *)
(* request reaches another's.                                              *)
(***************************************************************************)
EXTENDS Integers, FiniteSets

CONSTANTS
    Requests,
    Kind,        \* "ingest", "ingestAt", "stream", "deleteSegment", "deleteSession"
    Inline,      \* the requests whose resource stores its payload in the row
    At,          \* the sequence an ingestAt or stream request was given
    Retries,     \* _SEQUENCE_RETRIES
    DbFailures,  \* bound: transactions that fail and roll back
    LostReplies, \* bound: commits that land and are reported as failed
    BlobFaults,  \* bound: blob calls that raise
    Crashes      \* bound: requests whose process dies

Kinds == {"ingest", "ingestAt", "stream", "deleteSegment", "deleteSession"}

ASSUME SegmentStoreAssumption ==
    /\ Kind \in [Requests -> Kinds]
    /\ Inline \subseteq {r \in Requests : Kind[r] \in {"ingest", "ingestAt", "stream"}}
    /\ At \in [Requests -> Nat]
    /\ Retries \in Nat \ {0}
    /\ DbFailures \in Nat /\ LostReplies \in Nat
    /\ BlobFaults \in Nat /\ Crashes \in Nat

VARIABLES
    session,   \* recording_sessions: "open", "ended" or "gone"
    rows,      \* resource_segments of the session
    objects,   \* keys under the session's prefix
    pc,        \* where each request stands
    sequence,  \* the sequence it is ingesting at
    left,      \* attempts_left of its retry loop
    error,     \* what its failing attempt raised
    target,    \* the keys a delete has read and is about to remove
    budget,    \* what is left of the bounds on faults
    marred     \* history: keys a fault left to nobody

vars == <<session, rows, objects, pc, sequence, left, error, target, budget, marred>>

Ended == {"stored", "deleted", "failed", "crashed"}
Attempting == {"check", "row", "cleanup"}   \* its object may exist, its row not yet
Pc == {"start", "put", "unlink", "list", "purge"} \union Attempting \union Ended
Errors == {"none", "not_found", "session_ended", "duplicate", "fault"}

\* Variant: ids that do not tell attempts apart.
SharedId(r) == [of |-> CHOOSE q \in Requests : TRUE, left |-> 0]

\* uuid4(): fresh for every attempt of every request.
SegmentId(r) == [of |-> r, left |-> left[r]]

\* segment_key: the uuid keeps it unique when a sequence is reused.
SegmentKey(r) == [sequence |-> sequence[r], id |-> SegmentId(r)]

Row(r) == [sequence |-> sequence[r], id |-> SegmentId(r), inline |-> r \in Inline]
KeyOf(x) == [sequence |-> x.sequence, id |-> x.id]

\* COALESCE(MAX(sequence) + 1, 0)
NextCandidates == {0} \union {x.sequence + 1 : x \in rows}
IsNext(n) == \A x \in rows : x.sequence < n

Taken(n) == \E x \in rows : x.sequence = n

Entry(r) ==
    IF Kind[r] # "stream" THEN "start"
    ELSE IF r \in Inline THEN "check" ELSE "put"

Init ==
    /\ session = "open"
    /\ rows = {} /\ objects = {}
    /\ pc = [r \in Requests |-> Entry(r)]
    /\ sequence = At
    /\ left = [r \in Requests |-> Retries - 1]
    /\ error = [r \in Requests |-> "none"]
    /\ target = [r \in Requests |-> {}]
    /\ budget = [db |-> DbFailures, lost |-> LostReplies,
                 blob |-> BlobFaults, crash |-> Crashes]
    /\ marred = {}

----------------------------------------------------------------------------
Goto(r, where) == pc' = [pc EXCEPT ![r] = where]

\* Variant: the retry loop gives up one attempt early.
SettleEarly(r, e) ==
    IF e = "duplicate" /\ Kind[r] = "ingest" /\ left[r] > 1
    THEN Goto(r, "start") /\ left' = [left EXCEPT ![r] = @ - 1]
    ELSE Goto(r, "failed") /\ left' = left

\* An attempt ends with exception e: with an object to take back first, or
\* straight into ingest_segment's retry loop.
Settle(r, e) ==
    IF e = "duplicate" /\ Kind[r] = "ingest" /\ left[r] > 0
    THEN Goto(r, "start") /\ left' = [left EXCEPT ![r] = @ - 1]
    ELSE Goto(r, "failed") /\ left' = left

\* Variant: only unexpected errors are cleaned up after.
RaiseQuietly(r, e) ==
    /\ error' = [error EXCEPT ![r] = e]
    /\ IF r \in Inline \/ e = "duplicate"
       THEN Settle(r, e) ELSE Goto(r, "cleanup") /\ left' = left

Raise(r, e) ==
    /\ error' = [error EXCEPT ![r] = e]
    /\ IF r \in Inline THEN Settle(r, e) ELSE Goto(r, "cleanup") /\ left' = left

\* _ingest_once, first transaction: the session must exist, ended or not,
\* and an unsequenced segment takes the next number of this snapshot.
Read(r) ==
    /\ pc[r] = "start" /\ Kind[r] \in {"ingest", "ingestAt"}
    /\ \/ /\ session = "gone"
          /\ Goto(r, "failed")
          /\ error' = [error EXCEPT ![r] = "not_found"]
          /\ sequence' = sequence
       \/ /\ session # "gone"
          /\ Goto(r, IF r \in Inline THEN "row" ELSE "put")
          /\ \/ Kind[r] = "ingestAt" /\ sequence' = sequence
             \/ /\ Kind[r] = "ingest"
                /\ \E n \in NextCandidates :
                      IsNext(n) /\ sequence' = [sequence EXCEPT ![r] = n]
          /\ error' = error
    /\ UNCHANGED <<session, rows, objects, left, target, budget, marred>>

Put(r) ==
    /\ pc[r] = "put"
    /\ objects' = objects \union {SegmentKey(r)}
    /\ Goto(r, IF Kind[r] = "stream" THEN "check" ELSE "row")
    /\ UNCHANGED <<session, rows, sequence, left, error, target, budget, marred>>

\* blobs.put is outside the try: an upload that raises is not taken back,
\* though its bytes may have landed.
PutFails(r) ==
    /\ pc[r] = "put"
    /\ budget.blob > 0
    /\ budget' = [budget EXCEPT !.blob = @ - 1]
    /\ \/ UNCHANGED <<objects, marred>>
       \/ /\ objects' = objects \union {SegmentKey(r)}
          /\ marred' = marred \union {SegmentKey(r)}
    /\ error' = [error EXCEPT ![r] = "fault"]
    /\ Goto(r, "failed")
    /\ UNCHANGED <<session, rows, sequence, left, target>>

\* stream_segment's liveness check; the insert is a later statement, so a
\* session that ends in between still takes this chunk.
Check(r) ==
    /\ pc[r] = "check"
    /\ IF session = "open"
       THEN Goto(r, "row") /\ UNCHANGED <<error, left>>
       ELSE Raise(r, "session_ended")
    /\ UNCHANGED <<session, rows, objects, sequence, target, budget, marred>>

\* The insert and its commit: a foreign key on the session, a unique key on
\* the sequence.
InsertRow(r) ==
    /\ pc[r] = "row"
    /\ IF session = "gone" THEN Raise(r, "not_found") /\ rows' = rows
       ELSE IF Taken(sequence[r]) THEN Raise(r, "duplicate") /\ rows' = rows
       ELSE /\ rows' = rows \union {Row(r)}
            /\ Goto(r, "stored")
            /\ UNCHANGED <<error, left>>
    /\ UNCHANGED <<session, objects, sequence, target, budget, marred>>

\* The transaction fails, or its commit lands and only the reply is lost.
InsertFails(r) ==
    /\ pc[r] = "row"
    /\ \/ /\ budget.db > 0
          /\ budget' = [budget EXCEPT !.db = @ - 1]
          /\ rows' = rows
       \/ /\ budget.lost > 0
          /\ session # "gone" /\ ~Taken(sequence[r])
          /\ budget' = [budget EXCEPT !.lost = @ - 1]
          /\ rows' = rows \union {Row(r)}
    /\ Raise(r, "fault")
    /\ UNCHANGED <<session, objects, sequence, target, marred>>

\* except BaseException: blobs.delete(key), then the exception goes on.
Cleanup(r) ==
    /\ pc[r] = "cleanup"
    /\ objects' = objects \ {SegmentKey(r)}
    /\ Settle(r, error[r])
    /\ UNCHANGED <<session, rows, sequence, error, target, budget, marred>>

\* The blob store's own exception replaces the one being handled, so even a
\* duplicate is not retried.
CleanupFails(r) ==
    /\ pc[r] = "cleanup"
    /\ budget.blob > 0
    /\ budget' = [budget EXCEPT !.blob = @ - 1]
    /\ \/ objects' = objects
       \/ objects' = objects \ {SegmentKey(r)}
    /\ marred' = marred \union {SegmentKey(r)}
    /\ error' = [error EXCEPT ![r] = "fault"]
    /\ Goto(r, "failed")
    /\ UNCHANGED <<session, rows, sequence, left, target>>

----------------------------------------------------------------------------
\* delete_segment: the row, then its object.  An unknown id deletes nothing.
DeleteRow(r) ==
    /\ pc[r] = "start" /\ Kind[r] = "deleteSegment"
    /\ \/ /\ rows = {}
          /\ Goto(r, "deleted")
          /\ UNCHANGED <<rows, target>>
       \/ \E x \in rows :
             /\ rows' = rows \ {x}
             /\ IF x.inline
                THEN Goto(r, "deleted") /\ target' = target
                ELSE Goto(r, "unlink") /\ target' = [target EXCEPT ![r] = {KeyOf(x)}]
    /\ UNCHANGED <<session, objects, sequence, left, error, budget, marred>>

\* delete_session: the row and, by cascade, its segments; then the prefix.
DeleteSessionRow(r) ==
    /\ pc[r] = "start" /\ Kind[r] = "deleteSession"
    /\ IF session = "gone"
       THEN /\ Goto(r, "failed")
            /\ error' = [error EXCEPT ![r] = "not_found"]
            /\ UNCHANGED <<session, rows>>
       ELSE /\ Goto(r, "list")
            /\ session' = "gone" /\ rows' = {}
            /\ error' = error
    /\ UNCHANGED <<objects, sequence, left, target, budget, marred>>

\* The transaction of a delete, or the read of an ingest, fails; a delete's
\* commit may have landed, and then nobody removes its objects.
StartFails(r) ==
    /\ pc[r] = "start"
    /\ \/ /\ budget.db > 0
          /\ budget' = [budget EXCEPT !.db = @ - 1]
          /\ UNCHANGED <<session, rows, marred>>
       \/ /\ Kind[r] = "deleteSegment" /\ budget.lost > 0
          /\ budget' = [budget EXCEPT !.lost = @ - 1]
          /\ \E x \in rows : rows' = rows \ {x} /\ marred' = marred \union {KeyOf(x)}
          /\ session' = session
       \/ /\ Kind[r] = "deleteSession" /\ session # "gone" /\ budget.lost > 0
          /\ budget' = [budget EXCEPT !.lost = @ - 1]
          /\ session' = "gone" /\ rows' = {} /\ marred' = marred \union objects
    /\ error' = [error EXCEPT ![r] = "fault"]
    /\ Goto(r, "failed")
    /\ UNCHANGED <<objects, sequence, left, target>>

\* delete_prefix asks for the first page of keys under the prefix.
List(r) ==
    /\ pc[r] = "list"
    /\ target' = [target EXCEPT ![r] = objects]
    /\ Goto(r, "purge")
    /\ UNCHANGED <<session, rows, objects, sequence, left, error, budget, marred>>

\* It goes on from page to page, and deletes what it has seen batch by batch:
\* every key that was there at the first page, and of those put since then
\* some.
Batches(r) == SUBSET (target[r] \union objects)

PassOver(r, batch) ==
    /\ target' = [target EXCEPT ![r] = @ \ batch]
    /\ \/ Goto(r, "purge")
       \/ target[r] \subseteq batch /\ Goto(r, "deleted")

Purge(r) ==
    /\ pc[r] = "purge"
    /\ \E batch \in Batches(r) : objects' = objects \ batch /\ PassOver(r, batch)
    /\ UNCHANGED <<session, rows, sequence, left, error, budget, marred>>

\* delete_objects reports an error for each key that it could not delete, and
\* _delete_batch does not look: the call succeeds, and those objects stay.
PurgeSpares(r) ==
    /\ pc[r] = "purge"
    /\ budget.blob > 0
    /\ budget' = [budget EXCEPT !.blob = @ - 1]
    /\ \E batch \in Batches(r) : \E spared \in SUBSET batch :
          /\ objects' = objects \ (batch \ spared)
          /\ marred' = marred \union spared
          /\ PassOver(r, batch)
    /\ UNCHANGED <<session, rows, sequence, left, error>>

Unlink(r) ==
    /\ pc[r] = "unlink"
    /\ objects' = objects \ target[r]
    /\ Goto(r, "deleted")
    /\ UNCHANGED <<session, rows, sequence, left, error, target, budget, marred>>

\* The keys request r alone would still have taken care of.
Forsaken(r) ==
    IF pc[r] \in Attempting THEN {SegmentKey(r)}
    ELSE IF pc[r] = "list" THEN objects ELSE target[r]

\* Nobody comes back for the objects of rows that are already gone.
UnlinkFails(r) ==
    /\ pc[r] \in {"unlink", "list", "purge"}
    /\ budget.blob > 0
    /\ budget' = [budget EXCEPT !.blob = @ - 1]
    /\ marred' = marred \union Forsaken(r)
    /\ \/ pc[r] = "unlink" /\ \E done \in SUBSET target[r] : objects' = objects \ done
       \/ pc[r] = "list" /\ objects' = objects
       \/ pc[r] = "purge" /\ \E done \in Batches(r) : objects' = objects \ done
    /\ error' = [error EXCEPT ![r] = "fault"]
    /\ Goto(r, "failed")
    /\ UNCHANGED <<session, rows, sequence, left, target>>

----------------------------------------------------------------------------
\* The session ends: finish, the sweeper, a split.
EndSession ==
    /\ session = "open"
    /\ session' = "ended"
    /\ UNCHANGED <<rows, objects, pc, sequence, left, error, target, budget, marred>>

\* The process dies, or the request is cancelled beyond its own cleanup.  An
\* upload it had under way may still land.
Crash(r) ==
    /\ pc[r] \notin Ended
    /\ budget.crash > 0
    /\ budget' = [budget EXCEPT !.crash = @ - 1]
    /\ \/ /\ marred' = marred \union Forsaken(r)
          /\ objects' = objects
       \/ /\ pc[r] = "put"
          /\ marred' = marred \union {SegmentKey(r)}
          /\ objects' = objects \union {SegmentKey(r)}
    /\ Goto(r, "crashed")
    /\ UNCHANGED <<session, rows, sequence, left, error, target>>

Step(r) ==
    \/ Read(r) \/ Put(r) \/ Check(r) \/ InsertRow(r) \/ Cleanup(r)
    \/ DeleteRow(r) \/ DeleteSessionRow(r) \/ List(r) \/ Purge(r) \/ Unlink(r)

Fault(r) ==
    \/ PutFails(r) \/ InsertFails(r) \/ CleanupFails(r)
    \/ StartFails(r) \/ UnlinkFails(r) \/ PurgeSpares(r) \/ Crash(r)

\* Every request has returned to its caller: nothing is left to run.
Returned == (\A r \in Requests : pc[r] \in Ended) /\ UNCHANGED vars

Next ==
    \/ \E r \in Requests : Step(r) \/ Fault(r)
    \/ EndSession
    \/ Returned

Spec == Init /\ [][Next]_vars

----------------------------------------------------------------------------
(* Properties.                                                             *)

Ids == [of : Requests, left : 0..Retries]
Keys == [sequence : Nat, id : Ids]
RowType == [sequence : Nat, id : Ids, inline : BOOLEAN]

\* Every variable stays in the set of values the two stores and a request's
\* locals can hold.
TypeOK ==
    /\ session \in {"open", "ended", "gone"}
    /\ rows \subseteq RowType
    /\ objects \subseteq Keys
    /\ pc \in [Requests -> Pc]
    /\ sequence \in [Requests -> Nat]
    /\ left \in [Requests -> 0..Retries]
    /\ error \in [Requests -> Errors]
    /\ target \in [Requests -> SUBSET Keys]
    /\ budget \in [db : Nat, lost : Nat, blob : Nat, crash : Nat]
    /\ marred \subseteq Keys

\* A request whose insert was reported as failed.
Misreported(r) == error[r] = "fault" /\ pc[r] \in {"cleanup", "failed", "crashed"}

\* A row that points at the blob store finds its object there, whatever
\* uploads, cleanups, retries and deletions of other requests did meanwhile.
\* Only a row whose own commit was reported to its request as failed may
\* have lost it: that request's cleanup deletes the object it committed to,
\* where the comment at services/segments.py:151-152 expects an orphan.
RowHasObject ==
    \A x \in rows :
        x.inline \/ KeyOf(x) \in objects \/ Misreported(x.id.of)

\* No object is left behind: one that no row points at belongs to a request
\* that will still insert its row or remove it, or to one that a fault
\* prevented from doing so.
OrphanIsAccountedFor ==
    \A k \in objects :
        \/ \E x \in rows : KeyOf(x) = k
        \/ k \in marred
        \/ \E r \in Requests :
              \/ pc[r] \in Attempting /\ k = SegmentKey(r)
              \/ pc[r] \in {"unlink", "purge"} /\ k \in target[r]
              \/ pc[r] = "list"

\* What keeps the two stores together, step by step.
Committed(r) == pc[r] = "stored" \/ Misreported(r)

\* A row was committed by the last attempt of a request that is done with it.
RowsAreCommitted ==
    \A x \in rows : x = Row(x.id.of) /\ Committed(x.id.of)

\* An attempt whose insert may still succeed has its object.
AttemptHasObject ==
    \A r \in Requests :
        pc[r] \in {"check", "row"} /\ r \notin Inline
            => session = "gone" \/ SegmentKey(r) \in objects

\* A segment's delete only ever unlinks a key whose row is gone for good.
DoomedAreGone ==
    \A r \in Requests : pc[r] = "unlink" =>
        \A k \in target[r] : /\ k = SegmentKey(k.id.of)
                             /\ Committed(k.id.of)
                             /\ \A x \in rows : KeyOf(x) # k

\* Inline resources never touch the blob store, and a session's deletion
\* leaves no row.
PlacesOK ==
    /\ \A k \in objects : k.id.of \notin Inline
    /\ \A r \in Requests : pc[r] \in {"put", "cleanup"} => r \notin Inline
    /\ \A r \in Requests : pc[r] \in {"list", "purge"} => session = "gone"
    /\ session = "gone" => rows = {}

CustodyInv == RowsAreCommitted /\ AttemptHasObject /\ DoomedAreGone /\ PlacesOK

\* Requests that share a session settle their race for a sequence number:
\* an unsequenced ingest never fails for having lost it, whatever deletions
\* free numbers meanwhile, as long as no more requests insert than it has
\* attempts.
Inserting == {r \in Requests : Kind[r] \in {"ingest", "ingestAt", "stream"}}
RaceIsSettled ==
    IsFiniteSet(Inserting) /\ Cardinality(Inserting) <= Retries =>
        \A r \in Requests :
            Kind[r] = "ingest" /\ pc[r] = "failed" => error[r] # "duplicate"

\* What settles it: every attempt r lost was lost to a request of its own.
\* Those that have inserted for good, and of them the ones whose row, if it is
\* still there, r took the number after.
Landed(r) == {q \in Inserting \ {r} : Committed(q)}
Passed(r) ==
    {q \in Landed(r) : \A x \in rows : x.id.of = q => x.sequence < sequence[r]}

Lost(r) == Retries - 1 - left[r]

Charged(r) ==
    /\ pc[r] \notin {"check", "unlink", "list", "purge"}
    /\ pc[r] = "start" => Lost(r) <= Cardinality(Landed(r))
    /\ pc[r] \in {"put", "row"} => Lost(r) <= Cardinality(Passed(r))
    /\ pc[r] = "cleanup" /\ error[r] = "duplicate" => Lost(r) + 1 <= Cardinality(Landed(r))
    /\ pc[r] = "failed" /\ error[r] = "duplicate" => Retries <= Cardinality(Landed(r))

RaceInv == \A r \in Requests : Kind[r] = "ingest" => Charged(r)
=============================================================================
