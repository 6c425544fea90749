------------------------- MODULE SegmentStoreProofs -------------------------
(***************************************************************************)
(* Proofs about SegmentStore for every number of requests, retries and     *)
(* faults: type correctness, that a row keeps its object, that no object   *)
(* is left behind but by a fault, and that racers for a number settle.     *)
(***************************************************************************)
EXTENDS SegmentStore, FiniteSetTheorems, TLAPS

LEMMA InitType == Init => TypeOK
BY SegmentStoreAssumption
   DEF Init, TypeOK, Entry, Pc, Attempting, Ended, Errors

\* The key and the row of an attempt are well formed.
LEMMA AttemptType ==
  ASSUME TypeOK, NEW r \in Requests
  PROVE  /\ SegmentId(r) \in Ids /\ SegmentKey(r) \in Keys /\ Row(r) \in RowType
         /\ KeyOf(Row(r)) = SegmentKey(r)
<1>1. SegmentId(r) \in Ids
  BY DEF TypeOK, SegmentId, Ids
<1> QED BY <1>1 DEF TypeOK, SegmentKey, Keys, Row, RowType, KeyOf

LEMMA KeyOfType == \A x \in RowType : KeyOf(x) \in Keys
BY DEF RowType, KeyOf, Keys

\* An attempt that ends leaves its request in the table of states.
LEMMA RaiseType ==
  ASSUME TypeOK, NEW r \in Requests, NEW e \in Errors
  PROVE  /\ Settle(r, e) => /\ pc' \in [Requests -> Pc]
                            /\ left' \in [Requests -> 0..Retries]
         /\ Raise(r, e) => /\ pc' \in [Requests -> Pc]
                           /\ left' \in [Requests -> 0..Retries]
                           /\ error' \in [Requests -> Errors]
<1>1. Settle(r, e) => /\ pc' \in [Requests -> Pc]
                      /\ left' \in [Requests -> 0..Retries]
  <2>1. ASSUME left[r] > 0 PROVE left[r] - 1 \in 0..Retries
    BY <2>1, SegmentStoreAssumption DEF TypeOK
  <2> QED BY <2>1 DEF Settle, Goto, TypeOK, Pc, Attempting, Ended
<1>2. ASSUME Raise(r, e)
      PROVE  /\ pc' \in [Requests -> Pc] /\ left' \in [Requests -> 0..Retries]
             /\ error' \in [Requests -> Errors]
  BY <1>1, <1>2 DEF Raise, Goto, TypeOK, Pc, Attempting
<1> QED BY <1>1, <1>2

\* Every step keeps the types: one case per action.
LEMMA StepType == TypeOK /\ [Next]_vars => TypeOK'
<1> SUFFICES ASSUME TypeOK, [Next]_vars PROVE TypeOK'
  OBVIOUS
<1>0. /\ {"none", "not_found", "session_ended", "duplicate", "fault"} \subseteq Errors
      /\ \A r \in Requests : SegmentKey(r) \in Keys /\ Row(r) \in RowType
      /\ \A x \in rows : KeyOf(x) \in Keys
  BY AttemptType, KeyOfType DEF Errors, TypeOK
<1>1. ASSUME NEW r \in Requests, Read(r) PROVE TypeOK'
  <2>1. NextCandidates \subseteq Nat
    BY DEF NextCandidates, TypeOK, RowType
  <2>2. sequence' \in [Requests -> Nat]
    BY <1>1, <2>1 DEF Read, TypeOK
  <2> QED BY <1>1, <2>2 DEF Read, Goto, TypeOK, Pc, Attempting, Ended, Errors
<1>2. ASSUME NEW r \in Requests, Put(r) PROVE TypeOK'
  BY <1>2, <1>0 DEF Put, Goto, TypeOK, Pc, Attempting, Ended
<1>3. ASSUME NEW r \in Requests, PutFails(r) PROVE TypeOK'
  <2>1. budget' \in [db : Nat, lost : Nat, blob : Nat, crash : Nat]
    BY <1>3 DEF PutFails, TypeOK
  <2> QED BY <1>3, <1>0, <2>1 DEF PutFails, Goto, TypeOK, Pc, Ended, Errors
<1>4. ASSUME NEW r \in Requests, Check(r) PROVE TypeOK'
  BY <1>4, <1>0, RaiseType DEF Check, Goto, TypeOK, Pc, Attempting
<1>5. ASSUME NEW r \in Requests, InsertRow(r) PROVE TypeOK'
  BY <1>5, <1>0, RaiseType DEF InsertRow, Goto, TypeOK, Pc, Ended
<1>6. ASSUME NEW r \in Requests, InsertFails(r) PROVE TypeOK'
  <2>1. budget' \in [db : Nat, lost : Nat, blob : Nat, crash : Nat]
    BY <1>6 DEF InsertFails, TypeOK
  <2>2. rows' \subseteq RowType
    BY <1>6, <1>0 DEF InsertFails, TypeOK
  <2> QED BY <1>6, <1>0, <2>1, <2>2, RaiseType DEF InsertFails, TypeOK
<1>7. ASSUME NEW r \in Requests, Cleanup(r) PROVE TypeOK'
  <2>1. error[r] \in Errors
    BY DEF TypeOK
  <2> QED BY <1>7, <2>1, RaiseType DEF Cleanup, TypeOK
<1>8. ASSUME NEW r \in Requests, CleanupFails(r) PROVE TypeOK'
  <2>1. budget' \in [db : Nat, lost : Nat, blob : Nat, crash : Nat]
    BY <1>8 DEF CleanupFails, TypeOK
  <2> QED BY <1>8, <1>0, <2>1 DEF CleanupFails, Goto, TypeOK, Pc, Ended, Errors
<1>9. ASSUME NEW r \in Requests, DeleteRow(r) PROVE TypeOK'
  BY <1>9, <1>0 DEF DeleteRow, Goto, TypeOK, Pc, Ended
<1>10. ASSUME NEW r \in Requests, DeleteSessionRow(r) PROVE TypeOK'
  BY <1>10 DEF DeleteSessionRow, Goto, TypeOK, Pc, Ended, Errors
<1>11. ASSUME NEW r \in Requests, StartFails(r) PROVE TypeOK'
  <2>1. budget' \in [db : Nat, lost : Nat, blob : Nat, crash : Nat]
    BY <1>11 DEF StartFails, TypeOK
  <2>2. /\ session' \in {"open", "ended", "gone"} /\ rows' \subseteq RowType
        /\ marred' \subseteq Keys
    BY <1>11, <1>0 DEF StartFails, TypeOK
  <2> QED BY <1>11, <2>1, <2>2 DEF StartFails, Goto, TypeOK, Pc, Ended, Errors
<1>12. ASSUME NEW r \in Requests, List(r) PROVE TypeOK'
  BY <1>12 DEF List, Goto, TypeOK, Pc
<1>13. ASSUME NEW r \in Requests, Unlink(r) PROVE TypeOK'
  BY <1>13 DEF Unlink, Goto, TypeOK, Pc, Ended
<1>14. \A r \in Requests : Forsaken(r) \subseteq Keys
  BY <1>0 DEF Forsaken, TypeOK
<1>15. ASSUME NEW r \in Requests, UnlinkFails(r) PROVE TypeOK'
  <2>1. budget' \in [db : Nat, lost : Nat, blob : Nat, crash : Nat]
    BY <1>15 DEF UnlinkFails, TypeOK
  <2> QED BY <1>15, <1>14, <2>1 DEF UnlinkFails, Goto, TypeOK, Pc, Ended, Errors
<1>16. ASSUME NEW r \in Requests, Crash(r) PROVE TypeOK'
  <2>1. budget' \in [db : Nat, lost : Nat, blob : Nat, crash : Nat]
    BY <1>16 DEF Crash, TypeOK
  <2> QED BY <1>16, <1>0, <1>14, <2>1 DEF Crash, Goto, TypeOK, Pc, Ended
<1>19. ASSUME NEW r \in Requests, Purge(r) \/ PurgeSpares(r) PROVE TypeOK'
  <2>1. Batches(r) \subseteq SUBSET Keys
    BY DEF Batches, TypeOK
  <2>2. budget' \in [db : Nat, lost : Nat, blob : Nat, crash : Nat]
    BY <1>19 DEF Purge, PurgeSpares, TypeOK
  <2>3. PICK batch \in Batches(r) : PassOver(r, batch)
    BY <1>19 DEF Purge, PurgeSpares
  <2>4. pc' \in [Requests -> Pc] /\ target' \in [Requests -> SUBSET Keys]
    BY <2>3 DEF PassOver, Goto, TypeOK, Pc, Ended
  <2>5. objects' \subseteq Keys /\ marred' \subseteq Keys
    BY <1>19, <2>1 DEF Purge, PurgeSpares, TypeOK
  <2> QED BY <1>19, <2>2, <2>4, <2>5 DEF Purge, PurgeSpares, TypeOK
<1>17. CASE EndSession
  BY <1>17 DEF EndSession, TypeOK
<1>18. CASE Returned \/ UNCHANGED vars
  BY <1>18 DEF Returned, vars, TypeOK
<1> QED
  BY <1>1, <1>2, <1>3, <1>4, <1>5, <1>6, <1>7, <1>8, <1>9, <1>10, <1>11, <1>12,
     <1>13, <1>15, <1>16, <1>17, <1>18, <1>19 DEF Next, Step, Fault

\* Both stores and every request's locals keep their types.
THEOREM TypeCorrect == Spec => []TypeOK
<1>1. QED BY InitType, StepType, PTL DEF Spec

----------------------------------------------------------------------------
(* The two stores.                                                         *)

StoreInv == CustodyInv /\ RowHasObject /\ OrphanIsAccountedFor

LEMMA StoreInit == Init => StoreInv
<1> SUFFICES ASSUME Init PROVE StoreInv
  OBVIOUS
<1>1. CustodyInv
  BY SegmentStoreAssumption
     DEF Init, Entry, CustodyInv, RowsAreCommitted, AttemptHasObject, DoomedAreGone, PlacesOK
<1>2. RowHasObject /\ OrphanIsAccountedFor
  BY DEF Init, RowHasObject, OrphanIsAccountedFor
<1> QED BY <1>1, <1>2 DEF StoreInv

\* A step of r leaves every other request's attempt as it was.
Untouched(q) ==
    /\ pc'[q] = pc[q] /\ sequence'[q] = sequence[q] /\ left'[q] = left[q]
    /\ error'[q] = error[q] /\ target'[q] = target[q]

LEMMA UntouchedAttempt ==
  ASSUME NEW q \in Requests, Untouched(q)
  PROVE  /\ SegmentKey(q)' = SegmentKey(q) /\ Row(q)' = Row(q)
         /\ Committed(q)' <=> Committed(q)
         /\ Misreported(q)' <=> Misreported(q)
BY DEF Untouched, SegmentKey, SegmentId, Row, Committed, Misreported

\* Two requests never share a key.
LEMMA KeyIsOwn ==
  /\ \A r \in Requests : SegmentKey(r).id.of = r /\ Row(r).id.of = r
                         /\ KeyOf(Row(r)) = SegmentKey(r)
                         /\ Row(r).inline = (r \in Inline)
  /\ \A x \in RowType : KeyOf(x).id = x.id
BY DEF SegmentKey, SegmentId, Row, KeyOf, RowType

LEMMA InvParts ==
  StoreInv <=> /\ RowsAreCommitted /\ AttemptHasObject /\ DoomedAreGone /\ PlacesOK
               /\ RowHasObject /\ OrphanIsAccountedFor
BY DEF StoreInv, CustodyInv

LEMMA Owners ==
  ASSUME TypeOK
  PROVE  /\ \A x \in rows : x \in RowType /\ x.id.of \in Requests
         /\ \A k \in objects : k.id.of \in Requests
         /\ \A q \in Requests : \A k \in target[q] : k.id.of \in Requests
BY DEF TypeOK, RowType, Keys, Ids

\* A step of an ingesting request that adds or removes at most the object of
\* its own attempt, and leaves an object only to a fault or to its next step,
\* keeps the stores together.
LEMMA AttemptMoves ==
  ASSUME TypeOK, StoreInv, NEW r \in Requests,
         \A q \in Requests \ {r} : Untouched(q),
         UNCHANGED <<rows, session, target>>, marred \subseteq marred',
         objects' \subseteq objects \union {SegmentKey(r)},
         objects \ {SegmentKey(r)} \subseteq objects',
         r \in Inline => objects' = objects,
         Committed(r) => /\ Misreported(r)' /\ Committed(r)'
                         /\ Row(r)' = Row(r) /\ SegmentKey(r)' = SegmentKey(r),
         pc[r] \notin {"unlink", "list", "purge"},
         pc'[r] \notin {"unlink", "list", "purge"},
         pc'[r] \in {"put", "cleanup"} => r \notin Inline,
         pc'[r] \in {"check", "row"} /\ r \notin Inline
             => session = "gone" \/ SegmentKey(r)' \in objects',
         SegmentKey(r) \in objects' =>
             \/ SegmentKey(r) \in objects /\ pc[r] \notin Attempting
             \/ SegmentKey(r) \in marred'
             \/ pc'[r] \in Attempting /\ SegmentKey(r)' = SegmentKey(r)
             \/ r \in Inline
  PROVE  StoreInv'
<1>1. \A q \in Requests \ {r} :
         /\ SegmentKey(q)' = SegmentKey(q) /\ Row(q)' = Row(q) /\ pc'[q] = pc[q]
         /\ Committed(q)' <=> Committed(q)
         /\ Misreported(q)' <=> Misreported(q)
  BY UntouchedAttempt DEF Untouched
<1>a. /\ RowsAreCommitted /\ AttemptHasObject /\ DoomedAreGone /\ PlacesOK
      /\ RowHasObject /\ OrphanIsAccountedFor
  BY InvParts
<1>2. RowsAreCommitted'
  BY <1>1, <1>a, Owners DEF RowsAreCommitted
<1>3. AttemptHasObject'
  <2>1. \A q \in Requests \ {r} : SegmentKey(q) # SegmentKey(r)
    BY KeyIsOwn
  <2> QED BY <1>1, <1>a, <2>1 DEF AttemptHasObject
<1>4. DoomedAreGone'
  BY <1>1, <1>a, Owners DEF DoomedAreGone
<1>5. PlacesOK'
  BY <1>1, <1>a, KeyIsOwn DEF PlacesOK
<1>6. RowHasObject'
  <2> SUFFICES ASSUME NEW x \in rows, ~x.inline, ~Misreported(x.id.of)'
               PROVE  KeyOf(x) \in objects'
    BY DEF RowHasObject
  <2>1. x.id.of \in Requests \ {r} /\ x = Row(x.id.of)
    BY <1>a, Owners DEF RowsAreCommitted
  <2>2. KeyOf(x) \in objects
    BY <1>1, <1>a, <2>1 DEF RowHasObject
  <2>3. KeyOf(x) # SegmentKey(r)
    BY <2>1, KeyIsOwn
  <2> QED BY <2>2, <2>3
<1>7. OrphanIsAccountedFor'
  <2> SUFFICES ASSUME NEW k \in objects', \A x \in rows : KeyOf(x) # k, k \notin marred'
               PROVE  \E q \in Requests :
                         \/ pc'[q] \in Attempting /\ k = SegmentKey(q)'
                         \/ pc'[q] \in {"unlink", "purge"} /\ k \in target'[q]
                         \/ pc'[q] = "list"
    BY DEF OrphanIsAccountedFor
  <2>1. CASE k # SegmentKey(r)
    <3>1. k \in objects /\ k \notin marred
      BY <2>1
    <3>2. PICK q \in Requests : \/ pc[q] \in Attempting /\ k = SegmentKey(q)
                                \/ pc[q] \in {"unlink", "purge"} /\ k \in target[q]
                                \/ pc[q] = "list"
      BY <1>a, <3>1 DEF OrphanIsAccountedFor
    <3>3. q # r
      BY <2>1, <3>2
    <3> QED BY <1>1, <3>2, <3>3
  <2>2. CASE k = SegmentKey(r) /\ k \in objects /\ pc[r] \notin Attempting
    <3>1. PICK q \in Requests : \/ pc[q] \in Attempting /\ k = SegmentKey(q)
                                \/ pc[q] \in {"unlink", "purge"} /\ k \in target[q]
                                \/ pc[q] = "list"
      BY <1>a, <2>2 DEF OrphanIsAccountedFor
    <3> QED BY <1>1, <2>2, <3>1
  <2>3. CASE k = SegmentKey(r) /\ r \in Inline
    BY <1>a, <2>3, KeyIsOwn DEF PlacesOK
  <2>4. CASE k = SegmentKey(r) /\ pc'[r] \in Attempting /\ SegmentKey(r)' = SegmentKey(r)
    BY <2>4
  <2> QED BY <2>1, <2>2, <2>3, <2>4
<1> QED BY <1>2, <1>3, <1>4, <1>5, <1>6, <1>7 DEF StoreInv, CustodyInv

\* A row that lands finds its object and is no delete's target.
LEMMA RowLands ==
  ASSUME TypeOK, StoreInv, NEW r \in Requests,
         \A q \in Requests \ {r} : Untouched(q),
         UNCHANGED <<session, objects, target, marred>>,
         pc[r] = "row", session # "gone", rows' = rows \union {Row(r)},
         Row(r)' = Row(r), SegmentKey(r)' = SegmentKey(r), Committed(r)',
         pc'[r] \in {"stored", "failed", "cleanup"},
         pc'[r] = "cleanup" => r \notin Inline
  PROVE  StoreInv'
<1>1. \A q \in Requests \ {r} :
         /\ SegmentKey(q)' = SegmentKey(q) /\ Row(q)' = Row(q) /\ pc'[q] = pc[q]
         /\ Committed(q)' <=> Committed(q)
         /\ Misreported(q)' <=> Misreported(q)
  BY UntouchedAttempt DEF Untouched
<1>a. /\ RowsAreCommitted /\ AttemptHasObject /\ DoomedAreGone /\ PlacesOK
      /\ RowHasObject /\ OrphanIsAccountedFor
  BY InvParts
<1>b. ~Committed(r) /\ ~Misreported(r) /\ Row(r).id.of = r /\ KeyOf(Row(r)) = SegmentKey(r)
  BY KeyIsOwn DEF Committed, Misreported
<1>2. RowsAreCommitted'
  BY <1>1, <1>a, <1>b, Owners DEF RowsAreCommitted
<1>3. AttemptHasObject'
  BY <1>1, <1>a DEF AttemptHasObject
<1>4. DoomedAreGone'
  <2> SUFFICES ASSUME NEW q \in Requests, pc'[q] = "unlink", NEW k \in target[q]
               PROVE  /\ k = SegmentKey(k.id.of)' /\ Committed(k.id.of)'
                      /\ \A x \in rows' : KeyOf(x) # k
    BY DEF DoomedAreGone
  <2>1. pc[q] = "unlink"
    BY <1>1
  <2>2. k = SegmentKey(k.id.of) /\ Committed(k.id.of) /\ \A x \in rows : KeyOf(x) # k
    BY <1>a, <2>1 DEF DoomedAreGone
  <2>3. k.id.of \in Requests \ {r}
    BY <1>b, <2>2, Owners
  <2> QED BY <1>1, <1>b, <2>2, <2>3, KeyIsOwn
<1>5. PlacesOK'
  BY <1>1, <1>a DEF PlacesOK
<1>6. RowHasObject'
  <2>1. r \in Inline \/ SegmentKey(r) \in objects
    BY <1>a DEF AttemptHasObject
  <2>2. Row(r).inline \/ KeyOf(Row(r)) \in objects'
    BY <1>b, <2>1, KeyIsOwn
  <2>3. \A x \in rows : x.inline \/ KeyOf(x) \in objects' \/ Misreported(x.id.of)'
    BY <1>1, <1>a, <1>b, Owners DEF RowHasObject
  <2> QED BY <2>2, <2>3 DEF RowHasObject
<1>7. OrphanIsAccountedFor'
  <2> SUFFICES ASSUME NEW k \in objects, \A x \in rows' : KeyOf(x) # k, k \notin marred
               PROVE  \E q \in Requests :
                         \/ pc'[q] \in Attempting /\ k = SegmentKey(q)'
                         \/ pc'[q] \in {"unlink", "purge"} /\ k \in target'[q]
                         \/ pc'[q] = "list"
    BY DEF OrphanIsAccountedFor
  <2>1. k # SegmentKey(r)
    BY <1>b
  <2>2. PICK q \in Requests : \/ pc[q] \in Attempting /\ k = SegmentKey(q)
                              \/ pc[q] \in {"unlink", "purge"} /\ k \in target[q]
                              \/ pc[q] = "list"
    BY <1>a DEF OrphanIsAccountedFor
  <2>3. q # r
    BY <2>1, <2>2
  <2> QED BY <1>1, <2>2, <2>3
<1> QED BY <1>2, <1>3, <1>4, <1>5, <1>6, <1>7 DEF StoreInv, CustodyInv

\* A deleting request's step keeps the stores together when it unlinks no key
\* a row or a live attempt needs, and leaves what it would still have removed
\* to its next step or to a fault.
LEMMA DeleterMoves ==
  ASSUME TypeOK, StoreInv, NEW r \in Requests,
         \A q \in Requests \ {r} : Untouched(q),
         UNCHANGED <<sequence, left>>, marred \subseteq marred',
         rows' \subseteq rows, objects' \subseteq objects,
         session' = session \/ session' = "gone",
         session' = "gone" => rows' = {},
         pc[r] \in {"start", "unlink", "list", "purge"},
         pc'[r] \in {"unlink", "list", "purge", "deleted", "failed", "crashed"},
         pc'[r] \in {"list", "purge"} => session' = "gone",
         \A k \in objects \ objects' :
            /\ \A x \in rows' : KeyOf(x) # k
            /\ \A q \in Requests \ {r} : pc[q] \in {"check", "row"} /\ session' # "gone"
                                            => k # SegmentKey(q),
         pc'[r] = "unlink" =>
            \A k \in target'[r] : /\ k = SegmentKey(k.id.of) /\ Committed(k.id.of)
                                  /\ k.id.of \in Requests
                                  /\ \A x \in rows' : KeyOf(x) # k,
         \A k \in objects' :
            (\/ pc[r] = "list"
             \/ pc[r] \in {"unlink", "purge"} /\ k \in target[r]
             \/ \E x \in rows \ rows' : KeyOf(x) = k)
            => \/ k \in marred' \/ pc'[r] = "list"
               \/ pc'[r] \in {"unlink", "purge"} /\ k \in target'[r]
  PROVE  StoreInv'
<1>1. \A q \in Requests \ {r} :
         /\ SegmentKey(q)' = SegmentKey(q) /\ Row(q)' = Row(q) /\ pc'[q] = pc[q]
         /\ target'[q] = target[q]
         /\ Committed(q)' <=> Committed(q)
         /\ Misreported(q)' <=> Misreported(q)
  BY UntouchedAttempt DEF Untouched
<1>a. /\ RowsAreCommitted /\ AttemptHasObject /\ DoomedAreGone /\ PlacesOK
      /\ RowHasObject /\ OrphanIsAccountedFor
  BY InvParts
<1>b. ~Committed(r) /\ ~Misreported(r)
  BY DEF Committed, Misreported
<1>2. RowsAreCommitted'
  BY <1>1, <1>a, <1>b, Owners DEF RowsAreCommitted
<1>3. AttemptHasObject'
  BY <1>1, <1>a DEF AttemptHasObject
<1>4. DoomedAreGone'
  <2> SUFFICES ASSUME NEW q \in Requests, pc'[q] = "unlink", NEW k \in target'[q]
               PROVE  /\ k = SegmentKey(k.id.of)' /\ Committed(k.id.of)'
                      /\ \A x \in rows' : KeyOf(x) # k
    BY DEF DoomedAreGone
  <2>1. CASE q = r
    <3>1. k.id.of \in Requests \ {r}
      BY <1>b, <2>1
    <3> QED BY <1>1, <2>1, <3>1
  <2>2. CASE q # r
    <3>1. pc[q] = "unlink" /\ k \in target[q]
      BY <1>1, <2>2
    <3>2. k = SegmentKey(k.id.of) /\ Committed(k.id.of) /\ \A x \in rows : KeyOf(x) # k
      BY <1>a, <3>1 DEF DoomedAreGone
    <3>3. k.id.of \in Requests \ {r}
      BY <1>b, <3>1, <3>2, Owners
    <3> QED BY <1>1, <3>2, <3>3
  <2> QED BY <2>1, <2>2
<1>5. PlacesOK'
  BY <1>1, <1>a DEF PlacesOK
<1>6. RowHasObject'
  <2> SUFFICES ASSUME NEW x \in rows', ~x.inline, ~Misreported(x.id.of)'
               PROVE  KeyOf(x) \in objects'
    BY DEF RowHasObject
  <2>1. x.id.of \in Requests \ {r}
    BY <1>a, <1>b, Owners DEF RowsAreCommitted
  <2>2. KeyOf(x) \in objects
    BY <1>1, <1>a, <2>1 DEF RowHasObject
  <2> QED BY <2>2
<1>7. OrphanIsAccountedFor'
  <2> SUFFICES ASSUME NEW k \in objects', \A x \in rows' : KeyOf(x) # k, k \notin marred'
               PROVE  \E q \in Requests :
                         \/ pc'[q] \in Attempting /\ k = SegmentKey(q)'
                         \/ pc'[q] \in {"unlink", "purge"} /\ k \in target'[q]
                         \/ pc'[q] = "list"
    BY DEF OrphanIsAccountedFor
  <2>1. CASE \E x \in rows : KeyOf(x) = k
    BY <2>1
  <2>2. CASE \A x \in rows : KeyOf(x) # k
    <3>1. PICK q \in Requests : \/ pc[q] \in Attempting /\ k = SegmentKey(q)
                                \/ pc[q] \in {"unlink", "purge"} /\ k \in target[q]
                                \/ pc[q] = "list"
      BY <1>a, <2>2 DEF OrphanIsAccountedFor
    <3>2. CASE q = r
      <4>1. pc[r] = "list" \/ (pc[r] \in {"unlink", "purge"} /\ k \in target[r])
        BY <3>1, <3>2 DEF Attempting
      <4>2. pc'[r] = "list" \/ (pc'[r] \in {"unlink", "purge"} /\ k \in target'[r])
        BY <4>1
      <4> QED BY <4>2
    <3>3. CASE q # r
      BY <1>1, <3>1, <3>3
    <3> QED BY <3>2, <3>3
  <2> QED BY <2>1, <2>2
<1> QED BY <1>2, <1>3, <1>4, <1>5, <1>6, <1>7 DEF StoreInv, CustodyInv

\* Every step keeps the stores together: one case per action.
LEMMA StoreStep == TypeOK /\ TypeOK' /\ StoreInv /\ [Next]_vars => StoreInv'
<1> SUFFICES ASSUME TypeOK, TypeOK', StoreInv, [Next]_vars PROVE StoreInv'
  OBVIOUS
<1>a. /\ RowsAreCommitted /\ AttemptHasObject /\ DoomedAreGone /\ PlacesOK
      /\ RowHasObject /\ OrphanIsAccountedFor
  BY InvParts
<1>b. \A r \in Requests : pc[r] \in {"start", "put", "check", "row", "unlink", "list", "purge"}
         => ~Committed(r) /\ ~Misreported(r)
  BY DEF Committed, Misreported
<1>1. ASSUME NEW r \in Requests, Read(r) PROVE StoreInv'
  <2>1. \A q \in Requests \ {r} : Untouched(q)
    BY <1>1 DEF Read, Goto, Untouched, TypeOK
  <2>2. /\ pc[r] = "start" /\ UNCHANGED <<rows, session, target, objects, marred>>
        /\ pc'[r] \in {"failed", "row", "put"} /\ (pc'[r] \in {"row"} => r \in Inline)
        /\ (pc'[r] = "put" => r \notin Inline)
    BY <1>1 DEF Read, Goto, TypeOK
  <2> QED BY <1>b, <2>1, <2>2, AttemptMoves DEF Attempting
<1>2. ASSUME NEW r \in Requests, Put(r) PROVE StoreInv'
  <2>1. \A q \in Requests \ {r} : Untouched(q)
    BY <1>2 DEF Put, Goto, Untouched, TypeOK
  <2>2. /\ pc[r] = "put" /\ pc'[r] \in {"check", "row"}
        /\ UNCHANGED <<rows, session, target, marred, sequence, left>>
        /\ objects' = objects \union {SegmentKey(r)}
    BY <1>2 DEF Put, Goto, TypeOK
  <2>3. SegmentKey(r)' = SegmentKey(r) /\ r \notin Inline
    BY <1>a, <2>2 DEF SegmentKey, SegmentId, PlacesOK
  <2> QED BY <1>b, <2>1, <2>2, <2>3, AttemptMoves DEF Attempting
<1>3. ASSUME NEW r \in Requests, PutFails(r) PROVE StoreInv'
  <2>1. \A q \in Requests \ {r} : Untouched(q)
    BY <1>3 DEF PutFails, Goto, Untouched, TypeOK
  <2>2. /\ pc[r] = "put" /\ pc'[r] = "failed" /\ UNCHANGED <<rows, session, target>>
        /\ \/ objects' = objects /\ marred' = marred
           \/ /\ objects' = objects \union {SegmentKey(r)}
              /\ marred' = marred \union {SegmentKey(r)}
    BY <1>3 DEF PutFails, Goto, TypeOK
  <2>3. r \notin Inline
    BY <1>a, <2>2 DEF PlacesOK
  <2> QED BY <1>b, <2>1, <2>2, <2>3, AttemptMoves DEF Attempting
\* An attempt that raises goes to its cleanup, or ends if it has no object.
<1>4. ASSUME NEW r \in Requests, NEW e \in Errors, Raise(r, e), pc[r] \in {"check", "row"},
             UNCHANGED <<rows, session, target, objects, marred, sequence>>
      PROVE  StoreInv'
  <2>1. \A q \in Requests \ {r} : Untouched(q)
    BY <1>4 DEF Raise, Settle, Goto, Untouched, TypeOK
  <2>2. CASE r \in Inline
    <3>1. pc'[r] \in {"start", "failed"}
      BY <1>4, <2>2 DEF Raise, Settle, Goto, TypeOK
    <3> QED BY <1>4, <1>b, <2>1, <2>2, <3>1, AttemptMoves
  <2>3. CASE r \notin Inline
    <3>1. pc'[r] = "cleanup" /\ left' = left
      BY <1>4, <2>3 DEF Raise, Goto, TypeOK
    <3>2. SegmentKey(r)' = SegmentKey(r)
      BY <1>4, <3>1 DEF SegmentKey, SegmentId
    <3> QED BY <1>4, <1>b, <2>1, <2>3, <3>1, <3>2, AttemptMoves DEF Attempting
  <2> QED BY <2>2, <2>3
<1>e. {"not_found", "session_ended", "duplicate", "fault"} \subseteq Errors
  BY DEF Errors
<1>5. ASSUME NEW r \in Requests, Check(r) PROVE StoreInv'
  <2>1. CASE session = "open"
    <3>1. \A q \in Requests \ {r} : Untouched(q)
      BY <1>5, <2>1 DEF Check, Goto, Untouched, TypeOK
    <3>2. /\ pc[r] = "check" /\ pc'[r] = "row"
          /\ UNCHANGED <<rows, session, target, objects, marred, sequence, left>>
      BY <1>5, <2>1 DEF Check, Goto, TypeOK
    <3>3. SegmentKey(r)' = SegmentKey(r)
      BY <3>2 DEF SegmentKey, SegmentId
    <3>4. r \notin Inline => SegmentKey(r) \in objects
      BY <1>a, <2>1, <3>2 DEF AttemptHasObject
    <3> QED BY <1>b, <3>1, <3>2, <3>3, <3>4, AttemptMoves DEF Attempting
  <2>2. CASE session # "open"
    BY <1>4, <1>5, <1>e, <2>2 DEF Check
  <2> QED BY <2>1, <2>2
<1>6. ASSUME NEW r \in Requests, pc[r] = "row", session # "gone",
             rows' = rows \union {Row(r)}, UNCHANGED <<session, objects, sequence, target, marred>>,
             \/ Goto(r, "stored") /\ UNCHANGED <<error, left>>
             \/ Raise(r, "fault")
      PROVE  StoreInv'
  <2>1. \A q \in Requests \ {r} : Untouched(q)
    BY <1>6 DEF Raise, Settle, Goto, Untouched, TypeOK
  <2>2. /\ \/ pc'[r] = "stored"
           \/ pc'[r] \in {"cleanup", "failed"} /\ error'[r] = "fault"
        /\ (pc'[r] = "cleanup" => r \notin Inline) /\ left' = left
    <3>1. pc \in [Requests -> Pc] /\ error \in [Requests -> Errors]
      BY DEF TypeOK
    <3>2. CASE Goto(r, "stored") /\ UNCHANGED <<error, left>>
      BY <3>1, <3>2 DEF Goto
    <3>3. CASE Raise(r, "fault")
      BY <3>1, <3>3 DEF Raise, Settle, Goto
    <3> QED BY <1>6, <3>2, <3>3
  <2>3. Row(r)' = Row(r) /\ SegmentKey(r)' = SegmentKey(r) /\ Committed(r)'
    BY <1>6, <2>2 DEF Row, SegmentKey, SegmentId, Committed, Misreported
  <2> QED BY <1>6, <2>1, <2>2, <2>3, RowLands
<1>7. ASSUME NEW r \in Requests, InsertRow(r) PROVE StoreInv'
  BY <1>4, <1>6, <1>7, <1>e DEF InsertRow
<1>8. ASSUME NEW r \in Requests, InsertFails(r) PROVE StoreInv'
  BY <1>4, <1>6, <1>8, <1>e DEF InsertFails
<1>9. ASSUME NEW r \in Requests, Cleanup(r) PROVE StoreInv'
  <2>1. \A q \in Requests \ {r} : Untouched(q)
    BY <1>9 DEF Cleanup, Settle, Goto, Untouched, TypeOK
  <2>2. /\ pc[r] = "cleanup" /\ pc'[r] \in {"start", "failed"}
        /\ UNCHANGED <<rows, session, target, marred, sequence, error>>
        /\ objects' = objects \ {SegmentKey(r)}
        /\ error[r] = "fault" => pc'[r] = "failed" /\ left' = left
    BY <1>9 DEF Cleanup, Settle, Goto, TypeOK
  <2>3. Committed(r) => /\ Misreported(r)' /\ Committed(r)'
                        /\ Row(r)' = Row(r) /\ SegmentKey(r)' = SegmentKey(r)
    BY <2>2 DEF Committed, Misreported, Row, SegmentKey, SegmentId
  <2>4. r \notin Inline
    BY <1>a, <2>2 DEF PlacesOK
  <2> QED BY <2>1, <2>2, <2>3, <2>4, AttemptMoves
<1>10. ASSUME NEW r \in Requests, CleanupFails(r) PROVE StoreInv'
  <2>1. \A q \in Requests \ {r} : Untouched(q)
    BY <1>10 DEF CleanupFails, Goto, Untouched, TypeOK
  <2>2. /\ pc[r] = "cleanup" /\ pc'[r] = "failed" /\ error'[r] = "fault"
        /\ UNCHANGED <<rows, session, target, sequence, left>>
        /\ objects' = objects \/ objects' = objects \ {SegmentKey(r)}
        /\ marred' = marred \union {SegmentKey(r)}
    BY <1>10 DEF CleanupFails, Goto, TypeOK
  <2>3. /\ Misreported(r)' /\ Committed(r)'
        /\ Row(r)' = Row(r) /\ SegmentKey(r)' = SegmentKey(r)
    BY <2>2 DEF Committed, Misreported, Row, SegmentKey, SegmentId
  <2>4. r \notin Inline
    BY <1>a, <2>2 DEF PlacesOK
  <2> QED BY <2>1, <2>2, <2>3, <2>4, AttemptMoves
<1>11. ASSUME NEW r \in Requests, DeleteRow(r) PROVE StoreInv'
  <2>1. /\ \A q \in Requests \ {r} : Untouched(q)
        /\ pc[r] = "start" /\ UNCHANGED <<session, objects, sequence, left, error, marred>>
    BY <1>11 DEF DeleteRow, Goto, Untouched, TypeOK
  <2>2. CASE rows' = rows /\ pc'[r] = "deleted"
    BY <1>a, <2>1, <2>2, DeleterMoves DEF PlacesOK
  <2>3. ASSUME NEW x \in rows, rows' = rows \ {x}, x.inline, pc'[r] = "deleted"
        PROVE  StoreInv'
    <3>1. KeyOf(x) \notin objects
      <4>1. x.id.of \in Inline /\ KeyOf(x).id.of = x.id.of
        BY <1>a, <2>3, Owners, KeyIsOwn DEF RowsAreCommitted
      <4> QED BY <1>a, <4>1 DEF PlacesOK
    <3> QED BY <1>a, <2>1, <2>3, <3>1, DeleterMoves DEF PlacesOK
  <2>4. ASSUME NEW x \in rows, rows' = rows \ {x}, pc'[r] = "unlink", target'[r] = {KeyOf(x)}
        PROVE  StoreInv'
    <3>1. /\ x.id.of \in Requests /\ x = Row(x.id.of) /\ Committed(x.id.of)
          /\ KeyOf(x) = SegmentKey(x.id.of) /\ KeyOf(x).id.of = x.id.of
      BY <1>a, Owners, KeyIsOwn DEF RowsAreCommitted
    <3>2. \A y \in rows : KeyOf(y) = KeyOf(x) => y = x
      <4>1. \A y \in rows : KeyOf(y).id = y.id /\ y = Row(y.id.of)
        BY <1>a, Owners, KeyIsOwn DEF RowsAreCommitted
      <4> QED BY <4>1
    <3> QED BY <1>a, <2>1, <2>4, <3>1, <3>2, DeleterMoves DEF PlacesOK
  <2> QED BY <1>11, <2>2, <2>3, <2>4 DEF DeleteRow, Goto, TypeOK
<1>12. ASSUME NEW r \in Requests, DeleteSessionRow(r) PROVE StoreInv'
  <2>1. /\ \A q \in Requests \ {r} : Untouched(q)
        /\ pc[r] = "start" /\ UNCHANGED <<objects, sequence, left, marred, target>>
        /\ \/ pc'[r] = "failed" /\ UNCHANGED <<session, rows>>
           \/ pc'[r] = "list" /\ session' = "gone" /\ rows' = {}
    BY <1>12 DEF DeleteSessionRow, Goto, Untouched, TypeOK
  <2> QED BY <1>a, <2>1, DeleterMoves DEF PlacesOK
<1>13. ASSUME NEW r \in Requests, StartFails(r) PROVE StoreInv'
  <2>1. /\ \A q \in Requests \ {r} : Untouched(q)
        /\ pc[r] = "start" /\ pc'[r] = "failed" /\ UNCHANGED <<objects, sequence, left, target>>
        /\ \/ UNCHANGED <<session, rows, marred>>
           \/ /\ \E x \in rows : rows' = rows \ {x} /\ marred' = marred \union {KeyOf(x)}
              /\ session' = session
           \/ session' = "gone" /\ rows' = {} /\ marred' = marred \union objects
    BY <1>13 DEF StartFails, Goto, Untouched, TypeOK
  <2> QED BY <1>a, <2>1, DeleterMoves DEF PlacesOK
<1>14. ASSUME NEW r \in Requests, List(r) PROVE StoreInv'
  <2>1. /\ \A q \in Requests \ {r} : Untouched(q)
        /\ pc[r] = "list" /\ pc'[r] = "purge" /\ target'[r] = objects
        /\ UNCHANGED <<session, rows, objects, sequence, left, marred>>
    BY <1>14 DEF List, Goto, Untouched, TypeOK
  <2> QED BY <1>a, <2>1, DeleterMoves DEF PlacesOK
\* What a delete may unlink: nothing a row or a live attempt needs.
<1>15. ASSUME NEW r \in Requests, pc[r] \in {"unlink", "purge"}, NEW k \in target[r]
       PROVE  /\ \A x \in rows : KeyOf(x) # k
              /\ \A q \in Requests : pc[q] \in {"check", "row"} /\ session # "gone"
                                       => k # SegmentKey(q)
  <2>1. CASE pc[r] = "purge"
    BY <1>a, <2>1 DEF PlacesOK
  <2>2. CASE pc[r] = "unlink"
    <3>1. Committed(k.id.of) /\ \A x \in rows : KeyOf(x) # k
      BY <1>a, <2>2 DEF DoomedAreGone
    <3>2. \A q \in Requests : k = SegmentKey(q) => k.id.of = q
      BY KeyIsOwn
    <3> QED BY <1>b, <3>1, <3>2
  <2> QED BY <1>15, <2>1, <2>2
<1>16. ASSUME NEW r \in Requests, Unlink(r) PROVE StoreInv'
  <2>1. /\ \A q \in Requests \ {r} : Untouched(q)
        /\ pc[r] = "unlink" /\ pc'[r] = "deleted"
        /\ UNCHANGED <<session, rows, sequence, left, marred>>
        /\ objects' = objects \ target[r]
    BY <1>16 DEF Unlink, Goto, Untouched, TypeOK
  <2> QED BY <1>a, <1>15, <2>1, DeleterMoves DEF PlacesOK
<1>17. ASSUME NEW r \in Requests, UnlinkFails(r) PROVE StoreInv'
  <2>1. /\ \A q \in Requests \ {r} : Untouched(q)
        /\ pc[r] \in {"unlink", "list", "purge"} /\ pc'[r] = "failed"
        /\ UNCHANGED <<session, rows, sequence, left, target>>
        /\ marred' = marred \union Forsaken(r)
    BY <1>17 DEF UnlinkFails, Goto, Untouched, TypeOK
  <2>2. /\ objects' \subseteq objects
        /\ pc[r] = "unlink" => objects \ objects' \subseteq target[r]
        /\ pc[r] = "list" => objects' = objects
    BY <1>17 DEF UnlinkFails
  <2>3. Forsaken(r) = IF pc[r] = "list" THEN objects ELSE target[r]
    BY <2>1 DEF Forsaken, Attempting
  <2>4. CASE pc[r] = "list"
    BY <1>a, <2>1, <2>2, <2>3, <2>4, DeleterMoves DEF PlacesOK
  <2>5. CASE pc[r] # "list"
    <3>1. \A k \in objects \ objects' :
             /\ \A x \in rows' : KeyOf(x) # k
             /\ \A q \in Requests \ {r} : pc[q] \in {"check", "row"} /\ session' # "gone"
                                              => k # SegmentKey(q)
      BY <1>a, <1>15, <2>1, <2>2, <2>5 DEF PlacesOK
    <3> QED BY <1>a, <2>1, <2>2, <2>3, <2>5, <3>1, DeleterMoves DEF PlacesOK
  <2> QED BY <2>4, <2>5
\* What a purge has passed over is gone, or spared.
<1>22. ASSUME NEW r \in Requests, Purge(r) \/ PurgeSpares(r) PROVE StoreInv'
  <2>1. /\ pc[r] = "purge" /\ UNCHANGED <<session, rows, sequence, left, error>>
        /\ objects' \subseteq objects /\ marred \subseteq marred'
    BY <1>22 DEF Purge, PurgeSpares
  <2>2. PICK batch \in Batches(r) : /\ PassOver(r, batch)
                                    /\ \A k \in batch \intersect objects' : k \in marred'
    BY <1>22 DEF Purge, PurgeSpares
  <2>3. /\ \A q \in Requests \ {r} : Untouched(q)
        /\ target'[r] = target[r] \ batch
        /\ \/ pc'[r] = "purge"
           \/ pc'[r] = "deleted" /\ target[r] \subseteq batch
    BY <2>1, <2>2 DEF PassOver, Goto, Untouched, TypeOK
  <2>4. session = "gone" /\ rows = {}
    BY <1>a, <2>1 DEF PlacesOK
  <2> QED BY <1>a, <2>1, <2>2, <2>3, <2>4, DeleterMoves
<1>18. ASSUME NEW r \in Requests, Crash(r) PROVE StoreInv'
  <2>1. /\ \A q \in Requests \ {r} : Untouched(q)
        /\ pc[r] \notin Ended /\ pc'[r] = "crashed"
        /\ UNCHANGED <<session, rows, sequence, left, error, target>>
        /\ \/ marred' = marred \union Forsaken(r) /\ objects' = objects
           \/ /\ pc[r] = "put" /\ marred' = marred \union {SegmentKey(r)}
              /\ objects' = objects \union {SegmentKey(r)}
    BY <1>18 DEF Crash, Goto, Untouched, TypeOK
  <2>2. CASE pc[r] \in {"unlink", "list", "purge"}
    <3>1. Forsaken(r) = IF pc[r] = "list" THEN objects ELSE target[r]
      BY <2>2 DEF Forsaken, Attempting
    <3> QED BY <1>a, <2>1, <2>2, <3>1, DeleterMoves DEF PlacesOK
  <2>3. CASE pc[r] \notin {"unlink", "list", "purge"}
    <3>1. /\ Row(r)' = Row(r) /\ SegmentKey(r)' = SegmentKey(r)
          /\ Committed(r) => Misreported(r)' /\ Committed(r)'
      BY <2>1 DEF Row, SegmentKey, SegmentId, Committed, Misreported, Ended
    <3>2. pc[r] \in Attempting => Forsaken(r) = {SegmentKey(r)}
      BY DEF Forsaken
    <3>3. pc[r] = "put" => r \notin Inline
      BY <1>a DEF PlacesOK
    <3> QED BY <2>1, <2>3, <3>1, <3>2, <3>3, AttemptMoves
  <2> QED BY <2>2, <2>3
<1>19. CASE EndSession
  BY <1>a, <1>19
     DEF EndSession, StoreInv, CustodyInv, RowsAreCommitted, AttemptHasObject, DoomedAreGone,
         PlacesOK, RowHasObject, OrphanIsAccountedFor, Committed, Misreported, Row, SegmentKey,
         SegmentId
<1>20. CASE Returned \/ UNCHANGED vars
  BY <1>a, <1>20
     DEF Returned, vars, StoreInv, CustodyInv, RowsAreCommitted, AttemptHasObject, DoomedAreGone,
         PlacesOK, RowHasObject, OrphanIsAccountedFor, Committed, Misreported, Row, SegmentKey,
         SegmentId
<1> QED
  BY <1>1, <1>2, <1>3, <1>5, <1>7, <1>8, <1>9, <1>10, <1>11, <1>12, <1>13, <1>14, <1>16,
     <1>17, <1>18, <1>19, <1>20, <1>22 DEF Next, Step, Fault

\* The two stores stay together (StoreInv: the custody of every row and
\* object, and with it the two properties the runs check).
THEOREM StoreHolds == Spec => [](TypeOK /\ StoreInv)
<1>1. Init => TypeOK /\ StoreInv
  BY InitType, StoreInit
<1>2. TypeOK /\ StoreInv /\ [Next]_vars => (TypeOK /\ StoreInv)'
  BY StepType, StoreStep
<1> QED BY <1>1, <1>2, PTL DEF Spec

\* A row keeps its object through every race of uploads, retries, cleanups and
\* deletions, unless its own commit was reported as failed.
THEOREM RowsKeepTheirObjects == Spec => []RowHasObject
<1>1. TypeOK /\ StoreInv => RowHasObject
  BY DEF StoreInv
<1> QED BY <1>1, StoreHolds, PTL

\* Only a fault leaves an object behind.
THEOREM OrphansAreAccountedFor == Spec => []OrphanIsAccountedFor
<1>1. TypeOK /\ StoreInv => OrphanIsAccountedFor
  BY DEF StoreInv
<1> QED BY <1>1, StoreHolds, PTL
----------------------------------------------------------------------------
(* The race for a sequence number.                                         *)

\* A request that inserted for good does not move again, but to its end.
LEMMA CommittedIsFinal ==
  TypeOK /\ [Next]_vars => \A q \in Requests : Committed(q) => Committed(q)'
<1> SUFFICES ASSUME TypeOK, [Next]_vars, NEW q \in Requests, Committed(q) PROVE Committed(q)'
  OBVIOUS
<1>1. pc[q] = "stored" \/ (error[q] = "fault" /\ pc[q] \in {"cleanup", "failed", "crashed"})
  BY DEF Committed, Misreported
<1>2. ASSUME NEW r \in Requests, Step(r) PROVE Committed(q)'
  <2>1. CASE q = r
    <3>1. CASE Cleanup(r)
      BY <1>1, <2>1, <3>1 DEF Cleanup, Settle, Goto, TypeOK, Committed, Misreported
    <3> QED
      BY <1>1, <1>2, <2>1, <3>1
         DEF Step, Read, Put, Check, InsertRow, DeleteRow, DeleteSessionRow, List, Purge, Unlink
  <2>2. CASE q # r
    <3>1. pc'[q] = pc[q] /\ error'[q] = error[q]
      <4>1. ASSUME NEW e, Raise(r, e) PROVE pc'[q] = pc[q] /\ error'[q] = error[q]
        BY <2>2, <4>1 DEF Raise, Settle, Goto, TypeOK
      <4>2. Check(r) => pc'[q] = pc[q] /\ error'[q] = error[q]
        BY <2>2, <4>1 DEF Check, Goto, TypeOK
      <4>3. InsertRow(r) => pc'[q] = pc[q] /\ error'[q] = error[q]
        BY <2>2, <4>1 DEF InsertRow, Goto, TypeOK
      <4> QED
        BY <1>2, <2>2, <4>2, <4>3
           DEF Step, Read, Put, Cleanup, DeleteRow, DeleteSessionRow, List, Purge, PassOver,
               Unlink, Settle, Goto, TypeOK
    <3> QED BY <1>1, <3>1 DEF Committed, Misreported
  <2> QED BY <2>1, <2>2
<1>3. ASSUME NEW r \in Requests, Fault(r) PROVE Committed(q)'
  <2>1. CASE q = r
    <3>1. CASE CleanupFails(r)
      BY <2>1, <3>1 DEF CleanupFails, Goto, TypeOK, Committed, Misreported
    <3>2. CASE Crash(r)
      BY <1>1, <2>1, <3>2 DEF Crash, Ended, Goto, TypeOK, Committed, Misreported
    <3> QED
      BY <1>1, <1>3, <2>1, <3>1, <3>2
         DEF Fault, PutFails, InsertFails, StartFails, UnlinkFails, PurgeSpares
  <2>2. CASE q # r
    <3>1. pc'[q] = pc[q] /\ error'[q] = error[q]
      <4>1. InsertFails(r) => pc'[q] = pc[q] /\ error'[q] = error[q]
        BY <2>2 DEF InsertFails, Raise, Settle, Goto, TypeOK
      <4> QED
        BY <1>3, <2>2, <4>1
           DEF Fault, PutFails, CleanupFails, StartFails, UnlinkFails, PurgeSpares, PassOver,
               Crash, Goto, TypeOK
    <3> QED BY <1>1, <3>1 DEF Committed, Misreported
  <2> QED BY <2>1, <2>2
<1>4. CASE EndSession
  BY <1>4 DEF EndSession, Committed, Misreported
<1>5. CASE Returned \/ UNCHANGED vars
  BY <1>5 DEF Returned, vars, Committed, Misreported
<1> QED BY <1>2, <1>3, <1>4, <1>5 DEF Next

\* A row that lands is the one its request was about to insert.
LEMMA RowsLandOnce ==
  TypeOK /\ [Next]_vars =>
      \A x \in rows' : x \in rows \/ \E r \in Requests : pc[r] = "row" /\ x = Row(r)
BY DEF Next, Step, Fault, Read, Put, PutFails, Check, InsertRow, InsertFails, Cleanup,
       CleanupFails, DeleteRow, DeleteSessionRow, StartFails, List, Purge, PurgeSpares, Unlink,
       UnlinkFails, Crash,
       EndSession, Returned, vars

\* The requests a loss is charged to stay charged.
LEMMA ChargesStay ==
  ASSUME TypeOK, [Next]_vars, IsFiniteSet(Inserting), NEW r \in Requests
  PROVE  /\ IsFiniteSet(Landed(r)) /\ IsFiniteSet(Landed(r))' /\ IsFiniteSet(Passed(r))
         /\ Cardinality(Landed(r)) \in Nat /\ Cardinality(Landed(r))' \in Nat
         /\ Cardinality(Passed(r)) \in Nat /\ Cardinality(Passed(r))' \in Nat
         /\ Cardinality(Landed(r)) <= Cardinality(Landed(r))'
         /\ Cardinality(Passed(r)) <= Cardinality(Landed(r))'
         /\ sequence'[r] = sequence[r] => Cardinality(Passed(r)) <= Cardinality(Passed(r))'
<1>1. /\ Landed(r) \subseteq Inserting /\ Landed(r)' \subseteq Inserting
      /\ Passed(r) \subseteq Landed(r) /\ Passed(r)' \subseteq Landed(r)'
  BY DEF Landed, Passed
<1>2. Landed(r) \subseteq Landed(r)'
  BY CommittedIsFinal DEF Landed, Inserting
<1>3. ASSUME sequence'[r] = sequence[r] PROVE Passed(r) \subseteq Passed(r)'
  <2> SUFFICES ASSUME NEW q \in Passed(r), NEW x \in rows', x.id.of = q
               PROVE  x.sequence < sequence[r]
    BY <1>2, <1>3 DEF Passed
  <2>1. q \in Landed(r) /\ Committed(q)
    BY DEF Passed, Landed
  <2>2. x \in rows
    BY <2>1, RowsLandOnce, KeyIsOwn DEF Committed, Misreported
  <2> QED BY <2>2 DEF Passed
<1>4. IsFiniteSet(Landed(r)) /\ IsFiniteSet(Landed(r)')
  BY <1>1, FS_Subset
<1>5. IsFiniteSet(Passed(r)) /\ IsFiniteSet(Passed(r)')
  BY <1>1, <1>4, FS_Subset
<1>6. /\ Cardinality(Landed(r)) \in Nat /\ Cardinality(Landed(r)') \in Nat
      /\ Cardinality(Passed(r)) \in Nat /\ Cardinality(Passed(r)') \in Nat
  BY <1>4, <1>5, FS_CardinalityType
<1>7. Cardinality(Landed(r)) <= Cardinality(Landed(r)')
  BY <1>2, <1>4, FS_Subset
<1>8. Cardinality(Passed(r)) <= Cardinality(Landed(r)')
  BY <1>1, <1>2, <1>4, FS_Subset
<1>9. ASSUME sequence'[r] = sequence[r]
      PROVE  Cardinality(Passed(r)) <= Cardinality(Passed(r)')
  BY <1>3, <1>5, <1>9, FS_Subset
<1> QED BY <1>4, <1>5, <1>6, <1>7, <1>8, <1>9

\* Only an inserting request ever has an object or a row of its own.
Roles ==
    /\ \A r \in Requests : pc[r] \in {"put", "check", "row", "cleanup"} => r \in Inserting
    /\ \A x \in rows : x.id.of \in Inserting

LEMMA RolesInit == Init => Roles
BY SegmentStoreAssumption DEF Init, Roles, Entry, Inserting, Kinds

LEMMA RolesStep == TypeOK /\ Roles /\ [Next]_vars => Roles'
<1> SUFFICES ASSUME TypeOK, Roles, [Next]_vars PROVE Roles'
  OBVIOUS
<1>1. \A x \in rows' : x.id.of \in Inserting
  BY RowsLandOnce, KeyIsOwn DEF Roles
<1>2. ASSUME NEW q \in Requests, pc'[q] \in {"put", "check", "row", "cleanup"}
      PROVE  q \in Inserting
  <2>1. pc \in [Requests -> Pc] /\ \A r \in Requests : pc[r] \in Attempting \union {"put"} => r \in Inserting
    BY DEF TypeOK, Roles, Attempting
  <2>2. ASSUME NEW r \in Requests, NEW e, Raise(r, e), pc[r] \in {"check", "row"} PROVE q \in Inserting
    BY <1>2, <2>1, <2>2 DEF Raise, Settle, Goto, Attempting
  <2>3. ASSUME NEW r \in Requests, Read(r) PROVE q \in Inserting
    BY <1>2, <2>1, <2>3 DEF Read, Goto, Inserting, Attempting
  <2>4. ASSUME NEW r \in Requests, Put(r) \/ Cleanup(r) PROVE q \in Inserting
    BY <1>2, <2>1, <2>4 DEF Put, Cleanup, Settle, Goto, Attempting
  <2>5. ASSUME NEW r \in Requests, Check(r) \/ InsertRow(r) \/ InsertFails(r) PROVE q \in Inserting
    BY <1>2, <2>1, <2>2, <2>5 DEF Check, InsertRow, InsertFails, Goto, Attempting
  <2>6. ASSUME NEW r \in Requests,
               DeleteRow(r) \/ DeleteSessionRow(r) \/ List(r) \/ Unlink(r) \/ PutFails(r)
                   \/ CleanupFails(r) \/ StartFails(r) \/ UnlinkFails(r) \/ Crash(r)
                   \/ Purge(r) \/ PurgeSpares(r)
        PROVE  q \in Inserting
    BY <1>2, <2>1, <2>6
       DEF DeleteRow, DeleteSessionRow, List, Unlink, PutFails, CleanupFails, StartFails,
           UnlinkFails, Crash, Purge, PurgeSpares, PassOver, Goto, Attempting
  <2>7. CASE EndSession \/ Returned \/ UNCHANGED vars
    BY <1>2, <2>1, <2>7 DEF EndSession, Returned, vars, Attempting
  <2> QED BY <2>3, <2>4, <2>5, <2>6, <2>7 DEF Next, Step, Fault
<1> QED BY <1>1, <1>2 DEF Roles

\* A request's own attempt keeps every loss charged: it lost its number to a
\* row that landed after it read, whose request it had not counted yet.
LEMMA AttemptIsCharged ==
  ASSUME TypeOK, StoreInv, Roles, [Next]_vars, IsFiniteSet(Inserting),
         NEW r \in Requests, Kind[r] = "ingest", Charged(r),
         Step(r) \/ Fault(r)
  PROVE  Charged(r)'
<1>1. /\ pc[r] \in Pc /\ error[r] \in Errors /\ left[r] \in 0..Retries /\ Retries \in Nat \ {0}
      /\ pc \in [Requests -> Pc] /\ error \in [Requests -> Errors]
      /\ left \in [Requests -> 0..Retries] /\ sequence \in [Requests -> Nat]
  BY SegmentStoreAssumption DEF TypeOK
<1>2. Lost(r) \in Int
  BY <1>1 DEF Lost
<1> DEFINE landed == Cardinality(Landed(r))
           passed == Cardinality(Passed(r))
<1>3. /\ landed \in Nat /\ landed' \in Nat /\ passed \in Nat /\ passed' \in Nat
      /\ landed <= landed' /\ passed <= landed'
      /\ sequence'[r] = sequence[r] => passed <= passed'
  BY ChargesStay
<1>4. /\ pc[r] \notin {"check", "unlink", "list", "purge"}
      /\ pc[r] = "start" => Lost(r) <= landed
      /\ pc[r] \in {"put", "row"} => Lost(r) <= passed
      /\ pc[r] = "cleanup" /\ error[r] = "duplicate" => Lost(r) + 1 <= landed
      /\ pc[r] = "failed" /\ error[r] = "duplicate" => Retries <= landed
  BY DEF Charged
<1>5. Charged(r)' <=>
      /\ pc'[r] \notin {"check", "unlink", "list", "purge"}
      /\ pc'[r] = "start" => Lost(r)' <= landed'
      /\ pc'[r] \in {"put", "row"} => Lost(r)' <= passed'
      /\ pc'[r] = "cleanup" /\ error'[r] = "duplicate" => Lost(r)' + 1 <= landed'
      /\ pc'[r] = "failed" /\ error'[r] = "duplicate" => Retries <= landed'
  BY DEF Charged
<1> HIDE DEF landed, passed
<1>6. CASE Read(r)
  <2>1. CASE pc'[r] = "failed" /\ error'[r] = "not_found"
    BY <1>5, <2>1
  <2>2. CASE ~(pc'[r] = "failed" /\ error'[r] = "not_found")
    <3>1. /\ pc'[r] \in {"put", "row"} /\ left' = left /\ rows' = rows /\ pc[r] = "start"
          /\ IsNext(sequence'[r])
      BY <1>1, <1>6, <2>2 DEF Read, Goto
    <3>2. Passed(r)' = Landed(r)'
      BY <3>1 DEF Passed, IsNext
    <3>3. passed' = landed'
      BY <3>2 DEF passed, landed
    <3> QED BY <1>2, <1>3, <1>4, <1>5, <3>1, <3>3 DEF Lost
  <2> QED BY <2>1, <2>2
<1>7. CASE Put(r)
  <2>1. pc[r] = "put" /\ pc'[r] = "row" /\ left' = left /\ sequence' = sequence
    BY <1>1, <1>7 DEF Put, Goto
  <2> QED BY <1>2, <1>3, <1>4, <1>5, <2>1 DEF Lost
\* Where an attempt that raised leaves the request.
<1>8. ASSUME NEW e \in Errors, Raise(r, e), pc[r] = "row",
             e = "duplicate" => Lost(r) + 1 <= landed'
      PROVE  Charged(r)'
  <2>1. error'[r] = e
    BY <1>1, <1>8 DEF Raise
  <2>2. CASE r \notin Inline
    <3>1. pc'[r] = "cleanup" /\ left' = left
      BY <1>1, <1>8, <2>2 DEF Raise, Goto
    <3> QED BY <1>5, <1>8, <2>1, <3>1 DEF Lost
  <2>3. CASE r \in Inline /\ e = "duplicate" /\ left[r] > 0
    <3>1. pc'[r] = "start" /\ left'[r] = left[r] - 1
      BY <1>1, <1>8, <2>3 DEF Raise, Settle, Goto
    <3>2. Lost(r)' = Lost(r) + 1
      BY <1>1, <3>1 DEF Lost
    <3> QED BY <1>5, <1>8, <2>3, <3>1, <3>2
  <2>4. CASE r \in Inline /\ ~(e = "duplicate" /\ left[r] > 0)
    <3>1. pc'[r] = "failed"
      BY <1>1, <1>8, <2>4 DEF Raise, Settle, Goto
    <3>2. e = "duplicate" => Retries <= landed'
      <4>1. ASSUME e = "duplicate" PROVE Retries = Lost(r) + 1
        BY <1>1, <2>4, <4>1 DEF Lost
      <4> QED BY <1>8, <4>1
    <3> QED BY <1>5, <2>1, <3>1, <3>2
  <2> QED BY <2>2, <2>3, <2>4
<1>9. {"not_found", "duplicate", "fault"} \subseteq Errors
  BY DEF Errors
<1>10. CASE InsertRow(r)
  <2>1. pc[r] = "row"
    BY <1>10 DEF InsertRow
  <2>2. CASE session = "gone"
    BY <1>8, <1>9, <1>10, <2>1, <2>2 DEF InsertRow
  <2>3. CASE session # "gone" /\ ~Taken(sequence[r])
    BY <1>1, <1>5, <1>10, <2>3 DEF InsertRow, Goto
  <2>4. CASE session # "gone" /\ Taken(sequence[r])
    <3>1. PICK x \in rows : x.sequence = sequence[r]
      BY <2>4 DEF Taken
    <3>2. /\ x.id.of \in Requests /\ x = Row(x.id.of) /\ Committed(x.id.of)
      BY InvParts, Owners DEF RowsAreCommitted
    <3>3. x.id.of # r
      BY <2>1, <3>2 DEF Committed, Misreported
    <3>4. x.id.of \in Inserting
      BY DEF Roles
    <3>5. x.id.of \in Landed(r) \ Passed(r)
      BY <1>1, <3>1, <3>2, <3>3, <3>4 DEF Landed, Passed
    <3>6. passed + 1 <= landed
      <4>1. /\ IsFiniteSet(Landed(r)) /\ IsFiniteSet(Passed(r))
            /\ Passed(r) \union {x.id.of} \subseteq Landed(r) /\ x.id.of \notin Passed(r)
        BY <3>5, ChargesStay DEF Passed
      <4>2. Cardinality(Passed(r) \union {x.id.of}) = passed + 1
        BY <4>1, FS_AddElement DEF passed
      <4>3. Cardinality(Passed(r) \union {x.id.of}) <= landed
        BY <4>1, FS_Subset DEF landed
      <4> QED BY <4>2, <4>3
    <3>7. Lost(r) + 1 <= landed'
      BY <1>2, <1>3, <1>4, <2>1, <3>6
    <3> QED BY <1>8, <1>9, <1>10, <2>1, <2>4, <3>7 DEF InsertRow
  <2> QED BY <2>2, <2>3, <2>4
<1>11. CASE InsertFails(r)
  BY <1>8, <1>9, <1>11 DEF InsertFails
<1>12. CASE Cleanup(r)
  <2>1. pc[r] = "cleanup" /\ error' = error
    BY <1>12 DEF Cleanup
  <2>2. CASE error[r] = "duplicate" /\ left[r] > 0
    <3>1. pc'[r] = "start" /\ left'[r] = left[r] - 1
      BY <1>1, <1>12, <2>2 DEF Cleanup, Settle, Goto
    <3>2. Lost(r)' = Lost(r) + 1
      BY <1>1, <3>1 DEF Lost
    <3> QED BY <1>2, <1>3, <1>4, <1>5, <2>1, <2>2, <3>1, <3>2
  <2>3. CASE ~(error[r] = "duplicate" /\ left[r] > 0)
    <3>1. pc'[r] = "failed"
      BY <1>1, <1>12, <2>3 DEF Cleanup, Settle, Goto
    <3>2. error[r] = "duplicate" => Retries <= landed'
      <4>1. ASSUME error[r] = "duplicate" PROVE Retries = Lost(r) + 1
        BY <1>1, <2>3, <4>1 DEF Lost
      <4> QED BY <1>2, <1>3, <1>4, <2>1, <4>1
    <3> QED BY <1>5, <2>1, <3>1, <3>2
  <2> QED BY <2>2, <2>3
<1>13. CASE PutFails(r) \/ CleanupFails(r) \/ StartFails(r) \/ UnlinkFails(r)
  <2>1. pc'[r] = "failed" /\ error'[r] = "fault"
    BY <1>1, <1>13 DEF PutFails, CleanupFails, StartFails, UnlinkFails, Goto
  <2> QED BY <1>5, <2>1
<1>14. CASE Crash(r)
  <2>1. pc'[r] = "crashed"
    BY <1>1, <1>14 DEF Crash, Goto
  <2> QED BY <1>5, <2>1
<1>15. CASE Check(r) \/ List(r) \/ Unlink(r) \/ DeleteRow(r) \/ DeleteSessionRow(r)
            \/ Purge(r) \/ PurgeSpares(r)
  BY <1>4, <1>15
     DEF Check, List, Unlink, DeleteRow, DeleteSessionRow, Purge, PurgeSpares
<1> QED
  BY <1>6, <1>7, <1>10, <1>11, <1>12, <1>13, <1>14, <1>15 DEF Step, Fault

\* Whoever moves, no request's losses outgrow the requests that landed.
LEMMA RaceStep ==
  TypeOK /\ StoreInv /\ Roles /\ IsFiniteSet(Inserting) /\ RaceInv /\ [Next]_vars => RaceInv'
<1> SUFFICES ASSUME TypeOK, StoreInv, Roles, IsFiniteSet(Inserting), RaceInv, [Next]_vars,
                    NEW q \in Requests, Kind[q] = "ingest"
             PROVE  Charged(q)'
  BY DEF RaceInv
<1>1. Charged(q)
  BY DEF RaceInv
<1>2. ASSUME pc'[q] = pc[q], sequence'[q] = sequence[q], left'[q] = left[q],
             error'[q] = error[q]
      PROVE  Charged(q)'
  <2>1. Lost(q)' = Lost(q) /\ Lost(q) \in Int /\ Retries \in Nat
    <3>1. Retries \in Nat /\ left[q] \in 0..Retries
      BY SegmentStoreAssumption DEF TypeOK
    <3> QED BY <1>2, <3>1 DEF Lost
  <2> DEFINE landed == Cardinality(Landed(q))
             passed == Cardinality(Passed(q))
  <2>2. /\ landed \in Nat /\ landed' \in Nat /\ passed \in Nat /\ passed' \in Nat
        /\ landed <= landed' /\ passed <= passed'
    BY <1>2, ChargesStay
  <2>3. /\ pc[q] \notin {"check", "unlink", "list", "purge"}
        /\ pc[q] = "start" => Lost(q) <= landed
        /\ pc[q] \in {"put", "row"} => Lost(q) <= passed
        /\ pc[q] = "cleanup" /\ error[q] = "duplicate" => Lost(q) + 1 <= landed
        /\ pc[q] = "failed" /\ error[q] = "duplicate" => Retries <= landed
    BY <1>1 DEF Charged
  <2>4. Charged(q)' <=>
        /\ pc[q] \notin {"check", "unlink", "list", "purge"}
        /\ pc[q] = "start" => Lost(q) <= landed'
        /\ pc[q] \in {"put", "row"} => Lost(q) <= passed'
        /\ pc[q] = "cleanup" /\ error[q] = "duplicate" => Lost(q) + 1 <= landed'
        /\ pc[q] = "failed" /\ error[q] = "duplicate" => Retries <= landed'
    BY <1>2, <2>1 DEF Charged
  <2> HIDE DEF landed, passed
  <2> QED BY <2>1, <2>2, <2>3, <2>4
<1>3. ASSUME NEW r \in Requests, Step(r) \/ Fault(r) PROVE Charged(q)'
  <2>1. CASE r = q
    BY <1>1, <1>3, <2>1, AttemptIsCharged
  <2>2. CASE r # q
    <3>1. ASSUME NEW e, Raise(r, e), sequence' = sequence PROVE Charged(q)'
      BY <1>2, <2>2, <3>1 DEF Raise, Settle, Goto, TypeOK
    <3>2. CASE Check(r) \/ InsertRow(r) \/ InsertFails(r)
      BY <1>2, <2>2, <3>1, <3>2 DEF Check, InsertRow, InsertFails, Goto, TypeOK
    <3>3. CASE Read(r) \/ Put(r) \/ Cleanup(r) \/ DeleteRow(r) \/ DeleteSessionRow(r)
      BY <1>2, <2>2, <3>3
         DEF Read, Put, Cleanup, DeleteRow, DeleteSessionRow, Settle, Goto, TypeOK
    <3>4. CASE List(r) \/ Unlink(r) \/ PutFails(r) \/ CleanupFails(r)
      BY <1>2, <2>2, <3>4 DEF List, Unlink, PutFails, CleanupFails, Goto, TypeOK
    <3>5. CASE StartFails(r) \/ UnlinkFails(r) \/ Crash(r)
      BY <1>2, <2>2, <3>5 DEF StartFails, UnlinkFails, Crash, Goto, TypeOK
    <3>6. CASE Purge(r) \/ PurgeSpares(r)
      BY <1>2, <2>2, <3>6 DEF Purge, PurgeSpares, PassOver, Goto, TypeOK
    <3> QED BY <1>3, <3>2, <3>3, <3>4, <3>5, <3>6 DEF Step, Fault
  <2> QED BY <2>1, <2>2
<1>4. CASE EndSession \/ Returned \/ UNCHANGED vars
  BY <1>2, <1>4 DEF EndSession, Returned, vars
<1> QED BY <1>3, <1>4 DEF Next

LEMMA RaceInit == Init /\ IsFiniteSet(Inserting) => RaceInv
<1> SUFFICES ASSUME Init, IsFiniteSet(Inserting), NEW r \in Requests, Kind[r] = "ingest"
             PROVE  Charged(r)
  BY DEF RaceInv
<1>1. Lost(r) = 0
  BY SegmentStoreAssumption DEF Init, Lost
<1>2. Cardinality(Landed(r)) \in Nat
  BY FS_Subset, FS_CardinalityType DEF Landed
<1>3. pc[r] = "start"
  BY DEF Init, Entry
<1> QED BY <1>1, <1>2, <1>3 DEF Charged

\* With no more inserting requests than attempts, an ingest that fails has not
\* failed for its number: each lost attempt would need a request of its own,
\* other than itself, that inserted for good.
THEOREM RacesAreSettled == Spec => []RaceIsSettled
<1> DEFINE Few == IsFiniteSet(Inserting) /\ Cardinality(Inserting) <= Retries
           RInv == TypeOK /\ StoreInv /\ Roles /\ (IsFiniteSet(Inserting) => RaceInv)
<1>1. Init => RInv
  BY InitType, StoreInit, RolesInit, RaceInit
<1>2. RInv /\ [Next]_vars => RInv'
  BY StepType, StoreStep, RolesStep, RaceStep
<1>3. RInv => RaceIsSettled
  <2> SUFFICES ASSUME RInv, Few, NEW r \in Requests, Kind[r] = "ingest", pc[r] = "failed",
                      error[r] = "duplicate"
               PROVE  FALSE
    BY DEF RaceIsSettled
  <2>1. Retries <= Cardinality(Landed(r))
    BY DEF RaceInv, Charged
  <2>2. r \in Inserting /\ r \notin Landed(r) /\ Landed(r) \subseteq Inserting
    BY DEF Inserting, Landed
  <2>3. IsFiniteSet(Landed(r)) /\ Cardinality(Landed(r)) \in Nat
    BY <2>2, FS_Subset, FS_CardinalityType
  <2>4. Cardinality(Landed(r) \union {r}) = Cardinality(Landed(r)) + 1
    BY <2>2, <2>3, FS_AddElement
  <2>5. Cardinality(Landed(r) \union {r}) <= Cardinality(Inserting)
    BY <2>2, FS_Subset
  <2>6. Cardinality(Inserting) \in Nat /\ Retries \in Nat
    BY SegmentStoreAssumption, FS_CardinalityType
  <2> QED BY <2>1, <2>3, <2>4, <2>5, <2>6
<1> QED BY <1>1, <1>2, <1>3, PTL DEF Spec
=============================================================================
