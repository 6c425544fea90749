-------------------------- MODULE SpeakerCuration --------------------------
(***************************************************************************)
(* What a user asserts about voices, and what reruns and rebuilds make of  *)
(* it: one user's voice-prints in one embedding model, the speakers they   *)
(* are clustered into, the pins that say whose a print is                  *)
(* (api/routes/speakers.py, database/repos/speakers.py), the batch rebuild *)
(* (processing/pipelines/speaker_cluster.py), and the snapshot that carries*)
(* curation over a re-diarize (services/label_carry.py).                   *)
(*                                                                         *)
(* A label of a session is heard as one voice.  Labels are named for their *)
(* block and for a number of the diarizer's (b{start}:SPEAKER_XX), so that *)
(* any diarization may use any of the names again, for any voice; they are *)
(* numbered here in the order in which they sort.  Which label a voice's   *)
(* speech goes to is what map_labels computes (module LabelCarry).         *)
(* Transactions are steps, save that a rebuild reads the corpus before it  *)
(* writes.                                                                 *)
(***************************************************************************)
EXTENDS Integers, Sequences, FiniteSets, SequencesExt, FiniteSetsExt

CONSTANTS
    Sessions,
    NumLabels,      \* bound: the names of labels
    Voices,
    NumIds,         \* bound: the speakers ever created
    UserOps,        \* bound: the user's acts of curation
    Rebuilds,       \* bound: the rebuilds that begin
    Reruns          \* bound: the reruns, and repeated runs, of diarization

ASSUME SpeakerCurationAssumption ==
    /\ IsFiniteSet(Sessions) /\ IsFiniteSet(Voices)
    /\ {NumLabels, NumIds, UserOps, Rebuilds, Reruns} \subseteq Nat
    /\ "nobody" \notin Voices

Ids == 1..NumIds
None == 0
Nobody == "nobody"
Labels == 1..NumLabels
Addresses == Sessions \X Labels

VARIABLES
    prints,     \* speaker_embeddings: address -> the voice heard, and the speaker_id
    pins,       \* speaker_pins: address -> speaker
    speakers,   \* the speakers rows
    named,      \* those with a name
    created,    \* the ids ever used
    snapshots,  \* label-snapshot artifact of a session
    diarized,   \* whether it has a diarize-map
    view,       \* what a rebuild in progress has read
    meant,      \* the speaker the user last said a voice is, by session
    stood,      \* history: the voices a label ever stood for
    dropped,    \* history: the voices of a session of which something meant was lost
    spent       \* the bounded acts so far

vars == <<prints, pins, speakers, named, created, snapshots, diarized, view, meant, stood,
          dropped, spent>>

NoPrint == [hears |-> Nobody, owner |-> None]
NoView == [open |-> FALSE]
NoRecord == [id |-> None, pinned |-> FALSE, hears |-> Nobody]
NoSnapshot == [applied |-> TRUE, labels |-> [l \in Labels |-> NoRecord]]

Printed == {a \in Addresses : prints[a] # NoPrint}
Members(id) == {a \in Printed : prints[a].owner = id}

Fresh == IF created = Ids THEN {} ELSE {Min(Ids \ created)}

May(act, bound) == spent[act] < bound
Spend(act) == spent' = [spent EXCEPT ![act] = @ + 1]

\* A diarization: at most one label per voice, and who it is.
Hearings ==
    {h \in [Labels -> Voices \union {Nobody}] :
        \A k, l \in Labels : k # l /\ h[k] # Nobody => h[k] # h[l]}

Silence == [l \in Labels |-> Nobody]

FreshPrints(s, hears) ==
    [a \in Addresses |-> IF a[1] # s THEN prints[a] ELSE [hears |-> hears[a[2]], owner |-> None]]

\* Of the voices that are lost nothing is meant any more.
Forget(s, lost) ==
    /\ meant' = [meant EXCEPT ![s] = [v \in Voices |-> IF v \in lost THEN None ELSE @[v]]]
    /\ dropped' = dropped \union {<<s, v>> : v \in {w \in lost : meant[s][w] # None}}

Init ==
    /\ prints = [a \in Addresses |-> NoPrint]
    /\ pins = [a \in Addresses |-> None]
    /\ speakers = {} /\ named = {} /\ created = {}
    /\ snapshots = [s \in Sessions |-> NoSnapshot]
    /\ diarized = [s \in Sessions |-> FALSE]
    /\ view = NoView
    /\ meant = [s \in Sessions |-> [v \in Voices |-> None]]
    /\ stood = [a \in Addresses |-> {}]
    /\ dropped = {}
    /\ spent = [act \in {"user", "rebuild", "rerun"} |-> 0]

----------------------------------------------------------------------------
(* Statements of SpeakersRepo and LabelCarryRepo on the prints and the pins. *)

Pin(pinned, a, id) == [pinned EXCEPT ![a] = id]

PinMembersOf(pinned, id, target) ==
    [a \in Addresses |-> IF a \in Members(id) THEN target ELSE pinned[a]]

Move(prs, a, id) == [prs EXCEPT ![a].owner = id]

\* merge: the members of one speaker become the other's.
Fold(loser, survivor) ==
    [a \in Addresses |-> IF a \in Members(loser) THEN [prints[a] EXCEPT !.owner = survivor]
                         ELSE prints[a]]

\* clear_assignments, then set_assignments: nobody keeps what is not assigned anew.
Assign(owners) ==
    [a \in Addresses |-> IF a \in Printed THEN [prints[a] EXCEPT !.owner = owners[a]]
                         ELSE prints[a]]

\* pin_label, and unpin_label of the label the pin was on.
Rekey(pinned, old, new, id) ==
    [a \in Addresses |-> IF a = new THEN id ELSE IF a = old THEN None ELSE pinned[a]]

\* Deleting speakers cascades to the pins on them.
Cascade(gone, pinned) == [a \in Addresses |-> IF pinned[a] \in gone THEN None ELSE pinned[a]]

\* delete_empty_unlabeled: unnamed and without members.
Prunable(prs, rows, names) ==
    {id \in rows \ names : \A a \in Addresses : prs[a].owner # id}

----------------------------------------------------------------------------
(* The user. *)

\* reassign_member: pin and move, guarded by the membership that was shown; the
\* target is another cluster or a fresh one, which may be given a name.
Reassign(a, to) ==
    /\ May("user", UserOps) /\ Spend("user")
    /\ a \in Printed /\ prints[a].owner \notin {None, to}
    /\ to \in speakers \/ to \in Fresh
    /\ \E names \in {named, named \union ({to} \ speakers)} :
          LET moved == Move(prints, a, to)
              gone == Prunable(moved, speakers \union {to}, names)
          IN  /\ prints' = moved
              /\ pins' = Cascade(gone, Pin(pins, a, to))
              /\ speakers' = (speakers \union {to}) \ gone
              /\ named' = names \ gone
    /\ created' = created \union {to}
    /\ meant' = [meant EXCEPT ![a[1]][prints[a].hears] = to]
    /\ UNCHANGED <<snapshots, diarized, view, stood, dropped>>

\* unpin_member.
Unpin(a) ==
    /\ May("user", UserOps) /\ Spend("user")
    /\ a \in Printed /\ prints[a].owner # None /\ pins[a] # None
    /\ pins' = Pin(pins, a, None)
    /\ meant' = [meant EXCEPT ![a[1]][prints[a].hears] = None]
    /\ UNCHANGED <<prints, speakers, named, created, snapshots, diarized, view, stood, dropped>>

\* merge_speaker: the members of both are pinned to the survivor.
Merge(loser, survivor) ==
    /\ May("user", UserOps) /\ Spend("user")
    /\ {loser, survivor} \subseteq speakers /\ loser # survivor
    /\ LET both == Members(loser) \union Members(survivor)
           Said(s, v) == \E a \in both : a[1] = s /\ prints[a].hears = v
       IN  /\ pins' = Cascade({loser}, PinMembersOf(PinMembersOf(pins, loser, survivor),
                                                    survivor, survivor))
           /\ prints' = Fold(loser, survivor)
           /\ meant' = [s \in Sessions |-> [v \in Voices |->
                            IF Said(s, v) THEN survivor ELSE meant[s][v]]]
    /\ speakers' = speakers \ {loser}
    /\ named' = IF loser \in named THEN (named \ {loser}) \union {survivor} ELSE named
    /\ UNCHANGED <<created, snapshots, diarized, view, stood, dropped>>

\* label_speaker, with a name or with null.
Name(id) ==
    /\ May("user", UserOps) /\ Spend("user")
    /\ id \in speakers
    /\ named' = IF id \in named THEN named \ {id} ELSE named \union {id}
    /\ UNCHANGED <<prints, pins, speakers, created, snapshots, diarized, view, meant, stood,
                   dropped>>

----------------------------------------------------------------------------
(* The batch rebuild, one at a time: the advisory lock of the user. *)

\* A choice of clusters: each print that takes part points to one of its cluster.
\* Prints with equal pins are together and prints with different pins apart.
Respects(rep, prs) ==
    /\ \A a \in prs : rep[a] # <<>> => rep[rep[a]] = rep[a]
    /\ \A a, b \in {c \in prs : rep[c] # <<>> /\ pins[c] # None} :
          pins[a] = pins[b] <=> rep[a] = rep[b]

\* Variant: the talk gate comes before the pins.
ClusteringsGated(prs) == {rep \in [prs -> prs \union {<<>>}] : Respects(rep, prs)}

\* cluster_corpus, whatever the geometry is; prints with too little talk take no
\* part, unless pinned.
Clusterings(prs) ==
    {rep \in [prs -> prs \union {<<>>}] :
        Respects(rep, prs) /\ \A a \in prs : pins[a] # None => rep[a] # <<>>}

\* corpus_for_user; _reconcile takes the clusters with a pin first, then the larger.
RebuildRead ==
    /\ ~view.open /\ May("rebuild", Rebuilds) /\ Spend("rebuild")
    /\ \E rep \in Clusterings(Printed) :
          LET Cluster(a) == {b \in Printed : rep[b] = rep[a]}
              Pinned(C) == \E a \in C : pins[a] # None
              Before(C, D) == \/ Pinned(C) /\ ~Pinned(D)
                              \/ (Pinned(C) <=> Pinned(D)) /\ Cardinality(C) > Cardinality(D)
          IN  \E order \in SetToSeqs({Cluster(a) : a \in {b \in Printed : rep[b] # <<>>}}) :
                /\ \A i, j \in DOMAIN order : i < j => ~Before(order[j], order[i])
                /\ view' = [open |-> TRUE, pins |-> pins, prints |-> prints, order |-> order]
    /\ UNCHANGED <<prints, pins, speakers, named, created, snapshots, diarized, meant, stood,
                   dropped>>

\* Of some speakers, the named one most members came from, else the unnamed.
MostOf(C, ids) ==
    LET Count(id) == Cardinality({a \in C : view.prints[a].owner = id})
        known == {id \in ids : Count(id) > 0}
        wanted == IF known \intersect named # {} THEN known \intersect named ELSE known
    IN  IF wanted = {} THEN None
        ELSE Min({id \in wanted : \A other \in wanted : Count(other) <= Count(id)})

\* Variant: an identity may be claimed twice.
MatchAnyone(C, claimed) == MostOf(C, speakers)

\* _match_identity.
Match(C, claimed) == MostOf(C, speakers \ claimed)

\* A fresh speaker for a cluster that is nobody, or whose speaker is gone.
Claim(found, taken) == IF found \in speakers THEN found ELSE Min(Ids \ taken)

PinnedIn(C) == {view.pins[a] : a \in C} \ {None}

\* Who a cluster is: whom its prints are pinned to, else the best match.
Who(acc, C) ==
    Claim(IF PinnedIn(C) = {} THEN Match(C, acc.claimed) ELSE Min(PinnedIn(C)), acc.created)

\* _reconcile of one more cluster: who it is, and so whose its prints are then.
Place(acc, C) ==
    LET id == Who(acc, C)
    IN  [claimed |-> acc.claimed \union {id},
         created |-> acc.created \union {id},
         owners  |-> [a \in Addresses |-> IF a \in C THEN id ELSE acc.owners[a]]]

Unplaced == [claimed |-> {}, created |-> created, owners |-> [a \in Addresses |-> None]]

\* After the first n clusters.
Reconciling[n \in 0..Len(view.order)] ==
    IF n = 0 THEN Unplaced ELSE Place(Reconciling[n - 1], view.order[n])

Reconciled == Reconciling[Len(view.order)]

\* The rest of rebuild_user_clusters, which prunes what is empty and unnamed.
RebuildWrite ==
    /\ view.open
    /\ Cardinality(Ids \ created) >= Len(view.order)
    /\ LET owned == Assign(Reconciled.owners)
           rows == speakers \union (Reconciled.created \ created)
           gone == Prunable(owned, rows, named)
       IN  /\ prints' = owned
           /\ pins' = Cascade(gone, pins)
           /\ speakers' = rows \ gone
           /\ named' = named \ gone
    /\ created' = Reconciled.created
    /\ view' = NoView
    /\ UNCHANGED <<snapshots, diarized, meant, stood, dropped, spent>>

\* A crash, or a speaker deleted under the rebuild: it is rolled back.
RebuildFails ==
    /\ view.open
    /\ view' = NoView
    /\ UNCHANGED <<prints, pins, speakers, named, created, snapshots, diarized, meant, stood,
                   dropped, spent>>

----------------------------------------------------------------------------
(* Diarization.  Both commands take the rebuild's lock. *)

\* identities_for_session: every label that is somebody, and where it spoke.
Identities(s) ==
    [l \in Labels |->
        LET a == <<s, l>>
            id == IF pins[a] # None THEN pins[a] ELSE prints[a].owner
        IN  IF a \in Printed /\ id # None
            THEN [id |-> id, pinned |-> pins[a] # None, hears |-> prints[a].hears]
            ELSE NoRecord]

\* Variant: an empty snapshot replaces one that was not applied yet.
SnapshotAnyway(s) == [applied |-> FALSE, labels |-> Identities(s)]

Snapshot(s) ==
    IF ~snapshots[s].applied /\ \A l \in Labels : Identities(s)[l] = NoRecord
    THEN snapshots[s] ELSE [applied |-> FALSE, labels |-> Identities(s)]

\* sessions rediarize, with --carry-labels or without: then the user has agreed
\* to lose what is asserted, unless an earlier snapshot still awaits its use.
Rediarize(s, carry) ==
    /\ ~view.open /\ May("rerun", Reruns) /\ Spend("rerun")
    /\ snapshots' = IF carry THEN [snapshots EXCEPT ![s] = Snapshot(s)] ELSE snapshots
    /\ prints' = FreshPrints(s, Silence)
    /\ diarized' = [diarized EXCEPT ![s] = FALSE]
    /\ Forget(s, IF carry \/ ~snapshots[s].applied THEN {} ELSE Voices)
    /\ UNCHANGED <<pins, speakers, named, created, view, stood>>

\* apply_labels of one record: a pin moves to the label that now has the speech,
\* an assignment is made again; what has no label, or whose speaker is gone, is
\* passed over.
Carry(s, fresh, acc, l) ==
    LET record == snapshots[s].labels[l]
        targets == {t \in Labels : fresh[<<s, t>>] # NoPrint
                                   /\ fresh[<<s, t>>].hears = record.hears}
        target == <<s, Min(targets)>>
    IN  IF record.id \notin speakers \/ targets = {} THEN acc
        ELSE IF record.pinned THEN [acc EXCEPT !.pins = Rekey(@, <<s, l>>, target, record.id)]
        ELSE [acc EXCEPT !.prints = Move(@, target, record.id)]

\* After the records of the first labels.
Carrying(s, fresh) ==
    LET upto[l \in 0..NumLabels] ==
            IF l = 0 THEN [pins |-> pins, prints |-> fresh]
            ELSE Carry(s, fresh, upto[l - 1], l)
    IN  upto

Applied(s, fresh) ==
    IF snapshots[s].applied THEN [pins |-> pins, prints |-> fresh]
    ELSE Carrying(s, fresh)[NumLabels]

\* diarize's publication, for the first time or by a job that is run again and
\* hears the same.  Of a voice that is no longer heard nothing is meant.
Publish(s) ==
    /\ ~view.open
    /\ \E hears \in Hearings :
          LET done == Applied(s, FreshPrints(s, hears))
          IN  /\ diarized[s] => \A l \in Labels : prints[<<s, l>>].hears = hears[l]
              /\ prints' = done.prints
              /\ pins' = done.pins
              /\ Forget(s, {v \in Voices : \A l \in Labels : hears[l] # v})
              /\ stood' = [a \in Addresses |->
                              stood[a] \union (IF a[1] = s THEN {hears[a[2]]} \ {Nobody} ELSE {})]
    /\ IF diarized[s] THEN May("rerun", Reruns) /\ Spend("rerun") ELSE UNCHANGED spent
    /\ snapshots' = [snapshots EXCEPT ![s].applied = TRUE]
    /\ diarized' = [diarized EXCEPT ![s] = TRUE]
    /\ UNCHANGED <<speakers, named, created, view>>

----------------------------------------------------------------------------
Curate ==
    \/ \E a \in Addresses : Unpin(a) \/ \E to \in Ids : Reassign(a, to)
    \/ \E id \in Ids : Name(id) \/ \E survivor \in Ids : Merge(id, survivor)

Rebuild == RebuildRead \/ RebuildWrite \/ RebuildFails

Diarize == \E s \in Sessions : Publish(s) \/ \E carry \in BOOLEAN : Rediarize(s, carry)

Next == Curate \/ Rebuild \/ Diarize

Spec == Init /\ [][Next]_vars

----------------------------------------------------------------------------
RecordType == [id : Ids \union {None}, pinned : BOOLEAN, hears : Voices \union {Nobody}]

\* Every variable has its type, and what is assigned or pinned is a speaker that
\* exists (the foreign keys, which a rebuild that works on an old view of the
\* corpus must respect).
TypeOK ==
    /\ prints \in [Addresses -> [hears : Voices \union {Nobody},
                                 owner : speakers \union {None}]]
    /\ \A a \in Addresses : prints[a].hears = Nobody => prints[a].owner = None
    /\ pins \in [Addresses -> speakers \union {None}]
    /\ named \subseteq speakers /\ speakers \subseteq created /\ created \subseteq Ids
    /\ snapshots \in [Sessions -> [applied : BOOLEAN, labels : [Labels -> RecordType]]]
    /\ diarized \in [Sessions -> BOOLEAN] /\ view.open \in BOOLEAN
    /\ meant \in [Sessions -> [Voices -> created \union {None}]]
    /\ spent \in [{"user", "rebuild", "rerun"} -> Nat]
    /\ stood \in [Addresses -> SUBSET Voices] /\ dropped \subseteq Sessions \X Voices

\* A voice that has had a label which has also stood for another voice.
Shares(s, v) == \E l \in Labels : v \in stood[<<s, l>>] /\ stood[<<s, l>>] # {v}

\* What the user said a voice is, its pin says after every rerun with
\* --carry-labels, whether the voice is heard under its old label, under a new one
\* or under one it had before, as long as that speaker exists; and no pin says what
\* the user did not, unless the voice's own old one after what was meant of it was
\* dropped: by a rerun without carrying, or by one that did not hear it
\* (services/label_carry.py: "re-key it onto the new labels once diarize
\* republishes").  This is not said of voices that have shared a label: pins
\* are re-keyed one after the other, so one that was just moved onto the name of a
\* later record is deleted when that record moves; and a pin that is left on a name
\* is inherited by the next voice that gets it.
CurationIsCarried ==
    \A a \in Printed :
        LET voice == prints[a].hears
            said == meant[a[1]][voice]
        IN  ~Shares(a[1], voice) =>
                /\ said \in speakers => pins[a] = said
                /\ <<a[1], voice>> \notin dropped => pins[a] \in {None, said}

\* A rebuild gives a pinned print to the speaker it is pinned to, unless the user
\* moved the pin after the rebuild had read it ("every future rebuild honors it",
\* database/repos/speakers.py, pin).
RebuildHonoursPins ==
    [][RebuildWrite => \A a \in Printed :
          pins[a] # None /\ pins[a] = view.pins[a] => prints'[a].owner = pins[a]]_vars

\* Clusters of a rebuild become different speakers, and each becomes one.
Apart ==
    \A i, j \in DOMAIN view.order : \A a \in view.order[i], b \in view.order[j] :
        (prints'[a].owner = prints'[b].owner) <=> i = j

\* A name is gone because the user cleared it or merged its speaker away.
Dropped(id) == Name(id) \/ \E other \in speakers : Merge(id, other)

\* What a speaker is survives a rebuild.  Clusters become different speakers,
\* whatever they were before: a pinned identity is not also claimed by those who
\* came from it ("Pins claim their identity before majority-matching can steal
\* it").  And a name is lost only when the user says so: neither an empty cluster
\* nor a republication takes it ("named empties survive as identity anchors").
IdentitiesLast ==
    [][/\ RebuildWrite => Apart
       /\ \A id \in named \ named' : Dropped(id)]_vars

----------------------------------------------------------------------------
(* The inductive invariants. *)

\* A voice is heard under one label, and it stood for it.
HearingInv ==
    \A s \in Sessions, l \in Labels : prints[<<s, l>>].hears # Nobody =>
        /\ diarized[s] /\ prints[<<s, l>>].hears \in stood[<<s, l>>]
        /\ \A k \in Labels : prints[<<s, k>>].hears = prints[<<s, l>>].hears => k = l

\* What a rebuild has read is still heard where it was, and its clusters are
\* apart, take in every pinned print, agree in their pins, and are led by those
\* with a pin.
ViewInv == view.open =>
    /\ view.order \in Seq(SUBSET Printed)
    /\ view.pins \in [Addresses -> Ids \union {None}]
    /\ \A a \in Printed : view.pins[a] # None => \E i \in 1..Len(view.order) : a \in view.order[i]
    /\ \A i, j \in 1..Len(view.order) :
          /\ i # j => view.order[i] \intersect view.order[j] = {}
          /\ i # j => PinnedIn(view.order[i]) \intersect PinnedIn(view.order[j]) = {}
          /\ i < j /\ PinnedIn(view.order[j]) # {} => PinnedIn(view.order[i]) # {}
    /\ \A i \in 1..Len(view.order) : \A p, q \in PinnedIn(view.order[i]) : p = q

\* What keeps curation from being lost between two diarizations.  A label that
\* never stood for anyone has no pin.  Of a voice that is not heard nothing is
\* meant, unless a snapshot awaits its use.
Heard(s, v) == \E l \in Labels : prints[<<s, l>>].hears = v

\* Such a snapshot knows each voice once, by a label that stood for it, and of the
\* voices that share no label it holds what was meant.
Holds(s) ==
    LET records == snapshots[s].labels
    IN  /\ ~diarized[s]
        /\ \A l \in Labels : records[l].id # None => records[l].hears \in stood[<<s, l>>]
        /\ \A k, l \in Labels : records[k].id # None /\ records[l].id # None
              /\ records[k].hears = records[l].hears => k = l
        /\ \A l \in Labels : records[l].id \in created \union {None}
        /\ \A l \in Labels : records[l].pinned => records[l].id # None
        /\ \A v \in Voices : ~Shares(s, v) =>
              /\ \A l \in Labels : records[l].pinned /\ records[l].hears = v =>
                    \/ meant[s][v] = records[l].id
                    \/ <<s, v>> \in dropped /\ meant[s][v] \notin speakers
              /\ meant[s][v] \in speakers =>
                    \E l \in Labels : records[l].pinned /\ records[l].hears = v

\* What is meant of a voice is pinned to the label under which it is heard.
Follows(s, v) ==
    \A l \in Labels : prints[<<s, l>>].hears = v /\ meant[s][v] \in speakers =>
        pins[<<s, l>>] = meant[s][v]

\* A voice of which nothing was dropped, and which shares no label, has no pin that
\* says anything but what is meant: where it was, it has one only if it still is
\* there, or if a snapshot will take it along.
Clean(s, v) ==
    \A l \in Labels : v \in stood[<<s, l>>] /\ pins[<<s, l>>] # None =>
        /\ pins[<<s, l>>] = meant[s][v]
        /\ diarized[s] => prints[<<s, l>>].hears = v
        /\ ~diarized[s] => /\ ~snapshots[s].applied
                           /\ snapshots[s].labels[l].pinned /\ snapshots[s].labels[l].hears = v

CarryOf(s) ==
    /\ \A l \in Labels : stood[<<s, l>>] = {} => pins[<<s, l>>] = None
    /\ diarized[s] \/ snapshots[s].applied =>
          \A v \in Voices : Heard(s, v) \/ meant[s][v] = None
    /\ ~snapshots[s].applied => Holds(s)
    /\ \A v \in Voices : ~Shares(s, v) =>
          /\ Follows(s, v)
          /\ <<s, v>> \notin dropped => Clean(s, v)

CarryInv == \A s \in Sessions : CarryOf(s)
=============================================================================
