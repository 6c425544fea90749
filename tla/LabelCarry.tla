----------------------------- MODULE LabelCarry -----------------------------
(***************************************************************************)
(* How hand curation finds its place after a re-diarize: an old label goes *)
(* to the new label that shares the most speech with it, an edited text to *)
(* the utterance that covers at least half of it (processing/label_carry). *)
(***************************************************************************)
EXTENDS Intervals

NoLabel == 0
NoEdit == 0

\* Where the loop of overlap_ms stands: the two pointers, and the sum so far.
Pointers == [i |-> 1, j |-> 1, total |-> 0]

\* Variant: the span that begins first is left behind.
LeaveByStart(a, b, at) ==
    IF at.i > Len(a) \/ at.j > Len(b) THEN at
    ELSE LET sum == at.total + Overlap(a[at.i], b[at.j])
         IN  IF a[at.i].start < b[at.j].start THEN [i |-> at.i + 1, j |-> at.j, total |-> sum]
             ELSE [i |-> at.i, j |-> at.j + 1, total |-> sum]

\* One iteration: the span that ends first is left behind.
Leave(a, b, at) ==
    IF at.i > Len(a) \/ at.j > Len(b) THEN at
    ELSE LET sum == at.total + Overlap(a[at.i], b[at.j])
         IN  IF a[at.i].end < b[at.j].end THEN [i |-> at.i + 1, j |-> at.j, total |-> sum]
             ELSE [i |-> at.i, j |-> at.j + 1, total |-> sum]

\* After so many iterations; there are no more than the spans.
Leaving(a, b) ==
    LET upto[n \in 0..Len(a) + Len(b)] ==
            IF n = 0 THEN Pointers ELSE Leave(a, b, upto[n - 1])
    IN  upto

\* overlap_ms.
OverlapMs(a, b) == Leaving(a, b)[Len(a) + Len(b)].total

\* map_labels of one old label: new[l] are the spans of the new label l, and
\* labels are numbered by name.
MapLabel(spans, new) ==
    LET Shared(l) == OverlapMs(Sorted(spans), Sorted(new[l]))
        best == {l \in DOMAIN new : \A m \in DOMAIN new : Shared(m) <= Shared(l)}
    IN  IF \A l \in DOMAIN new : Shared(l) = 0 THEN NoLabel ELSE Min(best)

\* Whether an utterance takes an edit rather than the best so far.
Takes(edits, best, k, span) ==
    LET shared == Overlap(edits[k], span)
    IN  /\ shared > (IF best = NoEdit THEN 0 ELSE Overlap(edits[best], span))
        /\ 2 * shared >= edits[k].end - edits[k].start

\* carried_text: which edit an utterance takes, the first of the best.
Carried(edits, span) ==
    LET upto[k \in 0..Len(edits)] ==
            IF k = 0 THEN NoEdit
            ELSE IF Takes(edits, upto[k - 1], k, span) THEN k ELSE upto[k - 1]
    IN  upto[Len(edits)]

----------------------------------------------------------------------------
\* "An old label maps to whichever new label covers the most of its speech",
\* and a label whose speech vanished to none.
LabelsFollowSpeech(old, new) ==
    LET Shared(l) == Cardinality(AllMs(ToSet(old)) \intersect AllMs(ToSet(new[l])))
        target == MapLabel(old, new)
    IN  IF target = NoLabel THEN \A l \in DOMAIN new : Shared(l) = 0
        ELSE Shared(target) > 0 /\ \A l \in DOMAIN new : Shared(l) <= Shared(target)

\* An utterance takes a text only when it covers half of what was edited, and no
\* text of which it covers less than of another; and of utterances that do not
\* overlap, at most two take the same text, and then each exactly a half.
EditsAreCovered(edits, utterances) ==
    LET takes == [u \in DOMAIN utterances |-> Carried(edits, utterances[u])]
        Half(k, u) == 2 * Overlap(edits[k], utterances[u]) >= edits[k].end - edits[k].start
    IN  /\ \A u \in DOMAIN utterances, k \in DOMAIN edits :
              takes[u] = k => Half(k, u)
        /\ \A u \in DOMAIN utterances, k \in DOMAIN edits :
              Half(k, u) /\ Overlap(edits[k], utterances[u]) > 0 =>
                /\ takes[u] # NoEdit
                /\ Overlap(edits[takes[u]], utterances[u]) >= Overlap(edits[k], utterances[u])
        /\ AreDisjoint(utterances) =>
              \A k \in DOMAIN edits :
                LET takers == {u \in DOMAIN utterances : takes[u] = k}
                IN  Cardinality(takers) > 1 =>
                        \A u \in takers : 2 * Overlap(edits[k], utterances[u])
                                            = edits[k].end - edits[k].start
=============================================================================
