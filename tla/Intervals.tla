----------------------------- MODULE Intervals -----------------------------
(***************************************************************************)
(* Half-open intervals of milliseconds, [start, end), as the processing    *)
(* tiers pass them on, and the two shapes their loops have: sort, and join *)
(* to the last one or begin a new one.                                     *)
(***************************************************************************)
EXTENDS Integers, Sequences, FiniteSets, SequencesExt, FiniteSetsExt

\* Durations and offsets are small here: a division rounds down, as // does.
Ms(s) == s.start .. s.end - 1
Covers(outer, inner) == outer.start <= inner.start /\ inner.end <= outer.end
AllMs(S) == UNION {Ms(s) : s \in S}
Overlap(a, b) == Cardinality(Ms(a) \intersect Ms(b))

Larger(a, b) == IF a > b THEN a ELSE b
Smaller(a, b) == IF a < b THEN a ELSE b

\* sorted(seq, key=...): stable, First is the strict order of the keys.
Ordered(seq, First(_, _)) ==
    LET Before(i, j) == \/ First(seq[i], seq[j])
                        \/ ~First(seq[j], seq[i]) /\ i < j
        order == SortSeq([i \in DOMAIN seq |-> i], Before)
    IN  [i \in DOMAIN seq |-> seq[order[i]]]

Earlier(a, b) == a.start < b.start \/ (a.start = b.start /\ a.end < b.end)

\* sorted(spans) of pairs, by the rank of each: the provers do not know SortSeq.
Sorted(spans) ==
    LET Before(i, j) == \/ Earlier(spans[i], spans[j])
                        \/ ~Earlier(spans[j], spans[i]) /\ i < j
        rank == [i \in DOMAIN spans |-> Cardinality({j \in DOMAIN spans : Before(j, i)}) + 1]
    IN  [k \in DOMAIN spans |-> spans[CHOOSE i \in DOMAIN spans : rank[i] = k]]

\* Each element joins the last one, or stands by itself.
Coalesce(seq, Joins(_, _), Fuse(_, _)) ==
    LET Place(done, s) ==
            IF done # <<>> /\ Joins(done[Len(done)], s)
            THEN [done EXCEPT ![Len(done)] = Fuse(@, s)]
            ELSE Append(done, s)
        upto[n \in 0..Len(seq)] ==
            IF n = 0 THEN <<>> ELSE Place(upto[n - 1], seq[n])
    IN  upto[Len(seq)]

\* [s for s in seq if ...]
Selected(seq, Keeps(_)) ==
    LET upto[n \in 0..Len(seq)] ==
            IF n = 0 THEN <<>>
            ELSE IF Keeps(seq[n]) THEN Append(upto[n - 1], seq[n]) ELSE upto[n - 1]
    IN  upto[Len(seq)]

\* Join by reaching to the later end, or to the latest one.
Extend(a, b) == [a EXCEPT !.end = b.end]
Widen(a, b) == [a EXCEPT !.end = Larger(@, b.end)]

AreDisjoint(seq) == \A i, j \in DOMAIN seq : i < j => seq[i].end <= seq[j].start
=============================================================================
