----------------------------- MODULE LabelSplits -----------------------------
(***************************************************************************)
(* The purity audit of a diarization: a label under which several people   *)
(* speak is split (split_labels of processing/pipelines/diarize.py).  The  *)
(* embedding of a turn is a voice, a place on a line, or 0 when it has     *)
(* none; voices are further apart than what cluster_corpus joins, so its   *)
(* clusters are the voices heard.                                          *)
(***************************************************************************)
EXTENDS Intervals

CONSTANTS
    SplitMinClean,   \* split_min_clean_ms
    TurnMinClean     \* turn_min_clean_ms

ASSUME LabelSplitsAssumption == SplitMinClean \in Nat \ {0} /\ TurnMinClean \in Nat

\* The turns of a label that have a say, and the clean speech of some of them.
Voters(turns, label) ==
    {i \in DOMAIN turns : /\ turns[i].speaker = label /\ turns[i].voice # 0
                          /\ turns[i].clean >= TurnMinClean}

CleanSum(turns, members) == FoldSet(LAMBDA i, sum : sum + turns[i].clean, 0, members)

Clusters(turns, label) ==
    {{i \in Voters(turns, label) : turns[i].voice = v} :
        v \in {turns[i].voice : i \in Voters(turns, label)}}

\* The clusters with enough clean speech, the most of it first.
Surviving(turns, label) ==
    SetToSortSeq({C \in Clusters(turns, label) : CleanSum(turns, C) >= SplitMinClean},
                 LAMBDA C, D : \/ CleanSum(turns, C) > CleanSum(turns, D)
                               \/ CleanSum(turns, C) = CleanSum(turns, D) /\ Min(C) < Min(D))

\* The first of the places whose distance is least.
Nearest(distances) ==
    CHOOSE g \in DOMAIN distances : \A h \in DOMAIN distances :
        \/ distances[g] < distances[h]
        \/ distances[g] = distances[h] /\ g <= h

Distance(v, w) == Larger(v - w, w - v)

IntervalGap(a, b) == Larger(Larger(a.start - b.end, b.start - a.end), 0)

\* group_of: a small cluster folds into the surviving one that sounds most like it.
GroupOf(turns, label, surviving) ==
    LET Voice(C) == turns[Min(C)].voice
    IN  [i \in Voters(turns, label) |->
            Nearest([g \in DOMAIN surviving |->
                        Distance(turns[i].voice, Voice(surviving[g]))])]

\* assigned: a turn without a say goes where the voter nearest in time is.
Assigned(turns, label, surviving) ==
    LET group == GroupOf(turns, label, surviving)
        Gap(i, g) == Min({IntervalGap(turns[i], turns[v]) :
                             v \in {w \in DOMAIN group : group[w] = g}})
    IN  [i \in {j \in DOMAIN turns : turns[j].speaker = label} |->
            IF i \in DOMAIN group THEN group[i]
            ELSE Nearest([g \in DOMAIN surviving |-> Gap(i, g)])]

\* A label that does not have two such clusters stays plain, group 0.
SplitLabels(turns) ==
    LET Final(i) ==
            LET label == turns[i].speaker
                surviving == Surviving(turns, label)
            IN  <<label, IF Len(surviving) < 2 THEN 0
                         ELSE Assigned(turns, label, surviving)[i]>>
    IN  [i \in DOMAIN turns |-> Final(i)]

----------------------------------------------------------------------------
\* Two voices with enough clean speech are not under one label; a voice that has
\* a say is under one label only; every part of a split label has such a voice, the
\* parts are numbered without a gap, in the order of the clean speech of their own
\* voice; and a turn without a say is where a voter nearest in time is.
AreSpeakersOf(final, turns) ==
    LET Label(i) == turns[i].speaker
        Part(i) == final[i][2]
        Parts(l) == {Part(i) : i \in {j \in DOMAIN turns : Label(j) = l}}
        Enough(l) == {C \in Clusters(turns, l) : CleanSum(turns, C) >= SplitMinClean}
        In(C) == {Part(i) : i \in C}
    IN  /\ \A i \in DOMAIN turns : final[i][1] = Label(i)
        /\ \A l \in {Label(i) : i \in DOMAIN turns} :
              /\ \A C \in Clusters(turns, l) : Cardinality(In(C)) = 1
              /\ \A C, D \in Enough(l) :
                    /\ C # D => In(C) # In(D)
                    /\ CleanSum(turns, C) > CleanSum(turns, D) =>
                          \A g \in In(C), h \in In(D) : g < h
              /\ IF Cardinality(Enough(l)) < 2 THEN Parts(l) = {0}
                 ELSE Parts(l) = 1..Cardinality(Enough(l))
              /\ \A i \in DOMAIN turns \ Voters(turns, l) : Label(i) = l /\ Part(i) # 0 =>
                    \E v \in Voters(turns, l) :
                       /\ Part(v) = Part(i)
                       /\ \A w \in Voters(turns, l) :
                             IntervalGap(turns[i], turns[v]) <= IntervalGap(turns[i], turns[w])
=============================================================================
