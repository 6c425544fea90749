---------------------------- MODULE SpeakerTurns ----------------------------
(***************************************************************************)
(* From the diarizer's turns to utterances, the units that are transcribed,*)
(* and the nesting of one utterance in another's (utterances_from_turns,   *)
(* _gap_crosstalk_ms, interjection_hosts and the min-turn filter of        *)
(* processing/pipelines/diarize.py).  How many turns an utterance merges   *)
(* is left out.                                                            *)
(***************************************************************************)
EXTENDS Intervals

CONSTANTS
    NumSpeakers,
    MinTurn,         \* diarize_min_turn_ms
    UtteranceGap,    \* diarize_utterance_merge_gap_ms
    MaxUtterance,    \* diarize_max_utterance_ms
    CrosstalkMax     \* diarize_merge_crosstalk_max_ms

ASSUME SpeakerTurnsAssumption ==
    /\ {NumSpeakers, MaxUtterance} \subseteq Nat \ {0}
    /\ {MinTurn, UtteranceGap, CrosstalkMax} \subseteq Nat

Rows(turns) == SelectSeq(turns, LAMBDA t : t.end - t.start >= MinTurn)

Spoken(turns) == SelectSeq(turns, LAMBDA t : t.end > t.start)

By(turns, speaker) == SelectSeq(turns, LAMBDA t : t.speaker = speaker)

\* Variant: only turns that begin in the gap count.
CrosstalkBegun(others, from, to) ==
    Cardinality((from..to - 1) \intersect
                AllMs({t \in ToSet(others) : from <= t.start /\ t.start < to}))

\* others in order; the cursor keeps stacked turns from counting twice.
GapCrosstalk(others, from, to) ==
    LET Count(acc, t) ==
            LET lo == Larger(t.start, acc.cursor)
                hi == Smaller(t.end, to)
            IN  IF hi > lo THEN [total |-> acc.total + hi - lo, cursor |-> hi] ELSE acc
    IN  FoldLeft(Count, [total |-> 0, cursor |-> from],
                 SelectSeq(others, LAMBDA t : t.start < to)).total

\* Near-equal pieces of a turn that is longer than the cap.
CutToCap(u) ==
    LET duration == u.end - u.start
        n == (duration + MaxUtterance - 1) \div MaxUtterance
        At(i) == u.start + (duration * i) \div n
    IN  IF duration <= MaxUtterance THEN <<u>>
        ELSE [i \in 1..n |-> [u EXCEPT !.start = At(i - 1), !.end = At(i)]]

\* Merged, for one speaker; raw turns decide what is foreign speech.
UtterancesOf(speaker, turns, raw) ==
    LET others == Ordered(SelectSeq(Spoken(raw), LAMBDA t : t.speaker # speaker), Earlier)
        Joins(u, t) ==
            /\ t.start - u.end <= UtteranceGap
            /\ Larger(t.end, u.end) - u.start <= MaxUtterance
            /\ GapCrosstalk(others, u.end, t.start) <= CrosstalkMax
        merged == Coalesce(Ordered(By(Spoken(turns), speaker), Earlier), Joins, Widen)
    IN  FlattenSeq([k \in DOMAIN merged |-> CutToCap(merged[k])])

UtterancesFromTurns(turns, raw) ==
    LET First(a, b) == Earlier(a, b) \/ (~Earlier(b, a) /\ a.speaker < b.speaker)
    IN  Ordered(FlattenSeq([s \in 1..NumSpeakers |-> UtterancesOf(s, turns, raw)]), First)

\* May root host u: another speaker's longer span around it.
MayHost(root, u) ==
    /\ root.end >= u.end /\ root.speaker # u.speaker
    /\ <<root.start, root.end>> # <<u.start, u.end>>

\* The host of each span, 0 for none: by start, longer first, the earliest root
\* that is still open and may host it.
InterjectionHosts(spans) ==
    LET order == Ordered([i \in DOMAIN spans |-> i], LAMBDA i, j :
                     \/ spans[i].start < spans[j].start
                     \/ spans[i].start = spans[j].start /\ spans[i].end > spans[j].end)
        Place(acc, i) ==
            LET open == SelectSeq(acc.roots, LAMBDA r : spans[r].end > spans[i].start)
                able == SelectSeq(open, LAMBDA r : MayHost(spans[r], spans[i]))
            IN  IF able = <<>> THEN [acc EXCEPT !.roots = Append(open, i)]
                ELSE [roots |-> open, host |-> [acc.host EXCEPT ![i] = Head(able)]]
    IN  FoldLeft(Place, [roots |-> <<>>, host |-> [i \in DOMAIN spans |-> 0]], order).host

----------------------------------------------------------------------------
\* What is said is transcribed, in clips the model takes; what the speaker did
\* not say is transcribed as theirs only within the two allowances; and what the
\* allowances let join is not apart, save at the cuts of a turn over the cap, when
\* the turns of that speaker do not overlap.
AreUtterancesOf(utterances, turns) ==
    LET Said(s, S) == AllMs({t \in ToSet(S) : t.speaker = s})
        Foreign(s) == AllMs({t \in ToSet(turns) : t.speaker # s})
        Meets(u, v) == u.speaker = v.speaker /\ u.end = v.start
        Uncut(u) == \A v \in ToSet(utterances) : ~Meets(u, v) /\ ~Meets(v, u)
    IN  /\ \A s \in 1..NumSpeakers : Said(s, Rows(turns)) \subseteq Said(s, utterances)
        /\ \A u \in ToSet(utterances) :
              /\ u.start < u.end /\ u.end - u.start <= MaxUtterance
              /\ \A from, to \in u.start..u.end :
                    from < to /\ (from..to - 1) \intersect Said(u.speaker, Rows(turns)) = {}
                    => /\ to - from <= UtteranceGap
                       /\ Cardinality((from..to - 1) \intersect Foreign(u.speaker))
                            <= CrosstalkMax
        /\ \A s \in 1..NumSpeakers :
              LET mine == By(utterances, s)
              IN  AreDisjoint(By(Rows(turns), s)) => \A k \in 1..Len(mine) - 1 :
                    LET u == mine[k]
                        v == mine[k + 1]
                    IN  \/ ~Uncut(u) \/ ~Uncut(v)
                        \/ v.start - u.end > UtteranceGap
                        \/ Larger(u.end, v.end) - u.start > MaxUtterance
                        \/ Cardinality((u.end..v.start - 1) \intersect Foreign(s))
                             > CrosstalkMax

\* A host is a root of another speaker around its interjection, the earliest
\* and then longest of them; what such a root holds is its interjection.
AreHostsOf(host, spans) ==
    \A i \in DOMAIN spans :
        LET around == {r \in DOMAIN spans : /\ host[r] = 0
                                            /\ Covers(spans[r], spans[i])
                                            /\ MayHost(spans[r], spans[i])}
        IN  IF host[i] = 0 THEN around = {}
            ELSE /\ host[i] \in around
                 /\ \A r \in around : \/ spans[host[i]].start < spans[r].start
                                      \/ /\ spans[host[i]].start = spans[r].start
                                         /\ spans[host[i]].end >= spans[r].end
=============================================================================
