--------------------------- MODULE Conversations ---------------------------
(***************************************************************************)
(* From utterances to conversations: runs of turns without a long silence  *)
(* or a block's seam inside, split where the participants change           *)
(* (processing/pipelines/conversation.py, build_conversations).  A turn is *)
(* [id, start, end, block, speaker], speaker 0 for none; labels belong to  *)
(* a block.  Exclusions are left out, which nothing supplies yet.          *)
(***************************************************************************)
EXTENDS Intervals

CONSTANTS
    GapMs,        \* conversation_gap_ms
    MinTurns,     \* conversation_min_turns
    Window,       \* conversation_churn_window
    ChurnMin      \* conversation_churn_min_turns

ASSUME ConversationsAssumption == {GapMs, MinTurns, Window, ChurnMin} \subseteq Nat

NoGap == -1000     \* None, at the edge of the session; no gap is that negative

EndOf(members) == Max({t.end : t \in ToSet(members)})

\* summarize: what a conversation's members add up to.  A label is one of a block.
Summarize(members) ==
    LET ordered == Ordered(members, Earlier)
        Alternates(k) ==
            /\ ordered[k].speaker # 0 /\ ordered[k + 1].speaker # 0
            /\ ordered[k].block = ordered[k + 1].block
            /\ ordered[k].speaker # ordered[k + 1].speaker
    IN  [start        |-> ordered[1].start,
         end          |-> EndOf(members),
         turns        |-> Len(members),
         alternations |-> Cardinality({k \in 1..Len(members) - 1 : Alternates(k)}),
         speakers     |-> {t.speaker : t \in ToSet(members)} \ {0}]

\* _assemble: closures[i] is why run i ended.
Assemble(runs, closures) ==
    [i \in DOMAIN runs |->
        [members   |-> runs[i],
         opening   |-> IF i = 1 THEN "session_start" ELSE closures[i - 1],
         closure   |-> closures[i],
         gapBefore |-> IF i = 1 THEN NoGap ELSE runs[i][1].start - EndOf(runs[i - 1]),
         gapAfter  |-> IF i = Len(runs) THEN NoGap
                       ELSE runs[i + 1][1].start - EndOf(runs[i])]]

\* Runs of turns, in order; Reach says up to where a run has been heard.
GroupedBy(turns, Reach(_, _)) ==
    LET First(a, b) == Earlier(a, b) \/ (~Earlier(b, a) /\ a.id < b.id)
        Why(acc, t) ==
            IF t.start - acc.end > GapMs THEN "gap"
            ELSE IF t.block # Last(Last(acc.runs)).block THEN "block" ELSE "none"
        Place(acc, t) ==
            LET why == Why(acc, t)
                end == Reach(acc.end, t.end)
            IN  IF why = "none"
                THEN [acc EXCEPT !.runs = Append(Front(@), Append(Last(@), t)), !.end = end]
                ELSE [runs     |-> Append(acc.runs, <<t>>),
                      closures |-> Append(acc.closures, why),
                      end      |-> end]
        ordered == Ordered(turns, First)
        grouped == FoldLeft(Place, [runs     |-> <<<<ordered[1]>>>>,
                                    closures |-> <<>>,
                                    end      |-> ordered[1].end], Tail(ordered))
    IN  IF turns = <<>> THEN <<>>
        ELSE Assemble(grouped.runs, Append(grouped.closures, "session_end"))

\* Variant: silence is measured from the last turn, not from the latest end.
GroupByLastTurn(turns) == GroupedBy(turns, LAMBDA sofar, end : end)

GroupConversations(turns) == GroupedBy(turns, Larger)

\* user_labels: the labels identified as the user's in that block, else the one
\* with the most talk, the first of those with equally much.
UserLabels(turns, identified, block) ==
    LET voices == {t.speaker : t \in {u \in ToSet(turns) : u.block = block}} \ {0}
        known == {s \in voices : <<block, s>> \in identified}
        Talk(s) == FoldLeft(LAMBDA sum, t :
                                IF t.block = block /\ t.speaker = s
                                THEN sum + t.end - t.start ELSE sum,
                            0, turns)
        loudest == {s \in voices : \A o \in voices : Talk(o) <= Talk(s)}
    IN  IF known # {} THEN known
        ELSE IF voices = {} THEN {} ELSE {Min(loudest)}

\* The non-user speakers of members from..to, in order.
Others(members, from, to, user) ==
    SelectSeq([k \in 1..to - from + 1 |-> members[from + k - 1].speaker],
              LAMBDA s : s # 0 /\ s \notin user)

\* The participants change before member i + 1.
Shifts(members, i, user) ==
    LET before == Others(members, i - Window + 1, i, user)
        after == Others(members, i + 1, i + Window, user)
    IN  /\ Len(before) >= ChurnMin /\ Len(after) >= ChurnMin
        /\ ToSet(before) \intersect ToSet(after) = {}

\* Where a conversation is cut; scanning resumes a window after a cut.
Cuts(members, user) ==
    LET from[i \in 0..Len(members) + 1] ==
            IF i > Len(members) - Window THEN <<>>
            ELSE IF Shifts(members, i, user) THEN <<i>> \o from[i + Window]
            ELSE from[i + 1]
    IN  IF Window < 1 \/ Len(members) < 2 * Window THEN <<>> ELSE from[Window]

Pieces(members, cuts) ==
    LET bounds == <<0>> \o cuts \o <<Len(members)>>
    IN  [k \in 1..Len(cuts) + 1 |-> SubSeq(members, bounds[k] + 1, bounds[k + 1])]

\* split_on_churn: the pieces keep what the conversation's ends say.
SplitOnChurn(c, user) ==
    LET cuts == Cuts(c.members, user)
        pieces == Assemble(Pieces(c.members, cuts),
                           Append([k \in DOMAIN cuts |-> "speaker_change"], c.closure))
        last == Len(pieces)
    IN  [pieces EXCEPT ![1].opening = c.opening, ![1].gapBefore = c.gapBefore,
                       ![last].gapAfter = c.gapAfter]

BuildConversations(turns, identified) ==
    LET grouped == GroupConversations(turns)
        SplitOf(c) == SplitOnChurn(c, UserLabels(turns, identified, c.members[1].block))
    IN  SelectSeq(FlattenSeq([k \in DOMAIN grouped |-> SplitOf(grouped[k])]),
                  LAMBDA c : Len(c.members) >= MinTurns)

----------------------------------------------------------------------------
\* No turn of a conversation comes after a silence of more than GapMs, or in
\* another block, and no turn is in two conversations.
AreConversationsOf(cs, turns) ==
    /\ \A i \in DOMAIN cs :
          /\ Len(cs[i].members) >= MinTurns
          /\ \A k \in 2..Len(cs[i].members) :
                LET t == cs[i].members[k]
                IN  /\ t.block = cs[i].members[1].block
                    /\ \E u \in ToSet(turns) :
                          u # t /\ ~Earlier(t, u) /\ t.start - u.end <= GapMs
    /\ \A i, j \in DOMAIN cs :
          i # j => ToSet(cs[i].members) \intersect ToSet(cs[j].members) = {}

\* The reason stamped on a conversation's edge is what is found there: a gap is
\* longer than GapMs, a seam is not, and neighbours agree on what parts them.
EdgesAreTrue(cs) ==
    \A i \in DOMAIN cs :
        /\ cs[i].opening = "gap" => cs[i].gapBefore > GapMs
        /\ cs[i].closure = "gap" => cs[i].gapAfter > GapMs
        /\ cs[i].opening = "block" => cs[i].gapBefore <= GapMs
        /\ (cs[i].opening = "session_start") <=> (cs[i].gapBefore = NoGap)
        /\ (cs[i].closure = "session_end") <=> (cs[i].gapAfter = NoGap)
        /\ i < Len(cs) /\ Last(cs[i].members).id + 1 = cs[i + 1].members[1].id =>
              cs[i].closure = cs[i + 1].opening

\* What a conversation's row says of it is so: its span holds its turns, and after a
\* gap begins more than GapMs after every earlier one; it alternates only between
\* speakers it lists, and if everyone is known, between all of them.
SummariesAreTrue(cs) ==
    \A i \in DOMAIN cs :
        LET c == cs[i]
            stats == Summarize(c.members)
            known == \A t \in ToSet(c.members) : t.speaker # 0
        IN  /\ \A t \in ToSet(c.members) : Covers(stats, t)
            /\ c.opening = "gap" =>
                  \A j \in 1..i - 1 : stats.start - Summarize(cs[j].members).end > GapMs
            /\ stats.alternations > 0 => Cardinality(stats.speakers) > 1
            /\ known => stats.alternations >= Cardinality(stats.speakers) - 1

\* A split has Window turns on either side, with no participant in common, so
\* that a shift of participants is one split and no turn gets lost at it.
SplitsAreShifts(cs, turns, identified) ==
    \A i \in DOMAIN cs : cs[i].closure = "speaker_change" /\ Window >= MinTurns =>
        /\ i < Len(cs)
        /\ LET before == cs[i].members
               after == cs[i + 1].members
               user == UserLabels(turns, identified, after[1].block)
           IN  /\ Last(before).id + 1 = after[1].id
               /\ Len(before) >= Window /\ Len(after) >= Window
               /\ ToSet(Others(before, Len(before) - Window + 1, Len(before), user))
                    \intersect ToSet(Others(after, 1, Window, user)) = {}
=============================================================================
