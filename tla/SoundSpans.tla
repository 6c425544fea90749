----------------------------- MODULE SoundSpans -----------------------------
(***************************************************************************)
(* Sound events: which windows a session is tagged in (span_starts and     *)
(* dedupe_windows of processing/pipelines/audio_tag.py, with the tagger's  *)
(* own windowing, sidecars/audio_tagger/app.py), which tags survive        *)
(* (suppress_ancestors, session_tags), and the stretches over which a      *)
(* class holds (build_spans, select_spans of sound_span.py).  A window is  *)
(* [start, end, score], score[c] the level of class c, 0 when absent.      *)
(***************************************************************************)
EXTENDS Intervals, Relation

CONSTANTS
    NumClasses,
    ParentOf,       \* <<class, parent>> pairs, the ontology
    TagSpan,        \* audio_tag_span_ms
    TagWindow,      \* audio_tag_window_ms, WINDOW_MS
    TagHop,         \* audio_tag_hop_ms, HOP_MS
    MinWindow,      \* MIN_WINDOW_MS
    TagThreshold,   \* audio_tag_threshold
    Consecutive,    \* audio_tag_min_consecutive
    Enter,          \* sound_span_enter_score
    Sustain,        \* sound_span_sustain_score
    BridgeGap,      \* sound_span_bridge_gap_ms
    MinWindows,     \* sound_span_min_windows
    TopK,           \* sound_span_top_k
    MaxSpans        \* sound_span_max_spans

Classes == 1..NumClasses

\* ancestors: every class above c, IsAncestor[c, above].
IsAncestor ==
    TransitiveClosure([p \in Classes \X Classes |-> p \in ParentOf], Classes)

ASSUME SoundSpansAssumption ==
    /\ ParentOf \subseteq Classes \X Classes
    /\ \A c \in Classes : ~IsAncestor[c, c]
    /\ {TagSpan, TagWindow, TagHop, MinWindow, MinWindows} \subseteq Nat \ {0}
    /\ TagHop + MinWindow <= TagWindow /\ TagWindow <= TagSpan
    /\ (TagSpan - TagWindow) % TagHop = 0
    /\ 1 <= Sustain /\ Sustain <= Enter

\* Variant: consecutive spans meet instead of overlapping.
StartsAbutting(total) ==
    LET from[at \in Nat] ==
            IF at + TagSpan < total THEN <<at>> \o from[at + TagSpan] ELSE <<at>>
    IN  from[0]

\* span_starts, overlapping by a window less a hop.
SpanStarts(total) ==
    LET step == Larger(1, TagSpan - (TagWindow - TagHop))
        from[at \in Nat] ==
            IF at + TagSpan < total THEN <<at>> \o from[at + step] ELSE <<at>>
    IN  from[0]

\* _window_bounds of the tagger, over a clip that starts at base.
WindowBounds(base, length) ==
    LET End(at) == Smaller(at + TagWindow, length)
        from[at \in Nat] ==
            IF at >= length \/ (at > 0 /\ End(at) - at < MinWindow) THEN <<>>
            ELSE <<[start |-> base + at, end |-> base + End(at)]>>
                   \o IF End(at) = length THEN <<>> ELSE from[at + TagHop]
    IN  from[0]

\* process() and dedupe_windows: of windows with one start, the shortest.
TaggedWindows(total) ==
    LET starts == SpanStarts(total)
        all == Ordered(FlattenSeq([k \in DOMAIN starts |->
                           WindowBounds(starts[k], Smaller(TagSpan, total - starts[k]))]),
                       Earlier)
    IN  Coalesce(all, LAMBDA a, b : a.start = b.start, LAMBDA a, b : a)

\* suppress_ancestors: score 0 is an absent label.
Suppressed(score) ==
    [c \in Classes |->
        IF \E d \in Classes : IsAncestor[d, c] /\ score[d] > 0 /\ score[d] >= score[c]
        THEN 0 ELSE score[c]]

\* session_tags: a class whose run of windows was ever long enough.
SessionTags(windows) ==
    LET required == Smaller(Consecutive, Len(windows))
        Count(acc, w) ==
            LET run == [c \in Classes |-> IF w.score[c] >= TagThreshold
                                          THEN acc.run[c] + 1 ELSE 0]
            IN  [run |-> run,
                 qualified |-> acc.qualified \union
                     {c \in Classes : run[c] > 0 /\ run[c] >= required}]
    IN  FoldLeft(Count, [run |-> [c \in Classes |-> 0], qualified |-> {}], windows).qualified

\* _spans_for, with the level that opens a span: hold at Sustain, close after
\* too long a gap.
Stretches(c, windows, level) ==
    LET Close(acc) ==
            IF acc.scores # <<>> /\ Len(acc.scores) >= MinWindows
            THEN Append(acc.spans, [class |-> c, start |-> acc.start, end |-> acc.end,
                                    windows |-> Len(acc.scores),
                                    peak |-> Max(ToSet(acc.scores))])
            ELSE acc.spans
        Hear(before, w) ==
            LET score == w.score[c]
                acc == IF before.scores # <<>> /\ w.start - before.end > BridgeGap
                       THEN [before EXCEPT !.spans = Close(before), !.scores = <<>>]
                       ELSE before
            IN  IF acc.scores # <<>> /\ score >= Sustain
                THEN [acc EXCEPT !.scores = Append(@, score), !.end = Larger(@, w.end)]
                ELSE IF acc.scores = <<>> /\ score >= level
                THEN [acc EXCEPT !.scores = <<score>>, !.start = w.start, !.end = w.end]
                ELSE acc
    IN  Close(FoldLeft(Hear, [spans |-> <<>>, scores |-> <<>>, start |-> 0, end |-> 0],
                       windows))

SpansFor(c, windows) == Stretches(c, windows, Enter)

BuildSpans(windows) == [c \in Classes |-> SpansFor(c, windows)]

Total(spans) == FoldLeft(LAMBDA sum, s : sum + s.end - s.start, 0, spans)

\* summaries, ranked: by covered time, peak, label.
Ranked(spans) ==
    LET Peak(c) == Max({s.peak : s \in ToSet(spans[c])})
        Before(c, d) ==
            \/ Total(spans[c]) > Total(spans[d])
            \/ Total(spans[c]) = Total(spans[d]) /\ Peak(c) > Peak(d)
    IN  Ordered(SelectSeq([c \in Classes |-> c], LAMBDA c : spans[c] # <<>>), Before)

\* select_spans: whole classes by rank until one does not fit; of a first class
\* that does not, the longest spans.
SelectSpans(spans) ==
    LET Longest(c) == SubSeq(Ordered(spans[c], LAMBDA s, t : s.end - s.start > t.end - t.start),
                             1, MaxSpans)
        Take(acc, c) ==
            IF acc.over THEN acc
            ELSE IF Len(acc.kept) + Len(spans[c]) <= MaxSpans
            THEN [acc EXCEPT !.kept = @ \o spans[c]]
            ELSE [over |-> TRUE,
                  kept |-> IF acc.kept = <<>> THEN Longest(c) ELSE acc.kept]
        ranked == Ranked(spans)
    IN  FoldLeft(Take, [over |-> FALSE, kept |-> <<>>],
                 SubSeq(ranked, 1, Smaller(TopK, Len(ranked)))).kept

----------------------------------------------------------------------------
\* "the service's hop grid stays continuous across the seam": the windows are
\* those one pass over the whole session would give.
SeamsAreInvisible(total) == TaggedWindows(total) = WindowBounds(0, total)

\* A label is dropped only for a more specific one that stays, and none stays that
\* a more specific one is as sure of.
SpecificTagsStay(score) ==
    LET left == Suppressed(score)
    IN  /\ \A c \in Classes : score[c] > 0 /\ left[c] = 0 =>
              \E d \in Classes : IsAncestor[d, c] /\ left[d] >= score[c]
        /\ \A c, d \in Classes : left[c] > 0 /\ left[d] > 0 /\ IsAncestor[d, c] =>
              score[d] < score[c]

\* A session has a tag when that class held for enough windows in a row.
TagsPersist(windows) ==
    LET required == Smaller(Consecutive, Len(windows))
    IN  SessionTags(windows) =
          {c \in Classes : windows # <<>> /\ \E k \in 1..Len(windows) - required + 1 :
              \A i \in k..k + required - 1 : windows[i].score[c] >= TagThreshold}

\* Hysteresis without a scan: a window counts when its class holds and can be
\* traced back, over bridged gaps, to one that entered; what is linked is one
\* span, if it has enough windows.
HysteresisOf(c, windows) ==
    LET held == {k \in DOMAIN windows : windows[k].score[c] >= Sustain}
        Linked(i, j) == \A b \in held \intersect (i + 1..j) :
            windows[b].start - windows[Max(held \intersect (i..b - 1))].end <= BridgeGap
        heard == {k \in held : \E i \in held : /\ i <= k /\ Linked(i, k)
                                               /\ windows[i].score[c] >= Enter}
        Stretch(i) == {k \in heard : i <= k /\ Linked(i, k)}
        opening == {i \in heard : \A k \in heard : k < i => ~Linked(k, i)}
    IN  {[class |-> c, start |-> windows[i].start, end |-> windows[Max(Stretch(i))].end,
          windows |-> Cardinality(Stretch(i)),
          peak |-> Max({windows[k].score[c] : k \in Stretch(i)})] :
            i \in {o \in opening : Cardinality(Stretch(o)) >= MinWindows}}

\* Classes are kept whole, save a first one that is too many by itself, within
\* both limits, and none is passed over for one with less time.
ClassesAreWhole(spans, kept) ==
    LET classes == {s.class : s \in ToSet(kept)}
        Part(c) == {s \in ToSet(kept) : s.class = c}
    IN  /\ Len(kept) <= MaxSpans /\ Cardinality(classes) <= TopK
        /\ \A c \in classes : Part(c) = ToSet(spans[c]) \/ classes = {c}
        /\ \A c \in classes, d \in Classes \ classes : Total(spans[c]) >= Total(spans[d])
=============================================================================
