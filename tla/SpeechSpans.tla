---------------------------- MODULE SpeechSpans ----------------------------
(***************************************************************************)
(* From per-frame speech probabilities to speech spans, and from spans to  *)
(* the blocks that are diarized (processing/vad.py, spans_from_scores, and *)
(* processing/pipelines/diarize.py, blocks_from_spans).  A probability is  *)
(* a level; the confidence a span carries is left out.                     *)
(***************************************************************************)
EXTENDS Intervals

CONSTANTS
    FrameMs,       \* FRAME_MS
    Threshold,     \* vad_threshold
    MinSpeech,     \* vad_min_speech_ms
    MergeGap,      \* vad_merge_gap_ms
    Pad,           \* vad_pad_ms
    MaxSpan,       \* vad_max_span_ms
    BlockGap,      \* diarize_block_merge_gap_ms
    MaxBlock       \* diarize_max_block_ms

ASSUME SpeechSpansAssumption ==
    /\ {FrameMs, MaxSpan, MaxBlock} \subseteq Nat \ {0}
    /\ {Threshold, MinSpeech, MergeGap, Pad, BlockGap} \subseteq Nat
    /\ (MaxSpan * 3) \div 4 >= FrameMs
    /\ MaxSpan <= MaxBlock

\* One more frame: the run it goes on, or a run of its own.
Heard(runs, scores, i) ==
    IF scores[i] < Threshold THEN runs
    ELSE IF runs # <<>> /\ runs[Len(runs)].end = (i - 1) * FrameMs
    THEN [runs EXCEPT ![Len(runs)].end = i * FrameMs]
    ELSE Append(runs, [start |-> (i - 1) * FrameMs, end |-> i * FrameMs])

\* The runs of frames at or above the threshold; frames count from 1.
Raw(scores) ==
    LET upto[n \in 0..Len(scores)] ==
            IF n = 0 THEN <<>> ELSE Heard(upto[n - 1], scores, n)
    IN  upto[Len(scores)]

Merged(spans) == Coalesce(spans, LAMBDA a, b : b.start - a.end < MergeGap, Extend)

LongEnough(s) == s.end - s.start >= MinSpeech

\* Variant: too short is decided before merging.
KeptEarly(scores) == Merged(Selected(Raw(scores), LongEnough))

Kept(scores) == Selected(Merged(Raw(scores)), LongEnough)

Padded(spans, total) ==
    Coalesce([k \in DOMAIN spans |-> [start |-> Larger(0, spans[k].start - Pad),
                                      end   |-> Smaller(total, spans[k].end + Pad)]],
             LAMBDA a, b : b.start <= a.end, Extend)

\* _quietest_cut: the first quietest frame in the last quarter of the window,
\* or the hard cap when that quarter lies beyond the scored audio.
QuietestCut(at, scores) ==
    LET lo == (at + (MaxSpan * 3) \div 4) \div FrameMs
        hi == Smaller((at + MaxSpan) \div FrameMs, Len(scores))
        quiet == {i \in lo..hi - 1 : \A j \in lo..hi - 1 : scores[i + 1] <= scores[j + 1]}
    IN  IF lo >= hi THEN at + MaxSpan ELSE Min(quiet) * FrameMs

\* One round of the loop that splits: what is cut off, and where it goes on.
CutOff(loop, span, scores) ==
    IF span.end - loop.at > MaxSpan
    THEN LET cut == QuietestCut(loop.at, scores)
         IN  [at |-> cut, done |-> Append(loop.done, [start |-> loop.at, end |-> cut])]
    ELSE loop

\* After so many rounds, each of which goes on by a millisecond at least.
Split(span, scores) ==
    LET upto[n \in 0..span.end - span.start] ==
            IF n = 0 THEN [at |-> span.start, done |-> <<>>]
            ELSE CutOff(upto[n - 1], span, scores)
        last == upto[span.end - span.start]
    IN  Append(last.done, [start |-> last.at, end |-> span.end])

SpansFromScores(scores, total) ==
    LET padded == Padded(Kept(scores), total)
        upto[k \in 0..Len(padded)] ==
            IF k = 0 THEN <<>> ELSE upto[k - 1] \o Split(padded[k], scores)
    IN  upto[Len(padded)]

BlocksFromSpans(spans) ==
    Coalesce(spans,
             LAMBDA b, s : s.start - b.end <= BlockGap /\ s.end - b.start <= MaxBlock,
             Widen)

----------------------------------------------------------------------------
\* What the docstring of spans_from_scores promises, without an order of
\* passes: loud frames are linked across gaps shorter than MergeGap; the
\* stretches so formed that last MinSpeech are speech, widened by Pad.
SpeechMs(scores, total) ==
    LET loud == {i \in DOMAIN scores : scores[i] >= Threshold}
        Linked(i, j) == \A a, b \in loud \intersect (i..j) :
            \/ a >= b - 1
            \/ \E c \in loud : a < c /\ c < b
            \/ (b - a - 1) * FrameMs < MergeGap
        Stretch(i) == {j \in loud : IF i < j THEN Linked(i, j) ELSE Linked(j, i)}
        Speech(S) == [start |-> (Min(S) - 1) * FrameMs - Pad, end |-> Max(S) * FrameMs + Pad]
        speech == {S \in {Stretch(i) : i \in loud} :
                      (Max(S) - Min(S) + 1) * FrameMs >= MinSpeech}
    IN  AllMs({Speech(S) : S \in speech}) \intersect (0..total - 1)

\* The spans are ordered, disjoint, inside the audio, and none is empty or
\* longer than the transcriber's window.
AreClips(spans, total) ==
    /\ AreDisjoint(spans)
    /\ \A k \in DOMAIN spans :
          /\ 0 <= spans[k].start /\ spans[k].start < spans[k].end /\ spans[k].end <= total
          /\ spans[k].end - spans[k].start <= MaxSpan

\* Every span lies in one block; a block keeps to the cap, and the next one
\* begins only where it could not have gone on.
AreBlocksOf(blocks, spans) ==
    LET Within(b) == {k \in DOMAIN spans : Covers(b, spans[k])}
    IN  /\ \A k \in DOMAIN spans :
              Cardinality({i \in DOMAIN blocks : Covers(blocks[i], spans[k])}) = 1
        /\ \A i \in DOMAIN blocks : blocks[i].end - blocks[i].start <= MaxBlock
        /\ \A i \in DOMAIN blocks \ {1} :
              LET next == spans[Min(Within(blocks[i]))]
              IN  \/ next.start - blocks[i - 1].end > BlockGap
                  \/ next.end - blocks[i - 1].start > MaxBlock
=============================================================================
