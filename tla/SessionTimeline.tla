-------------------------- MODULE SessionTimeline --------------------------
(***************************************************************************)
(* A session's segments as one WAV file, addressed by bytes and by time    *)
(* (services/stitch.py, services/timeline.py), and the HTTP ranges asked   *)
(* of it (api/ranges.py).  Byte contents are left out, and of the fields of*)
(* a header, and of what a device declares, all but the sample rate.       *)
(***************************************************************************)
EXTENDS Intervals

CONSTANTS
    Header,       \* WAV_HEADER_BYTES
    FrameBytes,   \* SessionTimeline.frame_bytes
    Rate,         \* sample_rate_hz
    Second        \* 1000 ms

ASSUME SessionTimelineAssumption ==
    {Header, FrameBytes, Rate, Second} \subseteq Nat \ {0} /\ Rate >= Second

\* The loop of plan, after n segments: one piece per segment that has data,
\* [segment, start, length], and where the next one starts.
Placing(sizes) ==
    LET upto[n \in 0..Len(sizes)] ==
            IF n = 0 THEN [pieces |-> <<>>, at |-> Header]
            ELSE LET done == upto[n - 1]
                     length == Larger(0, sizes[n] - Header)
                 IN  IF length = 0 THEN done
                     ELSE [pieces |-> Append(done.pieces, [segment |-> n, start |-> done.at,
                                                           length |-> length]),
                           at |-> done.at + length]
    IN  upto

Plan(sizes) == Placing(sizes)[Len(sizes)]

Size(sizes) == Plan(sizes).at

\* The part of a piece that is in an inclusive range, as a range of its blob.
Cut(p, from, to) ==
    [segment |-> p.segment,
     from |-> Header + Larger(from, p.start) - p.start,
     to   |-> Header + Smaller(to, p.start + p.length - 1) - p.start]

\* The loop of slices, after n pieces: ranges of the header (0) and of blobs.
Slicing(pieces, from, to) ==
    LET upto[n \in 0..Len(pieces)] ==
            IF n = 0
            THEN IF from < Header
                 THEN <<[segment |-> 0, from |-> from, to |-> Smaller(to, Header - 1)]>>
                 ELSE <<>>
            ELSE IF pieces[n].start + pieces[n].length - 1 < from \/ pieces[n].start > to
                 THEN upto[n - 1]
                 ELSE Append(upto[n - 1], Cut(pieces[n], from, to))
    IN  upto

Slices(sizes, from, to) ==
    LET pieces == Plan(sizes).pieces
    IN  Slicing(pieces, from, to)[Len(pieces)]

NoAudio == [none |-> "no audio"]
NotStitchable == [none |-> "mixed formats"]
NotRenderable == [none |-> "no rate"]
Unknown == 0    \* a rate that is not declared, or a header that is none

\* check_uniform: every segment a WAV, and one rate among those declared.
IsUniform(segments) ==
    /\ \A s \in ToSet(segments) : s.wav
    /\ Cardinality({s.rate : s \in ToSet(segments)} \ {Unknown}) <= 1

\* _parse_wav_fmt: a segment shorter than a header has none.
HeaderRate(segment) == IF segment.size < Header THEN Unknown ELSE segment.header

\* _pcm_parameters: declared for the first segment, else in its header.
PcmRate(first) == IF first.rate # Unknown THEN first.rate ELSE HeaderRate(first)

LoadTimeline(segments) ==
    IF segments = <<>> THEN NoAudio
    ELSE IF ~IsUniform(segments) THEN NotStitchable
    ELSE IF PcmRate(Head(segments)) = Unknown THEN NotRenderable
    ELSE [rate |-> PcmRate(Head(segments)),
          plan |-> Plan([k \in DOMAIN segments |-> segments[k].size])]

\* SessionTimeline.total_ms and _frame_offset.
TotalMs(data) == (data * Second) \div (Rate * FrameBytes)

FrameOffset(ms) == Header + ((ms * Rate) \div Second) * FrameBytes

Empty == <<>>   \* NotRenderable: "empty range"

\* SessionTimeline.byte_range.
ByteRange(data, from, to) ==
    LET first == FrameOffset(Larger(0, from))
        end == Smaller(FrameOffset(to), Header + data)
    IN  IF end <= first THEN Empty ELSE <<first, end - 1>>

Blob(p) == [i \in 1..p.length |-> <<p.segment, Header + i - 1>>]

\* The loop of iter_windows, after n pieces: windows of so many bytes and a rest; a
\* window is [at, bytes], a byte <<segment, offset>>.
Reading(pieces, window, bytes) ==
    LET upto[n \in 0..Len(pieces)] ==
            IF n = 0 THEN [buffer |-> <<>>, out |-> <<>>]
            ELSE LET acc == upto[n - 1]
                     buffer == acc.buffer \o Blob(pieces[n])
                     full == Len(buffer) \div bytes
                 IN  [buffer |-> SubSeq(buffer, full * bytes + 1, Len(buffer)),
                      out |-> acc.out \o
                          [k \in 1..full |->
                              [at    |-> (Len(acc.out) + k - 1) * window,
                               bytes |-> SubSeq(buffer, (k - 1) * bytes + 1, k * bytes)]]]
    IN  upto

WindowBytes(window) == ((window * Rate) \div Second) * FrameBytes

\* iter_windows: what is left at the end is a window too.
IterWindows(sizes, window) ==
    LET pieces == Plan(sizes).pieces
        read == Reading(pieces, window, WindowBytes(window))[Len(pieces)]
    IN  IF read.buffer = <<>> THEN read.out
        ELSE Append(read.out, [at |-> Len(read.out) * window, bytes |-> read.buffer])

Whole == <<>>           \* None: send everything
Unsatisfiable == <<0>>  \* RangeNotSatisfiable

Absent == -1            \* "N-" has no last, "-N" no first

\* parse_range of a single well-formed range; "-" is malformed.
ParseRange(first, last, size) ==
    IF first = Absent /\ last = Absent THEN Whole
    ELSE IF first = Absent
    THEN IF last <= 0 \/ size = 0 THEN Unsatisfiable ELSE <<Larger(0, size - last), size - 1>>
    ELSE LET end == IF last = Absent THEN size - 1 ELSE last
         IN  IF end < first \/ first >= size THEN Unsatisfiable
             ELSE <<first, Smaller(end, size - 1)>>

----------------------------------------------------------------------------
\* The stitched file, byte by byte: where each byte comes from.
Bytes(sizes) ==
    [i \in 1..Header |-> <<0, i - 1>>]
      \o FlattenSeq([k \in DOMAIN sizes |->
             [i \in 1..Larger(0, sizes[k] - Header) |-> <<k, Header + i - 1>>]])

\* What is read for a range is that range of the file, each byte once.
SlicesAreExact(sizes, from, to) ==
    LET slices == Slices(sizes, from, to)
    IN  FlattenSeq([k \in DOMAIN slices |->
            [i \in 1..slices[k].to - slices[k].from + 1 |->
                <<slices[k].segment, slices[k].from + i - 1>>]])
          = SubSeq(Bytes(sizes), from + 1, to + 1)

\* Two clips that meet in time meet in the file, on a frame, and no time the
\* session has is without sound.
ClipsTile(data, from, mid, to) ==
    LET left == ByteRange(data, from, mid)
        right == ByteRange(data, mid, to)
    IN  from < mid /\ mid < to /\ to <= TotalMs(data) =>
            /\ left # Empty /\ right # Empty
            /\ left[2] + 1 = right[1] /\ right[2] < Header + data
            /\ (right[1] - Header) % FrameBytes = 0
            /\ ByteRange(data, from, to) = <<left[1], right[2]>>

\* What scanning a session reads is what rendering it in clips would read, in
\* order and to the last byte, when a window is a whole number of frames.
WindowsAreClips(sizes, window) ==
    LET windows == IterWindows(sizes, window)
        data == Size(sizes) - Header
        Clip(w) == ByteRange(data, w.at, w.at + window)
    IN  (window * Rate) % Second = 0 =>
            /\ data > 0 <=> windows # <<>>
            /\ \A k \in DOMAIN windows :
                  /\ Clip(windows[k]) # Empty
                  /\ windows[k].bytes = SubSeq(Bytes(sizes), Clip(windows[k])[1] + 1,
                                               Clip(windows[k])[2] + 1)
            /\ FlattenSeq([k \in DOMAIN windows |-> windows[k].bytes])
                  = SubSeq(Bytes(sizes), Header + 1, Header + data)

\* A timeline is of segments that are WAV and agree with one another, and if all
\* say at which rate they are, that is the rate at which every one is played.
TimelinesAreUniform(segments) ==
    LET line == LoadTimeline(segments)
    IN  line \notin {NoAudio, NotStitchable, NotRenderable} =>
            \A s \in ToSet(segments) :
                /\ s.wav
                /\ (\A t \in ToSet(segments) : t.rate # Unknown) => s.rate = line.rate
                /\ Head(segments).rate # Unknown => s.rate \in {line.rate, Unknown}

\* RFC 9110: a range is the bytes that are asked for and exist; unsatisfiable
\* when there are none.
RangesAreAnswered(first, last, size) ==
    LET asked == IF first = Absent THEN {b \in 0..size - 1 : b >= size - last}
                 ELSE {b \in 0..size - 1 : b >= first /\ (last = Absent \/ b <= last)}
        answer == ParseRange(first, last, size)
    IN  \/ first = Absent /\ last = Absent
        \/ answer = IF asked = {} THEN Unsatisfiable ELSE <<Min(asked), Max(asked)>>
=============================================================================
