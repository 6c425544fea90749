----------------------------- MODULE Algorithms -----------------------------
(***************************************************************************)
(* The algorithms the pipelines and the read paths are made of, each run   *)
(* on every input of a bounded space.  A state is one call: what it was    *)
(* given and what it returned.  Inputs that are a sequence of events (the  *)
(* turns of a talk, the windows of a recording) grow event by event, and   *)
(* every prefix is an input.                                               *)
(***************************************************************************)
EXTENDS SpeechSpans, SpeakerTurns, LabelSplits, Conversations, SoundSpans,
        SessionTimeline, LabelCarry, SessionViews, SessionAudio

CONSTANTS
    NumFrames, Levels,          \* bound: the frames scored, and their scores
    MaxTime, MaxRows,           \* bound: the end of a turn, the turns diarized
    MaxMoment, MaxCarried,      \* bound: the end of a span, the spans, where curation is carried
    SplitShapes, MaxSplit,      \* bound: how a turn follows the last, the turns audited
    TurnShapes, MaxTalk,        \* bound: how a turn follows the last, the turns of a talk
    WindowShapes, MaxWindows,   \* bound: how a window follows the last, the windows tagged
    MaxTotal,                   \* bound: the length of a session that is tagged
    MaxBlob, MaxSegments,       \* bound: the bytes of an object, the segments of a session
    MaxData,                    \* bound: the bytes of a file that is read
    MaxEdge, MaxArtifacts,      \* bound: the end of an artifact, the artifacts of a session
    MaxVoices, MaxTrack,        \* bound: the labels of a session, the fixes of a track
    MaxEvents, MaxCreated       \* bound: events around the media cache, segments created

\* A score is a level of probability.
ASSUME AlgorithmsAssumption == NumFrames \in Nat /\ Levels \subseteq Nat

VARIABLE call

Did(algorithm) == call.of = algorithm

AlgInit == call = [of |-> "none"]

\* speech_detect's process, and the blocks that diarize makes of its spans.  The
\* scores leave out a last, incomplete frame.
DetectSpeech ==
    /\ Did("none")
    /\ \E n \in 0..NumFrames, rest \in 0..FrameMs - 1 : \E scores \in [1..n -> Levels] :
          LET total == n * FrameMs + rest
              spans == SpansFromScores(scores, total)
          IN  call' = [of |-> "speech", scores |-> scores, total |-> total, spans |-> spans,
                       blocks |-> BlocksFromSpans(spans)]

\* diarize's rows: at most MaxRows turns of one block, in the diarizer's order.
MakeUtterances ==
    LET Turns == {t \in [start : 0..MaxTime, end : 0..MaxTime, speaker : 1..NumSpeakers] :
                     t.start < t.end}
        First(a, b) == Earlier(a, b) \/ (~Earlier(b, a) /\ a.speaker < b.speaker)
    IN  /\ Did("none")
        /\ \E n \in 1..MaxRows : \E turns \in [1..n -> Turns] :
              /\ \A i \in 1..n - 1 : First(turns[i], turns[i + 1])
              /\ LET utterances == UtterancesFromTurns(Rows(turns), turns)
                 IN  call' = [of |-> "utterances", turns |-> turns, utterances |-> utterances,
                              hosts |-> InterjectionHosts(utterances)]

\* The diarizer's turns before they are utterances, one more, and their audit.
AuditTurns ==
    LET turns == IF Did("split") THEN call.turns ELSE <<>>
    IN  /\ Did("none") \/ Did("split")
        /\ Len(turns) < MaxSplit
        /\ \E s \in SplitShapes :
              LET start == IF turns = <<>> THEN 0 ELSE Last(turns).start + s.after
                  more == Append(turns, [start |-> start, end |-> start + 1,
                                         speaker |-> s.speaker, voice |-> s.voice,
                                         clean |-> s.clean])
              IN  call' = [of |-> "split", turns |-> more, final |-> SplitLabels(more)]

\* A re-diarize: at most MaxCarried utterances of an old label, whose texts were edited,
\* and of two new labels, listed by start.
CarryOver ==
    LET Spans == {u \in [start : 0..MaxMoment, end : 0..MaxMoment] : u.start < u.end}
        Listed(n) == {seq \in [1..n -> Spans] :
                         \A i \in 1..n - 1 : ~Earlier(seq[i + 1], seq[i])}
    IN  /\ Did("none")
        /\ \E i, j, k \in 0..MaxCarried :
              /\ i + j + k <= MaxCarried
              /\ \E old \in Listed(i), some \in Listed(j), more \in Listed(k) :
                    call' = [of |-> "carry", old |-> old, new |-> <<some, more>>,
                             utterances |-> some \o more,
                             label |-> MapLabel(old, <<some, more>>)]

\* conversation's turns, one more: after the start of the last one, or behind
\* everything, in a new block.
Talk ==
    LET turns == IF Did("talk") THEN call.turns ELSE <<>>
        end == IF turns = <<>> THEN 0 ELSE EndOf(turns)
    IN  /\ Did("none") \/ Did("talk")
        /\ Len(turns) < MaxTalk
        /\ \E s \in TurnShapes :
              LET start == IF turns = <<>> THEN 0
                           ELSE s.after + IF s.seam THEN end ELSE Last(turns).start
                  block == IF turns = <<>> THEN 1
                           ELSE Last(turns).block + IF s.seam THEN 1 ELSE 0
                  said == Append(turns, [id |-> Len(turns) + 1, start |-> start,
                                         end |-> start + s.length, block |-> block,
                                         speaker |-> s.speaker])
              IN  \E known \in {{}, {<<1, 2>>}} :
                    /\ Did("talk") => known = call.identified
                    /\ call' = [of |-> "talk", turns |-> said, identified |-> known,
                                conversations |-> BuildConversations(said, known)]

\* audio_tag's windows, one more, a few hops on, and the spans of sound-span.
Hear ==
    LET windows == IF Did("sound") THEN call.windows ELSE <<>>
    IN  /\ Did("none") \/ Did("sound")
        /\ Len(windows) < MaxWindows
        /\ \E s \in WindowShapes :
              LET start == IF windows = <<>> THEN 0 ELSE Last(windows).start + s.hops * TagHop
                  heard == Append(windows, [start |-> start, end |-> start + TagWindow,
                                            score |-> s.score])
                  spans == BuildSpans(heard)
              IN  call' = [of |-> "sound", windows |-> heard, spans |-> spans,
                           tags |-> SessionTags(heard), kept |-> SelectSpans(spans)]

\* audio_tag's windows over a session of some length, and one window's labels.
TagWindows ==
    /\ Did("none")
    /\ \E total \in 1..MaxTotal :
          call' = [of |-> "windows", total |-> total, windows |-> TaggedWindows(total)]

SuppressLabels ==
    /\ Did("none")
    /\ \E score \in [Classes -> Levels] :
          call' = [of |-> "labels", score |-> score, left |-> Suppressed(score)]

\* The session's audio, read by bytes, rendered by time, asked for over HTTP.
ReadAudio ==
    /\ Did("none")
    /\ \E n \in 1..MaxSegments : \E sizes \in [1..n -> 0..MaxBlob] :
          \E from, to \in 0..Size(sizes) - 1 :
              /\ from <= to
              /\ call' = [of |-> "audio", sizes |-> sizes, from |-> from, to |-> to,
                          slices |-> Slices(sizes, from, to)]

LoadSession ==
    LET Kinds == [wav : BOOLEAN, rate : 0..2, header : 0..2, size : {Header - 1, Header + 1}]
    IN  /\ Did("none")
        /\ \E n \in 0..2 : \E segments \in [1..n -> Kinds] :
              call' = [of |-> "load", segments |-> segments]

\* speech_detect's scan of a session.
ScanSession ==
    /\ Did("none")
    /\ \E n \in 1..MaxSegments : \E sizes \in [1..n -> 0..MaxBlob + 1], window \in 1..MaxBlob :
          call' = [of |-> "scan", sizes |-> sizes, window |-> window]

RenderClips ==
    /\ Did("none")
    /\ \E data \in 0..MaxData : \E from, mid, to \in 0..TotalMs(data) :
          /\ from < mid /\ mid < to
          /\ call' = [of |-> "clips", data |-> data, from |-> from, mid |-> mid, to |-> to,
                      left |-> ByteRange(data, from, mid), right |-> ByteRange(data, mid, to)]

AnswerRange ==
    /\ Did("none")
    /\ \E first, last \in {Absent} \union 0..MaxBlob + 1, size \in 0..MaxBlob :
          call' = [of |-> "range", first |-> first, last |-> last, size |-> size,
                   answer |-> ParseRange(first, last, size)]

\* The timeline of a session, with spans of speech apart from one another, in two
\* windows; an open session has no end.
ViewTimeline ==
    LET Kinds == {"speech-span", "transcript", "conversation", "audio-tag", "sound-span",
                  "speech-map"}
        Spans == {a \in [kind : Kinds, start : 0..MaxEdge, end : 0..MaxEdge] : a.start < a.end}
    IN  /\ Did("none")
        /\ \E n \in 0..MaxArtifacts : \E spans \in [1..n -> Spans] :
              /\ \A i, j \in 1..n : i < j =>
                    /\ spans[i].start <= spans[j].start
                    /\ spans[i].kind = "speech-span" /\ spans[j].kind = "speech-span"
                          => spans[i].end <= spans[j].start
              /\ \E ended \in {None, 1, MaxEdge}, mid \in 0..MaxEdge,
                    times \in {<<>>, <<0, 2>>} :
                    call' = [of |-> "timeline", started |-> 15, ended |-> ended,
                             mid |-> mid, times |-> times,
                             rows |-> [k \in 1..n |->
                                 [id |-> k, kind |-> spans[k].kind, start |-> spans[k].start,
                                  end |-> spans[k].end]]]

\* Up to two batches of fixes, whose span is derived or declared, in two windows, of
\* a session that starts at a millisecond, before or after the middle of it.
FindFixes ==
    LET Times == {t \in UNION {[1..k -> 0..MaxEdge] : k \in 1..2} : IsBatch(t)}
    IN  /\ Did("none")
        /\ \E n \in 0..2 : \E times \in [1..n -> Times], at, lasts \in [1..n -> {None, 0, 2}] :
              \E mid \in 0..MaxEdge, started \in {10, 14, 15} :
                 call' = [of |-> "fixes", mid |-> mid, started |-> started,
                          batches |-> [b \in 1..n |->
                              [id |-> b] @@ Validated(times[b], at[b], lasts[b])]]

ListSpeakers ==
    /\ Did("none")
    /\ \E n \in 0..MaxVoices : \E speaker \in [1..n -> 0..2], talk \in [1..n -> 0..2] :
          call' = [of |-> "speakers",
                   labels |-> [k \in 1..n |-> [label |-> k, speaker |-> speaker[k],
                                                talk |-> talk[k]]]]

ThinTrack ==
    /\ Did("none")
    /\ \E total \in 0..MaxTrack, most \in 1..MaxTrack :
          call' = [of |-> "track", total |-> total, most |-> most]

\* Segments come and go while media requests read: one more event.
ServeMedia ==
    LET m == IF Did("media") THEN call.media ELSE NoMedia
        count == IF Did("media") THEN call.count ELSE 0
        Became(next) == call' = [of |-> "media", count |-> count + 1, media |-> next]
    IN  /\ Did("none") \/ Did("media")
        /\ count < MaxEvents
        /\ \/ /\ m.created < MaxCreated
              /\ \E s \in MediaSessions, bytes \in 0..1 :
                    \E number \in (0..MaxCreated) \ Numbers(m, s) :
                       Became(Ingested(m, s, number, bytes))
           \/ \E s \in MediaSessions : \E x \in m.segments[s] : Became(Deleted(m, s, x))
           \/ \E l \in Listeners, s \in MediaSessions :
                 m.seen[l] = Nobody /\ Became(Looked(m, l, s))
           \/ \E l \in Listeners :
                 /\ m.seen[l] # Nobody
                 /\ \/ m.seen[l].rows = {} /\ Became(Read(m, l))
                    \/ m.seen[l].rows # {} /\ Became(Built(m, l))
                    \/ m.seen[l].session \in m.deleted /\ Became(Failed(m, l))

AlgNext ==
    \/ ViewTimeline \/ ListSpeakers \/ FindFixes \/ ThinTrack \/ ServeMedia
    \/ DetectSpeech \/ MakeUtterances \/ AuditTurns \/ CarryOver \/ Talk
    \/ Hear \/ TagWindows \/ SuppressLabels
    \/ LoadSession \/ ScanSession \/ ReadAudio \/ RenderClips \/ AnswerRange

AlgSpec == AlgInit /\ [][AlgNext]_call

----------------------------------------------------------------------------
\* The frames that sound like speech, with the gaps and the padding the settings
\* allow, are in the spans and nothing else is, whatever the passes do to one
\* another (spans_from_scores: "Order matters"); every span is a clip the transcriber
\* takes, apart from the others; and no span is cut by a block, diarized twice, or
\* in a block of its own without need (blocks_from_spans).
SpeechIsCovered ==
    Did("speech") => /\ AllMs(ToSet(call.spans)) = SpeechMs(call.scores, call.total)
                     /\ AreClips(call.spans, call.total)
                     /\ AreBlocksOf(call.blocks, call.spans)

\* Whatever the diarizer returns, nothing that was said is left untranscribed,
\* every clip fits, and an utterance contains what its speaker did not say only
\* within the merge gap and the crosstalk allowance, and all that they allow
\* (utterances_from_turns).  Hosts are never interjections: publication inserts the
\* hosts first, to link the interjections to their ids (interjection_hosts).  And
\* before that, a label under which several people speak is split between them
\* (split_labels: "turns must keep coverage, they gate transcription").
UtterancesAreFaithful ==
    /\ Did("utterances") => /\ AreUtterancesOf(call.utterances, call.turns)
                            /\ AreHostsOf(call.hosts, call.utterances)
    /\ Did("split") => AreSpeakersOf(call.final, call.turns)

\* A conversation has no silence of more than conversation_gap_ms and no seam
\* inside, and no turn is in two; it is split only where its participants change,
\* and once; and what its edges say of why it began and ended is true, after
\* splitting and after short ones were dropped (build_conversations), and so is what
\* its row says of its turns (summarize).
ConversationsAreWhole ==
    Did("talk") => /\ AreConversationsOf(call.conversations, call.turns)
                   /\ EdgesAreTrue(call.conversations)
                   /\ SummariesAreTrue(call.conversations)
                   /\ SplitsAreShifts(call.conversations, call.turns, call.identified)

\* The tagger's windows over overlapping spans are those of a single pass: no
\* instant is scored twice and none is left out at a seam (span_starts).  A label
\* disappears only in favour of a more specific one (suppress_ancestors), and a
\* session has a tag exactly when the class held in enough windows in a row
\* (session_tags).  The stretches of a class are those hysteresis defines: entered,
\* held, bridged, and long enough (build_spans); what is shown of them is whole
\* classes, the longest first, within the limits (select_spans).
SoundsAreTagged ==
    /\ Did("windows") => SeamsAreInvisible(call.total)
    /\ Did("labels") => SpecificTagsStay(call.score)
    /\ Did("sound") =>
          /\ TagsPersist(call.windows)
          /\ \A c \in Classes : ToSet(call.spans[c]) = HysteresisOf(c, call.windows)
          /\ ClassesAreWhole(call.spans, call.kept)

\* Curation goes where the speech went (map_labels), given utterances of a label
\* that do not overlap, and an edited text is kept where its utterance still is, and
\* nowhere else (carried_text).
CurationFollowsSpeech ==
    Did("carry") =>
        /\ AreDisjoint(call.old) /\ (\A l \in DOMAIN call.new : AreDisjoint(call.new[l]))
              => LabelsFollowSpeech(call.old, call.new)
        /\ EditsAreCovered(call.old, call.utterances)

\* What a session is shown as is what it holds: adjacent windows of its timeline
\* show every event once and in order, but for a speech-end where they meet
\* (assemble, list_for_session); pages add up; every voice has its row and its talk
\* (list_session_speakers); a fix is found by session and by wall clock, all of a
\* session's fixes where its timeline shows them, or all a millisecond before
\* (points_for_session, points_for_user: "the derivation is a contract"), and a
\* thinned track keeps its ends (track_points_for_user).
SessionsAreShown ==
    /\ Did("timeline") =>
          /\ WindowsTile(call.started, call.ended, call.rows, call.times, call.mid)
          /\ ReadsInOrder(call.started, call.ended, call.rows, call.times)
          /\ PagesAreTheList(call.rows, None, 1 + call.mid)
          /\ PagesAreTheList(call.rows, call.mid, 1)
    /\ Did("fixes") => FixesAreFound(call.batches, call.started, call.mid)
    /\ Did("speakers") => SpeakersAreTold(call.labels)
    /\ Did("track") => TracksAreThinned(call.total, call.most)


\* A media request gets the audio it asks for.  A byte range of the stitched file
\* is read from the right bytes of the right objects, each once (stitch.slices), and
\* only if its segments agree (load_timeline); a scan reads what clips would
\* (iter_windows);
\* clips of adjacent times are adjacent in the file (timeline.byte_range); a range
\* request gets the bytes that exist (parse_range).  And the cache never serves
\* other audio than the session's, however requests, uploads and deletions
\* interleave, as long as none of its segments was deleted, nor holds more pieces
\* than its budget (resolve_session_audio, put).
MediaIsServed ==
    /\ Did("audio") => SlicesAreExact(call.sizes, call.from, call.to)
    /\ Did("load") => TimelinesAreUniform(call.segments)
    /\ Did("scan") => WindowsAreClips(call.sizes, call.window)
    /\ Did("clips") => ClipsTile(call.data, call.from, call.mid, call.to)
    /\ Did("range") => RangesAreAnswered(call.first, call.last, call.size)
    /\ Did("media") => ServesTheSession(call.media) /\ CacheIsBounded(call.media)
=============================================================================
