---------------------------- MODULE SessionViews ----------------------------
(***************************************************************************)
(* What a session is shown as: its event timeline (api/timeline_events.py  *)
(* over ArtifactsRepo.list_for_session), cut into windows and pages; its   *)
(* speakers (list_session_speakers of api/routes/sessions.py); its fixes   *)
(* (resources/location.py), found by wall clock and thinned to a track     *)
(* (database/repos/locations.py).  An artifact is [id, kind, start, end],  *)
(* a fix its time; texts, labels, scores and positions are left out.       *)
(***************************************************************************)
EXTENDS Intervals

None == -100   \* a bound that is not given

\* _TYPE_RANK, of the types that need telling apart.
Rank(type) ==
    CASE type = "session-start" -> 0 [] type = "speech-end" -> 1
      [] type = "speech-start" -> 2  [] type = "conversation" -> 3
      [] type = "transcript" -> 4    [] type = "audio-tag" -> 5
      [] type = "sound-span" -> 6    [] type = "location-point" -> 7
      [] type = "session-end" -> 100

Event(at, type, source) == [at |-> at, rank |-> Rank(type), source |-> source]

\* The registered expanders, each of a row with a start and an end: a speech span
\* yields its two edges, every other span one event at its start.
SpeechSpanEvents(a) == <<Event(a.start, "speech-start", a.id), Event(a.end, "speech-end", a.id)>>
TranscriptEvents(a) == <<Event(a.start, "transcript", a.id)>>
AudioTagEvents(a) == <<Event(a.start, "audio-tag", a.id)>>
SoundSpanEvents(a) == <<Event(a.start, "sound-span", a.id)>>
ConversationEvents(a) == <<Event(a.start, "conversation", a.id)>>

\* A row without an expander yields none.
Expand(a) ==
    CASE a.kind = "speech-span"  -> SpeechSpanEvents(a)
      [] a.kind = "transcript"   -> TranscriptEvents(a)
      [] a.kind = "audio-tag"    -> AudioTagEvents(a)
      [] a.kind = "sound-span"   -> SoundSpanEvents(a)
      [] a.kind = "conversation" -> ConversationEvents(a)
      [] OTHER                   -> <<>>

\* Fixes have times in milliseconds, and started_at is finer: it is given in
\* tenths of one.  int() truncates it, and ::bigint rounds it.
Truncated(started) == started \div 10
Rounded(started) == (started + 5) \div 10

LocationEvents(times, started, source) ==
    [k \in DOMAIN times |->
        Event(times[k] - Truncated(started), "location-point", source)]

\* _session_events: ended is the session's wall-clock length, or None.
SessionEvents(ended) ==
    <<Event(0, "session-start", 0)>>
      \o (IF ended = None THEN <<>> ELSE <<Event(Larger(0, ended), "session-end", 0)>>)

\* Variant: rows by where they start.
RowsStarting(rows, from, to) ==
    SelectSeq(rows, LAMBDA a : (from = None \/ a.start >= from) /\ (to = None \/ a.start < to))

\* list_for_session's window: the rows that overlap it.
RowsTouching(rows, from, to) ==
    SelectSeq(rows, LAMBDA a : (from = None \/ a.end > from) /\ (to = None \/ a.start < to))

Within(events, from, to) ==
    SelectSeq(events, LAMBDA e : (from = None \/ e.at >= from) /\ (to = None \/ e.at < to))

Sooner(e, f) ==
    \/ e.at < f.at
    \/ e.at = f.at /\ (e.rank < f.rank \/ (e.rank = f.rank /\ e.source < f.source))

\* get_session_timeline: assemble over the rows the window touches.
TimelineOf(started, ended, rows, times, from, to) ==
    LET touching == RowsTouching(rows, from, to)
    IN  Ordered(Within(SessionEvents(ended)
                         \o FlattenSeq([k \in DOMAIN touching |-> Expand(touching[k])])
                         \o LocationEvents(times, started, Len(rows) + 1),
                       from, to), Sooner)

\* The route's slice with one probe row, and Page.build.
PageOf(rows, offset, limit) ==
    LET probed == SubSeq(rows, offset + 1, Smaller(Len(rows), offset + limit + 1))
    IN  [items |-> SubSeq(probed, 1, Smaller(limit, Len(probed))), more |-> Len(probed) > limit]

\* list_session_artifacts, of every kind, and list_session_conversations.
ListArtifacts(rows, from, to, offset, limit) ==
    PageOf(RowsTouching(rows, from, to), offset, limit)

ListConversations(rows, from, to, offset, limit) ==
    PageOf(SelectSeq(RowsTouching(rows, from, to), LAMBDA a : a.kind = "conversation"),
           offset, limit)

\* list_session_speakers: the labels of one speaker, or a label by itself.
Group(label) ==
    IF label.speaker = 0 THEN <<"local", label.label>> ELSE <<"speaker", label.speaker>>

SpeakersOf(labels) ==
    LET Join(done, l) ==
            LET same == {k \in DOMAIN done : done[k].key = Group(l)}
            IN  IF same = {}
                THEN Append(done, [key |-> Group(l), labels |-> <<l.label>>, talk |-> l.talk])
                ELSE [k \in DOMAIN done |->
                         IF k \in same THEN [done[k] EXCEPT !.labels = Append(@, l.label),
                                                            !.talk = @ + l.talk]
                         ELSE done[k]]
    IN  Ordered(FoldLeft(Join, <<>>, labels), LAMBDA e, f : e.talk > f.talk)

\* LocationResource.validate_chunk: a batch of fixes, in order; what it spans is
\* what the device declares, and else derived.
IsBatch(times) == times # <<>> /\ \A k \in 1..Len(times) - 1 : times[k] <= times[k + 1]

Validated(times, at, lasts) ==
    [times |-> times,
     at    |-> IF at = None THEN Head(times) ELSE at,
     lasts |-> IF lasts = None THEN Last(times) - Head(times) ELSE lasts]

\* The lateral unnest of numbered batches, with where on its session's timeline
\* a fix is, and the order of its rows.
Fixes(batches, started) ==
    FlattenSeq([b \in DOMAIN batches |->
        [k \in DOMAIN batches[b].times |->
            [at |-> batches[b].times[k], place |-> batches[b].times[k] - Rounded(started),
             batch |-> batches[b].id, idx |-> k]]])

Before(p, q) ==
    \/ p.at < q.at
    \/ p.at = q.at /\ (p.batch < q.batch \/ (p.batch = q.batch /\ p.idx < q.idx))

\* points_for_session: by the session's time.
PointsOfSession(batches, started, from, to) ==
    Ordered(SelectSeq(Fixes(batches, started), LAMBDA p : /\ from = None \/ p.place >= from
                                                          /\ to = None \/ p.place < to),
            Before)

\* points_for_user: by wall clock, of the batches whose span meets the window.
PointsOfUser(batches, started, from, to) ==
    LET near == SelectSeq(batches, LAMBDA b : /\ from = None \/ b.at + b.lasts >= from
                                              /\ to = None \/ b.at < to)
    IN  Ordered(SelectSeq(Fixes(near, started), LAMBDA p : /\ from = None \/ p.at >= from
                                                           /\ to = None \/ p.at < to),
                Before)

Stride(total, most) == Larger(1, (total + most - 1) \div most)

\* track_points_for_user: the fixes, 1..total, that survive.
TrackOf(total, most) ==
    SelectSeq([rn \in 1..total |-> rn],
              LAMBDA rn : (rn - 1) % Stride(total, most) = 0 \/ rn = total)

----------------------------------------------------------------------------
\* Two windows that meet show the session's whole timeline in order, each
\* event once, except a speech-end exactly where they meet, whose span the
\* second window does not touch.
WindowsTile(started, ended, rows, times, mid) ==
    TimelineOf(started, ended, rows, times, None, mid)
      \o TimelineOf(started, ended, rows, times, mid, None)
      = SelectSeq(TimelineOf(started, ended, rows, times, None, None),
                  LAMBDA e : ~(e.rank = Rank("speech-end") /\ e.at = mid))

\* Read in order, speech starts before it is transcribed and stops before it
\* starts again, a conversation opens before what is said in it, and an ended
\* session's last word is its end when nothing lies behind it.
ReadsInOrder(started, ended, rows, times) ==
    LET events == TimelineOf(started, ended, rows, times, None, None)
        Count(k, type) == Cardinality({i \in 1..k : events[i].rank = Rank(type)})
        At(type, row) == CHOOSE k \in DOMAIN events : /\ events[k].rank = Rank(type)
                                                     /\ events[k].source = row.id
        Of(kind) == {a \in ToSet(rows) : a.kind = kind}
    IN  /\ \A k \in DOMAIN events :
              Count(k, "speech-start") - Count(k, "speech-end") \in {0, 1}
        /\ \A t \in Of("transcript"), s \in Of("speech-span") : s.start = t.start =>
              LET k == At("transcript", t)
              IN  Count(k, "speech-start") - Count(k, "speech-end") = 1
        /\ \A t \in Of("transcript"), c \in Of("conversation") : c.start <= t.start =>
              At("conversation", c) < At("transcript", t)
        /\ ended # None /\ (\A k \in DOMAIN events : events[k].at <= ended)
              => Last(events).rank = Rank("session-end")

\* Page after page, until there is no more, is the list, of a window as of all.
PagesAreTheList(rows, from, limit) ==
    LET Pages(List(_, _, _, _, _)) ==
            LET pages == [k \in 0..Len(rows) |-> List(rows, from, None, k * limit, limit)]
                last == CHOOSE k \in 0..Len(rows) :
                            ~pages[k].more /\ \A j \in 0..k - 1 : pages[j].more
            IN  FlattenSeq([k \in 1..last + 1 |-> pages[k - 1].items])
        Shown(a) == from = None \/ a.end > from
    IN  /\ Pages(ListArtifacts) = SelectSeq(rows, Shown)
        /\ Pages(ListConversations)
             = SelectSeq(rows, LAMBDA a : a.kind = "conversation" /\ Shown(a))

\* Every label is in one row, no talk is lost, and two voices share a row only
\* if they are known to be one.
SpeakersAreTold(labels) ==
    LET rows == SpeakersOf(labels)
        Of(k) == {l \in ToSet(labels) : l.label \in ToSet(rows[k].labels)}
        Talk(k) == FoldLeft(LAMBDA sum, l : IF l \in Of(k) THEN sum + l.talk ELSE sum, 0, labels)
    IN  /\ \A l \in ToSet(labels) : Cardinality({k \in DOMAIN rows : l \in Of(k)}) = 1
        /\ \A k \in DOMAIN rows :
              /\ rows[k].talk = Talk(k)
              /\ \A l, m \in Of(k) : l.speaker = m.speaker /\ (l.speaker = 0 => l = m)
        /\ \A k \in 1..Len(rows) - 1 : rows[k].talk >= rows[k + 1].talk

\* How much later than points_for_session the timeline shows a fix: one answer for
\* all the fixes of the session.
ShownLater(batches, started, by) ==
    LET points == PointsOfSession(batches, started, None, None)
        events == Ordered(LocationEvents([k \in DOMAIN points |-> points[k].at], started, 0),
                          Sooner)
    IN  [k \in DOMAIN points |-> points[k].place + by] = [k \in DOMAIN events |-> events[k].at]

\* Two windows of a session's fixes that meet show each once, all of them where its
\* timeline shows them, or all a millisecond before; and so do two windows of
\* the wall clock, provided the batches span their fixes, as those do whose span is
\* derived.
FixesAreFound(batches, started, mid) ==
    LET Spans(b) == b.at <= Head(b.times) /\ b.at + b.lasts >= Last(b.times)
        all == PointsOfSession(batches, started, None, None)
    IN  /\ PointsOfSession(batches, started, None, mid)
             \o PointsOfSession(batches, started, mid, None) = all
        /\ \E by \in 0..1 : ShownLater(batches, started, by)
        /\ (\A b \in ToSet(batches) : Spans(b)) =>
              PointsOfUser(batches, started, None, mid)
                \o PointsOfUser(batches, started, mid, None) = all

\* A thinned track keeps both ends, an even stride and its bound.
TracksAreThinned(total, most) ==
    LET kept == TrackOf(total, most)
    IN  /\ total > 0 => Head(kept) = 1 /\ Last(kept) = total
        /\ Len(kept) <= most + 1
        /\ total <= most => Len(kept) = total
        /\ \A k \in 1..Len(kept) - 2 : kept[k + 1] - kept[k] = kept[2] - kept[1]
=============================================================================
