---------------------------- MODULE SessionAudio ----------------------------
(***************************************************************************)
(* The cache of stitched audio (api/session_audio.py): what a media        *)
(* request is served while segments of its session come and go.  A request *)
(* reads a fingerprint of the segments and is served from the cache under  *)
(* it, or reads the rows in a second statement, which may be newer, and    *)
(* leaves what it built in the cache.  The operators take and return the   *)
(* whole state, [segments, created, cache, pieces, seen, deleted, served]. *)
(***************************************************************************)
EXTENDS Intervals

CONSTANTS
    MediaSessions,  \* sessions whose audio is played
    Listeners,      \* concurrent requests
    PieceBudget     \* _PIECE_BUDGET

ASSUME SessionAudioAssumption == PieceBudget \in Nat

Nobody == <<>>

\* A segment is [number, id, bytes], and every statement returns the rows by number,
\* so a set of them says which audio it is; the cache runs from the least recently
\* used entry to the last one, [session, print, audio, pieces].
NoMedia ==
    [segments |-> [s \in MediaSessions |-> {}], created |-> 0, cache |-> <<>>, pieces |-> 0,
     seen |-> [l \in Listeners |-> Nobody], deleted |-> {}, served |-> Nobody]

\* A segment's row: concurrent stores of a stream land in any order.
Ingested(m, s, number, bytes) ==
    [m EXCEPT !.segments[s] = @ \union {[number |-> number, id |-> m.created + 1,
                                         bytes |-> bytes]},
              !.created = @ + 1, !.served = Nobody]

Numbers(m, s) == {x.number : x \in m.segments[s]}

\* delete_segment; deleted remembers the sessions that lost one.
Deleted(m, s, row) ==
    [m EXCEPT !.segments[s] = @ \ {row}, !.served = Nobody, !.deleted = @ \union {s}]

\* Variant: only the newest segment is looked at.
NewestOnly(rows) ==
    LET newest == Max({x.number : x \in rows})
    IN  [max |-> newest, bytes |-> MapThenSumSet(LAMBDA x : x.bytes,
                                                 {x \in rows : x.number = newest})]

\* stitch_fingerprint.
Fingerprint(rows) ==
    [count |-> Cardinality(rows), max |-> IF rows = {} THEN -1 ELSE Max({x.number : x \in rows}),
     bytes |-> MapThenSumSet(LAMBDA x : x.bytes, rows)]

EntryOf(m, s) == {k \in DOMAIN m.cache : m.cache[k].session = s}

\* A media request's first statement, and the cache's get.  Of a request under way,
\* [session, print, rows], the rows are not read yet.
Looked(m, l, s) ==
    LET print == Fingerprint(m.segments[s])
        hit == {k \in EntryOf(m, s) : m.cache[k].print = print}
    IN  IF m.segments[s] = {} THEN [m EXCEPT !.served = Nobody]
        ELSE IF hit = {}
        THEN [m EXCEPT !.seen[l] = [session |-> s, print |-> print, rows |-> {}],
                       !.served = Nobody]
        ELSE LET k == CHOOSE k \in hit : TRUE
             IN  [m EXCEPT !.served = <<s, m.cache[k].audio>>,
                           !.cache = Append(RemoveAt(@, k), @[k])]

\* The second statement.  Rows that are gone by then cannot be stitched.
Read(m, l) ==
    LET s == m.seen[l].session
        rows == m.segments[s]
    IN  IF rows = {} THEN [m EXCEPT !.seen[l] = Nobody, !.served = Nobody]
        ELSE [m EXCEPT !.seen[l] = [session |-> s, print |-> @.print, rows |-> rows],
                       !.served = <<s, rows>>]

\* plan: a segment of no more than a header yields no piece.
PiecesOf(rows) == Cardinality({x \in rows : x.bytes > 0})

Entry(s, print, rows) ==
    [session |-> s, print |-> print, audio |-> rows, pieces |-> PiecesOf(rows)]

\* The pieces of the first n entries.
PiecesUpTo(cache) ==
    LET upto[n \in 0..Len(cache)] == IF n = 0 THEN 0 ELSE upto[n - 1] + cache[n].pieces
    IN  upto

TotalPieces(cache) == PiecesUpTo(cache)[Len(cache)]

\* popitem(last=False) while the count exceeds the budget.
Trimmed(m) ==
    LET Left(n) == m.pieces - PiecesUpTo(m.cache)[n]
        n == Min({n \in 0..Len(m.cache) : Left(n) <= PieceBudget})
    IN  [m EXCEPT !.cache = SubSeq(@, n + 1, Len(@)), !.pieces = Left(n)]

\* put drops the session's old entry first.
Without(m, s) ==
    IF EntryOf(m, s) = {} THEN m
    ELSE LET k == CHOOSE k \in EntryOf(m, s) : TRUE
         IN  [m EXCEPT !.cache = RemoveAt(@, k), !.pieces = @ - m.cache[k].pieces]

\* put: an oversized representation is not kept, others make room.
Put(m, s, entry) ==
    LET room == Without(m, s)
    IN  IF entry.pieces > PieceBudget THEN room
        ELSE Trimmed([room EXCEPT !.cache = Append(@, entry), !.pieces = @ + entry.pieces])

\* The header is read, of a blob that is gone when its segment was deleted, and what
\* was built is kept, whatever other requests have kept meanwhile.
Built(m, l) ==
    LET of == m.seen[l]
    IN  Put([m EXCEPT !.seen[l] = Nobody, !.served = Nobody], of.session,
            Entry(of.session, of.print, of.rows))

Failed(m, l) == [m EXCEPT !.seen[l] = Nobody, !.served = Nobody]

----------------------------------------------------------------------------
\* What is served is the session's audio at the moment it was last asked for in the
\* database, although the print is read before the rows, other requests may keep
\* theirs before it is kept, and segments land out of order, as long as none was
\* deleted: a deletion can make up for an addition in all three fields.
ServesTheSession(m) ==
    m.served # Nobody /\ m.served[1] \notin m.deleted => m.served[2] = m.segments[m.served[1]]

\* The pieces counted are the pieces cached, within the budget, one entry per
\* session.
CacheIsBounded(m) ==
    /\ m.pieces = TotalPieces(m.cache)
    /\ m.pieces <= PieceBudget
    /\ \A s \in MediaSessions : Cardinality(EntryOf(m, s)) <= 1
=============================================================================
