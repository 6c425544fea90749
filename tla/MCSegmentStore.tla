--------------------------- MODULE MCSegmentStore ---------------------------
(***************************************************************************)
(* SegmentStore for TLC: a mix of every kind of request on one session.    *)
(***************************************************************************)
EXTENDS SegmentStore, TLC

CONSTANTS a, b, c, d, e

\* A numbered ingest and a streamed chunk of the same number, an ingest that
\* takes the next one, and both deletions.
MixKind ==
    a :> "ingestAt" @@ b :> "stream" @@ c :> "deleteSegment" @@ d :> "deleteSession"
        @@ e :> "ingest"
MixAt == [r \in {a, b, c, d, e} |-> 0]
=============================================================================
