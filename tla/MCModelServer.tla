--------------------------- MODULE MCModelServer ---------------------------
(* A small instance of ModelServer for TLC. *)
EXTENDS ModelServer, TLC

CONSTANTS a, b

MCKinds == {"asr", "tagger", "diar"}
=============================================================================
