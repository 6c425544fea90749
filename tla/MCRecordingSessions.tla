------------------------ MODULE MCRecordingSessions ------------------------
(* A device with a session and its successors, for TLC. *)
EXTENDS RecordingSessions
=============================================================================
