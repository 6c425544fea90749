--------------------------- MODULE MCStreamUpload ---------------------------
(* Small instances of StreamUpload for TLC. *)
EXTENDS StreamUpload, TLC

CONSTANTS a, b

MCConnections == {a, b}
MCOne == {a}
MCFrames == 0..3
MCFew == 0..2
MCNoEnvelope == {}
MCSomeEnvelope == {1}
Reconnects == Permutations(MCConnections)
=============================================================================
