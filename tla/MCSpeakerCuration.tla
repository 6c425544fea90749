-------------------------- MODULE MCSpeakerCuration --------------------------
(* Small instances of SpeakerCuration for TLC. *)
EXTENDS SpeakerCuration, TLC

CONSTANTS s, v, w

MCOne == {s}
MCVoices == {v, w}
Voiced == Permutations(MCVoices)
=============================================================================
