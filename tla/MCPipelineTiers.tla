-------------------------- MODULE MCPipelineTiers --------------------------
\* Two subsets of the pipelines a supervisor may run: they share no artifact.
EXTENDS PipelineTiers

SpeechTiers == {"speech-detect", "diarize", "conversation", "transcribe"}
SoundTiers == {"session-stats", "audio-tag", "sound-span"}

BothHalves == {SpeechTiers, SoundTiers}
=============================================================================
