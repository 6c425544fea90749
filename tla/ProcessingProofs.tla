------------------------- MODULE ProcessingProofs -------------------------
(***************************************************************************)
(* Theorems about the processing of a session.                             *)
(*                                                                         *)
(* PipelineTiers, for every number of utterances, failures and redos, and  *)
(* every set of deployed pipelines: type correctness, unique transcripts,  *)
(* that only a racing transcript outlives its utterance, and that a tier's *)
(* output is of the generation it is linked to.                            *)
(*                                                                         *)
(* LabelCarry, for any spans of speech: where map_labels and carried_text  *)
(* carry what a label or an utterance had.                                 *)
(*                                                                         *)
(* Algorithms, for any bounds on its inputs: MediaServed (what a session's *)
(* audio, an utterance's clip and the audio an analysis reads are),        *)
(* CurationFollowed (what a new diarization takes over from the old one)   *)
(* and SpeechCovered (the spans of speech that are found, and the blocks   *)
(* made of them).                                                          *)
(*                                                                         *)
(* The loops of the code are functions defined by recursion on a number.   *)
(* Loop shows that such a function exists, and UpTo is the induction that  *)
(* reads it.                                                               *)
(***************************************************************************)
EXTENDS PipelineTiers, Algorithms, FiniteSetTheorems, SequenceTheorems, TLAPS

Leaves == {"conversation", "sound-span"}

\* TypeOK with what a new transcript's type rests on.
TypeInv ==
    /\ TypeOK
    /\ IsFiniteSet(transcripts)
    /\ run["transcribe"].pc = "checked" => run["transcribe"].source \in Nat \X Slots

\* A leaf's run holds the id of a map that was minted; if that map is still
\* there its rows were the ones read, and once it was found there a second
\* time nothing that happens later matters.
LeafInv(p) ==
    /\ map[p].source = map[p].of
    /\ map[Upstream(p)].id <= minted[Upstream(p)]
    /\ run[p].pc \in {"rows", "publish"} =>
         run[p].source[1] # 0 /\ run[p].source[1] <= minted[Upstream(p)]
    /\ run[p].pc = "publish" /\ map[Upstream(p)].id = run[p].source[1] =>
         run[p].seen = run[p].source[1]
    /\ run[p].pc = "checked" => run[p].seen = run[p].source[1]

\* Between the check and the insert nobody else writes a transcript; while
\* diarize commits, every transcript its deletes missed is a racer.
TranscriptInv ==
    /\ TranscriptsAreUnique
    /\ OnlyRacersAreStray
    /\ run["transcribe"].pc = "checked" =>
         \A t \in transcripts : t.utterance # run["transcribe"].source
    /\ run["diarize"].pc = "commit" =>
         \A t \in transcripts \ run["diarize"].doomed : t.late

TiersInv == TypeInv /\ TranscriptInv /\ \A p \in Leaves : LeafInv(p)

----------------------------------------------------------------------------
(* Types.                                                                  *)

LEMMA UpstreamType ==
  /\ \A p \in Pipelines : Upstream(p) \in Consumed
  /\ Upstream("diarize") = "speech-detect" /\ Upstream("sound-span") = "audio-tag"
  /\ Upstream("conversation") = "diarize" /\ Upstream("transcribe") = "diarize"
  /\ Consumed \subseteq Publishers /\ Publishers \subseteq Pipelines
  /\ Detectors \subseteq Consumed /\ Leaves \subseteq Readers
  /\ Readers \subseteq Publishers /\ "transcribe" \notin Publishers
BY DEF Upstream, Consumed, Publishers, Pipelines, Detectors, Readers, Leaves

LEMMA SourcesType ==
  ASSUME TypeOK, NEW p \in Pipelines
  PROVE  /\ Sources(p) \subseteq Nat \X Nat
         /\ p \in Readers => Sources(p) \subseteq {<<map[Upstream(p)].id, 0>>}
         /\ p \in Readers => \A s \in Sources(p) : s[1] = map[Upstream(p)].id /\ s[1] # 0
         /\ Sources("transcribe") = {map["diarize"].id} \X utterances
<1>1. map[Upstream(p)].id \in Nat
  BY UpstreamType DEF TypeOK
<1>2. utterances \subseteq Nat
  BY PipelineTiersAssumption DEF TypeOK, Slots
<1>3. p \in Readers => Sources(p) = {s \in {<<map[Upstream(p)].id, 0>>} : map[Upstream(p)].id # 0}
  BY DEF Sources, Detectors, Readers
<1>4. Sources("transcribe") = {map["diarize"].id} \X utterances
  BY UpstreamType DEF Sources, Detectors
<1>5. p \in Detectors \union {"session-stats"} => Sources(p) \subseteq {<<0, 0>>}
  BY DEF Sources, Session
<1>6. p \in Readers \/ p = "transcribe" \/ p \in Detectors \union {"session-stats"}
  BY DEF Pipelines, Publishers
<1>7. map["diarize"].id \in Nat
  BY DEF TypeOK, Publishers, Readers
<1>8. Sources(p) \subseteq Nat \X Nat
  <2>1. CASE p \in Readers
    BY <2>1, <1>1, <1>3
  <2>2. CASE p = "transcribe"
    BY <2>2, <1>2, <1>4, <1>7
  <2>3. CASE p \in Detectors \union {"session-stats"}
    BY <2>3, <1>5
  <2> QED BY <1>6, <2>1, <2>2, <2>3
<1> QED
  BY <1>3, <1>4, <1>8

LEMMA InitType == Init => TypeInv
<1> SUFFICES ASSUME Init PROVE TypeInv
  OBVIOUS
<1>1. TypeOK
  BY PipelineTiersAssumption
     DEF Init, TypeOK, Nothing, Idle, Session, Run, Pc
<1>2. IsFiniteSet(transcripts)
  BY FS_EmptySet DEF Init
<1>3. run["transcribe"].pc # "checked"
  BY DEF Init, Idle, Pipelines
<1> QED BY <1>1, <1>2, <1>3 DEF TypeInv

\* Moving a row to another status keeps it a job.
LEMMA RecordedType ==
  ASSUME TypeOK, NEW p, NEW status \in {"queued", "running", "succeeded", "dead"}
  PROVE  Recorded(p, status) \subseteq Job
BY DEF Recorded, TypeOK, Job

\* The runs are typed, and transcribe's has looked its utterance up.
RunInv ==
    /\ run \in [Pipelines -> Run]
    /\ run["transcribe"].pc = "checked" => run["transcribe"].source \in Nat \X Slots

\* One worker moves on, to anywhere but transcribe's "checked".
LEMMA MoveType ==
  ASSUME TypeInv, NEW p \in Pipelines, NEW r \in Run,
         run' = [run EXCEPT ![p] = r],
         r.pc = "checked" => p # "transcribe"
  PROVE  RunInv'
<1>1. run \in [Pipelines -> Run]
  BY DEF TypeInv, TypeOK
<1>2. run' \in [Pipelines -> Run]
  BY <1>1
<1>3. run'["transcribe"].pc = "checked" => run'["transcribe"] = run["transcribe"]
  BY <1>1 DEF Pipelines
<1> QED BY <1>2, <1>3 DEF RunInv, TypeInv

LEMMA GotoType ==
  ASSUME TypeInv, NEW p \in Pipelines, NEW c \in Pc, Goto(p, c),
         c = "checked" => p # "transcribe"
  PROVE  RunInv'
<1>1. run[p] \in Run
  BY DEF TypeInv, TypeOK
<1>2. [run[p] EXCEPT !.pc = c] \in Run /\ [run[p] EXCEPT !.pc = c].pc = c
  BY <1>1 DEF Run
<1>3. run' = [run EXCEPT ![p] = [run[p] EXCEPT !.pc = c]]
  BY DEF Goto
<1> QED BY <1>2, <1>3, MoveType

LEMMA StepType == TypeInv /\ [Next]_vars => TypeInv'
<1> SUFFICES ASSUME TypeInv, [Next]_vars PROVE TypeInv'
  OBVIOUS
<1>0. TypeOK /\ IsFiniteSet(transcripts)
  BY DEF TypeInv
<1> USE DEF settings, artifacts
<1>1. ASSUME EndSession PROVE TypeInv'
  BY <1>1 DEF EndSession, TypeInv, TypeOK
<1>2. ASSUME NEW p \in Pipelines, Discover(p) PROVE TypeInv'
  <2>1. jobs' \subseteq Job
    BY <1>0, <1>2, SourcesType DEF Discover, TypeOK, Job
  <2> QED BY <1>2, <2>1 DEF Discover, TypeInv, TypeOK
<1>3. ASSUME NEW p \in Pipelines, Claim(p) PROVE TypeInv'
  <2>1. PICK j \in jobs :
          /\ jobs' = (jobs \ {j}) \union
               {[j EXCEPT !.status = "running", !.attempts = @ + 1]}
          /\ run' = [run EXCEPT ![p] =
               [Idle EXCEPT !.pc = Opening(p, j.source), !.source = j.source]]
    BY <1>3 DEF Claim
  <2>2. j \in Job
    BY <1>0 DEF TypeOK
  <2>3. jobs' \subseteq Job
    <3>1. j.attempts + 1 \in Nat
      BY <2>2 DEF Job
    <3>2. [j EXCEPT !.status = "running", !.attempts = @ + 1] \in Job
      BY <2>2, <3>1 DEF Job
    <3> QED BY <1>0, <2>1, <3>2 DEF TypeOK
  <2>4. Opening(p, j.source) \in {"start", "raised", "done"}
    BY DEF Opening
  <2>5. [Idle EXCEPT !.pc = Opening(p, j.source), !.source = j.source] \in Run
    BY <2>2, <2>4 DEF Idle, Run, Pc, Job, Session
  <2>6. [Idle EXCEPT !.pc = Opening(p, j.source), !.source = j.source].pc # "checked"
    BY <2>4 DEF Idle
  <2>7. RunInv'
    BY <2>1, <2>5, <2>6, MoveType
  <2> QED BY <1>3, <2>3, <2>7 DEF Claim, RunInv, TypeInv, TypeOK
<1>4. ASSUME NEW p \in Pipelines, Succeed(p) \/ Fail(p) PROVE TypeInv'
  <2>1. jobs' \subseteq Job
    BY <1>0, <1>4, RecordedType DEF Succeed, Fail
  <2>2. run' = [run EXCEPT ![p] = Idle] /\ Idle \in Run /\ Idle.pc = "idle"
    BY <1>4 DEF Succeed, Fail, Idle, Run, Pc, Session
  <2>3. RunInv'
    BY <2>2, MoveType
  <2> QED BY <1>4, <2>1, <2>3 DEF RunInv, Succeed, Fail, TypeInv, TypeOK
<1>5. ASSUME WriteStats PROVE TypeInv'
  <2>1. RunInv'
    BY <1>5, GotoType DEF WriteStats, Pc, Pipelines
  <2> QED BY <1>5, <2>1 DEF WriteStats, RunInv, TypeInv, TypeOK
<1>6. ASSUME NEW p \in Detectors, Detect(p) PROVE TypeInv'
  <2>1. p \in Consumed /\ p \in Publishers /\ p \in Pipelines
    BY UpstreamType
  <2>2. minted[p] + 1 \in Nat
    BY <1>0, <2>1 DEF TypeOK
  <2>3. [Nothing EXCEPT !.id = minted[p] + 1] \in [id : Nat, source : Nat, of : Nat]
    BY <2>2 DEF Nothing
  <2>4. map' \in [Publishers -> [id : Nat, source : Nat, of : Nat]]
    BY <1>0, <1>6, <2>3 DEF Detect, TypeOK
  <2>5. RunInv'
    BY <1>6, <2>1, GotoType DEF Detect, Pc
  <2> QED BY <1>6, <2>2, <2>4, <2>5 DEF Detect, RunInv, TypeInv, TypeOK
<1>7. ASSUME NEW p \in Readers, ReadMap(p) PROVE TypeInv'
  <2>1. RunInv'
    BY <1>7, GotoType, UpstreamType DEF ReadMap, Pc
  <2> QED BY <1>7, <2>1 DEF ReadMap, RunInv, TypeInv, TypeOK
<1>8. ASSUME NEW p \in Readers, ReadRows(p) PROVE TypeInv'
  <2>1. map[Upstream(p)].id \in Nat /\ p \in Pipelines
    BY <1>0, UpstreamType DEF TypeOK, Publishers
  <2> DEFINE r == [run[p] EXCEPT !.pc = "publish", !.seen = map[Upstream(p)].id]
  <2>2. r \in Run /\ r.pc = "publish"
    BY <1>0, <2>1 DEF TypeOK, Run, Pc
  <2>3. run' = [run EXCEPT ![p] = r]
    BY <1>8 DEF ReadRows
  <2>4. RunInv'
    BY <2>1, <2>2, <2>3, MoveType
  <2> QED BY <1>8, <2>4 DEF ReadRows, RunInv, TypeInv, TypeOK
<1>9. ASSUME DeleteBelow PROVE TypeInv'
  <2> DEFINE r == [run["diarize"] EXCEPT !.pc = "commit", !.doomed = transcripts,
                                         !.grouped = map["conversation"].id # 0]
  <2>1. "diarize" \in Pipelines
    BY DEF Pipelines, Publishers, Readers
  <2>2. run["diarize"] \in Run /\ transcripts \in SUBSET Transcript
    BY <1>0, <2>1 DEF TypeOK
  <2>5. r \in Run /\ r.pc = "commit"
    BY <2>2 DEF Run, Pc
  <2>3. run' = [run EXCEPT !["diarize"] = r]
    BY <1>9 DEF DeleteBelow
  <2>4. RunInv'
    BY <2>1, <2>5, <2>3, MoveType
  <2> QED BY <1>9, <2>4 DEF DeleteBelow, RunInv, TypeInv, TypeOK
<1>10. ASSUME PublishDiarize PROVE TypeInv'
  <2>1. minted["diarize"] + 1 \in Nat /\ run["diarize"] \in Run
    BY <1>0, UpstreamType DEF TypeOK, Consumed, Publishers
  <2>2. Output("diarize", minted["diarize"] + 1) \in [id : Nat, source : Nat, of : Nat]
    BY <2>1 DEF Output, Run
  <2>3. map' \in [Publishers -> [id : Nat, source : Nat, of : Nat]]
    BY <1>0, <1>10, <2>2 DEF PublishDiarize, TypeOK, Nothing
  <2>4. transcripts' \subseteq transcripts /\ IsFiniteSet(transcripts')
    BY <1>0, <1>10, FS_Subset DEF PublishDiarize
  <2>5. minted' \in [Consumed -> Nat] /\ utterances' \subseteq Slots
    BY <1>0, <1>10, <2>1 DEF PublishDiarize, TypeOK
  <2> DEFINE r == [run["diarize"] EXCEPT !.pc = "done", !.doomed = {}, !.grouped = FALSE]
  <2>6. r \in Run /\ r.pc = "done" /\ "diarize" \in Pipelines
    BY <2>1 DEF Run, Pc, Pipelines, Publishers, Readers
  <2>7. run' = [run EXCEPT !["diarize"] = r]
    BY <1>10 DEF PublishDiarize
  <2>8. RunInv'
    BY <2>6, <2>7, MoveType
  <2> QED BY <1>0, <1>10, <2>3, <2>4, <2>5, <2>8 DEF PublishDiarize, RunInv, TypeInv, TypeOK
<1>11. ASSUME NEW p \in Leaves, Recheck(p) PROVE TypeInv'
  <2>1. RunInv'
    BY <1>11, GotoType, UpstreamType DEF Recheck, Pc, Leaves
  <2> QED BY <1>11, <2>1 DEF Recheck, RunInv, TypeInv, TypeOK
<1>12. ASSUME NEW p \in Leaves, PublishLeaf(p) PROVE TypeInv'
  <2>1. p \in Pipelines /\ p \in Publishers /\ p # "transcribe"
    BY DEF Leaves, Pipelines, Publishers, Readers
  <2>2. Output(p, 1) \in [id : Nat, source : Nat, of : Nat]
    BY <1>0, <2>1 DEF Output, Run, TypeOK
  <2>3. map' \in [Publishers -> [id : Nat, source : Nat, of : Nat]]
    BY <1>0, <1>12, <2>2 DEF PublishLeaf, TypeOK
  <2>4. RunInv'
    BY <1>12, <2>1, GotoType DEF PublishLeaf, Pc
  <2> QED BY <1>12, <2>3, <2>4 DEF PublishLeaf, RunInv, TypeInv, TypeOK
<1>13. ASSUME CheckUtterance PROVE TypeInv'
  <2>1. map["diarize"].id \in Nat /\ utterances \subseteq Slots
    BY <1>0 DEF TypeOK, Publishers, Readers
  <2>2. Sources("transcribe") \subseteq Nat \X Slots
    BY <1>0, <2>1, SourcesType DEF Pipelines
  <2> QED BY <1>13, <2>2 DEF CheckUtterance, Goto, TypeInv, TypeOK, Run, Pc, Pipelines
<1>14. ASSUME PublishTranscript PROVE TypeInv'
  <2>1. run["transcribe"].source \in Nat \X Slots
    BY <1>14 DEF PublishTranscript, TypeInv
  <2>2. Cardinality(Transcribed(run["transcribe"].source)) \in Nat
    <3>1. Transcribed(run["transcribe"].source) \subseteq transcripts
      BY DEF Transcribed
    <3> QED BY <1>0, <3>1, FS_Subset, FS_CardinalityType
  <2>3. NewTranscript(run["transcribe"].source) \in Transcript
    BY <2>1, <2>2 DEF NewTranscript, Transcript
  <2>4. transcripts' \subseteq Transcript /\ IsFiniteSet(transcripts')
    BY <1>0, <1>14, <2>3, FS_AddElement DEF PublishTranscript, TypeOK
  <2>5. RunInv'
    BY <1>14, GotoType DEF PublishTranscript, Pc, Pipelines
  <2> QED BY <1>14, <2>4, <2>5 DEF PublishTranscript, RunInv, TypeInv, TypeOK
<1>15. ASSUME NEW p \in Pipelines, Fault(p) PROVE TypeInv'
  <2>1. left' \in [failures : Nat, redos : Nat]
    BY <1>0, <1>15 DEF Fault, TypeOK
  <2> DEFINE r == [run[p] EXCEPT !.pc = "raised", !.doomed = {}, !.grouped = FALSE]
  <2>2. r \in Run /\ r.pc = "raised"
    BY <1>0 DEF TypeOK, Run, Pc
  <2>3. run' = [run EXCEPT ![p] = r]
    BY <1>15 DEF Fault
  <2>4. RunInv'
    BY <2>2, <2>3, MoveType
  <2> QED BY <1>15, <2>1, <2>4 DEF Fault, RunInv, TypeInv, TypeOK
<1>16. ASSUME NEW p \in Pipelines, Crash(p) PROVE TypeInv'
  <2>1. \A j \in Job : Requeued(j) \in Job
    BY DEF Requeued, Job
  <2>2. jobs' \subseteq Job
    BY <1>0, <1>16, <2>1 DEF Crash, TypeOK
  <2>3. left' \in [failures : Nat, redos : Nat]
    BY <1>0, <1>16 DEF Crash, TypeOK
  <2>4. run' = [run EXCEPT ![p] = Idle] /\ Idle \in Run /\ Idle.pc = "idle"
    BY <1>16 DEF Crash, Idle, Run, Pc, Session
  <2>5. RunInv'
    BY <2>4, MoveType
  <2> QED BY <1>16, <2>2, <2>3, <2>5 DEF Crash, RunInv, TypeInv, TypeOK
<1>17. ASSUME Retranscribe \/ Rediarize \/ RebuildConversations PROVE TypeInv'
  <2>1. left' \in [failures : Nat, redos : Nat]
    BY <1>0, <1>17 DEF Retranscribe, Rediarize, RebuildConversations, Forget, TypeOK
  <2>2. jobs' \subseteq jobs /\ run' = run
    BY <1>17 DEF Retranscribe, Rediarize, RebuildConversations, Forget
  <2>3. transcripts' = {} \/ transcripts' = transcripts
    BY <1>17 DEF Retranscribe, Rediarize, RebuildConversations
  <2>4. IsFiniteSet(transcripts')
    BY <1>0, <2>3, FS_EmptySet
  <2>5. map' \in [Publishers -> [id : Nat, source : Nat, of : Nat]]
    BY <1>0, <1>17 DEF Retranscribe, Rediarize, RebuildConversations, TypeOK, Nothing
  <2> QED BY <1>17, <2>1, <2>2, <2>3, <2>4, <2>5
          DEF Retranscribe, Rediarize, RebuildConversations, Forget, TypeInv, TypeOK
<1>18. CASE UNCHANGED vars
  BY <1>18 DEF vars, TypeInv, TypeOK
<1> QED
  BY <1>1, <1>2, <1>3, <1>4, <1>5, <1>6, <1>7, <1>8, <1>9, <1>10, <1>11, <1>12,
     <1>13, <1>14, <1>15, <1>16, <1>17, <1>18
     DEF Next, Work, Process, Leaves, Readers

\* Type correctness of the tiers.
THEOREM TypeCorrect == Spec => []TypeOK
<1>1. Spec => []TypeInv
  BY InitType, StepType, PTL DEF Spec
<1>2. TypeInv => TypeOK
  BY DEF TypeInv
<1> QED BY <1>1, <1>2, PTL

----------------------------------------------------------------------------
(* Transcripts.                                                            *)

\* Only these two workers' runs, and what they touch, matter to a transcript.
LEMMA TranscriptFrame ==
  ASSUME TypeOK, TranscriptInv,
         transcripts' = transcripts,
         Sources("transcribe")' = Sources("transcribe"),
         run'["transcribe"].pc = "checked" =>
           /\ run["transcribe"].pc = "checked"
           /\ run'["transcribe"].source = run["transcribe"].source,
         run'["diarize"].pc = "commit" =>
           /\ run["diarize"].pc = "commit"
           /\ run'["diarize"].doomed = run["diarize"].doomed
  PROVE  TranscriptInv'
<1>1. TranscriptsAreUnique'
  BY DEF TranscriptInv, TranscriptsAreUnique
<1>2. OnlyRacersAreStray'
  BY DEF TranscriptInv, OnlyRacersAreStray
<1>3. run'["transcribe"].pc = "checked" =>
        \A t \in transcripts' : t.utterance # run'["transcribe"].source
  BY DEF TranscriptInv
<1>4. run'["diarize"].pc = "commit" =>
        \A t \in transcripts' \ run'["diarize"].doomed : t.late
  BY DEF TranscriptInv
<1> QED BY <1>1, <1>2, <1>3, <1>4 DEF TranscriptInv

\* What transcribe may consume depends on diarize's map and utterances only.
LEMMA SourcesFrame ==
  ASSUME map'["diarize"] = map["diarize"], utterances' = utterances
  PROVE  Sources("transcribe")' = Sources("transcribe")
BY DEF Sources, Upstream, Detectors

\* A worker that moves to neither "checked" nor "commit" leaves the rest of
\* the transcripts' invariant as it was.
QuietRun ==
    /\ run'["transcribe"].pc = "checked" => run'["transcribe"] = run["transcribe"]
    /\ run'["diarize"].pc = "commit" => run'["diarize"] = run["diarize"]

LEMMA QuietMove ==
  ASSUME TypeOK, NEW p \in Pipelines, NEW r,
         run' = [run EXCEPT ![p] = r],
         r.pc = "checked" => p # "transcribe",
         r.pc = "commit" => p # "diarize"
  PROVE  QuietRun
<1>1. run \in [Pipelines -> Run] /\ "transcribe" \in Pipelines /\ "diarize" \in Pipelines
  BY DEF TypeOK, Pipelines, Publishers, Readers
<1> QED BY <1>1 DEF QuietRun

LEMMA QuietGoto ==
  ASSUME TypeOK, NEW p \in Pipelines, NEW c, Goto(p, c),
         c = "checked" => p # "transcribe",
         c # "commit"
  PROVE  QuietRun
<1>1. run[p] \in Run
  BY DEF TypeOK
<1>2. [run[p] EXCEPT !.pc = c].pc = c
  BY <1>1 DEF Run
<1>3. run' = [run EXCEPT ![p] = [run[p] EXCEPT !.pc = c]]
  BY DEF Goto
<1> QED BY <1>2, <1>3, QuietMove

\* The steps that touch neither transcripts nor what they are made from.
Quiet ==
    \/ EndSession \/ WriteStats \/ RebuildConversations \/ UNCHANGED vars
    \/ \E p \in Pipelines :
         Discover(p) \/ Claim(p) \/ Succeed(p) \/ Fail(p) \/ Fault(p) \/ Crash(p)
    \/ \E p \in Detectors : Detect(p)
    \/ \E p \in Readers : ReadMap(p) \/ ReadRows(p)
    \/ \E p \in Leaves : Recheck(p) \/ PublishLeaf(p)

LEMMA QuietSteps ==
  ASSUME TypeOK, Quiet
  PROVE  /\ QuietRun
         /\ transcripts' = transcripts /\ utterances' = utterances
         /\ map'["diarize"] = map["diarize"]
<1> USE DEF settings, artifacts
<1> DEFINE Same == /\ transcripts' = transcripts /\ utterances' = utterances
                   /\ map'["diarize"] = map["diarize"]
<1>0. /\ map \in [Publishers -> [id : Nat, source : Nat, of : Nat]]
      /\ run \in [Pipelines -> Run]
      /\ "diarize" \in Publishers
  BY DEF TypeOK, Publishers, Readers
<1>1. ASSUME EndSession \/ RebuildConversations \/ UNCHANGED vars PROVE QuietRun /\ Same
  <2>1. run' = run
    BY <1>1 DEF EndSession, RebuildConversations, Forget, vars
  <2>2. Same
    BY <1>0, <1>1 DEF EndSession, RebuildConversations, vars
  <2> QED BY <2>1, <2>2 DEF QuietRun
<1>2. ASSUME NEW p \in Pipelines, Discover(p) PROVE QuietRun /\ Same
  BY <1>2 DEF Discover, QuietRun
<1>3. ASSUME NEW p \in Pipelines, Claim(p) PROVE QuietRun /\ Same
  <2>1. PICK j \in jobs :
          run' = [run EXCEPT ![p] =
                    [Idle EXCEPT !.pc = Opening(p, j.source), !.source = j.source]]
    BY <1>3 DEF Claim
  <2>2. Opening(p, j.source) \notin {"checked", "commit"}
    BY DEF Opening
  <2>3. [Idle EXCEPT !.pc = Opening(p, j.source), !.source = j.source].pc
          \notin {"checked", "commit"}
    BY <2>2 DEF Idle
  <2>4. QuietRun
    BY <2>1, <2>3, QuietMove
  <2> QED BY <1>3, <2>4 DEF Claim
<1>4. ASSUME NEW p \in Pipelines, Succeed(p) \/ Fail(p) \/ Crash(p)
      PROVE  QuietRun /\ Same
  <2>1. run' = [run EXCEPT ![p] = Idle] /\ Idle.pc = "idle"
    BY <1>4 DEF Succeed, Fail, Crash, Idle
  <2>2. QuietRun
    BY <2>1, QuietMove
  <2> QED BY <1>4, <2>2 DEF Succeed, Fail, Crash
<1>5. ASSUME NEW p \in Pipelines, Fault(p) PROVE QuietRun /\ Same
  <2> DEFINE r == [run[p] EXCEPT !.pc = "raised", !.doomed = {}, !.grouped = FALSE]
  <2>1. run' = [run EXCEPT ![p] = r] /\ r.pc = "raised"
    BY <1>0, <1>5 DEF Fault, Run
  <2>2. QuietRun
    BY <2>1, QuietMove
  <2> QED BY <1>5, <2>2 DEF Fault
<1>6. ASSUME WriteStats PROVE QuietRun /\ Same
  <2>1. QuietRun
    BY <1>6, QuietGoto DEF WriteStats, Pipelines
  <2> QED BY <1>6, <2>1 DEF WriteStats
<1>7. ASSUME NEW p \in Detectors, Detect(p) PROVE QuietRun /\ Same
  <2>1. p # "diarize" /\ p \in Pipelines
    BY UpstreamType DEF Detectors
  <2>2. QuietRun
    BY <1>7, <2>1, QuietGoto DEF Detect
  <2> QED BY <1>0, <1>7, <2>1, <2>2 DEF Detect
<1>8. ASSUME NEW p \in Readers, ReadMap(p) PROVE QuietRun /\ Same
  <2>1. QuietRun
    BY <1>8, QuietGoto, UpstreamType DEF ReadMap
  <2> QED BY <1>8, <2>1 DEF ReadMap
<1>9. ASSUME NEW p \in Readers, ReadRows(p) PROVE QuietRun /\ Same
  <2> DEFINE r == [run[p] EXCEPT !.pc = "publish", !.seen = map[Upstream(p)].id]
  <2>1. p \in Pipelines
    BY UpstreamType
  <2>2. run' = [run EXCEPT ![p] = r] /\ r.pc = "publish"
    BY <1>0, <1>9, <2>1 DEF ReadRows, Run
  <2>3. QuietRun
    BY <2>1, <2>2, QuietMove
  <2> QED BY <1>9, <2>3 DEF ReadRows
<1>10. ASSUME NEW p \in Leaves, Recheck(p) \/ PublishLeaf(p) PROVE QuietRun /\ Same
  <2>1. p \in Pipelines /\ p # "diarize" /\ p # "transcribe"
    BY UpstreamType DEF Leaves
  <2>2. QuietRun
    BY <1>10, <2>1, QuietGoto DEF Recheck, PublishLeaf
  <2> QED BY <1>0, <1>10, <2>1, <2>2 DEF Recheck, PublishLeaf
<1> QED
  BY <1>1, <1>2, <1>3, <1>4, <1>5, <1>6, <1>7, <1>8, <1>9, <1>10 DEF Quiet

LEMMA StepTranscripts ==
  ASSUME TypeInv, TranscriptInv, [Next]_vars
  PROVE  TranscriptInv'
<1> USE DEF settings, artifacts
<1>0. /\ TypeOK
      /\ run \in [Pipelines -> Run]
      /\ "transcribe" \in Pipelines /\ "diarize" \in Pipelines
      /\ "transcribe" # "diarize"
  BY DEF TypeInv, TypeOK, Pipelines, Publishers, Readers
<1>1. ASSUME Quiet PROVE TranscriptInv'
  <2>1. Sources("transcribe")' = Sources("transcribe")
    BY <1>0, <1>1, QuietSteps, SourcesFrame
  <2> QED BY <1>0, <1>1, <2>1, QuietSteps, TranscriptFrame DEF QuietRun
<1>2. ASSUME CheckUtterance PROVE TranscriptInv'
  <2>1. transcripts' = transcripts /\ Sources("transcribe")' = Sources("transcribe")
    BY <1>2, SourcesFrame DEF CheckUtterance
  <2>2. run'["transcribe"].pc = "checked" =>
          /\ Transcribed(run["transcribe"].source) = {}
          /\ run'["transcribe"].source = run["transcribe"].source
    BY <1>0, <1>2 DEF CheckUtterance, Goto, Run
  <2>3. run'["diarize"] = run["diarize"]
    BY <1>0, <1>2 DEF CheckUtterance, Goto
  <2>4. TranscriptsAreUnique' /\ OnlyRacersAreStray'
    BY <2>1 DEF TranscriptInv, TranscriptsAreUnique, OnlyRacersAreStray
  <2>5. run'["transcribe"].pc = "checked" =>
          \A t \in transcripts' : t.utterance # run'["transcribe"].source
    BY <2>1, <2>2 DEF Transcribed
  <2> QED BY <2>1, <2>3, <2>4, <2>5 DEF TranscriptInv
<1>3. ASSUME PublishTranscript PROVE TranscriptInv'
  <2> DEFINE u == run["transcribe"].source
  <2>1. /\ transcripts' = transcripts \union {NewTranscript(u)}
        /\ Sources("transcribe")' = Sources("transcribe")
        /\ run'["transcribe"].pc = "done"
        /\ run'["diarize"] = run["diarize"]
    BY <1>0, <1>3, SourcesFrame DEF PublishTranscript, Goto, Run
  <2>2. /\ NewTranscript(u).utterance = u
        /\ NewTranscript(u).late <=>
             (u \notin Sources("transcribe") \/ run["diarize"].pc = "commit")
    BY DEF NewTranscript
  <2>3. \A t \in transcripts : t.utterance # u
    BY <1>3 DEF PublishTranscript, TranscriptInv
  <2>4. TranscriptsAreUnique'
    BY <2>1, <2>2, <2>3 DEF TranscriptInv, TranscriptsAreUnique
  <2>5. OnlyRacersAreStray'
    BY <2>1, <2>2 DEF TranscriptInv, OnlyRacersAreStray
  <2>6. run'["diarize"].pc = "commit" =>
          \A t \in transcripts' \ run'["diarize"].doomed : t.late
    BY <2>1, <2>2 DEF TranscriptInv
  <2> QED BY <2>1, <2>4, <2>5, <2>6 DEF TranscriptInv
<1>4. ASSUME DeleteBelow PROVE TranscriptInv'
  <2>1. /\ transcripts' = transcripts
        /\ Sources("transcribe")' = Sources("transcribe")
        /\ run'["diarize"].doomed = transcripts
        /\ run'["transcribe"] = run["transcribe"]
    BY <1>0, <1>4, SourcesFrame DEF DeleteBelow, Run
  <2>2. TranscriptsAreUnique' /\ OnlyRacersAreStray'
    BY <2>1 DEF TranscriptInv, TranscriptsAreUnique, OnlyRacersAreStray
  <2> QED BY <2>1, <2>2 DEF TranscriptInv
<1>5. ASSUME PublishDiarize PROVE TranscriptInv'
  <2>1. /\ run["diarize"].pc = "commit"
        /\ transcripts' = transcripts \ run["diarize"].doomed
        /\ run'["diarize"].pc = "done"
        /\ run'["transcribe"] = run["transcribe"]
    BY <1>0, <1>5 DEF PublishDiarize, Run
  <2>2. \A t \in transcripts' : t.late
    BY <2>1 DEF TranscriptInv
  <2>3. TranscriptsAreUnique' /\ OnlyRacersAreStray'
    BY <2>1, <2>2 DEF TranscriptInv, TranscriptsAreUnique, OnlyRacersAreStray
  <2> QED BY <2>1, <2>3 DEF TranscriptInv
<1>6. ASSUME Retranscribe \/ Rediarize PROVE TranscriptInv'
  <2>1. transcripts' = {}
    BY <1>6 DEF Retranscribe, Rediarize
  <2> QED BY <2>1 DEF TranscriptInv, TranscriptsAreUnique, OnlyRacersAreStray
<1> QED
  BY <1>1, <1>2, <1>3, <1>4, <1>5, <1>6
     DEF Next, Work, Process, Quiet, Leaves, Readers

----------------------------------------------------------------------------
(* Generations.                                                            *)

\* A leaf's invariant looks at its run, its output and the map above only.
LEMMA LeafFrame ==
  ASSUME NEW p \in Leaves, LeafInv(p),
         map'[p] = map[p] \/ map'[p] = Nothing,
         map'[Upstream(p)] = map[Upstream(p)] \/ map'[Upstream(p)] = Nothing,
         minted'[Upstream(p)] = minted[Upstream(p)],
         minted[Upstream(p)] \in Nat,
         \/ run'[p].pc \notin {"rows", "publish", "checked"}
         \/ run'[p] = run[p]
  PROVE  LeafInv(p)'
<1>1. Nothing.id = 0 /\ Nothing.source = Nothing.of
  BY DEF Nothing
<1>2. Upstream(p)' = Upstream(p)
  BY DEF Upstream
<1> QED BY <1>1, <1>2 DEF LeafInv

\* A new map above: no run holds its id yet.
LEMMA LeafFresh ==
  ASSUME NEW p \in Leaves, LeafInv(p), TypeOK,
         map'[p] = map[p] \/ map'[p] = Nothing,
         map'[Upstream(p)].id = minted[Upstream(p)] + 1,
         minted'[Upstream(p)] = minted[Upstream(p)] + 1,
         run'[p] = run[p]
  PROVE  LeafInv(p)'
<1>1. Nothing.source = Nothing.of /\ Upstream(p)' = Upstream(p)
  BY DEF Nothing, Upstream
<1>2. minted[Upstream(p)] \in Nat /\ run[p] \in Run
  BY UpstreamType DEF TypeOK, Leaves
<1>3. run[p].source[1] \in Nat
  BY <1>2 DEF Run
<1> QED BY <1>1, <1>2, <1>3 DEF LeafInv

LEMMA StepLeaf ==
  ASSUME TypeOK, [Next]_vars, NEW p \in Leaves, LeafInv(p)
  PROVE  LeafInv(p)'
<1> USE DEF settings, artifacts
<1> DEFINE up == Upstream(p)
<1>0. /\ map \in [Publishers -> [id : Nat, source : Nat, of : Nat]]
      /\ minted \in [Consumed -> Nat] /\ run \in [Pipelines -> Run]
      /\ p \in Pipelines /\ p \in Publishers /\ p \in Readers
      /\ p \notin Consumed /\ p \notin Detectors
      /\ p \notin {"diarize", "transcribe", "session-stats"}
      /\ up \in Consumed /\ up \in Publishers /\ minted[up] \in Nat /\ map[up].id \in Nat
      /\ run[p] \in Run /\ Upstream(p)' = up
  <2>1. /\ map \in [Publishers -> [id : Nat, source : Nat, of : Nat]]
        /\ minted \in [Consumed -> Nat] /\ run \in [Pipelines -> Run]
    BY DEF TypeOK
  <2>2. p \in Pipelines /\ p \in Publishers /\ p \in Readers
    BY UpstreamType
  <2>3. p \notin Consumed /\ p \notin Detectors /\ p \notin {"diarize", "transcribe", "session-stats"}
    BY DEF Leaves, Consumed, Detectors
  <2>4. up \in Consumed /\ up \in Publishers
    BY <2>2, UpstreamType
  <2>5. Upstream(p)' = up
    BY DEF Upstream
  <2> QED BY <2>1, <2>2, <2>3, <2>4, <2>5
<1>1. ASSUME map' = map, minted' = minted,
             run'[p].pc \notin {"rows", "publish", "checked"} \/ run'[p] = run[p]
      PROVE  LeafInv(p)'
  BY <1>0, <1>1, LeafFrame
<1>2. ASSUME EndSession \/ Retranscribe \/ (\E q \in Pipelines : Discover(q)) \/ UNCHANGED vars
      PROVE  LeafInv(p)'
  BY <1>1, <1>2 DEF EndSession, Retranscribe, Forget, Discover, vars
<1>3. ASSUME NEW q \in Pipelines, Claim(q) PROVE LeafInv(p)'
  <2>1. PICK j \in jobs :
          run' = [run EXCEPT ![q] =
                    [Idle EXCEPT !.pc = Opening(q, j.source), !.source = j.source]]
    BY <1>3 DEF Claim
  <2>2. [Idle EXCEPT !.pc = Opening(q, j.source), !.source = j.source].pc
          \notin {"rows", "publish", "checked"}
    BY DEF Idle, Opening
  <2> QED BY <1>0, <1>1, <1>3, <2>1, <2>2 DEF Claim
<1>4. ASSUME NEW q \in Pipelines, Succeed(q) \/ Fail(q) \/ Crash(q) PROVE LeafInv(p)'
  <2>1. run' = [run EXCEPT ![q] = Idle] /\ Idle.pc = "idle"
    BY <1>4 DEF Succeed, Fail, Crash, Idle
  <2>2. map' = map /\ minted' = minted
    BY <1>4 DEF Succeed, Fail, Crash
  <2> QED BY <1>0, <1>1, <2>1, <2>2
<1>5. ASSUME NEW q \in Pipelines, Fault(q) PROVE LeafInv(p)'
  <2>1. run'[p].pc = "raised" \/ run'[p] = run[p]
    BY <1>0, <1>5 DEF Fault, Run
  <2> QED BY <1>1, <1>5, <2>1 DEF Fault
<1>6. ASSUME WriteStats \/ DeleteBelow \/ CheckUtterance \/ PublishTranscript
      PROVE  LeafInv(p)'
  <2>1. run'[p] = run[p]
    BY <1>0, <1>6 DEF WriteStats, DeleteBelow, CheckUtterance, PublishTranscript, Goto
  <2> QED BY <1>1, <1>6, <2>1 DEF WriteStats, DeleteBelow, CheckUtterance, PublishTranscript
<1>7. ASSUME NEW q \in Detectors, Detect(q) PROVE LeafInv(p)'
  <2>1. run'[p] = run[p] /\ map'[p] = map[p]
    BY <1>0, <1>7 DEF Detect, Goto
  <2>2. CASE q = up
    <3>1. map'[up] = [Nothing EXCEPT !.id = minted[up] + 1]
          /\ minted'[up] = minted[up] + 1
      BY <1>0, <1>7, <2>2 DEF Detect
    <3>2. map'[up].id = minted[up] + 1
      BY <3>1 DEF Nothing
    <3> QED BY <2>1, <3>1, <3>2, LeafFresh
  <2>3. CASE q # up
    <3>1. map'[up] = map[up] /\ minted'[up] = minted[up]
      BY <1>0, <1>7, <2>3 DEF Detect
    <3> QED BY <1>0, <2>1, <3>1, LeafFrame
  <2> QED BY <2>2, <2>3
<1>8. ASSUME NEW q \in Readers, ReadMap(q) PROVE LeafInv(p)'
  <2>0. map' = map /\ minted' = minted
    BY <1>8 DEF ReadMap
  <2>1. CASE q = p /\ run[p].source \in Sources(p)
    <3>1. run'[p] = [run[p] EXCEPT !.pc = "rows"]
      BY <1>0, <1>8, <2>1 DEF ReadMap, Goto
    <3>2. run'[p].pc = "rows" /\ run'[p].source = run[p].source
      BY <1>0, <3>1 DEF Run
    <3>3. run[p].source[1] # 0 /\ run[p].source[1] <= minted[up]
      BY <1>0, <2>1, SourcesType DEF LeafInv
    <3> QED BY <1>0, <2>0, <3>2, <3>3 DEF LeafInv
  <2>2. CASE ~(q = p /\ run[p].source \in Sources(p))
    <3>1. run'[p].pc = "done" \/ run'[p] = run[p]
      BY <1>0, <1>8, <2>2 DEF ReadMap, Goto, Run
    <3> QED BY <1>1, <2>0, <3>1
  <2> QED BY <2>1, <2>2
<1>9. ASSUME NEW q \in Readers, ReadRows(q) PROVE LeafInv(p)'
  <2>0. map' = map /\ minted' = minted
    BY <1>9 DEF ReadRows
  <2>1. CASE q = p
    <3>1. run'[p] = [run[p] EXCEPT !.pc = "publish", !.seen = map[up].id]
      BY <1>0, <1>9, <2>1 DEF ReadRows
    <3>2. /\ run'[p].pc = "publish" /\ run'[p].source = run[p].source
          /\ run'[p].seen = map[up].id
      BY <1>0, <3>1 DEF Run
    <3>3. run[p].pc = "rows"
      BY <1>9, <2>1 DEF ReadRows
    <3> QED BY <1>0, <2>0, <3>2, <3>3 DEF LeafInv
  <2>2. CASE q # p
    <3>1. run'[p] = run[p]
      BY <1>0, <1>9, <2>2 DEF ReadRows
    <3> QED BY <1>1, <2>0, <3>1
  <2> QED BY <2>1, <2>2
<1>10. ASSUME PublishDiarize PROVE LeafInv(p)'
  <2>1. run'[p] = run[p]
    BY <1>0, <1>10 DEF PublishDiarize
  <2>2. map'[p] = map[p] \/ map'[p] = Nothing
    BY <1>0, <1>10 DEF PublishDiarize
  <2>3. CASE up = "diarize"
    <3>1. map'[up] = Output("diarize", minted[up] + 1) /\ minted'[up] = minted[up] + 1
      BY <1>0, <1>10, <2>3 DEF PublishDiarize
    <3>2. map'[up].id = minted[up] + 1
      BY <3>1 DEF Output
    <3> QED BY <2>1, <2>2, <3>1, <3>2, LeafFresh
  <2>4. CASE up # "diarize"
    <3>1. up # "conversation"
      BY <1>0 DEF Consumed
    <3>2. map'[up] = map[up] /\ minted'[up] = minted[up]
      BY <1>0, <1>10, <2>4, <3>1 DEF PublishDiarize
    <3> QED BY <1>0, <2>1, <2>2, <3>2, LeafFrame
  <2> QED BY <2>3, <2>4
<1>11. ASSUME NEW q \in Leaves, Recheck(q) PROVE LeafInv(p)'
  <2>0. map' = map /\ minted' = minted
    BY <1>11 DEF Recheck
  <2>1. CASE q = p /\ run[p].source \in Sources(p)
    <3>1. run'[p] = [run[p] EXCEPT !.pc = "checked"]
      BY <1>0, <1>11, <2>1 DEF Recheck, Goto
    <3>2. /\ run'[p].pc = "checked" /\ run'[p].source = run[p].source
          /\ run'[p].seen = run[p].seen
      BY <1>0, <3>1 DEF Run
    <3>3. run[p].pc = "publish" /\ run[p].source[1] = map[up].id
      BY <1>0, <1>11, <2>1, SourcesType DEF Recheck
    <3> QED BY <1>0, <2>0, <3>2, <3>3 DEF LeafInv
  <2>2. CASE ~(q = p /\ run[p].source \in Sources(p))
    <3>1. run'[p].pc = "done" \/ run'[p] = run[p]
      BY <1>0, <1>11, <2>2 DEF Recheck, Goto, Run
    <3> QED BY <1>1, <2>0, <3>1
  <2> QED BY <2>1, <2>2
<1>12. ASSUME NEW q \in Leaves, PublishLeaf(q) PROVE LeafInv(p)'
  <2>0. minted' = minted /\ map'[up] = map[up] /\ q # up
    BY <1>0, <1>12 DEF PublishLeaf, Leaves, Consumed
  <2>1. CASE q = p
    <3>1. map'[p] = Output(p, 1) /\ run[p].pc = "checked" /\ run'[p].pc = "done"
      BY <1>0, <1>12, <2>1 DEF PublishLeaf, Goto, Run
    <3>2. map'[p].source = map'[p].of
      BY <3>1 DEF Output, LeafInv
    <3> QED BY <1>0, <2>0, <3>1, <3>2 DEF LeafInv
  <2>2. CASE q # p
    <3>1. run'[p] = run[p] /\ map'[p] = map[p]
      BY <1>0, <1>12, <2>2 DEF PublishLeaf, Goto
    <3> QED BY <1>0, <2>0, <3>1, LeafFrame
  <2> QED BY <2>1, <2>2
<1>13. ASSUME Rediarize \/ RebuildConversations PROVE LeafInv(p)'
  <2>1. minted' = minted /\ run' = run
    BY <1>13 DEF Rediarize, RebuildConversations, Forget
  <2>2. /\ map'[p] = map[p] \/ map'[p] = Nothing
        /\ map'[up] = map[up] \/ map'[up] = Nothing
    BY <1>0, <1>13 DEF Rediarize, RebuildConversations
  <2> QED BY <1>0, <2>1, <2>2, LeafFrame
<1> QED
  BY <1>2, <1>3, <1>4, <1>5, <1>6, <1>7, <1>8, <1>9, <1>10, <1>11, <1>12, <1>13
     DEF Next, Work, Process, Leaves, Readers

----------------------------------------------------------------------------

LEMMA InitTiers == Init => TiersInv
<1> SUFFICES ASSUME Init PROVE TiersInv
  OBVIOUS
<1>1. TranscriptInv
  <2>1. run["transcribe"].pc = "idle" /\ run["diarize"].pc = "idle"
    BY DEF Init, Idle, Pipelines, Publishers, Readers
  <2> QED BY <2>1 DEF Init, TranscriptInv, TranscriptsAreUnique, OnlyRacersAreStray
<1>2. ASSUME NEW p \in Leaves PROVE LeafInv(p)
  <2>1. p \in Publishers /\ p \in Pipelines /\ Upstream(p) \in Publishers
        /\ Upstream(p) \in Consumed
    BY UpstreamType
  <2>2. run[p].pc = "idle" /\ map[p] = Nothing /\ map[Upstream(p)] = Nothing
        /\ minted[Upstream(p)] = 0
    BY <2>1 DEF Init, Idle
  <2> QED BY <2>2 DEF LeafInv, Nothing
<1> QED BY <1>1, <1>2, InitType DEF TiersInv

\* The inductive invariant of the tiers.
THEOREM TiersHold == Spec => []TiersInv
<1>1. TiersInv /\ [Next]_vars => TiersInv'
  BY StepType, StepTranscripts, StepLeaf DEF TiersInv, TypeInv
<1> QED BY InitTiers, <1>1, PTL DEF Spec

\* No utterance ever has two transcripts, whatever is redone, crashes or is
\* still in flight (TranscribeQueries.transcript_exists).
THEOREM TranscriptsUnique == Spec => []TranscriptsAreUnique
<1>1. TiersInv => TranscriptsAreUnique
  BY DEF TiersInv, TranscriptInv
<1> QED BY <1>1, TiersHold, PTL

\* Only a transcript committed while diarize was replacing its utterance is
\* left behind by that replacement.
THEOREM OnlyRacersStray == Spec => []OnlyRacersAreStray
<1>1. TiersInv => OnlyRacersAreStray
  BY DEF TiersInv, TranscriptInv
<1> QED BY <1>1, TiersHold, PTL

\* conversation and sound-span publish rows of the map they are linked to.
THEOREM OutputsOfOneGeneration == Spec => []OutputsAreOfOneGeneration
<1>1. TiersInv => OutputsAreOfOneGeneration
  BY DEF TiersInv, LeafInv, Leaves, OutputsAreOfOneGeneration
<1> QED BY <1>1, TiersHold, PTL

----------------------------------------------------------------------------
(* Numbers, and functions defined by recursion on them.                    *)

LEMMA LeastNumber ==
  ASSUME NEW S \in SUBSET Nat, S # {}
  PROVE  \E x \in S : \A y \in S : x <= y
<1> DEFINE R == OpToRel(<, Nat)
<1>1. IsWellFoundedOn(R, Nat)
  BY NatLessThanWellFounded
<1>2. PICK x \in S : \A y \in S : ~ (<<y, x>> \in R)
  <2> HIDE DEF R
  <2> QED BY <1>1, WFMin
<1>3. \A y \in S : ~(y < x)
  BY <1>2 DEF OpToRel
<1> QED BY <1>3

LEMMA MinIsLeast ==
  ASSUME NEW S \in SUBSET Nat, S # {}
  PROVE  Min(S) \in S /\ \A y \in S : Min(S) <= y
BY LeastNumber DEF Min

LEMMA UpTo ==
  ASSUME NEW last \in Nat, NEW S, 0 \in S, \A n \in 1..last : n - 1 \in S => n \in S
  PROVE  0..last \subseteq S
<1> SUFFICES ASSUME NEW k \in 0..last, k \notin S PROVE FALSE
  OBVIOUS
<1>1. PICK n \in 0..last : n \notin S /\ \A m \in 0..last : m \notin S => n <= m
  <2> DEFINE Out == {m \in 0..last : m \notin S}
  <2>1. Out \in SUBSET Nat /\ Out # {}
    OBVIOUS
  <2> HIDE DEF Out
  <2>2. PICK n \in Out : \A m \in Out : n <= m
    BY <2>1, LeastNumber
  <2> QED BY <2>2 DEF Out
<1>2. n # 0 /\ n - 1 \in 0..last
  BY <1>1
<1>3. n - 1 \in S
  BY <1>1, <1>2
<1> QED BY <1>1, <1>2, <1>3

\* A loop of N rounds, each of which takes a state in S to a state in S, has a run.
Rounds(N, S, step) == \A n \in 1..N : \A x \in S : step[n][x] \in S

IsRun(g, N, S, base, step) ==
    /\ g \in [0..N -> S]
    /\ g[0] = base
    /\ \A n \in 1..N : g[n - 1] \in S /\ g[n] = step[n][g[n - 1]]

LEMMA Loop ==
  ASSUME NEW N \in Nat, NEW S, NEW base \in S, NEW step, Rounds(N, S, step)
  PROVE  \E g : IsRun(g, N, S, base, step)
<1> DEFINE Does(e, m) == e[0] = base /\ \A n \in 1..m : e[n] = step[n][e[n - 1]]
           Good == {m \in 0..N : \E e \in [0..m -> S] : Does(e, m)}
<1>1. 0 \in Good
  <2> DEFINE h == [n \in 0..0 |-> base]
  <2>1. h \in [0..0 -> S] /\ Does(h, 0)
    OBVIOUS
  <2> HIDE DEF h
  <2>2. \E e \in [0..0 -> S] : Does(e, 0)
    BY <2>1
  <2> HIDE DEF Does
  <2> QED BY <2>2
<1>2. ASSUME NEW m \in 1..N, m - 1 \in Good PROVE m \in Good
  <2>1. PICK g \in [0..m - 1 -> S] : Does(g, m - 1)
    BY <1>2
  <2> DEFINE h == [n \in 0..m |-> IF n = m THEN step[m][g[m - 1]] ELSE g[n]]
  <2>2. h \in [0..m -> S]
    <3>1. g[m - 1] \in S
      OBVIOUS
    <3>2. step[m][g[m - 1]] \in S
      BY <3>1 DEF Rounds
    <3> QED BY <3>2
  <2>3. Does(h, m)
    BY <2>1
  <2>4. m \in 0..N /\ \E e \in [0..m -> S] : Does(e, m)
    <3> HIDE DEF h, Does
    <3> QED BY <2>2, <2>3
  <2> QED BY <2>4
<1> HIDE DEF Good
<1>3. 0..N \subseteq Good
  BY <1>1, <1>2, UpTo
<1>4. PICK g \in [0..N -> S] : Does(g, N)
  BY <1>3 DEF Good
<1>5. \A n \in 1..N : g[n - 1] \in S
  OBVIOUS
<1>6. IsRun(g, N, S, base, step)
  BY <1>4, <1>5 DEF IsRun
<1> QED BY <1>6

----------------------------------------------------------------------------
(* Where the speech of a label goes (map_labels), for all spans. *)

Timed(R) == \A r \in R : r.start \in Int /\ r.end \in Int /\ r.start <= r.end

\* The speech of the spans from the i-th on, and what two lists share from where
\* the pointers stand.
From(a, i) == UNION {Ms(a[k]) : k \in i..Len(a)}
Ahead(a, b, at) == From(a, at.i) \intersect From(b, at.j)

LEMMA FromIsFinite ==
  ASSUME NEW R, Timed(R), NEW a \in Seq(R), AreDisjoint(a), NEW i \in 1..Len(a) + 1
  PROVE  IsFiniteSet(From(a, i))
<1>1. Len(a) \in Nat /\ DOMAIN a = 1..Len(a) /\ \A k \in 1..Len(a) : a[k] \in R
  OBVIOUS
<1>2. CASE i = Len(a) + 1
  <2>1. From(a, i) = {}
    BY <1>1, <1>2 DEF From
  <2> QED BY <2>1, FS_EmptySet
<1>3. CASE i \in 1..Len(a)
  <2> DEFINE last == Len(a)
  <2>1. a[i].start \in Int /\ a[last].end \in Int
    BY <1>1, <1>3 DEF Timed
  <2>2. ASSUME NEW k \in i..last PROVE Ms(a[k]) \subseteq a[i].start..a[last].end
    <3>1. k \in 1..last /\ last \in 1..last
      BY <1>1, <1>3
    <3>2. /\ a[k].start \in Int /\ a[k].end \in Int /\ a[k].start <= a[k].end
          /\ a[i].end \in Int /\ a[i].start <= a[i].end
          /\ a[last].start \in Int /\ a[last].start <= a[last].end
      BY <1>1, <1>3, <3>1 DEF Timed
    <3>3. a[i].start <= a[k].start
      <4>1. i = k \/ i < k
        BY <1>1, <1>3
      <4>2. i < k => a[i].end <= a[k].start
        BY <1>1, <1>3, <3>1 DEF AreDisjoint
      <4> QED BY <2>1, <3>2, <4>1, <4>2
    <3>4. a[k].end <= a[last].end
      <4>0. k \in Int /\ last \in Int /\ k <= last
        BY <1>1, <1>3
      <4>1. k = last \/ k < last
        <5> HIDE DEF last
        <5> QED BY <4>0
      <4>2. k < last => a[k].end <= a[last].start
        BY <1>1, <3>1 DEF AreDisjoint
      <4> QED BY <2>1, <3>2, <4>1, <4>2
    <3> DEFINE u == a[i].start
               v == a[k].start
               w == a[k].end
               z == a[last].end
    <3>5. u \in Int /\ v \in Int /\ w \in Int /\ z \in Int /\ u <= v /\ w <= z
      BY <2>1, <3>2, <3>3, <3>4
    <3>6. Ms(a[k]) = v..w - 1
      BY DEF Ms
    <3> HIDE DEF last, u, v, w, z
    <3>7. v..w - 1 \subseteq u..z
      BY <3>5
    <3> QED BY <3>6, <3>7 DEF u, z
  <2>3. From(a, i) \subseteq a[i].start..a[last].end
    BY <2>2 DEF From
  <2>4. IsFiniteSet(a[i].start..a[last].end)
    BY <2>1, FS_Interval
  <2> QED BY <2>3, <2>4, FS_Subset
<1> QED BY <1>1, <1>2, <1>3

\* The first span, and the others behind it.
LEMMA FromNext ==
  ASSUME NEW R, Timed(R), NEW a \in Seq(R), AreDisjoint(a), NEW i \in 1..Len(a)
  PROVE  /\ From(a, i) = Ms(a[i]) \union From(a, i + 1)
         /\ \A x \in From(a, i + 1) : x \in Int /\ a[i].end <= x
<1>1. Len(a) \in Nat /\ DOMAIN a = 1..Len(a) /\ \A k \in 1..Len(a) : a[k] \in R
  OBVIOUS
<1>2. i..Len(a) = {i} \union (i + 1..Len(a))
  BY <1>1
<1>3. ASSUME NEW k \in i + 1..Len(a), NEW x \in Ms(a[k])
      PROVE  x \in Int /\ a[i].end <= x
  <2>1. k \in 1..Len(a) /\ i < k
    BY <1>1
  <2>2. a[i].end <= a[k].start
    BY <1>1, <2>1 DEF AreDisjoint
  <2>3. a[k].start \in Int /\ a[k].end \in Int /\ a[i].end \in Int
    BY <1>1, <2>1 DEF Timed
  <2> QED BY <1>3, <2>2, <2>3 DEF Ms
<1> QED BY <1>2, <1>3 DEF From

LEMMA PartsAddUp ==
  ASSUME NEW S, NEW T, IsFiniteSet(S), IsFiniteSet(T), S \intersect T = {}
  PROVE  Cardinality(S \union T) = Cardinality(S) + Cardinality(T)
<1>1. Cardinality(S \union T) = Cardinality(S) + Cardinality(T) - Cardinality(S \intersect T)
  BY FS_Union
<1>2. Cardinality(S \intersect T) = 0 /\ Cardinality(S) \in Nat /\ Cardinality(T) \in Nat
  BY FS_EmptySet, FS_CardinalityType
<1> QED BY <1>1, <1>2

\* The span that ends first meets none of the other list but the one at its
\* pointer: what it shares is counted when it is left.
LEMMA LeftSpanIsCounted ==
  ASSUME NEW R, Timed(R), NEW a \in Seq(R), NEW b \in Seq(R), AreDisjoint(a), AreDisjoint(b),
         NEW i \in 1..Len(a), NEW j \in 1..Len(b), a[i].end <= b[j].end
  PROVE  Cardinality(From(a, i) \intersect From(b, j))
            = Overlap(a[i], b[j]) + Cardinality(From(a, i + 1) \intersect From(b, j))
<1> DEFINE here == Ms(a[i]) \intersect Ms(b[j])
           later == From(a, i + 1) \intersect From(b, j)
<1>1. /\ a[i].start \in Int /\ a[i].end \in Int /\ b[j].start \in Int /\ b[j].end \in Int
  BY DEF Timed
<1>2. \A x \in Ms(a[i]) : x \in Int /\ x < a[i].end
  BY <1>1 DEF Ms
<1>3. /\ From(a, i) = Ms(a[i]) \union From(a, i + 1)
      /\ \A x \in From(a, i + 1) : x \in Int /\ a[i].end <= x
  BY FromNext
<1>4. /\ From(b, j) = Ms(b[j]) \union From(b, j + 1)
      /\ \A x \in From(b, j + 1) : x \in Int /\ b[j].end <= x
  BY FromNext
<1>5. Ms(a[i]) \intersect From(b, j + 1) = {} /\ Ms(a[i]) \intersect From(a, i + 1) = {}
  BY <1>1, <1>2, <1>3, <1>4
<1>6. From(a, i) \intersect From(b, j) = here \union later /\ here \intersect later = {}
  BY <1>3, <1>4, <1>5
<1>7. IsFiniteSet(here) /\ IsFiniteSet(later)
  <2>1. j \in 1..Len(b) + 1
    OBVIOUS
  <2>2. a[i].end - 1 \in Int
    BY <1>1
  <2>3. IsFiniteSet(Ms(a[i]))
    BY <1>1, <2>2, FS_Interval DEF Ms
  <2>4. IsFiniteSet(From(b, j))
    BY <2>1, FromIsFinite
  <2> QED BY <2>3, <2>4, FS_Subset
<1>8. Cardinality(here) = Overlap(a[i], b[j])
  BY DEF Overlap
<1> HIDE DEF here, later
<1>9. Cardinality(here \union later) = Cardinality(here) + Cardinality(later)
  BY <1>6, <1>7, PartsAddUp
<1> QED BY <1>6, <1>8, <1>9 DEF later

Places(a, b) == [i : 1..Len(a) + 1, j : 1..Len(b) + 1, total : Nat]

\* One iteration keeps what is counted together with what is still ahead.
LEMMA LeaveKeepsSum ==
  ASSUME NEW R, Timed(R), NEW a \in Seq(R), NEW b \in Seq(R), AreDisjoint(a), AreDisjoint(b),
         NEW i \in 1..Len(a), NEW j \in 1..Len(b), NEW n \in Nat
  PROVE  LET at == [i |-> i, j |-> j, total |-> n]
             next == Leave(a, b, at)
         IN  /\ next \in Places(a, b)
             /\ next.i + next.j = i + j + 1
             /\ next.total + Cardinality(Ahead(a, b, next)) = n + Cardinality(Ahead(a, b, at))
<1> DEFINE at == [i |-> i, j |-> j, total |-> n]
           shared == Overlap(a[i], b[j])
           Rest(x, y) == Cardinality(From(a, x) \intersect From(b, y))
<1>1. /\ Len(a) \in Nat /\ Len(b) \in Nat
      /\ {i, i + 1} \subseteq 1..Len(a) + 1
      /\ {j, j + 1} \subseteq 1..Len(b) + 1
  OBVIOUS
<1>2. /\ a[i].start \in Int /\ a[i].end \in Int
      /\ b[j].start \in Int /\ b[j].end \in Int
  BY DEF Timed
<1>3. shared \in Nat
  <2>1. a[i].end - 1 \in Int
    BY <1>2
  <2>2. IsFiniteSet(Ms(a[i]))
    BY <1>2, <2>1, FS_Interval DEF Ms
  <2>3. IsFiniteSet(Ms(a[i]) \intersect Ms(b[j]))
    BY <2>2, FS_Subset
  <2> QED BY <2>3, FS_CardinalityType DEF Overlap
<1>4. ASSUME NEW x \in 1..Len(a) + 1, NEW y PROVE Rest(x, y) \in Nat
  <2>1. IsFiniteSet(From(a, x))
    BY FromIsFinite
  <2>2. IsFiniteSet(From(a, x) \intersect From(b, y))
    BY <2>1, FS_Subset
  <2> QED BY <2>2, FS_CardinalityType
<1>5. Cardinality(Ahead(a, b, at)) = Rest(i, j)
  BY DEF Ahead
<1>6. Leave(a, b, at) = IF a[i].end < b[j].end
                        THEN [i |-> i + 1, j |-> j, total |-> n + shared]
                        ELSE [i |-> i, j |-> j + 1, total |-> n + shared]
  BY <1>1 DEF Leave
<1>7. CASE a[i].end < b[j].end
  <2> DEFINE next == [i |-> i + 1, j |-> j, total |-> n + shared]
  <2>1. a[i].end <= b[j].end
    BY <1>2, <1>7
  <2>2. Rest(i, j) = shared + Rest(i + 1, j)
    BY <2>1, LeftSpanIsCounted
  <2>3. Rest(i + 1, j) \in Nat
    BY <1>1, <1>4
  <2>4. Cardinality(Ahead(a, b, next)) = Rest(i + 1, j)
    BY DEF Ahead
  <2> HIDE DEF shared, Rest
  <2>5. next \in Places(a, b) /\ next.i + next.j = i + j + 1
    BY <1>1, <1>3 DEF Places
  <2>6. next.total + Rest(i + 1, j) = n + Rest(i, j)
    BY <1>3, <2>2, <2>3
  <2> QED BY <1>5, <1>6, <1>7, <2>4, <2>5, <2>6
<1>8. CASE ~(a[i].end < b[j].end)
  <2> DEFINE next == [i |-> i, j |-> j + 1, total |-> n + shared]
  <2>1. b[j].end <= a[i].end
    BY <1>2, <1>8
  <2>2. Cardinality(From(b, j) \intersect From(a, i))
            = Overlap(b[j], a[i]) + Cardinality(From(b, j + 1) \intersect From(a, i))
    BY <2>1, LeftSpanIsCounted
  <2>3. /\ Ms(b[j]) \intersect Ms(a[i]) = Ms(a[i]) \intersect Ms(b[j])
        /\ From(b, j) \intersect From(a, i) = From(a, i) \intersect From(b, j)
        /\ From(b, j + 1) \intersect From(a, i) = From(a, i) \intersect From(b, j + 1)
    OBVIOUS
  <2>4. Rest(i, j) = shared + Rest(i, j + 1)
    BY <2>2, <2>3 DEF Overlap
  <2>5. Rest(i, j + 1) \in Nat
    BY <1>1, <1>4
  <2>6. Cardinality(Ahead(a, b, next)) = Rest(i, j + 1)
    BY DEF Ahead
  <2> HIDE DEF shared, Rest
  <2>7. next \in Places(a, b) /\ next.i + next.j = i + j + 1
    BY <1>1, <1>3 DEF Places
  <2>8. next.total + Rest(i, j + 1) = n + Rest(i, j)
    BY <1>3, <2>4, <2>5
  <2> QED BY <1>5, <1>6, <1>8, <2>6, <2>7, <2>8
<1> QED BY <1>7, <1>8

\* All the speech is ahead of the first span.
LEMMA AllSpeech ==
  ASSUME NEW R, Timed(R), NEW a \in Seq(R), AreDisjoint(a)
  PROVE  From(a, 1) = AllMs(ToSet(a)) /\ IsFiniteSet(AllMs(ToSet(a)))
<1>1. DOMAIN a = 1..Len(a) /\ 1 \in 1..Len(a) + 1
  OBVIOUS
<1>2. From(a, 1) = AllMs(ToSet(a))
  BY <1>1 DEF From, AllMs, ToSet
<1>3. IsFiniteSet(From(a, 1))
  BY <1>1, FromIsFinite
<1> QED BY <1>2, <1>3

\* The recursion of Leaving has a solution.
LEMMA LeavingSteps ==
  ASSUME NEW a, NEW b, Len(a) \in Nat, Len(b) \in Nat
  PROVE  /\ Leaving(a, b)[0] = Pointers
         /\ \A n \in 1..Len(a) + Len(b) : Leaving(a, b)[n] = Leave(a, b, Leaving(a, b)[n - 1])
<1> DEFINE last == Len(a) + Len(b)
           Up(m) == \E g : g = [n \in 0..m |-> IF n = 0 THEN Pointers ELSE Leave(a, b, g[n - 1])]
           Good == {m \in 0..last : Up(m)}
<1>1. 0 \in Good
  <2> DEFINE h == [n \in 0..0 |-> Pointers]
  <2>1. h = [n \in 0..0 |-> IF n = 0 THEN Pointers ELSE Leave(a, b, h[n - 1])]
    OBVIOUS
  <2> HIDE DEF h
  <2>2. Up(0)
    BY <2>1
  <2> QED BY <2>2
<1>2. ASSUME NEW m \in 1..last, m - 1 \in Good PROVE m \in Good
  <2>1. PICK g : g = [n \in 0..m - 1 |-> IF n = 0 THEN Pointers ELSE Leave(a, b, g[n - 1])]
    BY <1>2
  <2> DEFINE h == [n \in 0..m |-> IF n = m THEN Leave(a, b, g[m - 1]) ELSE g[n]]
  <2>2. ASSUME NEW n \in 0..m
        PROVE  h[n] = IF n = 0 THEN Pointers ELSE Leave(a, b, h[n - 1])
    BY <2>1
  <2>3. h = [n \in 0..m |-> IF n = 0 THEN Pointers ELSE Leave(a, b, h[n - 1])]
    <3>1. h = [n \in 0..m |-> h[n]]
      OBVIOUS
    <3> HIDE DEF h
    <3> QED BY <2>2, <3>1
  <2> HIDE DEF h
  <2>4. Up(m)
    BY <2>3
  <2>5. m \in 0..last
    OBVIOUS
  <2> QED BY <2>4, <2>5
<1>3. Up(last)
  <2>1. last \in Nat
    OBVIOUS
  <2>2. 0..last \subseteq Good
    <3> HIDE DEF Good, last
    <3> QED BY <1>1, <1>2, <2>1, UpTo
  <2> QED BY <2>1, <2>2
<1>4. Leaving(a, b) = [n \in 0..last |-> IF n = 0 THEN Pointers
                                         ELSE Leave(a, b, Leaving(a, b)[n - 1])]
  BY <1>3 DEF Leaving
<1> QED BY <1>4

\* The two pointers add up exactly what two lists of spans share.
LEMMA OverlapIsExact ==
  ASSUME NEW R, Timed(R), NEW a \in Seq(R), NEW b \in Seq(R), AreDisjoint(a), AreDisjoint(b)
  PROVE  OverlapMs(a, b) = Cardinality(AllMs(ToSet(a)) \intersect AllMs(ToSet(b)))
<1> DEFINE all == Cardinality(From(a, 1) \intersect From(b, 1))
           last == Len(a) + Len(b)
           Sums(at) == /\ at \in Places(a, b)
                       /\ at.total + Cardinality(Ahead(a, b, at)) = all
           Done(at) == at.i = Len(a) + 1 \/ at.j = Len(b) + 1
           Good == {n \in 0..last : LET at == Leaving(a, b)[n]
                                    IN  Sums(at) /\ (Done(at) \/ at.i + at.j = n + 2)}
<1>1. Len(a) \in Nat /\ Len(b) \in Nat
  OBVIOUS
<1>2. /\ Leaving(a, b)[0] = Pointers
      /\ \A n \in 1..last : Leaving(a, b)[n] = Leave(a, b, Leaving(a, b)[n - 1])
  BY <1>1, LeavingSteps
<1>3. 0 \in Good
  <2>1. IsFiniteSet(From(a, 1))
    BY <1>1, FromIsFinite
  <2>2. all \in Nat
    BY <2>1, FS_Subset, FS_CardinalityType
  <2>3. Cardinality(Ahead(a, b, Pointers)) = all
    BY DEF Ahead, Pointers
  <2>4. Pointers \in Places(a, b)
    BY <1>1 DEF Pointers, Places
  <2>5. Sums(Pointers)
    <3> HIDE DEF all
    <3> QED BY <2>2, <2>3, <2>4 DEF Pointers
  <2>6. Pointers.i + Pointers.j = 0 + 2
    BY DEF Pointers
  <2> HIDE DEF Sums
  <2> QED BY <1>1, <1>2, <2>5, <2>6
<1>4. ASSUME NEW n \in 1..last, n - 1 \in Good PROVE n \in Good
  <2> DEFINE at == Leaving(a, b)[n - 1]
             next == Leave(a, b, at)
  <2>1. Sums(at) /\ (Done(at) \/ at.i + at.j = n + 1)
    BY <1>4
  <2>2. Leaving(a, b)[n] = next
    BY <1>2
  <2>3. CASE Done(at)
    <3>1. next = at
      BY <1>1, <2>1, <2>3 DEF Leave, Places
    <3> HIDE DEF next, at, Sums
    <3> QED BY <2>1, <2>2, <2>3, <3>1
  <2>4. CASE ~Done(at)
    <3> HIDE DEF at
    <3>1. /\ at.i \in 1..Len(a) /\ at.j \in 1..Len(b) /\ at.total \in Nat
          /\ at = [i |-> at.i, j |-> at.j, total |-> at.total]
      BY <1>1, <2>1, <2>4 DEF Places
    <3>2. /\ next \in Places(a, b)
          /\ next.i + next.j = at.i + at.j + 1
          /\ next.total + Cardinality(Ahead(a, b, next))
                 = at.total + Cardinality(Ahead(a, b, at))
      BY <3>1, LeaveKeepsSum
    <3>3. Sums(next)
      <4> HIDE DEF next, all
      <4> QED BY <2>1, <3>2
    <3>4. next.i + next.j = n + 2
      <4>1. at.i + at.j = n + 1
        BY <2>1, <2>4
      <4> HIDE DEF next
      <4> QED BY <1>1, <3>1, <3>2, <4>1
    <3> HIDE DEF next, Sums, Done
    <3> QED BY <2>2, <3>3, <3>4
  <2> QED BY <2>3, <2>4
<1>5. LET at == Leaving(a, b)[last] IN Sums(at) /\ Done(at)
  <2>1. last \in Nat /\ last \in 0..last
    BY <1>1
  <2>2. 0..last \subseteq Good
    <3> HIDE DEF Good
    <3> QED BY <1>3, <1>4, <2>1, UpTo
  <2>3. last \in Good
    BY <2>1, <2>2
  <2> DEFINE at == Leaving(a, b)[last]
  <2>4. Sums(at) /\ (Done(at) \/ at.i + at.j = last + 2)
    BY <2>3
  <2>5. Done(at)
    <3>1. at.i \in 1..Len(a) + 1 /\ at.j \in 1..Len(b) + 1
      BY <2>4 DEF Places
    <3> HIDE DEF at
    <3> QED BY <1>1, <2>4, <3>1
  <2> QED BY <2>4, <2>5
<1>6. OverlapMs(a, b) = all
  <2> DEFINE at == Leaving(a, b)[last]
  <2>1. From(a, Len(a) + 1) = {} /\ From(b, Len(b) + 1) = {}
    BY <1>1 DEF From
  <2>2. Ahead(a, b, at) = {}
    BY <1>5, <2>1 DEF Ahead
  <2>3. at.total \in Nat /\ at.total + 0 = all
    <3>1. at.total \in Nat /\ at.total + Cardinality(Ahead(a, b, at)) = all
      BY <1>5 DEF Places
    <3> HIDE DEF at, all
    <3> QED BY <2>2, <3>1, FS_EmptySet
  <2>4. OverlapMs(a, b) = at.total
    BY DEF OverlapMs
  <2> HIDE DEF at, all
  <2> QED BY <2>3, <2>4
<1>7. From(a, 1) = AllMs(ToSet(a)) /\ From(b, 1) = AllMs(ToSet(b))
  BY AllSpeech
<1> QED BY <1>6, <1>7

\* Spans that are apart, one after another, are sorted as they are.
LEMMA SortedAlready ==
  ASSUME NEW R, Timed(R), NEW a \in Seq(R), AreDisjoint(a)
  PROVE  Sorted(a) = a
<1> DEFINE Former(i, j) == \/ Earlier(a[i], a[j])
                           \/ ~Earlier(a[j], a[i]) /\ i < j
           rank == [i \in DOMAIN a |-> Cardinality({j \in DOMAIN a : Former(j, i)}) + 1]
<1>1. Len(a) \in Nat /\ DOMAIN a = 1..Len(a) /\ \A k \in 1..Len(a) : a[k] \in R
  OBVIOUS
<1>2. ASSUME NEW i \in 1..Len(a), NEW j \in 1..Len(a), i < j PROVE ~Earlier(a[j], a[i])
  <2>1. a[i].end <= a[j].start
    BY <1>1, <1>2 DEF AreDisjoint
  <2>2. /\ a[i].start \in Int /\ a[i].end \in Int /\ a[i].start <= a[i].end
        /\ a[j].start \in Int /\ a[j].end \in Int /\ a[j].start <= a[j].end
    BY <1>1 DEF Timed
  <2> QED BY <2>1, <2>2 DEF Earlier
<1>3. ASSUME NEW i \in 1..Len(a), NEW j \in 1..Len(a) PROVE Former(j, i) <=> j < i
  <2>1. CASE i = j
    <3>1. a[i].start \in Int /\ a[i].end \in Int
      BY <1>1 DEF Timed
    <3> QED BY <2>1, <3>1 DEF Earlier
  <2>2. CASE i < j
    BY <1>2, <2>2
  <2>3. CASE j < i
    BY <1>2, <2>3
  <2> QED BY <1>1, <2>1, <2>2, <2>3
<1>4. ASSUME NEW i \in 1..Len(a) PROVE rank[i] = i
  <2>1. {j \in 1..Len(a) : Former(j, i)} = 1..i - 1
    <3> HIDE DEF Former
    <3> QED BY <1>1, <1>3
  <2>2. Cardinality(1..i - 1) = i - 1
    <3>1. i \in Int /\ i - 1 \in Int
      BY <1>1
    <3>2. Cardinality(1..i - 1) = IF 1 > i - 1 THEN 0 ELSE i - 1 - 1 + 1
      BY <3>1, FS_Interval
    <3> QED BY <1>1, <3>1, <3>2
  <2>3. rank[i] = Cardinality({j \in 1..Len(a) : Former(j, i)}) + 1
    BY <1>1
  <2>4. rank[i] = Cardinality(1..i - 1) + 1
    BY <2>1, <2>3
  <2> HIDE DEF rank
  <2>5. i \in Int
    BY <1>1
  <2> QED BY <2>2, <2>4, <2>5
<1>5. Sorted(a) = [k \in DOMAIN a |-> a[CHOOSE i \in DOMAIN a : rank[i] = k]]
  BY DEF Sorted
<1> HIDE DEF rank
<1>6. ASSUME NEW k \in DOMAIN a PROVE (CHOOSE i \in DOMAIN a : rank[i] = k) = k
  BY <1>1, <1>4
<1>7. Sorted(a) = [k \in DOMAIN a |-> a[k]]
  BY <1>5, <1>6
<1> QED BY <1>1, <1>7

\* Among finitely many labels with a share each, one has the largest share.
LEMMA LargestShare ==
  ASSUME NEW n \in Nat, n # 0, NEW c \in Nat, NEW share \in [1..n -> 0..c]
  PROVE  \E l \in 1..n : \A m \in 1..n : share[m] <= share[l]
<1> DEFINE S == {c - share[l] : l \in 1..n}
<1>1. S \in SUBSET Nat
  OBVIOUS
<1>2. S # {}
  <2>1. 1 \in 1..n
    OBVIOUS
  <2> QED BY <2>1
<1>3. PICK x \in S : \A y \in S : x <= y
  <2> HIDE DEF S
  <2> QED BY <1>1, <1>2, LeastNumber
<1>4. PICK l \in 1..n : x = c - share[l]
  BY <1>3
<1>5. ASSUME NEW m \in 1..n PROVE share[m] <= share[l]
  <2>1. c - share[l] <= c - share[m]
    BY <1>3, <1>4
  <2>2. share[l] \in Int /\ share[m] \in Int
    OBVIOUS
  <2> QED BY <2>1, <2>2
<1> QED BY <1>5

\* What two sets of spans share, as map_labels compares it.
LEMMA SharedIs ==
  ASSUME NEW R, Timed(R), NEW a \in Seq(R), NEW b \in Seq(R), AreDisjoint(a), AreDisjoint(b)
  PROVE  /\ OverlapMs(Sorted(a), Sorted(b))
                = Cardinality(AllMs(ToSet(a)) \intersect AllMs(ToSet(b)))
         /\ Cardinality(AllMs(ToSet(a)) \intersect AllMs(ToSet(b)))
                \in 0..Cardinality(AllMs(ToSet(a)))
<1>1. Sorted(a) = a /\ Sorted(b) = b
  BY SortedAlready
<1>2. OverlapMs(a, b) = Cardinality(AllMs(ToSet(a)) \intersect AllMs(ToSet(b)))
  BY OverlapIsExact
<1>3. IsFiniteSet(AllMs(ToSet(a)))
  BY AllSpeech
<1>4. LET both == AllMs(ToSet(a)) \intersect AllMs(ToSet(b))
      IN  /\ IsFiniteSet(both) /\ Cardinality(both) \in Nat
          /\ Cardinality(both) <= Cardinality(AllMs(ToSet(a)))
          /\ Cardinality(AllMs(ToSet(a))) \in Nat
  BY <1>3, FS_Subset, FS_CardinalityType
<1> QED BY <1>1, <1>2, <1>4

\* An old label goes to the new label that has most of its speech, and to none
\* exactly if no new label has any (map_labels), for any spans of speech that are
\* in order and apart.
THEOREM LabelsGoWithSpeech ==
  ASSUME NEW R, Timed(R), NEW old \in Seq(R), AreDisjoint(old),
         NEW n \in Nat, NEW new \in [1..n -> Seq(R)], \A l \in 1..n : AreDisjoint(new[l])
  PROVE  LabelsFollowSpeech(old, new)
<1> DEFINE Shared(l) == Cardinality(AllMs(ToSet(old)) \intersect AllMs(ToSet(new[l])))
           c == Cardinality(AllMs(ToSet(old)))
           best == {l \in 1..n : \A m \in 1..n : Shared(m) <= Shared(l)}
           target == MapLabel(old, new)
<1>1. DOMAIN new = 1..n /\ \A l \in 1..n : new[l] \in Seq(R)
  OBVIOUS
<1>2. \A l \in 1..n : OverlapMs(Sorted(old), Sorted(new[l])) = Shared(l) /\ Shared(l) \in 0..c
  BY <1>1, SharedIs
<1>3. target = IF \A l \in 1..n : Shared(l) = 0 THEN NoLabel ELSE Min(best)
  <2> HIDE DEF Shared
  <2> QED BY <1>1, <1>2 DEF MapLabel
<1>4. CASE \A l \in 1..n : Shared(l) = 0
  BY <1>1, <1>3, <1>4 DEF LabelsFollowSpeech
<1>5. CASE ~ \A l \in 1..n : Shared(l) = 0
  <2>1. PICK some \in 1..n : Shared(some) # 0
    BY <1>5
  <2>2. c \in Nat
    BY AllSpeech, FS_CardinalityType
  <2>3. \E l \in 1..n : \A m \in 1..n : Shared(m) <= Shared(l)
    <3> DEFINE share == [l \in 1..n |-> Shared(l)]
    <3> HIDE DEF Shared, c
    <3>1. share \in [1..n -> 0..c] /\ n # 0
      BY <1>2, <2>1
    <3>2. PICK l \in 1..n : \A m \in 1..n : share[m] <= share[l]
      <4> HIDE DEF share
      <4> QED BY <2>2, <3>1, LargestShare
    <3> QED BY <3>2
  <2>4. Min(best) \in best
    <3> HIDE DEF Shared
    <3>1. best \in SUBSET Nat
      OBVIOUS
    <3>2. best # {}
      BY <2>3
    <3> HIDE DEF best
    <3> QED BY <3>1, <3>2, MinIsLeast
  <2>5. target \in 1..n /\ \A l \in 1..n : Shared(l) <= Shared(target)
    BY <1>3, <1>5, <2>4
  <2>6. Shared(target) > 0
    <3> HIDE DEF Shared, target, c
    <3> QED BY <1>2, <2>1, <2>2, <2>5
  <2>7. target # NoLabel
    <3> HIDE DEF target
    <3> QED BY <2>5 DEF NoLabel
  <2> QED BY <1>1, <2>5, <2>6, <2>7 DEF LabelsFollowSpeech
<1> QED BY <1>4, <1>5


\* So a label whose speech is all under one new label is carried to that one, as
\* apply_labels of SpeakerCuration has it of a voice that is heard under one label.
THEOREM VoicesKeepTheirLabels ==
  ASSUME NEW R, Timed(R), NEW old \in Seq(R), AreDisjoint(old), AllMs(ToSet(old)) # {},
         NEW n \in Nat, NEW new \in [1..n -> Seq(R)], \A l \in 1..n : AreDisjoint(new[l]),
         \A k, l \in 1..n : k # l => AllMs(ToSet(new[k])) \intersect AllMs(ToSet(new[l])) = {},
         NEW t \in 1..n, AllMs(ToSet(old)) \subseteq AllMs(ToSet(new[t]))
  PROVE  MapLabel(old, new) = t
<1> DEFINE Both(l) == AllMs(ToSet(old)) \intersect AllMs(ToSet(new[l]))
           target == MapLabel(old, new)
<1>1. DOMAIN new = 1..n /\ t \in 1..n
  OBVIOUS
<1>2. Both(t) = AllMs(ToSet(old)) /\ \A l \in 1..n : l # t => Both(l) = {}
  OBVIOUS
<1>3. Cardinality(Both(t)) # 0 /\ \A l \in 1..n : l # t => Cardinality(Both(l)) = 0
  <2>1. IsFiniteSet(AllMs(ToSet(old)))
    BY AllSpeech
  <2>2. IsFiniteSet(Both(t)) /\ Both(t) # {}
    BY <1>2, <2>1
  <2> HIDE DEF Both
  <2> QED BY <1>2, <2>2, FS_EmptySet
<1>4. IF target = NoLabel THEN \A l \in 1..n : Cardinality(Both(l)) = 0
      ELSE /\ Cardinality(Both(target)) > 0
           /\ \A l \in 1..n : Cardinality(Both(l)) <= Cardinality(Both(target))
  BY <1>1, LabelsGoWithSpeech DEF LabelsFollowSpeech
<1>5. target \in 1..n \union {NoLabel}
  <2> DEFINE best == {l \in 1..n : \A m \in 1..n :
                         OverlapMs(Sorted(old), Sorted(new[m])) <= OverlapMs(Sorted(old), Sorted(new[l]))}
  <2>1. target = NoLabel \/ target = Min(best)
    BY <1>1 DEF MapLabel
  <2>2. t \in best
    <3>1. \A l \in 1..n : OverlapMs(Sorted(old), Sorted(new[l])) = Cardinality(Both(l))
      BY SharedIs
    <3>2. \A l \in 1..n : Cardinality(Both(l)) <= Cardinality(Both(t))
      <4>1. IsFiniteSet(AllMs(ToSet(old)))
        BY AllSpeech
      <4>2. Cardinality(Both(t)) \in Nat
        BY <1>2, <4>1, FS_CardinalityType
      <4> HIDE DEF Both
      <4> QED BY <1>3, <4>2
    <3> HIDE DEF Both
    <3> QED BY <3>1, <3>2
  <2>3. best \in SUBSET Nat /\ best \subseteq 1..n
    OBVIOUS
  <2>4. Min(best) \in best
    <3> HIDE DEF best
    <3> QED BY <2>2, <2>3, MinIsLeast
  <2> QED BY <2>1, <2>3, <2>4
<1> HIDE DEF Both, target
<1>6. target # NoLabel
  BY <1>3, <1>4
<1>7. target \in 1..n
  BY <1>5, <1>6
<1>8. target = t
  BY <1>3, <1>4, <1>6, <1>7
<1> QED BY <1>8 DEF target


----------------------------------------------------------------------------
(* Which edit an utterance takes (carried_text), for all spans. *)

\* The edit taken after each step of the loop.
LEMMA CarriedSteps ==
  ASSUME NEW edits, NEW span, Len(edits) \in Nat
  PROVE  \E took : /\ took[0] = NoEdit
                   /\ \A k \in 1..Len(edits) :
                         took[k] = IF Takes(edits, took[k - 1], k, span) THEN k ELSE took[k - 1]
                   /\ Carried(edits, span) = took[Len(edits)]
<1> DEFINE last == Len(edits)
           Step(best, k) == IF Takes(edits, best, k, span) THEN k ELSE best
           Up(m) == \E g : g = [k \in 0..m |-> IF k = 0 THEN NoEdit ELSE Step(g[k - 1], k)]
           Good == {m \in 0..last : Up(m)}
<1> HIDE DEF Step
<1>1. 0 \in Good
  <2> DEFINE h == [k \in 0..0 |-> NoEdit]
  <2>1. h = [k \in 0..0 |-> IF k = 0 THEN NoEdit ELSE Step(h[k - 1], k)]
    OBVIOUS
  <2> HIDE DEF h
  <2>2. Up(0)
    BY <2>1
  <2> QED BY <2>2
<1>2. ASSUME NEW m \in 1..last, m - 1 \in Good PROVE m \in Good
  <2>1. PICK g : g = [k \in 0..m - 1 |-> IF k = 0 THEN NoEdit ELSE Step(g[k - 1], k)]
    BY <1>2
  <2> DEFINE h == [k \in 0..m |-> IF k = m THEN Step(g[m - 1], m) ELSE g[k]]
  <2>2. ASSUME NEW k \in 0..m
        PROVE  h[k] = IF k = 0 THEN NoEdit ELSE Step(h[k - 1], k)
    BY <2>1
  <2>3. h = [k \in 0..m |-> IF k = 0 THEN NoEdit ELSE Step(h[k - 1], k)]
    <3>1. h = [k \in 0..m |-> h[k]]
      OBVIOUS
    <3> HIDE DEF h
    <3> QED BY <2>2, <3>1
  <2> HIDE DEF h
  <2>4. Up(m)
    BY <2>3
  <2>5. m \in 0..last
    OBVIOUS
  <2> QED BY <2>4, <2>5
<1>3. Up(last)
  <2> HIDE DEF Good
  <2>1. 0..last \subseteq Good
    BY <1>1, <1>2, UpTo
  <2> QED BY <2>1 DEF Good
<1> DEFINE took == CHOOSE g : g = [k \in 0..last |-> IF k = 0 THEN NoEdit ELSE Step(g[k - 1], k)]
<1>4. took = [k \in 0..last |-> IF k = 0 THEN NoEdit ELSE Step(took[k - 1], k)]
  BY <1>3
<1>5. Carried(edits, span) = took[last]
  BY DEF Carried, Step
<1> HIDE DEF took
<1>6. took[0] = NoEdit /\ \A k \in 1..last : took[k] = Step(took[k - 1], k)
  BY <1>4
<1> QED BY <1>5, <1>6 DEF Step

\* What the edits so far share with the span, and whether they may be taken.
Share(edits, k, span) == Overlap(edits[k], span)
Fits(edits, k, span) == 2 * Share(edits, k, span) >= edits[k].end - edits[k].start

LEMMA ShareIs ==
  ASSUME NEW R, Timed(R), NEW r \in R, NEW span
  PROVE  /\ IsFiniteSet(Ms(r)) /\ Cardinality(Ms(r)) = r.end - r.start
         /\ Overlap(r, span) \in Nat /\ r.end - r.start \in Nat
<1>1. r.start \in Int /\ r.end \in Int /\ r.start <= r.end
  BY DEF Timed
<1>2. r.end - 1 \in Int
  BY <1>1
<1>3. /\ IsFiniteSet(Ms(r))
      /\ Cardinality(Ms(r)) = IF r.start > r.end - 1 THEN 0 ELSE r.end - 1 - r.start + 1
  BY <1>1, <1>2, FS_Interval DEF Ms
<1>4. Cardinality(Ms(r)) = r.end - r.start /\ r.end - r.start \in Nat
  BY <1>1, <1>3
<1>5. Overlap(r, span) \in Nat
  <2>1. IsFiniteSet(Ms(r) \intersect Ms(span))
    BY <1>3, FS_Subset
  <2> QED BY <2>1, FS_CardinalityType DEF Overlap
<1> QED BY <1>3, <1>4, <1>5

\* What is carried fits and shares something, and of those that fit none shares more.
LEMMA CarriedIsBest ==
  ASSUME NEW R, Timed(R), NEW edits \in Seq(R), NEW span
  PROVE  LET best == Carried(edits, span)
         IN  /\ best \in 0..Len(edits)
             /\ best # NoEdit => Fits(edits, best, span)
             /\ \A k \in 1..Len(edits) : Fits(edits, k, span) /\ Share(edits, k, span) > 0 =>
                   best # NoEdit /\ Share(edits, k, span) <= Share(edits, best, span)
<1> DEFINE n == Len(edits)
           Most(best, k) ==
               /\ best \in 0..k
               /\ best # NoEdit => Fits(edits, best, span)
               /\ \A m \in 1..k : Fits(edits, m, span) /\ Share(edits, m, span) > 0 =>
                     best # NoEdit /\ Share(edits, m, span) <= Share(edits, best, span)
<1>1. n \in Nat /\ \A k \in 1..n : edits[k] \in R
  OBVIOUS
<1>2. PICK took : /\ took[0] = NoEdit
                  /\ \A k \in 1..n : took[k] = IF Takes(edits, took[k - 1], k, span)
                                               THEN k ELSE took[k - 1]
                  /\ Carried(edits, span) = took[n]
  BY <1>1, CarriedSteps
<1>3. \A k \in 1..n : Share(edits, k, span) \in Nat
  BY <1>1, ShareIs DEF Share
<1> DEFINE Good == {k \in 0..n : Most(took[k], k)}
<1>4. 0 \in Good
  BY <1>1, <1>2 DEF NoEdit
<1>5. ASSUME NEW k \in 1..n, k - 1 \in Good PROVE k \in Good
  <2> DEFINE best == took[k - 1]
  <2>1. Most(best, k - 1) /\ k \in 0..n
    BY <1>1, <1>5
  <2>2. best \in 0..k - 1 /\ k # NoEdit /\ best \in 0..k
    BY <1>1, <2>1 DEF NoEdit
  <2>3. best # NoEdit => Share(edits, best, span) \in Nat
    <3>1. best # NoEdit => best \in 1..n
      BY <1>1, <2>2 DEF NoEdit
    <3> QED BY <1>3, <3>1
  <2>4. ASSUME NEW m \in 1..k PROVE m \in 1..k - 1 \/ m = k
    BY <1>1
  <2>5. Takes(edits, best, k, span) <=>
            /\ Share(edits, k, span) > (IF best = NoEdit THEN 0 ELSE Share(edits, best, span))
            /\ Fits(edits, k, span)
    BY DEF Takes, Share, Fits
  <2> HIDE DEF best
  <2>6. CASE Takes(edits, best, k, span)
    <3>1. took[k] = k
      BY <1>2, <2>6 DEF best
    <3>2. ASSUME NEW m \in 1..k, Fits(edits, m, span), Share(edits, m, span) > 0
          PROVE  Share(edits, m, span) <= Share(edits, k, span)
      <4>1. Share(edits, m, span) \in Nat /\ Share(edits, k, span) \in Nat
        BY <1>1, <1>3
      <4>2. CASE m = k
        BY <4>1, <4>2
      <4>3. CASE m \in 1..k - 1
        <5>1. best # NoEdit /\ Share(edits, m, span) <= Share(edits, best, span)
          BY <2>1, <3>2, <4>3
        <5> QED BY <2>3, <2>5, <2>6, <4>1, <5>1
      <4> QED BY <2>4, <4>2, <4>3
    <3>3. Most(k, k)
      BY <1>1, <2>2, <2>5, <2>6, <3>2
    <3> HIDE DEF Most
    <3> QED BY <2>1, <3>1, <3>3
  <2>7. CASE ~Takes(edits, best, k, span)
    <3>1. took[k] = best
      BY <1>2, <2>7 DEF best
    <3>2. ASSUME NEW m \in 1..k, Fits(edits, m, span), Share(edits, m, span) > 0
          PROVE  best # NoEdit /\ Share(edits, m, span) <= Share(edits, best, span)
      <4>1. CASE m = k
        <5>1. Share(edits, k, span) \in Nat
          BY <1>3
        <5> QED BY <2>3, <2>5, <2>7, <3>2, <4>1, <5>1
      <4>2. CASE m \in 1..k - 1
        BY <2>1, <3>2, <4>2
      <4> QED BY <2>4, <4>1, <4>2
    <3>3. Most(best, k)
      BY <2>1, <2>2, <3>2
    <3> HIDE DEF Most
    <3> QED BY <2>1, <3>1, <3>3
  <2> QED BY <2>6, <2>7
<1>6. n \in Good
  <2>1. 0..n \subseteq Good
    <3> HIDE DEF Good
    <3> QED BY <1>1, <1>4, <1>5, UpTo
  <2>2. n \in 0..n
    BY <1>1
  <2> QED BY <2>1, <2>2
<1>7. Most(Carried(edits, span), n)
  <2> HIDE DEF Most
  <2> QED BY <1>2, <1>6
<1> QED BY <1>7

\* Two spans that are apart share no more of an edit than there is of it.
LEMMA SharesAddUp ==
  ASSUME NEW R, Timed(R), NEW r \in R, NEW s \in R, NEW t \in R,
         s.end <= t.start \/ t.end <= s.start
  PROVE  Overlap(r, s) + Overlap(r, t) <= r.end - r.start
<1> DEFINE one == Ms(r) \intersect Ms(s)
           other == Ms(r) \intersect Ms(t)
<1>1. one \intersect other = {}
  <2>1. s.start \in Int /\ s.end \in Int /\ t.start \in Int /\ t.end \in Int
    BY DEF Timed
  <2>2. Ms(s) \intersect Ms(t) = {}
    BY <2>1 DEF Ms
  <2> QED BY <2>2
<1>2. IsFiniteSet(Ms(r)) /\ Cardinality(Ms(r)) = r.end - r.start
  BY ShareIs
<1>3. IsFiniteSet(one) /\ IsFiniteSet(other)
  BY <1>2, FS_Subset
<1>4. Cardinality(one \union other) = Cardinality(one) + Cardinality(other)
  <2> HIDE DEF one, other
  <2> QED BY <1>1, <1>3, PartsAddUp
<1>5. Cardinality(one \union other) <= Cardinality(Ms(r))
  <2>1. one \union other \in SUBSET Ms(r)
    OBVIOUS
  <2> HIDE DEF one, other
  <2> QED BY <1>2, <2>1, FS_Subset
<1> QED BY <1>2, <1>4, <1>5 DEF Overlap

\* An utterance takes the text it covers most of, if it covers half of what was
\* edited, and none otherwise; and two spans take the same text only when each
\* covers exactly a half (carried_text), for any edits and spans.
THEOREM EditsGoWithSpeech ==
  ASSUME NEW R, Timed(R), NEW edits \in Seq(R), NEW spans \in Seq(R)
  PROVE  EditsAreCovered(edits, spans)
<1> DEFINE takes == [u \in DOMAIN spans |-> Carried(edits, spans[u])]
           Half(k, u) == 2 * Overlap(edits[k], spans[u]) >= edits[k].end - edits[k].start
<1>1. /\ Len(edits) \in Nat /\ Len(spans) \in Nat
      /\ DOMAIN edits = 1..Len(edits) /\ \A k \in 1..Len(edits) : edits[k] \in R
      /\ DOMAIN spans = 1..Len(spans)
      /\ \A u \in 1..Len(spans) : spans[u] \in R
  OBVIOUS
<1>2. ASSUME NEW u \in DOMAIN spans
      PROVE  /\ takes[u] \in 0..Len(edits)
             /\ takes[u] # NoEdit => Half(takes[u], u)
             /\ \A k \in DOMAIN edits : Half(k, u) /\ Overlap(edits[k], spans[u]) > 0 =>
                   /\ takes[u] # NoEdit
                   /\ Overlap(edits[takes[u]], spans[u]) >= Overlap(edits[k], spans[u])
  <2>1. takes[u] = Carried(edits, spans[u])
    OBVIOUS
  <2>2. /\ takes[u] \in 0..Len(edits)
        /\ takes[u] # NoEdit => Fits(edits, takes[u], spans[u])
        /\ \A k \in 1..Len(edits) :
              Fits(edits, k, spans[u]) /\ Share(edits, k, spans[u]) > 0 =>
                 /\ takes[u] # NoEdit
                 /\ Share(edits, k, spans[u]) <= Share(edits, takes[u], spans[u])
    <3> HIDE DEF takes
    <3> QED BY <2>1, CarriedIsBest
  <2>3. \A k \in 1..Len(edits) : Overlap(edits[k], spans[u]) \in Nat
    BY <1>1, ShareIs
  <2>4. takes[u] # NoEdit => takes[u] \in 1..Len(edits)
    <3> HIDE DEF takes
    <3> QED BY <1>1, <2>2 DEF NoEdit
  <2> HIDE DEF takes
  <2> QED BY <1>1, <2>2, <2>3, <2>4 DEF Fits, Share
<1>3. ASSUME AreDisjoint(spans), NEW k \in DOMAIN edits,
             NEW u \in {w \in DOMAIN spans : takes[w] = k},
             Cardinality({w \in DOMAIN spans : takes[w] = k}) > 1
      PROVE  2 * Overlap(edits[k], spans[u]) = edits[k].end - edits[k].start
  <2> DEFINE takers == {w \in DOMAIN spans : takes[w] = k}
  <2>1. PICK v \in takers : v # u
    <3>1. Cardinality(takers) > 1
      BY <1>3
    <3>2. Cardinality({u}) = 1
      BY FS_Singleton
    <3>3. ASSUME takers = {u} PROVE FALSE
      <4>1. Cardinality(takers) = 1
        BY <3>2, <3>3
      <4> HIDE DEF takers
      <4> QED BY <3>1, <4>1
    <3> QED BY <3>3
  <2>2. k # NoEdit
    BY <1>1 DEF NoEdit
  <2>3. Half(k, u) /\ Half(k, v)
    <3>1. takes[u] = k /\ takes[v] = k /\ u \in DOMAIN spans /\ v \in DOMAIN spans
      BY <2>1
    <3> HIDE DEF takes, Half
    <3> QED BY <1>2, <2>2, <3>1
  <2>4. \/ spans[u].end <= spans[v].start
        \/ spans[v].end <= spans[u].start
    <3>1. u < v \/ v < u
      BY <1>1, <2>1
    <3> QED BY <1>1, <1>3, <2>1, <3>1 DEF AreDisjoint
  <2>5. spans[u] \in R /\ spans[v] \in R /\ edits[k] \in R
    BY <1>1, <2>1
  <2>6. Overlap(edits[k], spans[u]) + Overlap(edits[k], spans[v])
            <= edits[k].end - edits[k].start
    BY <2>4, <2>5, SharesAddUp
  <2>7. /\ Overlap(edits[k], spans[u]) \in Nat /\ Overlap(edits[k], spans[v]) \in Nat
        /\ edits[k].end - edits[k].start \in Nat
    BY <2>5, ShareIs
  <2> QED BY <2>3, <2>6, <2>7
<1>4. \A u \in DOMAIN spans, k \in DOMAIN edits : takes[u] = k => Half(k, u)
  <2>1. \A k \in DOMAIN edits : k # NoEdit
    BY <1>1 DEF NoEdit
  <2> HIDE DEF takes, Half
  <2> QED BY <1>2, <2>1
<1>5. \A u \in DOMAIN spans, k \in DOMAIN edits :
          Half(k, u) /\ Overlap(edits[k], spans[u]) > 0 =>
             /\ takes[u] # NoEdit
             /\ Overlap(edits[takes[u]], spans[u]) >= Overlap(edits[k], spans[u])
  <2> HIDE DEF takes, Half
  <2> QED BY <1>2
<1>6. AreDisjoint(spans) => \A k \in DOMAIN edits :
          LET takers == {u \in DOMAIN spans : takes[u] = k}
          IN  Cardinality(takers) > 1 =>
                 \A u \in takers : 2 * Overlap(edits[k], spans[u])
                                      = edits[k].end - edits[k].start
  <2> HIDE DEF takes
  <2> QED BY <1>3
<1> QED BY <1>4, <1>5, <1>6 DEF EditsAreCovered

----------------------------------------------------------------------------
(* The cache of stitched audio.                                            *)

LEMMA PiecesSteps ==
  ASSUME NEW cache, Len(cache) \in Nat, \A n \in 1..Len(cache) : cache[n].pieces \in Nat
  PROVE  /\ PiecesUpTo(cache) \in [0..Len(cache) -> Nat]
         /\ PiecesUpTo(cache)[0] = 0
         /\ \A n \in 1..Len(cache) :
               PiecesUpTo(cache)[n] = PiecesUpTo(cache)[n - 1] + cache[n].pieces
<1> DEFINE N == Len(cache)
           S == Nat
           none == 0
           step == [n \in 1..N |-> [x \in S |-> x + cache[n].pieces]]
           f == PiecesUpTo(cache)
           Sums(h) == h = [n \in 0..N |-> IF n = 0 THEN 0 ELSE h[n - 1] + cache[n].pieces]
<1>1. PICK g : IsRun(g, N, S, none, step)
  <2>1. N \in Nat /\ none \in S /\ Rounds(N, S, step)
    BY DEF Rounds
  <2> HIDE DEF step, N, S, none
  <2> QED BY <2>1, Loop
<1>2. g \in [0..N -> S] /\ g[0] = 0 /\ \A n \in 1..N : g[n] = g[n - 1] + cache[n].pieces
  BY <1>1 DEF IsRun
<1>3. Sums(g)
  BY <1>2
<1>4. Sums(f)
  <2>1. \E h : Sums(h)
    <3> HIDE DEF Sums
    <3> QED BY <1>3
  <2> QED BY <2>1 DEF PiecesUpTo
<1>5. f[0] = 0 /\ \A n \in 1..N : f[n] = f[n - 1] + cache[n].pieces
  BY <1>4
<1>6. f = [n \in 0..N |-> f[n]]
  BY <1>4
<1>7. 0..N \subseteq {n \in 0..N : f[n] \in Nat}
  <2>1. 0 \in {n \in 0..N : f[n] \in Nat}
    BY <1>5
  <2>2. \A n \in 1..N : n - 1 \in {k \in 0..N : f[k] \in Nat} => n \in {k \in 0..N : f[k] \in Nat}
    BY <1>5
  <2> HIDE DEF f
  <2> QED BY <2>1, <2>2, UpTo
<1>8. f \in [0..N -> Nat]
  <2> HIDE DEF f
  <2> QED BY <1>6, <1>7
<1> QED BY <1>5, <1>8

\* What a cache counts after an entry left it, was put in, or the oldest were dropped.
LEMMA RemovedAre ==
  ASSUME NEW S, NEW c \in Seq(S), NEW k \in 1..Len(c)
  PROVE  /\ RemoveAt(c, k) \in Seq(S) /\ Len(RemoveAt(c, k)) = Len(c) - 1
         /\ \A i \in 1..Len(c) - 1 : RemoveAt(c, k)[i] = IF i < k THEN c[i] ELSE c[i + 1]
<1> DEFINE before == SubSeq(c, 1, k - 1)
           after == SubSeq(c, k + 1, Len(c))
<1>1. before \in Seq(S) /\ Len(before) = k - 1 /\ \A i \in 1..k - 1 : before[i] = c[i]
  OBVIOUS
<1>2. after \in Seq(S) /\ Len(after) = Len(c) - k /\ \A i \in 1..Len(c) - k : after[i] = c[k + i]
  OBVIOUS
<1>3. RemoveAt(c, k) = before \o after
  BY DEF RemoveAt
<1> HIDE DEF before, after
<1>4. /\ before \o after \in Seq(S) /\ Len(before \o after) = Len(c) - 1
      /\ \A i \in 1..Len(c) - 1 : (before \o after)[i] = IF i < k THEN before[i]
                                                         ELSE after[i - k + 1]
  <2>1. /\ before \o after \in Seq(S) /\ Len(before \o after) = Len(before) + Len(after)
        /\ \A i \in 1..Len(before) + Len(after) :
              (before \o after)[i] = IF i <= Len(before) THEN before[i] ELSE after[i - Len(before)]
    BY <1>1, <1>2, ConcatProperties
  <2>2. Len(before) + Len(after) = Len(c) - 1 /\ Len(before) = k - 1
    BY <1>1, <1>2
  <2>5. \A i \in 1..Len(c) - 1 : (i <= k - 1 <=> i < k) /\ i - (k - 1) = i - k + 1
    OBVIOUS
  <2> QED BY <2>1, <2>2, <2>5
<1>5. ASSUME NEW i \in 1..Len(c) - 1, ~(i < k) PROVE after[i - k + 1] = c[i + 1]
  <2>1. i - k + 1 \in 1..Len(c) - k /\ k + (i - k + 1) = i + 1
    BY <1>5
  <2> QED BY <2>1, <1>2
<1> QED BY <1>1, <1>3, <1>4, <1>5

LEMMA PiecesAppended ==
  ASSUME NEW S, NEW c \in Seq(S), NEW e \in S, \A x \in S : x.pieces \in Nat
  PROVE  TotalPieces(Append(c, e)) = TotalPieces(c) + e.pieces
<1> DEFINE d == Append(c, e)
           u == PiecesUpTo(c)
           v == PiecesUpTo(d)
           same == {n \in 0..Len(c) : v[n] = u[n]}
<1>1. /\ Len(c) \in Nat /\ Len(d) = Len(c) + 1 /\ d[Len(c) + 1] = e
      /\ \A n \in 1..Len(c) : d[n] = c[n] /\ c[n] \in S
  OBVIOUS
<1>2. /\ u \in [0..Len(c) -> Nat] /\ u[0] = 0
      /\ \A n \in 1..Len(c) : u[n] = u[n - 1] + c[n].pieces
  BY <1>1, PiecesSteps
<1>3. /\ v \in [0..Len(d) -> Nat] /\ v[0] = 0
      /\ \A n \in 1..Len(d) : v[n] = v[n - 1] + d[n].pieces
  <2>1. \A n \in 1..Len(d) : d[n] \in S
    BY <1>1
  <2> HIDE DEF d
  <2> QED BY <1>1, <2>1, PiecesSteps
<1> HIDE DEF d, u, v
<1>4. 0..Len(c) \subseteq same
  <2>1. 0 \in same
    BY <1>1, <1>2, <1>3
  <2>2. ASSUME NEW n \in 1..Len(c), n - 1 \in same PROVE n \in same
    <3>1. n \in 1..Len(d) /\ d[n] = c[n]
      BY <1>1
    <3>2. v[n] = v[n - 1] + d[n].pieces /\ u[n] = u[n - 1] + c[n].pieces
      BY <3>1, <1>2, <1>3
    <3> QED BY <3>1, <3>2, <2>2
  <2> HIDE DEF same
  <2> QED BY <1>1, <2>1, <2>2, UpTo
<1>5. v[Len(c) + 1] = v[Len(c)] + e.pieces
  <2>1. Len(c) + 1 \in 1..Len(d) /\ (Len(c) + 1) - 1 = Len(c)
    BY <1>1
  <2> QED BY <2>1, <1>1, <1>3
<1>6. v[Len(c)] = u[Len(c)]
  BY <1>1, <1>4
<1> QED BY <1>1, <1>5, <1>6 DEF TotalPieces, d, u, v

LEMMA PiecesRemoved ==
  ASSUME NEW S, NEW c \in Seq(S), NEW k \in 1..Len(c), \A x \in S : x.pieces \in Nat
  PROVE  TotalPieces(RemoveAt(c, k)) = TotalPieces(c) - c[k].pieces
<1> DEFINE d == RemoveAt(c, k)
           u == PiecesUpTo(c)
           v == PiecesUpTo(d)
           same == {n \in 0..Len(d) : v[n] = IF n < k THEN u[n] ELSE u[n + 1] - c[k].pieces}
<1>1. /\ Len(c) \in Nat /\ Len(d) = Len(c) - 1 /\ Len(d) \in Nat
      /\ \A n \in 1..Len(d) : d[n] = IF n < k THEN c[n] ELSE c[n + 1]
      /\ \A n \in 1..Len(c) : c[n] \in S /\ c[n].pieces \in Nat
  BY RemovedAre
<1>2. /\ u \in [0..Len(c) -> Nat] /\ u[0] = 0
      /\ \A n \in 1..Len(c) : u[n] = u[n - 1] + c[n].pieces
  BY <1>1, PiecesSteps
<1>3. /\ v \in [0..Len(d) -> Nat] /\ v[0] = 0
      /\ \A n \in 1..Len(d) : v[n] = v[n - 1] + d[n].pieces
  <2>1. \A n \in 1..Len(d) : d[n] \in S
    BY <1>1
  <2> HIDE DEF d
  <2> QED BY <1>1, <2>1, PiecesSteps
<1> HIDE DEF d, u, v
<1>4. 0..Len(d) \subseteq same
  <2>1. 0 \in same
    BY <1>1, <1>2, <1>3
  <2>2. ASSUME NEW n \in 1..Len(d), n - 1 \in same PROVE n \in same
    <3>. n \in Nat /\ n >= 1 /\ n <= Len(d) /\ k \in Nat /\ k >= 1
      BY <1>1
    <3>a. /\ v[n - 1] = IF n - 1 < k THEN u[n - 1] ELSE u[n] - c[k].pieces
          /\ v[n] = v[n - 1] + d[n].pieces
          /\ d[n] = IF n < k THEN c[n] ELSE c[n + 1]
      BY <1>1, <1>3, <2>2
    <3>b. u[n] = u[n - 1] + c[n].pieces /\ u[n + 1] = u[n] + c[n + 1].pieces
      <4>1. n \in 1..Len(c) /\ n + 1 \in 1..Len(c) /\ (n + 1) - 1 = n
        BY <1>1
      <4> QED BY <4>1, <1>2
    <3>c. /\ u[n - 1] \in Nat /\ u[n] \in Nat /\ u[n + 1] \in Nat
          /\ c[k].pieces \in Nat /\ c[n].pieces \in Nat /\ c[n + 1].pieces \in Nat
      <4>1. /\ n \in 1..Len(c) /\ n + 1 \in 1..Len(c)
            /\ {n - 1, n, n + 1} \subseteq 0..Len(c)
        BY <1>1
      <4>2. u[n - 1] \in Nat /\ u[n] \in Nat /\ u[n + 1] \in Nat
        BY <4>1, <1>2
      <4> QED BY <4>1, <4>2, <1>1
    <3>1. CASE n < k
      BY <3>a, <3>b, <3>1, <2>2
    <3>2. CASE n = k
      <4>1. v[n] = u[n - 1] + c[n + 1].pieces
        BY <3>a, <3>2
      <4>2. u[n + 1] - c[k].pieces = u[n - 1] + c[n + 1].pieces
        <5>1. u[k + 1] = u[k - 1] + c[k].pieces + c[k + 1].pieces
          BY <3>b, <3>c, <3>2
        <5> QED BY <5>1, <3>c, <3>2
      <4> QED BY <4>1, <4>2, <3>2
    <3>3. CASE n > k
      <4>1. v[n] = u[n] - c[k].pieces + c[n + 1].pieces
        BY <3>a, <3>3
      <4>2. PICK x, y, z \in Nat : x = u[n] /\ y = c[k].pieces /\ z = c[n + 1].pieces
        BY <3>c
      <4>3. v[n] = x - y + z /\ u[n + 1] = x + z
        BY <4>1, <4>2, <3>b
      <4>4. v[n] = u[n + 1] - c[k].pieces
        BY <4>2, <4>3
      <4> QED BY <4>4, <3>3
    <3> QED BY <3>1, <3>2, <3>3
  <2> HIDE DEF same
  <2> QED BY <1>1, <2>1, <2>2, UpTo
<1>5. v[Len(d)] = u[Len(c)] - c[k].pieces
  <2>1. Len(d) \in 0..Len(d) /\ Len(d) + 1 = Len(c) /\ (Len(d) < k => k = Len(c))
    BY <1>1
  <2>2. v[Len(d)] = IF Len(d) < k THEN u[Len(d)] ELSE u[Len(c)] - c[k].pieces
    BY <1>4, <2>1
  <2>3. CASE Len(d) < k
    <3>1. k \in 1..Len(c) /\ k - 1 = Len(d)
      BY <1>1, <2>1, <2>3
    <3>2. u[k] = u[Len(d)] + c[k].pieces
      BY <1>2, <3>1
    <3>3. u[Len(d)] \in Nat /\ c[k].pieces \in Nat
      BY <1>1, <1>2, <3>1
    <3> QED BY <2>1, <2>2, <2>3, <3>2, <3>3
  <2>4. CASE ~(Len(d) < k)
    BY <2>2, <2>4
  <2> QED BY <2>3, <2>4
<1> QED BY <1>5 DEF TotalPieces, d, u, v

LEMMA PiecesDropped ==
  ASSUME NEW S, NEW c \in Seq(S), NEW k \in 0..Len(c), \A x \in S : x.pieces \in Nat
  PROVE  TotalPieces(SubSeq(c, k + 1, Len(c))) = TotalPieces(c) - PiecesUpTo(c)[k]
<1> DEFINE d == SubSeq(c, k + 1, Len(c))
           u == PiecesUpTo(c)
           v == PiecesUpTo(d)
           same == {n \in 0..Len(d) : v[n] = u[k + n] - u[k]}
<1>1. /\ Len(c) \in Nat /\ Len(d) = Len(c) - k /\ Len(d) \in Nat
      /\ \A n \in 1..Len(d) : d[n] = c[k + n] /\ k + n \in 1..Len(c)
      /\ \A n \in 1..Len(c) : c[n] \in S /\ c[n].pieces \in Nat
  OBVIOUS
<1>2. /\ u \in [0..Len(c) -> Nat] /\ u[0] = 0
      /\ \A n \in 1..Len(c) : u[n] = u[n - 1] + c[n].pieces
  BY <1>1, PiecesSteps
<1>3. /\ v \in [0..Len(d) -> Nat] /\ v[0] = 0
      /\ \A n \in 1..Len(d) : v[n] = v[n - 1] + d[n].pieces
  <2>1. \A n \in 1..Len(d) : d[n] \in S
    BY <1>1
  <2> HIDE DEF d
  <2> QED BY <1>1, <2>1, PiecesSteps
<1> HIDE DEF d, u, v
<1>4. 0..Len(d) \subseteq same
  <2>1. 0 \in same
    BY <1>1, <1>2, <1>3
  <2>2. ASSUME NEW n \in 1..Len(d), n - 1 \in same PROVE n \in same
    <3>1. v[n] = u[k + (n - 1)] - u[k] + c[k + n].pieces
      BY <1>1, <1>2, <1>3, <2>2
    <3>2. k + n \in 1..Len(c) /\ k + (n - 1) = (k + n) - 1
      BY <1>1
    <3>3. u[k + n] = u[(k + n) - 1] + c[k + n].pieces
      BY <3>2, <1>2
    <3>4. u[k] \in Nat /\ u[k + n] \in Nat /\ u[(k + n) - 1] \in Nat
      BY <3>2, <1>1, <1>2
    <3> QED BY <3>1, <3>2, <3>3, <3>4, <1>1
  <2> HIDE DEF same
  <2> QED BY <1>1, <2>1, <2>2, UpTo
<1>5. v[Len(d)] = u[Len(c)] - u[k]
  BY <1>1, <1>2, <1>4
<1> QED BY <1>5 DEF TotalPieces, d, u, v

\* What the media cache and its requests are made of.
SegmentRows == [number : Nat, id : Nat, bytes : Nat]
RowSets == {rows \in SUBSET SegmentRows : IsFiniteSet(rows)}
Prints == {Fingerprint(rows) : rows \in RowSets}
Entries == [session : MediaSessions, print : Prints, audio : RowSets, pieces : Nat]
Requests == [session : MediaSessions, print : Prints, rows : RowSets]

MediaTyped(m) ==
    m \in [segments : [MediaSessions -> RowSets], created : Nat, cache : Seq(Entries),
           pieces : Int, seen : [Listeners -> {Nobody} \union Requests],
           deleted : SUBSET MediaSessions,
           served : {Nobody} \union (MediaSessions \X RowSets)]

\* Of a session that lost no segment: what was read earlier is part of what there is,
\* and a print was read before its rows.
EntriesAreEarlier(m) ==
    \A k \in DOMAIN m.cache : m.cache[k].session \notin m.deleted =>
        /\ m.cache[k].audio \subseteq m.segments[m.cache[k].session]
        /\ m.cache[k].print.count <= Cardinality(m.cache[k].audio)

\* A request read its print before its rows, and a session that is not deleted loses none.
IsEarlier(m, r) ==
    r # Nobody /\ r.session \notin m.deleted =>
        /\ r.print.count <= Cardinality(m.segments[r.session])
        /\ r.rows # {} => /\ r.rows \subseteq m.segments[r.session]
                          /\ r.print.count <= Cardinality(r.rows)

RequestsAreEarlier(m) == \A l \in Listeners : IsEarlier(m, m.seen[l])

IsRequest(r) == r \in {Nobody} \union Requests
IsServed(v) == v \in {Nobody} \union (MediaSessions \X RowSets)

\* A session has one entry, and the pieces kept are those of the entries.
OneEntryEach(m) ==
    \A j, k \in DOMAIN m.cache : m.cache[j].session = m.cache[k].session => j = k

PiecesAreCounted(m) == m.pieces = TotalPieces(m.cache)

\* Between the steps of a put the budget may be exceeded.
MediaCore(m) ==
    /\ MediaTyped(m)
    /\ EntriesAreEarlier(m) /\ RequestsAreEarlier(m)
    /\ OneEntryEach(m) /\ PiecesAreCounted(m)

MediaInv(m) == MediaCore(m) /\ m.pieces <= PieceBudget /\ ServesTheSession(m)

LEMMA PrintCounts ==
  ASSUME NEW rows \in RowSets
  PROVE  /\ Fingerprint(rows) \in Prints /\ Fingerprint(rows).count = Cardinality(rows)
         /\ Cardinality(rows) \in Nat
BY FS_CardinalityType DEF Fingerprint, Prints, RowSets

LEMMA PrintsCount == \A p \in Prints : p.count \in Nat
BY PrintCounts DEF Prints

LEMMA MediaBegins == MediaInv(NoMedia)
<1>1. MediaTyped(NoMedia)
  <2>1. {} \in RowSets
    BY FS_EmptySet DEF RowSets
  <2> QED BY <2>1 DEF MediaTyped, NoMedia
<1>2. NoMedia.cache = <<>> /\ NoMedia.pieces = 0 /\ NoMedia.served = Nobody
      /\ \A l \in Listeners : NoMedia.seen[l] = Nobody
  BY DEF NoMedia
<1>3. TotalPieces(<<>>) = 0
  <2>1. Len(<<>>) = 0
    OBVIOUS
  <2> QED BY <2>1, PiecesSteps DEF TotalPieces
<1> QED BY <1>1, <1>2, <1>3, SessionAudioAssumption
        DEF MediaInv, MediaCore, EntriesAreEarlier, RequestsAreEarlier, IsEarlier, OneEntryEach, PiecesAreCounted,
            ServesTheSession

LEMMA MoreRows ==
  ASSUME NEW rows \in RowSets, NEW more \in RowSets, rows \subseteq more
  PROVE  Cardinality(rows) <= Cardinality(more)
BY FS_Subset DEF RowSets

LEMMA EntriesCount == \A x \in Entries : x.pieces \in Nat
BY DEF Entries

LEMMA CacheHolds ==
  ASSUME NEW m, MediaTyped(m)
  PROVE  /\ m.cache \in Seq(Entries) /\ Len(m.cache) \in Nat /\ DOMAIN m.cache = 1..Len(m.cache)
         /\ \A k \in DOMAIN m.cache : m.cache[k] \in Entries
<1>1. m.cache \in Seq(Entries)
  BY DEF MediaTyped
<1> QED BY <1>1

\* A segment lands.
LEMMA IngestKeeps ==
  ASSUME NEW m, MediaInv(m), NEW s \in MediaSessions, NEW number \in Nat, NEW bytes \in Nat
  PROVE  MediaInv(Ingested(m, s, number, bytes))
<1> DEFINE row == [number |-> number, id |-> m.created + 1, bytes |-> bytes]
           n == Ingested(m, s, number, bytes)
<1>1. /\ n.cache = m.cache /\ n.pieces = m.pieces /\ n.seen = m.seen /\ n.deleted = m.deleted
      /\ n.served = Nobody
      /\ n.segments = [m.segments EXCEPT ![s] = @ \union {row}]
  BY DEF MediaInv, MediaCore, MediaTyped, Ingested
<1>2. MediaTyped(n)
  <2>1. row \in SegmentRows
    BY DEF MediaInv, MediaCore, MediaTyped, SegmentRows
  <2>2. m.segments[s] \union {row} \in RowSets
    <3>1. m.segments[s] \in RowSets
      BY DEF MediaInv, MediaCore, MediaTyped
    <3> QED BY <2>1, <3>1, FS_AddElement DEF RowSets
  <2> HIDE DEF row
  <2>3. [m.segments EXCEPT ![s] = @ \union {row}] \in [MediaSessions -> RowSets]
    BY <2>2 DEF MediaInv, MediaCore, MediaTyped
  <2>4. /\ n = [m EXCEPT !.segments = [m.segments EXCEPT ![s] = @ \union {row}],
                         !.created = m.created + 1, !.served = Nobody]
        /\ m.created + 1 \in Nat
    BY DEF Ingested, row, MediaInv, MediaCore, MediaTyped
  <2> DEFINE rows == [m.segments EXCEPT ![s] = @ \union {row}]
             next == m.created + 1
  <2> HIDE DEF n, rows, next
  <2>5. n = [m EXCEPT !.segments = rows, !.created = next, !.served = Nobody]
    BY <2>4 DEF rows, next
  <2>6. rows \in [MediaSessions -> RowSets] /\ next \in Nat
    BY <2>3, <2>4 DEF rows, next
  <2> QED BY <2>5, <2>6 DEF MediaInv, MediaCore, MediaTyped
<1>3. \A t \in MediaSessions : /\ m.segments[t] \subseteq n.segments[t]
                               /\ m.segments[t] \in RowSets /\ n.segments[t] \in RowSets
  <2>1. m.segments \in [MediaSessions -> RowSets] /\ n.segments \in [MediaSessions -> RowSets]
    <3> HIDE DEF n
    <3> QED BY <1>2 DEF MediaInv, MediaCore, MediaTyped
  <2> HIDE DEF n, row
  <2> QED BY <1>1, <2>1
<1> HIDE DEF n
<1>4. EntriesAreEarlier(n)
  <2> SUFFICES ASSUME NEW k \in DOMAIN m.cache, m.cache[k].session \notin m.deleted
               PROVE  /\ m.cache[k].audio \subseteq n.segments[m.cache[k].session]
                      /\ m.cache[k].print.count <= Cardinality(m.cache[k].audio)
    BY <1>1 DEF EntriesAreEarlier
  <2>1. m.cache[k].session \in MediaSessions
    BY CacheHolds DEF MediaInv, MediaCore, Entries
  <2> QED BY <2>1, <1>3 DEF MediaInv, MediaCore, EntriesAreEarlier
<1>5. RequestsAreEarlier(n)
  <2> SUFFICES ASSUME NEW l \in Listeners, m.seen[l] # Nobody, m.seen[l].session \notin m.deleted
               PROVE  /\ m.seen[l].print.count <= Cardinality(n.segments[m.seen[l].session])
                      /\ m.seen[l].rows # {} =>
                            /\ m.seen[l].rows \subseteq n.segments[m.seen[l].session]
                            /\ m.seen[l].print.count <= Cardinality(m.seen[l].rows)
    BY <1>1 DEF RequestsAreEarlier, IsEarlier
  <2> DEFINE t == m.seen[l].session
  <2>1. t \in MediaSessions /\ m.seen[l].print \in Prints
    BY DEF MediaInv, MediaCore, MediaTyped, Requests
  <2>2. /\ m.segments[t] \subseteq n.segments[t]
        /\ Cardinality(m.segments[t]) <= Cardinality(n.segments[t])
    BY <2>1, <1>3, MoreRows
  <2>3. m.seen[l].print.count \in Nat /\ Cardinality(m.segments[t]) \in Nat
        /\ Cardinality(n.segments[t]) \in Nat
    BY <2>1, <1>3, PrintCounts, PrintsCount
  <2> QED BY <2>2, <2>3 DEF MediaInv, MediaCore, RequestsAreEarlier, IsEarlier
<1>6. /\ OneEntryEach(n) /\ PiecesAreCounted(n) /\ ServesTheSession(n)
      /\ n.pieces <= PieceBudget
  BY <1>1 DEF MediaInv, MediaCore, OneEntryEach, PiecesAreCounted, ServesTheSession
<1> QED BY <1>2, <1>4, <1>5, <1>6 DEF MediaInv, MediaCore, n

\* A segment is deleted.
LEMMA DeleteKeeps ==
  ASSUME NEW m, MediaInv(m), NEW s \in MediaSessions, NEW row
  PROVE  MediaInv(Deleted(m, s, row))
<1> DEFINE n == Deleted(m, s, row)
<1>1. /\ n.cache = m.cache /\ n.pieces = m.pieces /\ n.seen = m.seen
      /\ n.deleted = m.deleted \union {s} /\ n.served = Nobody
      /\ n.segments = [m.segments EXCEPT ![s] = @ \ {row}]
  BY DEF MediaInv, MediaCore, MediaTyped, Deleted
<1>2. MediaTyped(n)
  <2>1. m.segments[s] \ {row} \in RowSets
    <3>1. m.segments[s] \in RowSets
      BY DEF MediaInv, MediaCore, MediaTyped
    <3> QED BY <3>1, FS_Subset DEF RowSets
  <2> QED BY <2>1 DEF MediaInv, MediaCore, MediaTyped, Deleted
<1>3. \A t \in MediaSessions : t \notin n.deleted => n.segments[t] = m.segments[t]
  BY <1>1 DEF MediaInv, MediaCore, MediaTyped
<1> HIDE DEF n
<1>4. EntriesAreEarlier(n)
  <2> SUFFICES ASSUME NEW k \in DOMAIN m.cache, m.cache[k].session \notin n.deleted
               PROVE  /\ m.cache[k].audio \subseteq n.segments[m.cache[k].session]
                      /\ m.cache[k].print.count <= Cardinality(m.cache[k].audio)
    BY <1>1 DEF EntriesAreEarlier
  <2>1. m.cache[k].session \in MediaSessions
    BY CacheHolds DEF MediaInv, MediaCore, Entries
  <2> QED BY <2>1, <1>1, <1>3 DEF MediaInv, MediaCore, EntriesAreEarlier
<1>5. RequestsAreEarlier(n)
  <2> SUFFICES ASSUME NEW l \in Listeners, m.seen[l] # Nobody, m.seen[l].session \notin n.deleted
               PROVE  /\ m.seen[l].print.count <= Cardinality(n.segments[m.seen[l].session])
                      /\ m.seen[l].rows # {} =>
                            /\ m.seen[l].rows \subseteq n.segments[m.seen[l].session]
                            /\ m.seen[l].print.count <= Cardinality(m.seen[l].rows)
    BY <1>1 DEF RequestsAreEarlier, IsEarlier
  <2>1. m.seen[l].session \in MediaSessions
    BY DEF MediaInv, MediaCore, MediaTyped, Requests
  <2> QED BY <2>1, <1>1, <1>3 DEF MediaInv, MediaCore, RequestsAreEarlier, IsEarlier
<1>6. /\ OneEntryEach(n) /\ PiecesAreCounted(n) /\ ServesTheSession(n)
      /\ n.pieces <= PieceBudget
  BY <1>1 DEF MediaInv, MediaCore, OneEntryEach, PiecesAreCounted, ServesTheSession
<1> QED BY <1>2, <1>4, <1>5, <1>6 DEF MediaInv, MediaCore, n

\* The steps of MediaCache.get and put: an entry leaves, comes in, or makes room.
LEMMA DropKeeps ==
  ASSUME NEW m, MediaCore(m), NEW k \in DOMAIN m.cache,
         NEW n, n = [m EXCEPT !.cache = RemoveAt(m.cache, k),
                              !.pieces = m.pieces - m.cache[k].pieces]
  PROVE  /\ MediaCore(n) /\ n.pieces <= m.pieces
         /\ \A j \in DOMAIN n.cache : n.cache[j].session # m.cache[k].session
<1> DEFINE c == RemoveAt(m.cache, k)
           less == m.pieces - m.cache[k].pieces
<1>1. /\ m.cache \in Seq(Entries) /\ Len(m.cache) \in Nat /\ DOMAIN m.cache = 1..Len(m.cache)
      /\ \A j \in DOMAIN m.cache : m.cache[j] \in Entries
  BY CacheHolds DEF MediaCore
<1>2. /\ c \in Seq(Entries) /\ Len(c) = Len(m.cache) - 1
      /\ \A i \in 1..Len(m.cache) - 1 : c[i] = IF i < k THEN m.cache[i] ELSE m.cache[i + 1]
  BY <1>1, RemovedAre
<1>3. TotalPieces(c) = TotalPieces(m.cache) - m.cache[k].pieces
  BY <1>1, PiecesRemoved, EntriesCount
<1>4. m.pieces \in Int /\ less \in Int /\ less <= m.pieces
  <2>1. m.cache[k].pieces \in Nat /\ m.pieces \in Int
    BY <1>1 DEF Entries, MediaCore, MediaTyped
  <2> QED BY <2>1
<1> HIDE DEF c, less
<1>5. n = [m EXCEPT !.cache = c, !.pieces = less]
  BY DEF c, less
<1>6. MediaTyped(n)
  BY <1>2, <1>4, <1>5 DEF MediaCore, MediaTyped
<1>7. /\ n.cache = c /\ n.pieces = less /\ n.segments = m.segments /\ n.seen = m.seen
      /\ n.deleted = m.deleted
  BY <1>5 DEF MediaCore, MediaTyped
<1>8. \A i \in DOMAIN c : \E j \in DOMAIN m.cache : /\ c[i] = m.cache[j] /\ j # k
                                                    /\ j = IF i < k THEN i ELSE i + 1
  BY <1>1, <1>2
<1>9. EntriesAreEarlier(n)
  BY <1>7, <1>8 DEF MediaCore, EntriesAreEarlier
<1>10. RequestsAreEarlier(n)
  BY <1>7 DEF MediaCore, RequestsAreEarlier, IsEarlier
<1>11. OneEntryEach(n)
  <2> SUFFICES ASSUME NEW i \in DOMAIN c, NEW j \in DOMAIN c, c[i].session = c[j].session
               PROVE  i = j
    BY <1>7 DEF OneEntryEach
  <2>1. PICK a \in DOMAIN m.cache : c[i] = m.cache[a] /\ a = IF i < k THEN i ELSE i + 1
    BY <1>8
  <2>2. PICK b \in DOMAIN m.cache : c[j] = m.cache[b] /\ b = IF j < k THEN j ELSE j + 1
    BY <1>8
  <2>3. a = b
    BY <2>1, <2>2 DEF MediaCore, OneEntryEach
  <2>4. i \in Nat /\ j \in Nat /\ k \in Nat
    BY <1>1, <1>2
  <2> QED BY <2>1, <2>2, <2>3, <2>4
<1>12. \A j \in DOMAIN c : c[j].session # m.cache[k].session
  BY <1>8 DEF MediaCore, OneEntryEach
<1>13. PiecesAreCounted(n)
  BY <1>3, <1>7 DEF MediaCore, PiecesAreCounted, less
<1> QED BY <1>4, <1>6, <1>7, <1>9, <1>10, <1>11, <1>12, <1>13 DEF MediaCore

LEMMA AddKeeps ==
  ASSUME NEW m, MediaCore(m), NEW e \in Entries,
         \A k \in DOMAIN m.cache : m.cache[k].session # e.session,
         e.session \notin m.deleted => /\ e.audio \subseteq m.segments[e.session]
                                       /\ e.print.count <= Cardinality(e.audio),
         NEW n, n = [m EXCEPT !.cache = Append(m.cache, e), !.pieces = m.pieces + e.pieces]
  PROVE  MediaCore(n)
<1> DEFINE c == Append(m.cache, e)
           more == m.pieces + e.pieces
<1>1. /\ m.cache \in Seq(Entries) /\ Len(m.cache) \in Nat /\ DOMAIN m.cache = 1..Len(m.cache)
      /\ \A j \in DOMAIN m.cache : m.cache[j] \in Entries
  BY CacheHolds DEF MediaCore
<1>2. /\ c \in Seq(Entries) /\ DOMAIN c = 1..Len(m.cache) + 1
      /\ c[Len(m.cache) + 1] = e /\ \A i \in DOMAIN m.cache : c[i] = m.cache[i]
  BY <1>1
<1>3. TotalPieces(c) = TotalPieces(m.cache) + e.pieces
  BY <1>1, PiecesAppended, EntriesCount
<1>4. more \in Int
  BY DEF Entries, MediaCore, MediaTyped
<1> HIDE DEF c, more
<1>5. n = [m EXCEPT !.cache = c, !.pieces = more]
  BY DEF c, more
<1>6. MediaTyped(n)
  BY <1>2, <1>4, <1>5 DEF MediaCore, MediaTyped
<1>7. /\ n.cache = c /\ n.pieces = more /\ n.segments = m.segments /\ n.seen = m.seen
      /\ n.deleted = m.deleted
  BY <1>5 DEF MediaCore, MediaTyped
<1>8. \A i \in DOMAIN c : i \in DOMAIN m.cache \/ i = Len(m.cache) + 1
  BY <1>1, <1>2
<1>9. EntriesAreEarlier(n)
  <2> SUFFICES ASSUME NEW i \in DOMAIN c, c[i].session \notin m.deleted
               PROVE  /\ c[i].audio \subseteq m.segments[c[i].session]
                      /\ c[i].print.count <= Cardinality(c[i].audio)
    BY <1>7 DEF EntriesAreEarlier
  <2>1. CASE i \in DOMAIN m.cache
    BY <2>1, <1>2 DEF MediaCore, EntriesAreEarlier
  <2>2. CASE i = Len(m.cache) + 1
    BY <2>2, <1>2
  <2> QED BY <2>1, <2>2, <1>8
<1>10. RequestsAreEarlier(n)
  BY <1>7 DEF MediaCore, RequestsAreEarlier, IsEarlier
<1>11. OneEntryEach(n)
  <2> SUFFICES ASSUME NEW i \in DOMAIN c, NEW j \in DOMAIN c, c[i].session = c[j].session
               PROVE  i = j
    BY <1>7 DEF OneEntryEach
  <2> QED BY <1>2, <1>8 DEF MediaCore, OneEntryEach
<1>12. PiecesAreCounted(n)
  BY <1>3, <1>7 DEF MediaCore, PiecesAreCounted, more
<1> QED BY <1>6, <1>7, <1>9, <1>10, <1>11, <1>12 DEF MediaCore

\* Making room, from the least recently used entry on, keeps to the budget.
LEMMA TrimKeeps ==
  ASSUME NEW m, MediaCore(m)
  PROVE  /\ MediaCore(Trimmed(m)) /\ Trimmed(m).pieces <= PieceBudget
         /\ Trimmed(m).served = m.served
<1> DEFINE u == PiecesUpTo(m.cache)
           fits == {k \in 0..Len(m.cache) : m.pieces - u[k] <= PieceBudget}
           k == Min(fits)
           c == SubSeq(m.cache, k + 1, Len(m.cache))
           kept == m.pieces - u[k]
           n == Trimmed(m)
<1>1. /\ m.cache \in Seq(Entries) /\ Len(m.cache) \in Nat /\ DOMAIN m.cache = 1..Len(m.cache)
      /\ \A j \in DOMAIN m.cache : m.cache[j] \in Entries /\ m.cache[j].pieces \in Nat
  BY CacheHolds DEF MediaCore, Entries
<1>2. u \in [0..Len(m.cache) -> Nat] /\ m.pieces = u[Len(m.cache)] /\ m.pieces \in Int
  BY <1>1, PiecesSteps DEF MediaCore, MediaTyped, PiecesAreCounted, TotalPieces
<1>3. k \in fits
  <2>1. Len(m.cache) \in fits
    <3>1. u[Len(m.cache)] \in Nat /\ m.pieces - u[Len(m.cache)] = 0
      BY <1>1, <1>2
    <3> QED BY <1>1, <3>1, SessionAudioAssumption
  <2>2. fits \in SUBSET Nat
    BY <1>1
  <2> HIDE DEF fits
  <2> QED BY <2>1, <2>2, MinIsLeast
<1>4. k \in 0..Len(m.cache) /\ kept \in Int /\ kept <= PieceBudget
  <2>1. k \in 0..Len(m.cache) /\ kept <= PieceBudget
    BY <1>3
  <2> QED BY <2>1, <1>2
<1>5. n = [m EXCEPT !.cache = c, !.pieces = kept]
  BY DEF Trimmed
<1> HIDE DEF n, k, kept
<1>6. /\ c \in Seq(Entries) /\ Len(c) = Len(m.cache) - k /\ DOMAIN c = 1..Len(m.cache) - k
      /\ \A i \in DOMAIN c : c[i] = m.cache[k + i] /\ k + i \in DOMAIN m.cache
  BY <1>1, <1>4
<1>7. TotalPieces(c) = kept
  <2>1. TotalPieces(c) = TotalPieces(m.cache) - u[k]
    BY <1>1, <1>4, PiecesDropped, EntriesCount
  <2> QED BY <2>1, <1>2 DEF kept, TotalPieces
<1> HIDE DEF c
<1>8. MediaTyped(n)
  BY <1>4, <1>5, <1>6 DEF MediaCore, MediaTyped
<1>9. /\ n.cache = c /\ n.pieces = kept /\ n.segments = m.segments /\ n.seen = m.seen
      /\ n.deleted = m.deleted /\ n.served = m.served
  BY <1>5 DEF MediaCore, MediaTyped
<1>10. EntriesAreEarlier(n)
  BY <1>6, <1>9 DEF MediaCore, EntriesAreEarlier
<1>11. RequestsAreEarlier(n)
  BY <1>9 DEF MediaCore, RequestsAreEarlier, IsEarlier
<1>12. OneEntryEach(n)
  <2> SUFFICES ASSUME NEW i \in DOMAIN c, NEW j \in DOMAIN c, c[i].session = c[j].session
               PROVE  i = j
    BY <1>9 DEF OneEntryEach
  <2>1. k + i = k + j
    BY <1>6 DEF MediaCore, OneEntryEach
  <2>2. i \in Int /\ j \in Int /\ k \in Int
    BY <1>4, <1>6
  <2>3. \A x, y, z \in Int : z + x = z + y => x = y
    OBVIOUS
  <2> QED BY <2>1, <2>2, <2>3
<1>13. PiecesAreCounted(n)
  BY <1>7, <1>9 DEF PiecesAreCounted
<1> QED BY <1>4, <1>8, <1>9, <1>10, <1>11, <1>12, <1>13 DEF MediaCore, n

LEMMA WithoutKeeps ==
  ASSUME NEW m, MediaCore(m), NEW s
  PROVE  /\ MediaCore(Without(m, s)) /\ Without(m, s).pieces <= m.pieces
         /\ \A k \in DOMAIN Without(m, s).cache : Without(m, s).cache[k].session # s
         /\ Without(m, s).segments = m.segments /\ Without(m, s).deleted = m.deleted
         /\ Without(m, s).served = m.served
<1>1. CASE EntryOf(m, s) = {}
  <2>1. Without(m, s) = m
    BY <1>1 DEF Without
  <2>2. \A k \in DOMAIN m.cache : m.cache[k].session # s
    BY <1>1 DEF EntryOf
  <2>3. m.pieces <= m.pieces
    BY DEF MediaCore, MediaTyped
  <2> QED BY <2>1, <2>2, <2>3
<1>2. CASE EntryOf(m, s) # {}
  <2> DEFINE k == CHOOSE k \in EntryOf(m, s) : TRUE
             n == [m EXCEPT !.cache = RemoveAt(m.cache, k), !.pieces = m.pieces - m.cache[k].pieces]
  <2>1. k \in DOMAIN m.cache /\ m.cache[k].session = s
    BY <1>2 DEF EntryOf
  <2>2. Without(m, s) = n
    BY <1>2 DEF Without
  <2>3. /\ MediaCore(n) /\ n.pieces <= m.pieces
        /\ \A j \in DOMAIN n.cache : n.cache[j].session # s
    <3> HIDE DEF k
    <3> QED BY <2>1, DropKeeps
  <2>4. n.segments = m.segments /\ n.deleted = m.deleted /\ n.served = m.served
    BY DEF MediaCore, MediaTyped
  <2> HIDE DEF n
  <2> QED BY <2>2, <2>3, <2>4
<1> QED BY <1>1, <1>2

LEMMA PutKeeps ==
  ASSUME NEW m, MediaCore(m), m.pieces <= PieceBudget,
         NEW s, NEW e \in Entries, e.session = s,
         s \notin m.deleted => /\ e.audio \subseteq m.segments[s]
                               /\ e.print.count <= Cardinality(e.audio)
  PROVE  /\ MediaCore(Put(m, s, e)) /\ Put(m, s, e).pieces <= PieceBudget
         /\ Put(m, s, e).served = m.served
<1> DEFINE room == Without(m, s)
           n == [room EXCEPT !.cache = Append(room.cache, e), !.pieces = room.pieces + e.pieces]
<1>1. /\ MediaCore(room) /\ room.pieces <= m.pieces
      /\ \A k \in DOMAIN room.cache : room.cache[k].session # s
      /\ room.segments = m.segments /\ room.deleted = m.deleted /\ room.served = m.served
  BY WithoutKeeps
<1>2. Put(m, s, e) = IF e.pieces > PieceBudget THEN room ELSE Trimmed(n)
  BY DEF Put
<1> HIDE DEF room
<1>3. CASE e.pieces > PieceBudget
  <2>1. room.pieces <= PieceBudget
    BY <1>1, SessionAudioAssumption DEF MediaCore, MediaTyped
  <2> QED BY <2>1, <1>1, <1>2, <1>3
<1>4. CASE ~(e.pieces > PieceBudget)
  <2>1. MediaCore(n)
    BY <1>1, AddKeeps
  <2>2. n.served = room.served
    BY <1>1 DEF MediaCore, MediaTyped
  <2> HIDE DEF n
  <2> QED BY <2>1, <2>2, <1>1, <1>2, <1>4, TrimKeeps
<1> QED BY <1>3, <1>4

Moved(m, l, r, v) == [m EXCEPT !.seen = [m.seen EXCEPT ![l] = r], !.served = v]

\* What a request under way becomes leaves the rest alone.
LEMMA RequestKeeps ==
  ASSUME NEW m, MediaCore(m), NEW l \in Listeners,
         NEW r, IsRequest(r), IsEarlier(m, r), NEW v, IsServed(v)
  PROVE  /\ MediaCore(Moved(m, l, r, v)) /\ Moved(m, l, r, v).served = v
         /\ Moved(m, l, r, v).pieces = m.pieces /\ Moved(m, l, r, v).segments = m.segments
         /\ Moved(m, l, r, v).deleted = m.deleted
<1> DEFINE n == Moved(m, l, r, v)
<1>1. m.seen \in [Listeners -> {Nobody} \union Requests]
  BY DEF MediaCore, MediaTyped
<1> DEFINE q == [m.seen EXCEPT ![l] = r]
<1>2. q \in [Listeners -> {Nobody} \union Requests] /\ \A i \in Listeners : q[i] = IF i = l THEN r ELSE m.seen[i]
  BY <1>1 DEF IsRequest
<1>3. n = [m EXCEPT !.seen = q, !.served = v]
  BY DEF Moved
<1> HIDE DEF q, n
<1>4. MediaTyped(n)
  BY <1>2, <1>3 DEF MediaCore, MediaTyped, IsServed
<1>5. /\ n.cache = m.cache /\ n.pieces = m.pieces /\ n.segments = m.segments /\ n.seen = q
      /\ n.deleted = m.deleted /\ n.served = v
  BY <1>3 DEF MediaCore, MediaTyped
<1>6. RequestsAreEarlier(n)
  BY <1>2, <1>5 DEF MediaCore, RequestsAreEarlier, IsEarlier
<1> QED BY <1>4, <1>5, <1>6 DEF MediaCore, EntriesAreEarlier, OneEntryEach, PiecesAreCounted, n

LEMMA NobodyIsServed == IsServed(Nobody)
BY DEF IsServed

LEMMA NobodyIsEarlier == IsRequest(Nobody) /\ \A m : IsEarlier(m, Nobody)
BY DEF IsRequest, IsEarlier

\* The fingerprint is read, and what is kept under it is served.
LEMMA LookKeeps ==
  ASSUME NEW m, MediaInv(m), NEW l \in Listeners, NEW s \in MediaSessions
  PROVE  MediaInv(Looked(m, l, s))
<1> DEFINE rows == m.segments[s]
           print == Fingerprint(m.segments[s])
           hit == {k \in EntryOf(m, s) : m.cache[k].print = print}
           n == Looked(m, l, s)
<1>1. /\ rows \in RowSets /\ print \in Prints /\ print.count = Cardinality(rows)
      /\ Cardinality(rows) \in Nat
  <2>1. rows \in RowSets
    BY DEF MediaInv, MediaCore, MediaTyped
  <2> HIDE DEF rows
  <2>2. print = Fingerprint(rows)
    BY DEF rows
  <2> QED BY <2>1, <2>2, PrintCounts
<1>2. CASE rows = {}
  <2>1. n = [m EXCEPT !.served = Nobody]
    BY <1>2 DEF Looked
  <2> DEFINE r == m.seen[l]
  <2>2. n = Moved(m, l, r, Nobody)
    BY <2>1 DEF MediaInv, MediaCore, MediaTyped, Moved
  <2>3. IsRequest(r) /\ IsEarlier(m, r)
    BY DEF MediaInv, MediaCore, MediaTyped, RequestsAreEarlier, IsRequest
  <2> HIDE DEF n, r
  <2>4. MediaCore(n) /\ n.served = Nobody /\ n.pieces = m.pieces
    BY <2>2, <2>3, NobodyIsServed, RequestKeeps DEF MediaInv
  <2> QED BY <2>4 DEF MediaInv, ServesTheSession, n
<1>3. CASE rows # {} /\ hit = {}
  <2> DEFINE r == [session |-> s, print |-> print, rows |-> {}]
  <2>1. n = Moved(m, l, r, Nobody)
    BY <1>3 DEF Looked, Moved
  <2>2. r \in Requests /\ IsRequest(r)
    <3>1. {} \in RowSets
      BY FS_EmptySet DEF RowSets
    <3> HIDE DEF print
    <3> QED BY <3>1, <1>1 DEF Requests, IsRequest
  <2>3. r.session = s /\ r.print = print /\ r.rows = {}
    OBVIOUS
  <2>4. IsEarlier(m, r)
    <3>1. rows = m.segments[r.session] /\ r.print.count <= Cardinality(rows)
      <4> HIDE DEF print
      <4> QED BY <1>1
    <3> QED BY <2>3, <3>1 DEF IsEarlier
  <2> HIDE DEF n, r, print, rows
  <2>5. MediaCore(n) /\ n.served = Nobody /\ n.pieces = m.pieces
    BY <2>1, <2>2, <2>4, NobodyIsServed, RequestKeeps DEF MediaInv
  <2> QED BY <2>5 DEF MediaInv, ServesTheSession, n
<1>4. CASE rows # {} /\ hit # {}
  <2> DEFINE k == CHOOSE k \in hit : TRUE
             e == m.cache[k]
             drop == [m EXCEPT !.cache = RemoveAt(m.cache, k), !.pieces = m.pieces - e.pieces]
             again == [drop EXCEPT !.cache = Append(drop.cache, e), !.pieces = drop.pieces + e.pieces]
  <2>1. k \in DOMAIN m.cache /\ e.session = s /\ e.print = print
    BY <1>4 DEF EntryOf
  <2>2. n = [m EXCEPT !.served = <<s, e.audio>>, !.cache = Append(RemoveAt(m.cache, k), e)]
    BY <1>4 DEF Looked
  <2>3. e \in Entries
    BY <2>1, CacheHolds DEF MediaInv, MediaCore
  <2> HIDE DEF k, n, print, rows
  <2>4. /\ MediaCore(drop) /\ \A j \in DOMAIN drop.cache : drop.cache[j].session # e.session
    BY <2>1, DropKeeps DEF MediaInv
  <2>5. /\ drop.cache = RemoveAt(m.cache, k) /\ drop.pieces = m.pieces - e.pieces
        /\ drop.segments = m.segments /\ drop.deleted = m.deleted
    BY DEF MediaInv, MediaCore, MediaTyped
  <2>6. s \notin m.deleted => e.audio \subseteq m.segments[s] /\ e.print.count <= Cardinality(e.audio)
    BY <2>1 DEF MediaInv, MediaCore, EntriesAreEarlier
  <2>7. MediaCore(again)
    <3> HIDE DEF drop, e
    <3> QED BY <2>1, <2>3, <2>4, <2>5, <2>6, AddKeeps
  <2>8. again = [m EXCEPT !.cache = Append(RemoveAt(m.cache, k), e), !.pieces = m.pieces]
    <3>1. (m.pieces - e.pieces) + e.pieces = m.pieces
      BY <2>3 DEF Entries, MediaInv, MediaCore, MediaTyped
    <3>2. again = [drop EXCEPT !.cache = Append(RemoveAt(m.cache, k), e),
                               !.pieces = (m.pieces - e.pieces) + e.pieces]
      BY <2>5
    <3> QED BY <3>1, <3>2 DEF MediaInv, MediaCore, MediaTyped
  <2> HIDE DEF e, drop, again
  <2>9. /\ n = [again EXCEPT !.served = <<s, e.audio>>]
        /\ again.pieces = m.pieces /\ again.segments = m.segments /\ again.deleted = m.deleted
    BY <2>2, <2>8 DEF MediaInv, MediaCore, MediaTyped
  <2>10. <<s, e.audio>> \in MediaSessions \X RowSets
    BY <2>3 DEF Entries
  <2>11. /\ n.cache = again.cache /\ n.pieces = again.pieces /\ n.segments = again.segments
         /\ n.seen = again.seen /\ n.deleted = again.deleted /\ n.served = <<s, e.audio>>
    BY <2>9, <2>7 DEF MediaCore, MediaTyped
  <2>12. MediaTyped(n)
    BY <2>7, <2>9, <2>10 DEF MediaCore, MediaTyped
  <2>13. MediaCore(n)
    <3>1. PiecesAreCounted(n) /\ OneEntryEach(n)
      BY <2>7, <2>11 DEF MediaCore, OneEntryEach, PiecesAreCounted
    <3>2. RequestsAreEarlier(n)
      BY <2>7, <2>11 DEF MediaCore, RequestsAreEarlier, IsEarlier
    <3>3. EntriesAreEarlier(n)
      BY <2>7, <2>11 DEF MediaCore, EntriesAreEarlier
    <3> QED
      BY <2>12, <3>1, <3>2, <3>3 DEF MediaCore
  <2>14. s \notin m.deleted => e.audio = rows
    <3> HAVE s \notin m.deleted
    <3>1. e.audio \subseteq rows /\ Cardinality(rows) <= Cardinality(e.audio) /\ IsFiniteSet(rows)
      BY <2>1, <2>6, <1>1 DEF rows, RowSets
    <3>2. /\ Cardinality(e.audio) <= Cardinality(rows)
          /\ Cardinality(e.audio) = Cardinality(rows) => e.audio = rows
      BY <3>1, FS_Subset
    <3>3. Cardinality(e.audio) \in Nat /\ Cardinality(rows) \in Nat
      BY <3>1, <1>1, FS_Subset, FS_CardinalityType
    <3> QED BY <3>1, <3>2, <3>3
  <2>15. ServesTheSession(n)
    BY <2>9, <2>11, <2>14 DEF ServesTheSession, rows
  <2> QED BY <2>9, <2>11, <2>13, <2>15 DEF MediaInv, n
<1> QED BY <1>2, <1>3, <1>4

\* The rows are read.
LEMMA ReadKeeps ==
  ASSUME NEW m, MediaInv(m), NEW l \in Listeners, m.seen[l] # Nobody
  PROVE  MediaInv(Read(m, l))
<1> DEFINE s == m.seen[l].session
           rows == m.segments[s]
           r == [session |-> s, print |-> m.seen[l].print, rows |-> rows]
           n == Read(m, l)
<1>1. m.seen[l] \in Requests
  BY DEF MediaInv, MediaCore, MediaTyped
<1>2. s \in MediaSessions /\ m.seen[l].print \in Prints
  BY <1>1 DEF Requests
<1>3. rows \in RowSets
  BY <1>2 DEF MediaInv, MediaCore, MediaTyped
<1>4. CASE rows = {}
  <2>1. n = Moved(m, l, Nobody, Nobody)
    BY <1>4 DEF Read, Moved
  <2> HIDE DEF n
  <2>2. MediaCore(n) /\ n.served = Nobody /\ n.pieces = m.pieces
    BY <2>1, NobodyIsServed, NobodyIsEarlier, RequestKeeps DEF MediaInv
  <2> QED BY <2>2 DEF MediaInv, ServesTheSession, n
<1>5. CASE rows # {}
  <2> DEFINE v == <<s, rows>>
  <2>1. n = Moved(m, l, r, v)
    BY <1>5, <1>1 DEF Read, MediaInv, MediaCore, MediaTyped, Moved
  <2>2. IsRequest(r) /\ r.session = s /\ r.print = m.seen[l].print /\ r.rows = rows
    BY <1>2, <1>3 DEF Requests, IsRequest
  <2>3. s \notin m.deleted => m.seen[l].print.count <= Cardinality(rows)
    BY DEF MediaInv, MediaCore, RequestsAreEarlier, IsEarlier
  <2>4. <<s, rows>> \in MediaSessions \X RowSets /\ <<s, rows>>[1] = s /\ <<s, rows>>[2] = rows
    BY <1>2, <1>3
  <2>5. rows = m.segments[s] /\ IsServed(v)
    BY <2>4 DEF IsServed
  <2>7. IsEarlier(m, r)
    <3> HIDE DEF r
    <3>1. r.rows = m.segments[r.session] /\ r.print = m.seen[l].print
      BY <2>2
    <3> QED BY <2>2, <2>3, <3>1 DEF IsEarlier
  <2> HIDE DEF n, r, s, rows, v
  <2>6. /\ MediaCore(n) /\ n.served = v /\ n.pieces = m.pieces /\ n.segments = m.segments
    BY <2>1, <2>2, <2>5, <2>7, RequestKeeps DEF MediaInv, v
  <2> QED BY <2>4, <2>5, <2>6 DEF MediaInv, ServesTheSession, n, v
<1> QED BY <1>4, <1>5

LEMMA FailKeeps ==
  ASSUME NEW m, MediaInv(m), NEW l \in Listeners
  PROVE  MediaInv(Failed(m, l))
<1> DEFINE n == Failed(m, l)
<1>1. n = Moved(m, l, Nobody, Nobody)
  BY DEF Failed, Moved
<1> HIDE DEF n
<1>2. MediaCore(n) /\ n.served = Nobody /\ n.pieces = m.pieces
  BY <1>1, NobodyIsServed, NobodyIsEarlier, RequestKeeps DEF MediaInv
<1> QED BY <1>2 DEF MediaInv, ServesTheSession, n

\* What was built is kept.
LEMMA BuildKeeps ==
  ASSUME NEW m, MediaInv(m), NEW l \in Listeners, m.seen[l] # Nobody, m.seen[l].rows # {}
  PROVE  MediaInv(Built(m, l))
<1> DEFINE r == m.seen[l]
           done == [m EXCEPT !.seen = [m.seen EXCEPT ![l] = Nobody], !.served = Nobody]
           e == Entry(r.session, r.print, r.rows)
           n == Built(m, l)
<1>1. r \in Requests
  BY DEF MediaInv, MediaCore, MediaTyped
<1>2. n = Put(done, r.session, e)
  BY DEF Built
<1>3. /\ MediaCore(done) /\ done.served = Nobody /\ done.pieces = m.pieces
      /\ done.segments = m.segments /\ done.deleted = m.deleted
  <2>1. done = Moved(m, l, Nobody, Nobody)
    BY DEF Moved
  <2> HIDE DEF done
  <2> QED BY <2>1, NobodyIsServed, NobodyIsEarlier, RequestKeeps DEF MediaInv
<1>4. e \in Entries /\ e.session = r.session /\ e.print = r.print /\ e.audio = r.rows
  <2>1. PiecesOf(r.rows) \in Nat
    <3>1. IsFiniteSet({x \in r.rows : x.bytes > 0})
      BY <1>1, FS_Subset DEF Requests, RowSets
    <3> QED BY <3>1, FS_CardinalityType DEF PiecesOf
  <2> HIDE DEF r
  <2> QED BY <2>1, <1>1 DEF Requests, Entries, Entry
<1>5. r.session \notin m.deleted => /\ r.rows \subseteq m.segments[r.session]
                                    /\ r.print.count <= Cardinality(r.rows)
  BY DEF MediaInv, MediaCore, RequestsAreEarlier, IsEarlier
<1> HIDE DEF done, e, r, n
<1>6. MediaCore(n) /\ n.pieces <= PieceBudget /\ n.served = Nobody
  BY <1>2, <1>3, <1>4, <1>5, PutKeeps DEF MediaInv
<1> QED BY <1>6 DEF MediaInv, ServesTheSession, n

LEMMA CacheStaysBounded ==
  ASSUME NEW m, MediaInv(m)
  PROVE  CacheIsBounded(m)
<1>1. ASSUME NEW s \in MediaSessions PROVE Cardinality(EntryOf(m, s)) <= 1
  <2>1. CASE EntryOf(m, s) = {}
    BY <2>1, FS_EmptySet
  <2>2. CASE EntryOf(m, s) # {}
    <3>1. PICK k : k \in EntryOf(m, s)
      BY <2>2
    <3>2. EntryOf(m, s) = {k}
      BY <3>1 DEF EntryOf, MediaInv, MediaCore, OneEntryEach
    <3> QED BY <3>2, FS_Singleton
  <2> QED BY <2>1, <2>2
<1> QED BY <1>1 DEF CacheIsBounded, MediaInv, MediaCore, PiecesAreCounted

----------------------------------------------------------------------------
(* Files, ranges of them, and times.                                       *)

LEMMA IntervalEnds ==
  ASSUME NEW lo \in Int, NEW hi \in Int, lo <= hi
  PROVE  lo..hi # {} /\ Min(lo..hi) = lo /\ Max(lo..hi) = hi
<1>1. lo \in lo..hi /\ hi \in lo..hi
  OBVIOUS
<1> DEFINE Least(x) == x \in lo..hi /\ \A y \in lo..hi : x =< y
           Most(x) == x \in lo..hi /\ \A y \in lo..hi : x >= y
<1>2. Least(lo) /\ \A x : Least(x) => x = lo
  OBVIOUS
<1>3. Most(hi) /\ \A x : Most(x) => x = hi
  OBVIOUS
<1>4. Min(lo..hi) = (CHOOSE x : Least(x)) /\ Max(lo..hi) = (CHOOSE x : Most(x))
  BY DEF Min, Max
<1> HIDE DEF Least, Most
<1>5. (CHOOSE x : Least(x)) = lo
  BY <1>2
<1>6. (CHOOSE x : Most(x)) = hi
  BY <1>3
<1> QED BY <1>1, <1>4, <1>5, <1>6

\* parse_range answers a range request as RFC 9110 asks.
LEMMA RangeIsAnswered ==
  ASSUME NEW first \in {Absent} \union Nat, NEW last \in {Absent} \union Nat, NEW size \in Nat
  PROVE  RangesAreAnswered(first, last, size)
<1> DEFINE asked == IF first = Absent THEN {b \in 0..size - 1 : b >= size - last}
                    ELSE {b \in 0..size - 1 : b >= first /\ (last = Absent \/ b <= last)}
           answer == ParseRange(first, last, size)
<1> SUFFICES ASSUME ~(first = Absent /\ last = Absent)
             PROVE  answer = IF asked = {} THEN Unsatisfiable ELSE <<Min(asked), Max(asked)>>
  BY DEF RangesAreAnswered
<1>2. CASE first = Absent
  <2>1. last \in Nat
    BY <1>2
  <2>2. CASE last = 0 \/ size = 0
    <3>1. asked = {}
      BY <1>2, <2>1, <2>2
    <3>2. answer = Unsatisfiable
      BY <1>2, <2>1, <2>2 DEF ParseRange, Absent
    <3> QED BY <3>1, <3>2
  <2>3. CASE last > 0 /\ size > 0
    <3>1. asked = Larger(0, size - last)..size - 1
      BY <1>2, <2>1, <2>3 DEF Larger
    <3>2. Larger(0, size - last) \in Int /\ size - 1 \in Int /\ Larger(0, size - last) <= size - 1
      BY <2>1, <2>3 DEF Larger
    <3>3. answer = <<Larger(0, size - last), size - 1>>
      BY <1>2, <2>1, <2>3 DEF ParseRange, Absent
    <3> HIDE DEF asked, answer
    <3> QED BY <3>1, <3>2, <3>3, IntervalEnds
  <2> QED BY <2>1, <2>2, <2>3
<1>3. CASE first # Absent
  <2> DEFINE end == IF last = Absent THEN size - 1 ELSE last
  <2>1. first \in Nat /\ end \in Int
    BY <1>3 DEF Absent
  <2>2. asked = first..Smaller(end, size - 1)
    BY <1>3, <2>1 DEF Smaller, Absent
  <2>3. answer = IF end < first \/ first >= size THEN Unsatisfiable
                 ELSE <<first, Smaller(end, size - 1)>>
    BY <1>3 DEF ParseRange
  <2>4. Smaller(end, size - 1) \in Int
    BY <2>1 DEF Smaller
  <2>5. end < first \/ first >= size <=> ~(first <= Smaller(end, size - 1))
    BY <2>1 DEF Smaller
  <2>6. CASE first <= Smaller(end, size - 1)
    <3> HIDE DEF asked, answer, end
    <3> DEFINE hi == Smaller(end, size - 1)
    <3>1. first \in Int /\ hi \in Int /\ first <= hi
      BY <2>1, <2>4, <2>6
    <3>2. asked = first..hi
      BY <2>2
    <3> HIDE DEF hi
    <3>3. asked # {} /\ Min(asked) = first /\ Max(asked) = hi
      BY <3>1, <3>2, IntervalEnds
    <3>4. answer = <<first, hi>>
      BY <2>3, <2>5, <2>6 DEF hi
    <3> QED BY <3>3, <3>4
  <2>7. CASE ~(first <= Smaller(end, size - 1))
    <3> HIDE DEF answer, end
    <3>1. first..Smaller(end, size - 1) = {}
      BY <2>1, <2>4, <2>7
    <3> HIDE DEF asked
    <3> QED BY <2>2, <2>3, <2>5, <2>7, <3>1
  <2> QED BY <2>6, <2>7
<1> QED BY <1>2, <1>3

\* What load_timeline accepts is played at the rate of every segment that has one.
LEMMA TimelineIsUniform ==
  ASSUME NEW n \in Nat, NEW S, NEW segments \in [1..n -> S]
  PROVE  TimelinesAreUniform(segments)
<1> DEFINE line == LoadTimeline(segments)
           rates == {s.rate : s \in ToSet(segments)} \ {Unknown}
<1> SUFFICES ASSUME line \notin {NoAudio, NotStitchable, NotRenderable},
                    NEW s \in ToSet(segments)
             PROVE  /\ s.wav
                    /\ (\A t \in ToSet(segments) : t.rate # Unknown) => s.rate = line.rate
                    /\ Head(segments).rate # Unknown => s.rate \in {line.rate, Unknown}
  BY DEF TimelinesAreUniform
<1>1. /\ IsUniform(segments) /\ line.rate = PcmRate(Head(segments))
  BY DEF LoadTimeline
<1>2. s.wav
  BY <1>1 DEF IsUniform
<1>3. segments # <<>> /\ n >= 1 /\ Head(segments) \in ToSet(segments)
  BY DEF ToSet
<1>4. \A x, y \in rates : x = y
  <2>1. IsFiniteSet(rates)
    <3> DEFINE All == {u.rate : u \in ToSet(segments)}
               f == [i \in 1..n |-> segments[i].rate]
    <3>1. IsFiniteSet(1..n)
      BY FS_Interval
    <3>2. f \in Surjection(1..n, All)
      BY DEF ToSet, Surjection
    <3>3. rates \in SUBSET All
      OBVIOUS
    <3> HIDE DEF f, All, rates
    <3>4. IsFiniteSet(All)
      BY <3>1, <3>2, FS_Surjection
    <3> QED BY <3>3, <3>4, FS_Subset
  <2>2. Cardinality(rates) <= 1
    BY <1>1 DEF IsUniform
  <2> SUFFICES ASSUME NEW x \in rates, NEW y \in rates, x # y PROVE FALSE
    OBVIOUS
  <2> HIDE DEF rates
  <2>3. Cardinality({x, y}) <= Cardinality(rates) /\ Cardinality({x, y}) = 2
    <3>1. {x, y} = {x} \cup {y} /\ y \notin {x} /\ {x, y} \in SUBSET rates
      OBVIOUS
    <3>2. IsFiniteSet({x}) /\ Cardinality({x}) = 1
      BY FS_Singleton
    <3>3. Cardinality({x} \cup {y}) = 2
      <4> HIDE DEF rates
      <4>1. Cardinality({x} \cup {y}) = IF y \in {x} THEN Cardinality({x}) ELSE Cardinality({x}) + 1
        BY <3>2, FS_AddElement
      <4>2. Cardinality({x} \cup {y}) = Cardinality({x}) + 1
        BY <4>1, <3>1
      <4> QED BY <4>2, <3>2
    <3> QED BY <2>1, <3>1, <3>3, FS_Subset
  <2>4. Cardinality(rates) \in Nat
    BY <2>1, FS_CardinalityType
  <2> QED BY <2>2, <2>3, <2>4
<1>5. Head(segments).rate # Unknown => line.rate = Head(segments).rate
  BY <1>1 DEF PcmRate
<1>6. Head(segments).rate # Unknown => s.rate \in {line.rate, Unknown}
  BY <1>3, <1>4, <1>5
<1> QED BY <1>2, <1>3, <1>6

LEMMA Quotient ==
  ASSUME NEW a \in Nat, NEW b \in Nat \ {0}
  PROVE  /\ a \div b \in Nat
         /\ (a \div b) * b <= a
         /\ a < (a \div b) * b + b
OBVIOUS

LEMMA QuotientIs ==
  ASSUME NEW a \in Nat, NEW b \in Nat \ {0}, NEW q \in Nat, q * b <= a, a < q * b + b
  PROVE  a \div b = q
OBVIOUS

LEMMA Cancels ==
  ASSUME NEW x \in Nat, NEW y \in Nat, NEW b \in Nat \ {0}, x * b <= y * b
  PROVE  x <= y
OBVIOUS

LEMMA Times ==
  ASSUME NEW x \in Nat, NEW y \in Nat, NEW b \in Nat
  PROVE  x * b \in Nat /\ (x <= y => x * b <= y * b) /\ (x + 1) * b = x * b + b
OBVIOUS

LEMMA MultipleRemainder ==
  ASSUME NEW q \in Nat, NEW b \in Nat \ {0}
  PROVE  (q * b) % b = 0
OBVIOUS

\* The frames of so many milliseconds.
FramesIn(ms) == (ms * Rate) \div Second

\* A later millisecond begins at a later frame: there are no fewer frames than milliseconds.
LEMMA FramesIncrease ==
  ASSUME NEW a \in Nat, NEW b \in Nat, a < b
  PROVE  FramesIn(a) \in Nat /\ FramesIn(b) \in Nat /\ FramesIn(a) < FramesIn(b)
<1> USE SessionTimelineAssumption
<1> DEFINE x == FramesIn(a)
           y == FramesIn(b)
<1>1. a * Rate \in Nat /\ b * Rate \in Nat /\ (a + 1) * Rate <= b * Rate
      /\ (a + 1) * Rate = a * Rate + Rate
  BY Times
<1>2. x \in Nat /\ x * Second <= a * Rate
  BY <1>1, Quotient DEF FramesIn
<1>3. y \in Nat /\ b * Rate < y * Second + Second
  BY <1>1, Quotient DEF FramesIn
<1>4. (x + 1) * Second = x * Second + Second /\ x * Second \in Nat /\ y * Second \in Nat
  BY <1>2, <1>3, Times
<1>5. ~ y * Second <= x * Second
  BY <1>1, <1>2, <1>3, <1>4
<1>6. ~ y <= x
  BY <1>2, <1>3, <1>5, Times
<1> QED BY <1>2, <1>3, <1>6

LEMMA FramesFit ==
  ASSUME NEW data \in Nat, NEW ms \in 0..TotalMs(data)
  PROVE  FramesIn(ms) * FrameBytes <= data
<1> USE SessionTimelineAssumption
<1> DEFINE t == TotalMs(data)
           q == FramesIn(ms)
           RF == Rate * FrameBytes
<1>1. RF \in Nat \ {0} /\ data * Second \in Nat
  OBVIOUS
<1>2. t \in Nat /\ t * RF <= data * Second
  <2> HIDE DEF RF
  <2> QED BY <1>1, Quotient DEF TotalMs, RF
<1>3. ms \in Nat /\ ms * RF <= data * Second
  <2> HIDE DEF t, RF
  <2>1. ms \in Nat /\ ms <= t
    BY <1>2 DEF t
  <2>2. ms * RF <= t * RF /\ ms * RF \in Nat /\ t * RF \in Nat
    BY <2>1, <1>1, <1>2, Times
  <2> QED BY <2>1, <2>2, <1>1, <1>2
<1>4. q \in Nat /\ q * Second <= ms * Rate /\ ms * Rate \in Nat
  BY <1>3, Times, Quotient DEF FramesIn
<1> HIDE DEF q, t
<1>5. (q * Second) * FrameBytes <= (ms * Rate) * FrameBytes
  <2>1. q * Second \in Nat
    BY <1>4, Times
  <2> QED BY <1>4, <2>1, Times
<1>6. (q * Second) * FrameBytes = (q * FrameBytes) * Second /\ (ms * Rate) * FrameBytes = ms * RF
  BY <1>3, <1>4
<1>7. (q * FrameBytes) * Second <= data * Second /\ q * FrameBytes \in Nat
  BY <1>3, <1>4, <1>5, <1>6, <1>1, Times
<1> QED BY <1>7, Cancels DEF q

LEMMA ClipIsFrames ==
  ASSUME NEW data \in Nat, NEW a \in Nat, NEW b \in 0..TotalMs(data), a < b
  PROVE  /\ ByteRange(data, a, b) = <<FrameOffset(a), FrameOffset(b) - 1>>
         /\ ByteRange(data, a, b) # Empty
         /\ FrameOffset(a) \in Nat /\ FrameOffset(b) \in Nat
         /\ FrameOffset(a) < FrameOffset(b) /\ FrameOffset(b) <= Header + data
         /\ (FrameOffset(b) - Header) % FrameBytes = 0
<1> USE SessionTimelineAssumption
<1>0. TotalMs(data) \in Nat
  <2>1. Rate * FrameBytes \in Nat \ {0} /\ data * Second \in Nat
    OBVIOUS
  <2> QED BY <2>1, Quotient DEF TotalMs
<1>1. b \in Nat /\ Larger(0, a) = a
  BY <1>0 DEF Larger
<1> DEFINE x == FramesIn(a)
           y == FramesIn(b)
<1>2. x \in Nat /\ y \in Nat /\ x < y
  BY <1>1, FramesIncrease
<1>3. y * FrameBytes <= data
  BY FramesFit
<1>4. x * FrameBytes \in Nat /\ y * FrameBytes \in Nat /\ x * FrameBytes < y * FrameBytes
  BY <1>2, Times, Cancels
<1>5. FrameOffset(a) = Header + x * FrameBytes /\ FrameOffset(b) = Header + y * FrameBytes
  BY DEF FrameOffset, FramesIn
<1>6. (FrameOffset(b) - Header) % FrameBytes = 0
  <2>1. FrameOffset(b) - Header = y * FrameBytes
    BY <1>4, <1>5
  <2> HIDE DEF y
  <2> QED BY <2>1, <1>2, MultipleRemainder
<1> HIDE DEF x, y
<1>7. /\ FrameOffset(a) \in Nat /\ FrameOffset(b) \in Nat
      /\ FrameOffset(a) < FrameOffset(b) /\ FrameOffset(b) <= Header + data
  BY <1>3, <1>4, <1>5
<1>8. ByteRange(data, a, b) = <<FrameOffset(a), FrameOffset(b) - 1>>
  BY <1>1, <1>7 DEF ByteRange, Smaller
<1> QED BY <1>6, <1>7, <1>8 DEF Empty

\* Clips of adjacent times tile the file.
LEMMA ClipsDoTile ==
  ASSUME NEW data \in Nat, NEW from \in Nat, NEW mid \in Nat, NEW to \in Nat
  PROVE  ClipsTile(data, from, mid, to)
<1> SUFFICES ASSUME from < mid, mid < to, to <= TotalMs(data)
             PROVE  LET here == ByteRange(data, from, mid)
                        there == ByteRange(data, mid, to)
                    IN  /\ here # Empty /\ there # Empty
                        /\ here[2] + 1 = there[1] /\ there[2] < Header + data
                        /\ (there[1] - Header) % FrameBytes = 0
                        /\ ByteRange(data, from, to) = <<here[1], there[2]>>
  BY DEF ClipsTile
<1>1. TotalMs(data) \in Nat
  <2>1. Rate * FrameBytes \in Nat \ {0} /\ data * Second \in Nat
    BY SessionTimelineAssumption
  <2> QED BY <2>1, Quotient DEF TotalMs
<1>2. mid \in 0..TotalMs(data) /\ to \in 0..TotalMs(data) /\ from < to
  BY <1>1
<1>3. /\ ByteRange(data, from, mid) = <<FrameOffset(from), FrameOffset(mid) - 1>>
      /\ ByteRange(data, from, mid) # Empty
      /\ (FrameOffset(mid) - Header) % FrameBytes = 0
      /\ FrameOffset(mid) \in Nat
  BY <1>2, ClipIsFrames
<1>4. /\ ByteRange(data, mid, to) = <<FrameOffset(mid), FrameOffset(to) - 1>>
      /\ ByteRange(data, mid, to) # Empty
      /\ FrameOffset(to) \in Nat /\ FrameOffset(to) <= Header + data
  BY <1>2, ClipIsFrames
<1>5. ByteRange(data, from, to) = <<FrameOffset(from), FrameOffset(to) - 1>>
  BY <1>2, ClipIsFrames
<1>6. Header + data \in Nat
  BY SessionTimelineAssumption
<1> QED BY <1>3, <1>4, <1>5, <1>6

\* A sequence of sequences, joined one by one.
IsJoin(g, ss, n, S) ==
    /\ g \in [0..n -> Seq(S)]
    /\ g[0] = <<>>
    /\ \A i \in 1..n : g[i - 1] \in Seq(S) /\ g[i] = g[i - 1] \o ss[i]

\* FlattenSeq goes through its sequences from the first to the last.
LEMMA Joins ==
  ASSUME NEW n \in Nat, NEW S, NEW ss \in [1..n -> Seq(S)]
  PROVE  \E g : IsJoin(g, ss, n, S) /\ FlattenSeq(ss) = g[n]
<1> DEFINE T == Seq(S)
           none == <<>>
           step == [i \in 1..n |-> [x \in T |-> x \o ss[i]]]
<1>1. PICK g : IsRun(g, n, T, none, step)
  <2>1. \A i \in 1..n : \A x \in T : x \o ss[i] \in T
    <3> SUFFICES ASSUME NEW i \in 1..n, NEW x \in T PROVE x \o ss[i] \in T
      OBVIOUS
    <3>1. ss[i] \in Seq(S)
      OBVIOUS
    <3> QED BY <3>1, ConcatProperties
  <2>2. none \in T
    BY EmptySeq
  <2>3. Rounds(n, T, step)
    BY <2>1 DEF Rounds
  <2> HIDE DEF step, T, none
  <2> QED BY <2>2, <2>3, Loop
<1>2. IsJoin(g, ss, n, S)
  BY <1>1 DEF IsRun, IsJoin
<1>3. Len(ss) = n
  OBVIOUS
<1>4. CASE n = 0
  <2>1. FlattenSeq(ss) = <<>>
    BY <1>3, <1>4 DEF FlattenSeq
  <2>2. g[n] = <<>>
    BY <1>2, <1>4 DEF IsJoin
  <2> QED BY <1>2, <2>1, <2>2
<1>5. CASE n # 0
  <2> DEFINE Flat(f) == f = [i \in 1..n |-> IF i = 1 THEN ss[i] ELSE f[i - 1] \o ss[i]]
             h == [i \in 1..n |-> g[i]]
             flat == CHOOSE f : Flat(f)
  <2>1. Flat(h)
    <3>1. g[1] = ss[1]
      <4>0. 1 \in 1..n /\ 1 - 1 = 0
        BY <1>5
      <4>1. g[0] = <<>> /\ g[1] = g[0] \o ss[1] /\ ss[1] \in Seq(S)
        BY <1>2, <4>0 DEF IsJoin
      <4> QED BY <4>1, ConcatEmptySeq
    <3>2. ASSUME NEW i \in 1..n PROVE h[i] = IF i = 1 THEN ss[i] ELSE h[i - 1] \o ss[i]
      <4>1. h[i] = g[i] /\ (i # 1 => h[i - 1] = g[i - 1])
        OBVIOUS
      <4>2. g[i] = g[i - 1] \o ss[i]
        BY <1>2 DEF IsJoin
      <4> HIDE DEF h
      <4> QED BY <3>1, <4>1, <4>2
    <3> QED BY <3>2
  <2>2. Flat(flat)
    <3> HIDE DEF Flat
    <3> QED BY <2>1
  <2>3. FlattenSeq(ss) = flat[n]
    BY <1>3, <1>5 DEF FlattenSeq
  <2>4. \A i \in 1..n : flat[i] = IF i = 1 THEN ss[i] ELSE flat[i - 1] \o ss[i]
    <3> HIDE DEF flat
    <3> QED BY <2>2
  <2>5. \A i \in 1..n : h[i] = IF i = 1 THEN ss[i] ELSE h[i - 1] \o ss[i]
    <3> HIDE DEF h
    <3> QED BY <2>1
  <2> DEFINE Same == {i \in 0..n : i = 0 \/ flat[i] = h[i]}
  <2>6. 0 \in Same /\ \A i \in 1..n : i - 1 \in Same => i \in Same
    <3> HIDE DEF flat, h
    <3> QED BY <2>4, <2>5
  <2> HIDE DEF Same
  <2>7. 0..n \subseteq Same
    BY <2>6, UpTo
  <2>8. flat[n] = g[n]
    <3> HIDE DEF flat
    <3>1. n \in Same /\ h[n] = g[n]
      BY <2>7, <1>5
    <3> QED BY <3>1, <1>5 DEF Same
  <2> QED BY <1>2, <2>3, <2>8
<1> QED BY <1>4, <1>5

FileBytes == Nat \X Nat
FilePieces == [segment : Nat, start : Nat, length : Nat \ {0}]

\* Where the piece before the p-th ends.
EndOfPiece(P, p) == IF p = 0 THEN Header ELSE P[p].start + P[p].length

\* The pieces P describe the file f: each lies where the one before it ends, and is
\* what its segment's object has behind the header.
Laid(P, at, f) ==
    /\ P \in Seq(FilePieces) /\ at \in Nat /\ f \in Seq(FileBytes) /\ Len(f) = at
    /\ at = EndOfPiece(P, Len(P))
    /\ \A i \in 1..Header : f[i] = <<0, i - 1>>
    /\ \A p \in 1..Len(P) :
          /\ P[p].start = EndOfPiece(P, p - 1)
          /\ P[p].start >= Header
          /\ P[p].start + P[p].length <= at
          /\ \A j \in 1..P[p].length :
                f[P[p].start + j] = <<P[p].segment, Header + j - 1>>

Stretch(k, length) == [i \in 1..length |-> <<k, Header + i - 1>>]

\* The bytes of the k-th segment, and the file with one more segment at its end.
LEMMA StretchIsBytes ==
  ASSUME NEW k \in Nat, NEW length \in Nat
  PROVE  /\ Stretch(k, length) \in Seq(FileBytes) /\ Len(Stretch(k, length)) = length
         /\ \A i \in 1..length : Stretch(k, length)[i] = <<k, Header + i - 1>>
<1>1. Stretch(k, length) \in [1..length -> FileBytes]
  BY SessionTimelineAssumption DEF Stretch, FileBytes
<1>2. Len(Stretch(k, length)) = length
  BY DEF Stretch
<1>3. Stretch(k, length) \in Seq(FileBytes)
  BY <1>1
<1> QED BY <1>2, <1>3 DEF Stretch

LEMMA LaidBegins ==
  ASSUME NEW f, f = [i \in 1..Header |-> <<0, i - 1>>]
  PROVE  Laid(<<>>, Header, f)
<1>1. Header \in Nat \ {0}
  BY SessionTimelineAssumption
<1>2. f \in [1..Header -> FileBytes]
  BY <1>1 DEF FileBytes
<1>3. f \in Seq(FileBytes) /\ Len(f) = Header
  BY <1>1, <1>2
<1>4. <<>> \in Seq(FilePieces) /\ Len(<<>>) = 0
  OBVIOUS
<1> QED BY <1>1, <1>3, <1>4 DEF Laid, EndOfPiece

LEMMA LaidGrows ==
  ASSUME NEW P, NEW at, NEW f, Laid(P, at, f), NEW k \in Nat, NEW length \in Nat \ {0}
  PROVE  Laid(Append(P, [segment |-> k, start |-> at, length |-> length]), at + length,
              f \o Stretch(k, length))
<1> DEFINE e == [segment |-> k, start |-> at, length |-> length]
           Q == Append(P, e)
           part == Stretch(k, length)
           h == f \o part
           n == Len(P)
<1>1. /\ P \in Seq(FilePieces) /\ at \in Nat /\ f \in Seq(FileBytes) /\ Len(f) = at
      /\ at = EndOfPiece(P, Len(P)) /\ n \in Nat
  BY DEF Laid
<1>2. e \in FilePieces /\ e.start = at /\ e.length = length /\ e.segment = k
  BY <1>1 DEF FilePieces
<1>3. Q \in Seq(FilePieces) /\ Len(Q) = n + 1 /\ Q[n + 1] = e /\ \A p \in 1..n : Q[p] = P[p]
  <2> HIDE DEF e
  <2> QED BY <1>1, <1>2
<1>4. /\ h \in Seq(FileBytes) /\ Len(h) = at + length
      /\ \A i \in 1..at : h[i] = f[i]
      /\ \A i \in 1..length : h[at + i] = <<k, Header + i - 1>>
  <2>1. /\ part \in Seq(FileBytes) /\ Len(part) = length
        /\ \A i \in 1..length : part[i] = <<k, Header + i - 1>>
    BY StretchIsBytes
  <2> HIDE DEF part
  <2>2. /\ h \in Seq(FileBytes) /\ Len(h) = at + length
        /\ \A i \in 1..at + length : h[i] = IF i <= at THEN f[i] ELSE part[i - at]
    <3>1. /\ h \in Seq(FileBytes) /\ Len(h) = Len(f) + Len(part)
          /\ \A i \in 1..Len(f) + Len(part) : h[i] = IF i <= Len(f) THEN f[i] ELSE part[i - Len(f)]
      BY <1>1, <2>1, ConcatProperties
    <3> HIDE DEF h
    <3> QED BY <3>1, <1>1, <2>1
  <2> HIDE DEF h
  <2>3. \A i \in 1..at : h[i] = f[i]
    BY <2>2, <1>1
  <2>4. ASSUME NEW i \in 1..length PROVE h[at + i] = <<k, Header + i - 1>>
    <3>1. at + i \in 1..at + length /\ ~(at + i <= at) /\ (at + i) - at = i
      BY <1>1
    <3>2. h[at + i] = part[i]
      BY <2>2, <3>1
    <3> QED BY <2>1, <3>2
  <2> QED BY <2>2, <2>3, <2>4
<1> HIDE DEF e, Q, part, h
<1>5. at >= Header /\ Header \in Nat
  <2>1. Header \in Nat
    BY SessionTimelineAssumption
  <2>2. CASE n = 0
    BY <1>1, <2>1, <2>2 DEF EndOfPiece
  <2>3. CASE n # 0
    <3>1. n \in 1..n
      BY <1>1, <2>3
    <3>2. P[n] \in FilePieces /\ P[n].start >= Header /\ at = P[n].start + P[n].length
      BY <1>1, <2>3, <3>1 DEF Laid, EndOfPiece
    <3> QED BY <3>2, <2>1 DEF FilePieces
  <2> QED BY <2>2, <2>3
<1>6. at + length = EndOfPiece(Q, Len(Q))
  BY <1>1, <1>2, <1>3 DEF EndOfPiece
<1>7. \A i \in 1..Header : h[i] = <<0, i - 1>>
  BY <1>1, <1>4, <1>5 DEF Laid
<1>8. ASSUME NEW p \in 1..Len(Q)
      PROVE  /\ Q[p].start = EndOfPiece(Q, p - 1)
             /\ Q[p].start >= Header
             /\ Q[p].start + Q[p].length <= at + length
             /\ \A j \in 1..Q[p].length :
                   h[Q[p].start + j] = <<Q[p].segment, Header + j - 1>>
  <2>1. CASE p = n + 1
    <3>1. EndOfPiece(Q, p - 1) = EndOfPiece(P, n)
      BY <1>1, <1>3, <2>1 DEF EndOfPiece
    <3>2. Q[p].start = at /\ Q[p].length = length /\ Q[p].segment = k
      BY <1>2, <1>3, <2>1
    <3>3. \A j \in 1..length : h[at + j] = <<k, Header + j - 1>>
      BY <1>4
    <3>4. EndOfPiece(P, n) = at /\ at >= Header /\ at + length <= at + length
      BY <1>1, <1>5
    <3> QED BY <3>1, <3>2, <3>3, <3>4
  <2>2. CASE p # n + 1
    <3>1. p \in 1..n
      BY <1>1, <1>3, <2>2
    <3>2. Q[p] = P[p] /\ P[p] \in FilePieces
      BY <1>1, <1>3, <3>1
    <3>3. EndOfPiece(Q, p - 1) = EndOfPiece(P, p - 1)
      BY <1>1, <1>3, <3>1 DEF EndOfPiece
    <3>4. /\ P[p].start = EndOfPiece(P, p - 1)
          /\ P[p].start >= Header
          /\ P[p].start + P[p].length <= at
          /\ \A j \in 1..P[p].length : f[P[p].start + j] = <<P[p].segment, Header + j - 1>>
      BY <3>1 DEF Laid
    <3>5. P[p].start \in Nat /\ P[p].length \in Nat
      BY <3>2 DEF FilePieces
    <3>6. ASSUME NEW j \in 1..P[p].length
          PROVE  h[P[p].start + j] = <<P[p].segment, Header + j - 1>>
      <4>1. P[p].start + j \in 1..at
        BY <3>4, <3>5, <1>1
      <4>2. h[P[p].start + j] = f[P[p].start + j]
        BY <1>4, <4>1
      <4> QED BY <3>4, <4>2
    <3>7. P[p].start + P[p].length <= at + length
      BY <3>4, <3>5, <1>1
    <3> QED BY <3>2, <3>3, <3>4, <3>6, <3>7
  <2> QED BY <2>1, <2>2
<1>9. at + length \in Nat
  BY <1>1
<1> QED BY <1>3, <1>4, <1>6, <1>7, <1>8, <1>9 DEF Laid, Q, h, e, part

Plans == [pieces : Seq(FilePieces), at : Nat]

\* The round of plan for the n-th segment.
Placed(x, n, length) ==
    IF length = 0 THEN x
    ELSE [pieces |-> Append(x.pieces, [segment |-> n, start |-> x.at, length |-> length]),
          at |-> x.at + length]

LEMMA PlacedIsPlan ==
  ASSUME NEW x \in Plans, NEW n \in Nat, NEW length \in Nat
  PROVE  Placed(x, n, length) \in Plans
<1> DEFINE e == [segment |-> n, start |-> x.at, length |-> length]
<1>1. x.pieces \in Seq(FilePieces) /\ x.at \in Nat
  BY DEF Plans
<1>2. CASE length # 0
  <2>1. e \in FilePieces
    BY <1>1, <1>2 DEF FilePieces
  <2>2. Append(x.pieces, e) \in Seq(FilePieces) /\ x.at + length \in Nat
    <3> HIDE DEF e
    <3> QED BY <1>1, <2>1
  <2>3. Placed(x, n, length) = [pieces |-> Append(x.pieces, e), at |-> x.at + length]
    BY <1>2 DEF Placed
  <2> HIDE DEF e
  <2> QED BY <2>2, <2>3 DEF Plans
<1>3. CASE length = 0
  BY <1>3 DEF Placed
<1> QED BY <1>2, <1>3

DataOf(size) == Larger(0, size - Header)

LEMMA DataIsNatural ==
  ASSUME NEW size \in Nat PROVE DataOf(size) \in Nat
BY SessionTimelineAssumption DEF DataOf, Larger

LEMMA PlacingSteps ==
  ASSUME NEW N \in Nat, NEW sizes \in [1..N -> Nat]
  PROVE  /\ Placing(sizes)[0] = [pieces |-> <<>>, at |-> Header]
         /\ \A n \in 1..N : Placing(sizes)[n] = Placed(Placing(sizes)[n - 1], n, DataOf(sizes[n]))
         /\ \A n \in 0..N : Placing(sizes)[n] \in Plans
<1> DEFINE S == Plans
           none == [pieces |-> <<>>, at |-> Header]
           step == [n \in 1..N |-> [x \in S |-> Placed(x, n, DataOf(sizes[n]))]]
           f == Placing(sizes)
           Planned(h) == h = [n \in 0..N |-> IF n = 0 THEN [pieces |-> <<>>, at |-> Header]
                                            ELSE Placed(h[n - 1], n, DataOf(sizes[n]))]
<1>0. none \in S
  <2>1. <<>> \in Seq(FilePieces) /\ Header \in Nat
    BY SessionTimelineAssumption, EmptySeq
  <2> QED BY <2>1 DEF Plans
<1>1. PICK g : IsRun(g, N, S, none, step)
  <2>1. \A n \in 1..N : \A x \in S : Placed(x, n, DataOf(sizes[n])) \in S
    <3> SUFFICES ASSUME NEW n \in 1..N, NEW x \in S PROVE Placed(x, n, DataOf(sizes[n])) \in S
      OBVIOUS
    <3>1. sizes[n] \in Nat /\ n \in Nat
      OBVIOUS
    <3> QED BY <3>1, PlacedIsPlan, DataIsNatural
  <2>2. Rounds(N, S, step)
    BY <2>1 DEF Rounds
  <2> HIDE DEF step, S, none
  <2> QED BY <1>0, <2>2, Loop
<1>2. g \in [0..N -> S] /\ g[0] = none /\ \A n \in 1..N : g[n] = Placed(g[n - 1], n, DataOf(sizes[n]))
  BY <1>1 DEF IsRun
<1>3. Planned(g)
  BY <1>2
<1>4. Planned(f)
  <2>1. \E h : Planned(h)
    <3> HIDE DEF Planned
    <3> QED BY <1>3
  <2>2. Len(sizes) = N
    OBVIOUS
  <2> QED BY <2>1, <2>2 DEF Placing, Placed, DataOf
<1>5. f[0] = none /\ \A n \in 1..N : f[n] = Placed(f[n - 1], n, DataOf(sizes[n]))
  <2> HIDE DEF f
  <2> QED BY <1>4
<1> DEFINE Typed == {n \in 0..N : f[n] \in Plans}
<1>6. 0 \in Typed /\ \A n \in 1..N : n - 1 \in Typed => n \in Typed
  <2>1. 0 \in Typed
    <3> HIDE DEF f, none
    <3> QED BY <1>0, <1>5
  <2>2. ASSUME NEW n \in 1..N, n - 1 \in Typed PROVE n \in Typed
    <3>1. f[n - 1] \in Plans /\ n \in Nat /\ sizes[n] \in Nat
      BY <2>2
    <3>2. Placed(f[n - 1], n, DataOf(sizes[n])) \in Plans
      <4> HIDE DEF f
      <4> QED BY <3>1, PlacedIsPlan, DataIsNatural
    <3> HIDE DEF f
    <3> QED BY <3>2, <1>5
  <2> QED BY <2>1, <2>2
<1> HIDE DEF Typed
<1>7. 0..N \subseteq Typed
  BY <1>6, UpTo
<1>8. \A n \in 0..N : f[n] \in Plans
  BY <1>7 DEF Typed
<1> QED BY <1>5, <1>8

\* The plan of a session describes its file.
LEMMA PlanIsLaid ==
  ASSUME NEW N \in Nat, NEW sizes \in [1..N -> Nat]
  PROVE  Laid(Plan(sizes).pieces, Size(sizes), Bytes(sizes))
<1> DEFINE parts == [k \in DOMAIN sizes |->
                       [i \in 1..Larger(0, sizes[k] - Header) |-> <<k, Header + i - 1>>]]
           head == [i \in 1..Header |-> <<0, i - 1>>]
           f == Placing(sizes)
<1>1. parts = [k \in 1..N |-> Stretch(k, DataOf(sizes[k]))]
  BY DEF Stretch, DataOf
<1>2. \A k \in 1..N : parts[k] = Stretch(k, DataOf(sizes[k])) /\ DataOf(sizes[k]) \in Nat
  BY <1>1, DataIsNatural
<1>3. parts \in [1..N -> Seq(FileBytes)]
  <2>1. \A k \in 1..N : Stretch(k, DataOf(sizes[k])) \in Seq(FileBytes)
    BY <1>2, StretchIsBytes
  <2> QED BY <1>1, <2>1
<1> HIDE DEF parts
<1>4. PICK g : IsJoin(g, parts, N, FileBytes) /\ FlattenSeq(parts) = g[N]
  BY <1>3, Joins
<1>5. Bytes(sizes) = head \o g[N]
  BY <1>4 DEF Bytes, parts
<1>6. head \in Seq(FileBytes)
  <2>1. Header \in Nat /\ head \in [1..Header -> FileBytes]
    BY SessionTimelineAssumption DEF FileBytes
  <2> QED BY <2>1
<1>12. /\ f[0] = [pieces |-> <<>>, at |-> Header]
       /\ \A n \in 1..N : f[n] = Placed(f[n - 1], n, DataOf(sizes[n]))
  BY PlacingSteps
<1>13. Plan(sizes) = f[N]
  <2>1. Len(sizes) = N
    OBVIOUS
  <2> QED BY <2>1 DEF Plan
<1> HIDE DEF head, f
<1> DEFINE Is(n) == Laid(f[n].pieces, f[n].at, head \o g[n])
           Good == {n \in 0..N : Is(n)}
<1>7. 0 \in Good
  <2>1. f[0].pieces = <<>> /\ f[0].at = Header
    BY <1>12
  <2>2. head \o g[0] = head
    BY <1>4, <1>6, ConcatEmptySeq DEF IsJoin
  <2>3. Laid(<<>>, Header, head)
    BY LaidBegins DEF head
  <2>4. Is(0)
    BY <2>1, <2>2, <2>3
  <2> HIDE DEF Is
  <2> QED BY <2>4
<1>8. ASSUME NEW n \in 1..N, n - 1 \in Good
      PROVE  n \in Good
  <2> DEFINE length == DataOf(sizes[n])
  <2>1. /\ Laid(f[n - 1].pieces, f[n - 1].at, head \o g[n - 1])
        /\ f[n] = Placed(f[n - 1], n, length)
        /\ length \in Nat /\ n \in Nat
    BY <1>8, <1>2, <1>12
  <2>2. head \o g[n] = (head \o g[n - 1]) \o Stretch(n, length)
    <3>1. g[n] = g[n - 1] \o Stretch(n, length) /\ g[n - 1] \in Seq(FileBytes)
      BY <1>2, <1>4 DEF IsJoin
    <3>2. Stretch(n, length) \in Seq(FileBytes)
      BY <2>1, StretchIsBytes
    <3> DEFINE u == Stretch(n, length)
               v == g[n - 1]
    <3>3. u \in Seq(FileBytes) /\ v \in Seq(FileBytes) /\ g[n] = v \o u
      BY <3>1, <3>2
    <3> HIDE DEF u, v
    <3>4. (head \o v) \o u = head \o (v \o u)
      <4>1. head \in Seq(FileBytes) /\ u \in Seq(FileBytes) /\ v \in Seq(FileBytes)
        BY <1>6, <3>3
      <4> QED BY <4>1, ConcatAssociative
    <3> QED BY <3>3, <3>4 DEF u, v
  <2>3. CASE length = 0
    <3>1. f[n] = f[n - 1]
      BY <2>1, <2>3 DEF Placed
    <3>2. Stretch(n, length) = <<>>
      BY <2>3 DEF Stretch
    <3>3. head \o g[n] = head \o g[n - 1]
      <4>1. head \o g[n - 1] \in Seq(FileBytes)
        BY <2>1 DEF Laid
      <4> QED BY <2>2, <3>2, <4>1, ConcatEmptySeq
    <3>4. Is(n)
      BY <2>1, <3>1, <3>3
    <3> HIDE DEF Is
    <3> QED BY <3>4
  <2>4. CASE length # 0
    <3>1. /\ f[n].pieces = Append(f[n - 1].pieces,
                                  [segment |-> n, start |-> f[n - 1].at, length |-> length])
          /\ f[n].at = f[n - 1].at + length
      BY <2>1, <2>4 DEF Placed
    <3>2. Laid(f[n].pieces, f[n].at, (head \o g[n - 1]) \o Stretch(n, length))
      <4> DEFINE P == f[n - 1].pieces
                 at == f[n - 1].at
                 h == head \o g[n - 1]
      <4>1. Laid(P, at, h) /\ n \in Nat /\ length \in Nat \ {0}
        BY <2>1, <2>4
      <4> HIDE DEF P, at, h, length
      <4>2. Laid(Append(P, [segment |-> n, start |-> at, length |-> length]), at + length,
                 h \o Stretch(n, length))
        BY <4>1, LaidGrows
      <4> QED BY <3>1, <4>2 DEF P, at, h, length
    <3>3. Is(n)
      BY <2>2, <3>2
    <3> HIDE DEF Is
    <3> QED BY <3>3
  <2> QED BY <2>3, <2>4
<1> HIDE DEF Good
<1>9. 0..N \subseteq Good
  BY <1>7, <1>8, UpTo
<1>10. Laid(f[N].pieces, f[N].at, head \o g[N])
  BY <1>9 DEF Good
<1> QED BY <1>5, <1>10, <1>13 DEF Size

LEMMA FlattenNone ==
  FlattenSeq(<<>>) = <<>>
BY DEF FlattenSeq

LEMMA FlattenMore ==
  ASSUME NEW S, NEW n \in Nat, NEW ss \in [1..n -> Seq(S)], NEW tt \in [1..n + 1 -> Seq(S)],
         \A i \in 1..n : tt[i] = ss[i]
  PROVE  /\ FlattenSeq(tt) = FlattenSeq(ss) \o tt[n + 1]
         /\ FlattenSeq(ss) \in Seq(S) /\ FlattenSeq(tt) \in Seq(S)
<1>1. PICK g : IsJoin(g, ss, n, S) /\ FlattenSeq(ss) = g[n]
  BY Joins
<1> DEFINE m == n + 1
<1>0. m \in Nat /\ tt \in [1..m -> Seq(S)]
  OBVIOUS
<1> HIDE DEF m
<1>2. PICK h : IsJoin(h, tt, m, S) /\ FlattenSeq(tt) = h[m]
  BY <1>0, Joins
<1>3. g[0] = <<>> /\ \A i \in 1..n : g[i] = g[i - 1] \o ss[i]
  BY <1>1 DEF IsJoin
<1>4. h[0] = <<>> /\ \A i \in 1..m : h[i] = h[i - 1] \o tt[i]
  BY <1>2 DEF IsJoin
<1> DEFINE Same == {i \in 0..n : g[i] = h[i]}
<1>5. 0 \in Same
  BY <1>3, <1>4
<1>6. ASSUME NEW i \in 1..n, i - 1 \in Same PROVE i \in Same
  <2>1. i \in 1..m
    BY DEF m
  <2>2. h[i] = h[i - 1] \o tt[i] /\ tt[i] = ss[i] /\ g[i] = g[i - 1] \o ss[i]
    BY <1>3, <1>4, <2>1
  <2>3. g[i - 1] = h[i - 1]
    BY <1>6
  <2>4. g[i] = h[i]
    BY <2>2, <2>3
  <2> QED BY <2>4
<1> HIDE DEF Same
<1>7. 0..n \subseteq Same
  BY <1>5, <1>6, UpTo
<1>8. g[n] = h[n]
  BY <1>7 DEF Same
<1>9. m \in 1..m /\ m - 1 = n
  BY DEF m
<1>10. h[m] = h[n] \o tt[m]
  BY <1>4, <1>9
<1>11. g[n] \in Seq(S) /\ h[m] \in Seq(S)
  <2>1. n \in 0..n /\ m \in 0..m
    BY DEF m
  <2> QED BY <1>1, <1>2, <2>1 DEF IsJoin
<1> QED BY <1>1, <1>2, <1>8, <1>10, <1>11 DEF m

\* The bytes of f after the first a, up to the b-th.
Part(f, a, b) == SubSeq(f, a + 1, b)

\* Parts of a file: what they hold, when they are empty, and that they join.
LEMMA PartIs ==
  ASSUME NEW S, NEW f \in Seq(S), NEW a \in Nat, NEW b \in 0..Len(f)
  PROVE  /\ Part(f, a, b) \in Seq(S)
         /\ Len(Part(f, a, b)) = IF a < b THEN b - a ELSE 0
         /\ \A i \in 1..b - a : Part(f, a, b)[i] = f[a + i]
         /\ b <= a => Part(f, a, b) = <<>>
<1>1. \A i \in a + 1..b : f[i] \in S
  OBVIOUS
<1>2. a + 1 \in Int /\ b \in Int
  OBVIOUS
<1> DEFINE m == a + 1
           p == SubSeq(f, m, b)
<1>3. /\ p \in Seq(S)
      /\ Len(p) = IF m <= b THEN b - m + 1 ELSE 0
      /\ \A i \in 1..b - m + 1 : p[i] = f[m + i - 1]
  <2> HIDE DEF m
  <2> QED BY <1>1, <1>2, SubSeqProperties DEF m
<1>4. Part(f, a, b) = p
  BY DEF Part
<1> HIDE DEF p
<1>5. ASSUME NEW i \in 1..b - a PROVE p[i] = f[a + i]
  <2>1. i \in 1..b - m + 1 /\ m + i - 1 = a + i
    BY <1>2
  <2> QED BY <1>3, <2>1
<1>6. Len(p) = IF a < b THEN b - a ELSE 0
  BY <1>3
<1>7. b <= a => p = <<>>
  <2> HIDE DEF m
  <2>1. b <= a => Len(p) = 0
    BY <1>6
  <2> QED BY <1>3, <2>1, EmptySeq
<1> QED BY <1>3, <1>4, <1>5, <1>6, <1>7

LEMMA IsPart ==
  ASSUME NEW S, NEW f \in Seq(S), NEW a \in Nat, NEW b \in a..Len(f),
         NEW t \in Seq(S), Len(t) = b - a, \A i \in 1..b - a : t[i] = f[a + i]
  PROVE  t = Part(f, a, b)
<1> DEFINE p == Part(f, a, b)
<1>1. b \in 0..Len(f) /\ b - a \in Nat
  OBVIOUS
<1>2. p \in Seq(S) /\ Len(p) = (IF a < b THEN b - a ELSE 0) /\ \A i \in 1..b - a : p[i] = f[a + i]
  BY <1>1, PartIs
<1>3. Len(p) = Len(t) /\ \A i \in 1..Len(t) : t[i] = p[i]
  <2> HIDE DEF p
  <2>1. a \in Int /\ b \in Int /\ a <= b
    OBVIOUS
  <2>2. Len(p) = b - a
    BY <1>2, <2>1
  <2>3. \A i \in 1..b - a : t[i] = p[i]
    BY <1>2
  <2> QED BY <2>2, <2>3
<1> HIDE DEF p
<1>4. t = p
  BY <1>2, <1>3, SeqEqual
<1> QED BY <1>4 DEF p

LEMMA PartsJoin ==
  ASSUME NEW S, NEW f \in Seq(S), NEW a \in Nat, NEW b \in a..Len(f), NEW c \in b..Len(f)
  PROVE  Part(f, a, b) \o Part(f, b, c) = Part(f, a, c)
<1> DEFINE p == Part(f, a, b)
           q == Part(f, b, c)
           t == p \o q
<1>1. b \in Nat /\ b \in 0..Len(f) /\ c \in 0..Len(f) /\ c \in a..Len(f) /\ c \in Nat
  OBVIOUS
<1>2. p \in Seq(S) /\ Len(p) = b - a /\ \A i \in 1..b - a : p[i] = f[a + i]
  <2>1. b \in Nat /\ a <= b
    BY <1>1
  <2>2. p \in Seq(S) /\ Len(p) = (IF a < b THEN b - a ELSE 0) /\ \A i \in 1..b - a : p[i] = f[a + i]
    BY <1>1, PartIs
  <2> HIDE DEF p
  <2> QED BY <2>1, <2>2
<1>3. q \in Seq(S) /\ Len(q) = c - b /\ \A i \in 1..c - b : q[i] = f[b + i]
  <2>1. b \in Nat /\ c \in Nat /\ b <= c
    BY <1>1
  <2>2. q \in Seq(S) /\ Len(q) = (IF b < c THEN c - b ELSE 0) /\ \A i \in 1..c - b : q[i] = f[b + i]
    <3>1. f \in Seq(S) /\ b \in Nat /\ c \in 0..Len(f)
      BY <1>1
    <3> HIDE DEF p, t
    <3> QED BY <3>1, PartIs
  <2> HIDE DEF q
  <2> QED BY <2>1, <2>2
<1> HIDE DEF p, q
<1>4. t \in Seq(S) /\ Len(t) = c - a
      /\ \A i \in 1..c - a : t[i] = IF i <= b - a THEN p[i] ELSE q[i - (b - a)]
  <2>1. /\ t \in Seq(S) /\ Len(t) = Len(p) + Len(q)
        /\ \A i \in 1..Len(p) + Len(q) : t[i] = IF i <= Len(p) THEN p[i] ELSE q[i - Len(p)]
    BY <1>2, <1>3, ConcatProperties
  <2>2. Len(p) + Len(q) = c - a
    BY <1>1, <1>2, <1>3
  <2> HIDE DEF t
  <2> QED BY <1>2, <2>1, <2>2
<1> HIDE DEF t
<1>5. ASSUME NEW i \in 1..c - a PROVE t[i] = f[a + i]
  <2>1. CASE i <= b - a
    BY <1>2, <1>4, <2>1
  <2>2. CASE ~(i <= b - a)
    <3>1. i - (b - a) \in 1..c - b /\ b + (i - (b - a)) = a + i
      BY <2>2, <1>1
    <3> QED BY <1>3, <1>4, <2>2, <3>1
  <2> QED BY <2>1, <2>2
<1>6. t = Part(f, a, c)
  BY <1>1, <1>4, <1>5, IsPart
<1> QED BY <1>6 DEF t, p, q

\* The pieces of a file lie end to end.
LEMMA PieceEnds ==
  ASSUME NEW P, NEW at, NEW f, Laid(P, at, f)
  PROVE  /\ P \in Seq(FilePieces) /\ Len(P) \in Nat /\ at \in Nat /\ f \in Seq(FileBytes) /\ Len(f) = at
         /\ \A n \in 0..Len(P) :
               EndOfPiece(P, n) \in Nat /\ Header <= EndOfPiece(P, n) /\ EndOfPiece(P, n) <= at
         /\ EndOfPiece(P, 0) = Header /\ EndOfPiece(P, Len(P)) = at
         /\ \A n \in 1..Len(P) :
               /\ P[n] \in FilePieces
               /\ P[n].segment \in Nat /\ P[n].start \in Nat /\ P[n].length \in Nat \ {0}
               /\ P[n].start = EndOfPiece(P, n - 1)
               /\ EndOfPiece(P, n) = P[n].start + P[n].length
<1> USE SessionTimelineAssumption
<1>1. /\ P \in Seq(FilePieces) /\ Len(P) \in Nat /\ at \in Nat /\ f \in Seq(FileBytes) /\ Len(f) = at
      /\ EndOfPiece(P, Len(P)) = at
  BY DEF Laid
<1>2. EndOfPiece(P, 0) = Header /\ Header \in Nat
  BY DEF EndOfPiece
<1>3. ASSUME NEW n \in 1..Len(P)
      PROVE  /\ P[n] \in FilePieces
             /\ P[n].segment \in Nat /\ P[n].start \in Nat /\ P[n].length \in Nat \ {0}
             /\ P[n].start = EndOfPiece(P, n - 1)
             /\ EndOfPiece(P, n) = P[n].start + P[n].length
             /\ Header <= P[n].start /\ P[n].start + P[n].length <= at
  <2>1. P[n] \in FilePieces
    BY <1>1
  <2>2. P[n].segment \in Nat /\ P[n].start \in Nat /\ P[n].length \in Nat \ {0}
    BY <2>1 DEF FilePieces
  <2>3. EndOfPiece(P, n) = P[n].start + P[n].length
    BY DEF EndOfPiece
  <2>4. P[n].start = EndOfPiece(P, n - 1) /\ Header <= P[n].start /\ P[n].start + P[n].length <= at
    BY <1>2, <2>2 DEF Laid
  <2> QED BY <2>1, <2>2, <2>3, <2>4
<1>4. ASSUME NEW n \in 0..Len(P)
      PROVE  EndOfPiece(P, n) \in Nat /\ Header <= EndOfPiece(P, n) /\ EndOfPiece(P, n) <= at
  <2>1. CASE n # 0
    <3>1. n \in 1..Len(P)
      BY <2>1
    <3> DEFINE s == P[n].start
               l == P[n].length
    <3>2. s \in Nat /\ l \in Nat /\ Header <= s /\ s + l <= at /\ EndOfPiece(P, n) = s + l
      BY <1>3, <3>1
    <3> HIDE DEF s, l
    <3> QED BY <3>2, <1>2
  <2>2. CASE n = 0
    <3>1. CASE Len(P) = 0
      BY <1>1, <1>2, <2>2, <3>1
    <3>2. CASE Len(P) # 0
      <4>1. 1 \in 1..Len(P)
        BY <1>1, <3>2
      <4> DEFINE s == P[1].start
                 l == P[1].length
      <4>2. s \in Nat /\ l \in Nat /\ Header <= s /\ s + l <= at
        BY <1>3, <4>1
      <4> HIDE DEF s, l
      <4> QED BY <4>2, <1>1, <1>2, <2>2
    <3> QED BY <3>1, <3>2
  <2> QED BY <2>1, <2>2
<1> QED BY <1>1, <1>2, <1>3, <1>4

\* What a range of an object is read as.
SliceSet == [segment : Nat, from : Nat, to : Int]

ReadOf(s) == [i \in 1..s.to - s.from + 1 |-> <<s.segment, s.from + i - 1>>]

Contents(slices) == FlattenSeq([k \in DOMAIN slices |-> ReadOf(slices[k])])

\* What is read of a segment is its bytes from one place to another.
LEMMA ReadIsBytes ==
  ASSUME NEW s \in SliceSet
  PROVE  /\ ReadOf(s) \in Seq(FileBytes)
         /\ s.from <= s.to + 1 => Len(ReadOf(s)) = s.to - s.from + 1
         /\ \A i \in 1..s.to - s.from + 1 : ReadOf(s)[i] = <<s.segment, s.from + i - 1>>
<1> DEFINE n == s.to - s.from + 1
           m == IF n < 0 THEN 0 ELSE n
           r == [i \in 1..m |-> <<s.segment, s.from + i - 1>>]
<1>1. s.segment \in Nat /\ s.from \in Nat /\ s.to \in Int
  BY DEF SliceSet
<1>2. n \in Int /\ m \in Nat /\ 1..n = 1..m /\ (s.from <= s.to + 1 => m = n)
  BY <1>1
<1>3. ReadOf(s) = r
  BY <1>2 DEF ReadOf
<1>4. r \in [1..m -> FileBytes]
  <2> HIDE DEF m
  <2> QED BY <1>1, <1>2 DEF FileBytes
<1>5. r \in Seq(FileBytes) /\ Len(r) = m /\ \A i \in 1..m : r[i] = <<s.segment, s.from + i - 1>>
  <2> HIDE DEF m
  <2> QED BY <1>2, <1>4
<1> HIDE DEF r, m
<1> QED BY <1>2, <1>3, <1>5

LEMMA ContentsOfNone ==
  Contents(<<>>) = <<>>
<1>1. [k \in DOMAIN <<>> |-> ReadOf(<<>>[k])] = <<>>
  OBVIOUS
<1> QED BY <1>1, FlattenNone DEF Contents

LEMMA ContentsMore ==
  ASSUME NEW slices \in Seq(SliceSet), NEW s \in SliceSet
  PROVE  /\ Contents(Append(slices, s)) = Contents(slices) \o ReadOf(s)
         /\ Contents(slices) \in Seq(FileBytes)
<1> DEFINE n == Len(slices)
           more == Append(slices, s)
           ss == [k \in DOMAIN slices |-> ReadOf(slices[k])]
           tt == [k \in DOMAIN more |-> ReadOf(more[k])]
<1>1. n \in Nat /\ DOMAIN slices = 1..n
  OBVIOUS
<1>2. /\ DOMAIN more = 1..n + 1 /\ more[n + 1] = s /\ \A k \in 1..n : more[k] = slices[k]
      /\ \A k \in 1..n + 1 : more[k] \in SliceSet
  OBVIOUS
<1> HIDE DEF more
<1>3. ss \in [1..n -> Seq(FileBytes)]
  <2>1. \A k \in 1..n : slices[k] \in SliceSet
    OBVIOUS
  <2>2. \A k \in 1..n : ReadOf(slices[k]) \in Seq(FileBytes)
    BY <2>1, ReadIsBytes
  <2> QED BY <1>1, <2>2
<1>4. tt \in [1..n + 1 -> Seq(FileBytes)]
  <2>1. \A k \in 1..n + 1 : ReadOf(more[k]) \in Seq(FileBytes)
    BY <1>2, ReadIsBytes
  <2> QED BY <1>2, <2>1
<1>5. \A k \in 1..n : tt[k] = ss[k]
  BY <1>1, <1>2
<1>6. tt[n + 1] = ReadOf(s)
  BY <1>1, <1>2
<1> HIDE DEF ss, tt, n
<1>7. FlattenSeq(tt) = FlattenSeq(ss) \o tt[n + 1] /\ FlattenSeq(ss) \in Seq(FileBytes)
  BY <1>1, <1>3, <1>4, <1>5, FlattenMore
<1> QED BY <1>6, <1>7 DEF Contents, ss, tt, more

Sliced(x, p, from, to) ==
    IF p.start + p.length - 1 < from \/ p.start > to THEN x ELSE Append(x, Cut(p, from, to))

FirstSlices(from, to) ==
    IF from < Header
    THEN <<[segment |-> 0, from |-> from, to |-> Smaller(to, Header - 1)]>>
    ELSE <<>>

LEMMA CutIsSlice ==
  ASSUME NEW p \in FilePieces, NEW from \in Nat, NEW to \in Nat
  PROVE  Cut(p, from, to) \in SliceSet
<1>1. p.segment \in Nat /\ p.start \in Nat /\ p.length \in Nat /\ Header \in Nat
  BY SessionTimelineAssumption DEF FilePieces
<1>2. Header + Larger(from, p.start) - p.start \in Nat
  BY <1>1 DEF Larger
<1>3. Header + Smaller(to, p.start + p.length - 1) - p.start \in Int
  BY <1>1 DEF Smaller
<1> QED BY <1>1, <1>2, <1>3 DEF Cut, SliceSet

LEMMA SlicingSteps ==
  ASSUME NEW P \in Seq(FilePieces), NEW from \in Nat, NEW to \in Nat
  PROVE  /\ Slicing(P, from, to)[0] = FirstSlices(from, to)
         /\ \A n \in 1..Len(P) :
               Slicing(P, from, to)[n] = Sliced(Slicing(P, from, to)[n - 1], P[n], from, to)
         /\ \A n \in 0..Len(P) : Slicing(P, from, to)[n] \in Seq(SliceSet)
<1> DEFINE N == Len(P)
           S == Seq(SliceSet)
           none == FirstSlices(from, to)
           step == [n \in 1..N |-> [x \in S |-> Sliced(x, P[n], from, to)]]
           f == Slicing(P, from, to)
           Steps(h) == h = [n \in 0..N |-> IF n = 0 THEN none
                                           ELSE Sliced(h[n - 1], P[n], from, to)]
<1>0. none \in S
  <2>1. [segment |-> 0, from |-> from, to |-> Smaller(to, Header - 1)] \in SliceSet
    BY SessionTimelineAssumption DEF SliceSet, Smaller
  <2> QED BY <2>1, EmptySeq DEF FirstSlices
<1>1. \A n \in 1..N : \A x \in S : Sliced(x, P[n], from, to) \in S
  <2> SUFFICES ASSUME NEW n \in 1..N, NEW x \in S PROVE Sliced(x, P[n], from, to) \in S
    OBVIOUS
  <2>1. P[n] \in FilePieces
    OBVIOUS
  <2>2. Cut(P[n], from, to) \in SliceSet
    BY <2>1, CutIsSlice
  <2> QED BY <2>2 DEF Sliced
<1>2. PICK g : IsRun(g, N, S, none, step)
  <2>1. N \in Nat
    OBVIOUS
  <2>2. Rounds(N, S, step)
    BY <1>1 DEF Rounds
  <2> HIDE DEF step, N, S, none
  <2> QED BY <1>0, <2>1, <2>2, Loop
<1> HIDE DEF none
<1>3. g \in [0..N -> S] /\ g[0] = none /\ \A n \in 1..N : g[n] = Sliced(g[n - 1], P[n], from, to)
  BY <1>2 DEF IsRun
<1>4. Steps(g)
  BY <1>3
<1>5. Steps(f)
  <2>1. \E h : Steps(h)
    <3> HIDE DEF Steps
    <3> QED BY <1>4
  <2> QED BY <2>1 DEF Slicing, Sliced, FirstSlices, none
<1>6. f[0] = none /\ \A n \in 1..N : f[n] = Sliced(f[n - 1], P[n], from, to)
  <2> HIDE DEF f
  <2> QED BY <1>5
<1> HIDE DEF f
<1> DEFINE Typed == {n \in 0..N : f[n] \in S}
<1>7. 0 \in Typed /\ \A n \in 1..N : n - 1 \in Typed => n \in Typed
  <2> HIDE DEF S
  <2> QED BY <1>0, <1>1, <1>6
<1> HIDE DEF Typed
<1>8. 0..N \subseteq Typed
  <2>1. N \in Nat
    OBVIOUS
  <2> HIDE DEF N
  <2> QED BY <2>1, <1>7, UpTo
<1>9. \A n \in 0..N : f[n] \in S
  BY <1>8 DEF Typed
<1> QED BY <1>6, <1>9 DEF none, f

\* A piece that is in the range is read where the range meets it.
LEMMA CutIsRead ==
  ASSUME NEW P, NEW at, NEW f, Laid(P, at, f), NEW n \in 1..Len(P),
         NEW from \in Nat, NEW to \in Nat, from <= to,
         ~(P[n].start + P[n].length - 1 < from), ~(P[n].start > to)
  PROVE  ReadOf(Cut(P[n], from, to))
           = Part(f, Larger(from, P[n].start), Smaller(to + 1, EndOfPiece(P, n)))
<1> DEFINE start == P[n].start
           length == P[n].length
           k == P[n].segment
           a == Larger(from, start)
           b == Smaller(to + 1, EndOfPiece(P, n))
           s == Cut(P[n], from, to)
           r == ReadOf(s)
<1>1. /\ P[n] \in FilePieces /\ k \in Nat /\ start \in Nat /\ length \in Nat \ {0}
      /\ EndOfPiece(P, n) = start + length /\ EndOfPiece(P, n) <= at
      /\ at \in Nat /\ f \in Seq(FileBytes) /\ Len(f) = at
      /\ \A j \in 1..length : f[start + j] = <<k, Header + j - 1>>
  <2>1. n \in 0..Len(P) /\ n \in 1..Len(P)
    BY PieceEnds
  <2>2. \A j \in 1..length : f[start + j] = <<k, Header + j - 1>>
    BY DEF Laid
  <2> QED BY <2>1, <2>2, PieceEnds
<1>2. Header \in Nat
  BY SessionTimelineAssumption
<1>3. s = [segment |-> k, from |-> Header + a - start,
           to |-> Header + Smaller(to, start + length - 1) - start]
  BY DEF Cut
<1>4. from <= start + length - 1 /\ start <= to
  BY <1>1
<1> HIDE DEF start, length, k
<1>5. a \in Nat /\ start <= a /\ a < b /\ b <= at /\ b \in Nat /\ b <= start + length
      /\ Smaller(to, start + length - 1) = b - 1
  BY <1>1, <1>4 DEF Larger, Smaller
<1>6. s \in SliceSet
  BY <1>1, CutIsSlice
<1>7. s.segment = k /\ s.from = Header + a - start /\ s.to = Header + (b - 1) - start
  BY <1>3, <1>5
<1> HIDE DEF a, b, s
<1>8. s.to - s.from + 1 = b - a /\ s.from <= s.to + 1
  <2>1. start \in Nat /\ a \in Nat /\ b \in Nat /\ a < b
    BY <1>1, <1>5
  <2> QED BY <1>2, <1>7, <2>1
<1>9. r \in Seq(FileBytes) /\ Len(r) = b - a
      /\ \A i \in 1..b - a : r[i] = <<k, Header + a - start + i - 1>>
  <2>1. r \in Seq(FileBytes)
    BY <1>6, ReadIsBytes
  <2>2. Len(r) = s.to - s.from + 1
    BY <1>6, <1>8, ReadIsBytes
  <2>3. \A i \in 1..s.to - s.from + 1 : r[i] = <<s.segment, s.from + i - 1>>
    BY <1>6, ReadIsBytes
  <2> HIDE DEF r
  <2> QED BY <1>7, <1>8, <2>1, <2>2, <2>3
<1> HIDE DEF r
<1>10. ASSUME NEW i \in 1..b - a PROVE r[i] = f[a + i]
  <2> DEFINE j == a - start + i
  <2>1. j \in 1..length /\ start + j = a + i /\ Header + a - start + i - 1 = Header + j - 1
    BY <1>1, <1>2, <1>5
  <2> HIDE DEF j
  <2> QED BY <1>1, <1>9, <2>1
<1>11. b \in a..Len(f)
  BY <1>1, <1>5
<1>12. r = Part(f, a, b)
  BY <1>1, <1>5, <1>9, <1>10, <1>11, IsPart
<1> QED BY <1>12 DEF r, s, a, b, start

\* After n pieces, what was read is what the range has of the file up to there.
LEMMA SlicesAreRead ==
  ASSUME NEW P, NEW at, NEW f, Laid(P, at, f),
         NEW from \in Nat, NEW to \in Nat, from <= to, to < at
  PROVE  Contents(Slicing(P, from, to)[Len(P)]) = Part(f, from, to + 1)
<1> DEFINE N == Len(P)
           R == Slicing(P, from, to)
           E(n) == EndOfPiece(P, n)
           Held(n) == Contents(R[n]) = Part(f, from, Smaller(to + 1, E(n)))
           Good == {n \in 0..N : Held(n)}
<1>1. /\ P \in Seq(FilePieces) /\ N \in Nat /\ at \in Nat /\ f \in Seq(FileBytes) /\ Len(f) = at
      /\ \A n \in 0..N : E(n) \in Nat /\ E(n) <= at
      /\ E(0) = Header /\ E(N) = at /\ Header \in Nat /\ Header <= at
  <2>1. /\ P \in Seq(FilePieces) /\ N \in Nat /\ at \in Nat /\ f \in Seq(FileBytes) /\ Len(f) = at
        /\ E(0) = Header /\ E(N) = at
    BY PieceEnds
  <2>2. \A n \in 0..N : E(n) \in Nat /\ Header <= E(n) /\ E(n) <= at
    BY PieceEnds
  <2>3. 0 \in 0..N
    BY <2>1
  <2>4. Header <= at
    BY <2>1, <2>2, <2>3
  <2> HIDE DEF N, E
  <2> QED BY <2>1, <2>2, <2>4, SessionTimelineAssumption
<1>2. /\ R[0] = FirstSlices(from, to)
      /\ \A n \in 1..N : R[n] = Sliced(R[n - 1], P[n], from, to)
      /\ \A n \in 0..N : R[n] \in Seq(SliceSet)
  BY <1>1, SlicingSteps
<1> HIDE DEF N, R
<1>3. Held(0)
  <2> DEFINE s == [segment |-> 0, from |-> from, to |-> Smaller(to, Header - 1)]
             b == Smaller(to + 1, Header)
  <2>1. CASE from < Header
    <3>1. s \in SliceSet /\ s.segment = 0 /\ s.from = from /\ s.to = b - 1
      BY <1>1 DEF SliceSet, Smaller
    <3>2. R[0] = Append(<<>>, s)
      BY <1>2, <2>1 DEF FirstSlices
    <3>3. b \in from..Len(f) /\ b \in Nat /\ b <= Header /\ from <= b
      BY <1>1, <2>1 DEF Smaller
    <3> HIDE DEF s, b
    <3>4. <<>> \in Seq(SliceSet)
      OBVIOUS
    <3>5. Contents(R[0]) = Contents(<<>>) \o ReadOf(s)
      BY <3>1, <3>2, <3>4, ContentsMore
    <3>6. ReadOf(s) \in Seq(FileBytes) /\ Len(ReadOf(s)) = b - from
          /\ \A i \in 1..b - from : ReadOf(s)[i] = <<0, from + i - 1>>
      <4>1. s.from <= s.to + 1 /\ s.to - s.from + 1 = b - from
        BY <3>1, <3>3
      <4> QED BY <3>1, <4>1, ReadIsBytes
    <3>7. Contents(R[0]) = ReadOf(s)
      BY <3>5, <3>6, ContentsOfNone, ConcatEmptySeq
    <3>8. ASSUME NEW i \in 1..b - from PROVE ReadOf(s)[i] = f[from + i]
      <4>1. from + i \in 1..Header
        BY <3>3, <1>1
      <4>2. f[from + i] = <<0, (from + i) - 1>>
        BY <4>1 DEF Laid
      <4> QED BY <3>6, <4>2
    <3>9. ReadOf(s) = Part(f, from, b)
      BY <1>1, <3>3, <3>6, <3>8, IsPart
    <3> QED BY <3>7, <3>9, <1>1 DEF b
  <2>2. CASE ~(from < Header)
    <3>1. R[0] = <<>>
      BY <1>2, <2>2 DEF FirstSlices
    <3>2. b <= from /\ b \in 0..Len(f)
      BY <1>1, <2>2 DEF Smaller
    <3> HIDE DEF b
    <3>3. Part(f, from, b) = <<>>
      BY <1>1, <3>2, PartIs
    <3> QED BY <3>1, <3>3, <1>1, ContentsOfNone DEF b
  <2> QED BY <2>1, <2>2
<1>4. ASSUME NEW n \in 1..N, Held(n - 1) PROVE Held(n)
  <2> DEFINE p == P[n]
             s == Cut(p, from, to)
  <2>1. /\ p \in FilePieces /\ p.start \in Nat /\ p.length \in Nat \ {0}
        /\ p.start = E(n - 1) /\ E(n) = p.start + p.length /\ E(n) <= at
    <3>1. n \in 1..Len(P) /\ n \in 0..N
      BY DEF N
    <3> QED BY <1>1, <3>1, PieceEnds
  <2>2. R[n] = Sliced(R[n - 1], p, from, to) /\ R[n - 1] \in Seq(SliceSet)
    BY <1>1, <1>2
  <2>3. Contents(R[n - 1]) = Part(f, from, Smaller(to + 1, p.start))
    BY <1>4, <2>1
  <2> DEFINE start == p.start
             end == E(n)
             miss == start + p.length - 1 < from \/ start > to
  <2>4. start \in Nat /\ end \in Nat /\ start < end /\ end <= at /\ (miss <=> end <= from \/ to < start)
    <3> DEFINE l == p.length
    <3>1. start \in Nat /\ l \in Nat \ {0} /\ end = start + l /\ end <= at
               /\ (miss <=> start + l - 1 < from \/ start > to)
      BY <2>1
    <3> HIDE DEF l, start, end, miss
    <3> QED BY <3>1
  <2>5. R[n] = IF miss THEN R[n - 1] ELSE Append(R[n - 1], s)
    BY <2>2 DEF Sliced
  <2>6. Contents(R[n - 1]) = Part(f, from, Smaller(to + 1, start)) /\ E(n) = end
    BY <2>3
  <2>7. CASE miss
    <3> HIDE DEF start, end, miss
    <3>1. R[n] = R[n - 1]
      BY <2>5, <2>7
    <3>2. CASE to < start
      <4>1. Smaller(to + 1, start) = to + 1 /\ Smaller(to + 1, end) = to + 1
        BY <2>4, <3>2 DEF Smaller
      <4> QED BY <3>1, <2>6, <4>1
    <3>3. CASE end <= from
      <4> DEFINE x == Smaller(to + 1, start)
                 y == Smaller(to + 1, end)
      <4>1. x \in 0..Len(f) /\ y \in 0..Len(f) /\ x <= from /\ y <= from
        BY <1>1, <2>4, <3>3 DEF Smaller
      <4> HIDE DEF x, y
      <4>2. Part(f, from, x) = <<>> /\ Part(f, from, y) = <<>>
        BY <1>1, <4>1, PartIs
      <4> QED BY <3>1, <2>6, <4>2 DEF x, y
    <3> QED BY <2>4, <2>7, <3>2, <3>3
  <2>8. CASE ~miss
    <3> DEFINE a == Larger(from, start)
               b == Smaller(to + 1, end)
    <3>1. s \in SliceSet
      BY <2>1, CutIsSlice
    <3>2. ReadOf(s) = Part(f, a, b)
      <4>1. n \in 1..Len(P) /\ ~(P[n].start + P[n].length - 1 < from) /\ ~(P[n].start > to)
        BY <2>8 DEF N
      <4> HIDE DEF s
      <4> QED BY <4>1, CutIsRead DEF s
    <3>3. Contents(R[n]) = Contents(R[n - 1]) \o ReadOf(s)
      <4>1. R[n] = Append(R[n - 1], s)
        BY <2>5, <2>8
      <4> HIDE DEF s
      <4> QED BY <4>1, <2>2, <3>1, ContentsMore
    <3> HIDE DEF start, end, miss, s
    <3>4. start <= to /\ from < end
      BY <2>4, <2>8
    <3>5. a \in from..Len(f) /\ b \in a..Len(f) /\ Smaller(to + 1, start) = start /\ a \in 0..Len(f)
      BY <1>1, <2>4, <3>4 DEF Larger, Smaller
    <3>6. Part(f, from, start) = Part(f, from, a)
      <4>1. CASE from <= start
        <5>1. a = start
          BY <2>4, <4>1 DEF Larger
        <5> QED BY <5>1
      <4>2. CASE ~(from <= start)
        <5>1. a = from /\ start \in 0..Len(f) /\ from \in 0..Len(f)
          BY <1>1, <2>4, <3>4, <4>2 DEF Larger
        <5>2. Part(f, from, start) = <<>> /\ Part(f, from, from) = <<>>
          <6>1. start <= from /\ from <= from
            BY <2>4, <4>2
          <6>2. Part(f, from, start) = <<>>
            BY <1>1, <5>1, <6>1, PartIs
          <6>3. Part(f, from, from) = <<>>
            BY <1>1, <5>1, <6>1, PartIs
          <6> QED BY <6>2, <6>3
        <5> QED BY <5>1, <5>2
      <4> QED BY <4>1, <4>2
    <3> HIDE DEF a, b
    <3>7. Part(f, from, a) \o Part(f, a, b) = Part(f, from, b)
      BY <1>1, <3>5, PartsJoin
    <3> QED BY <2>6, <3>2, <3>3, <3>5, <3>6, <3>7 DEF b
  <2> QED BY <2>7, <2>8
<1>5. 0 \in Good /\ \A n \in 1..N : n - 1 \in Good => n \in Good
  <2> HIDE DEF Held
  <2> QED BY <1>1, <1>3, <1>4
<1> HIDE DEF Good
<1>6. 0..N \subseteq Good
  BY <1>1, <1>5, UpTo
<1>7. Held(N)
  <2> HIDE DEF Held
  <2> QED BY <1>1, <1>6 DEF Good
<1>8. Smaller(to + 1, E(N)) = to + 1
  BY <1>1 DEF Smaller
<1> QED BY <1>7, <1>8 DEF N, R

\* A byte range is read from the right bytes of the right objects.
LEMMA RangesAreExact ==
  ASSUME NEW N \in Nat, NEW sizes \in [1..N -> Nat],
         NEW from \in Nat, NEW to \in Nat, from <= to, to < Size(sizes)
  PROVE  SlicesAreExact(sizes, from, to)
<1> DEFINE P == Plan(sizes).pieces
           at == Size(sizes)
           f == Bytes(sizes)
<1>1. Laid(P, at, f)
  BY PlanIsLaid
<1>2. Slices(sizes, from, to) = Slicing(P, from, to)[Len(P)]
  BY DEF Slices
<1> HIDE DEF P, at, f
<1>3. Contents(Slices(sizes, from, to)) = Part(f, from, to + 1)
  BY <1>1, <1>2, SlicesAreRead DEF at
<1> QED BY <1>3 DEF SlicesAreExact, Contents, ReadOf, Part, f

WindowSet == [at : Nat, bytes : Seq(FileBytes)]
Readings == [buffer : Seq(FileBytes), out : Seq(WindowSet)]

\* The windows a buffer fills, behind those that are out.
Filled(out, buffer, window, bytes) ==
    [k \in 1..(Len(buffer) \div bytes) |->
        [at    |-> (Len(out) + k - 1) * window,
         bytes |-> SubSeq(buffer, (k - 1) * bytes + 1, k * bytes)]]

LeftOver(buffer, bytes) == SubSeq(buffer, (Len(buffer) \div bytes) * bytes + 1, Len(buffer))

\* A piece more is read: its whole windows are given out, the bytes left over wait.
ReadOn(x, p, window, bytes) ==
    LET buffer == x.buffer \o Blob(p)
    IN  [buffer |-> LeftOver(buffer, bytes),
         out |-> x.out \o Filled(x.out, buffer, window, bytes)]

LEMMA BlobIsStretch ==
  ASSUME NEW p \in FilePieces
  PROVE  /\ Blob(p) = Stretch(p.segment, p.length)
         /\ Blob(p) \in Seq(FileBytes)
<1>1. p.segment \in Nat /\ p.length \in Nat
  BY DEF FilePieces
<1>2. Blob(p) = Stretch(p.segment, p.length)
  BY DEF Blob, Stretch
<1> QED BY <1>1, <1>2, StretchIsBytes

LEMMA SubSeqIsSeq ==
  ASSUME NEW S, NEW s \in Seq(S), NEW i \in Nat, NEW j \in 0..Len(s)
  PROVE  SubSeq(s, i + 1, j) \in Seq(S)
<1>1. \A n \in i + 1..j : s[n] \in S
  OBVIOUS
<1>2. i + 1 \in Int /\ j \in Int
  OBVIOUS
<1> QED BY <1>1, <1>2, SubSeqProperties

LEMMA FilledAreWindows ==
  ASSUME NEW out \in Seq(WindowSet), NEW buffer \in Seq(FileBytes), NEW window \in Nat,
         NEW bytes \in Nat \ {0}
  PROVE  /\ LeftOver(buffer, bytes) \in Seq(FileBytes)
         /\ Filled(out, buffer, window, bytes) \in Seq(WindowSet)
         /\ Len(Filled(out, buffer, window, bytes)) = Len(buffer) \div bytes
         /\ Len(buffer) \div bytes \in Nat
<1> DEFINE full == Len(buffer) \div bytes
           w == Filled(out, buffer, window, bytes)
           n == Len(buffer)
<1>1. n \in Nat /\ full \in Nat /\ full * bytes \in Nat /\ full * bytes <= n
  <2>1. n \in Nat
    OBVIOUS
  <2> HIDE DEF n
  <2> QED BY <2>1, Quotient, Times DEF n
<1> HIDE DEF full
<1>2. LeftOver(buffer, bytes) \in Seq(FileBytes)
  <2>1. SubSeq(buffer, full * bytes + 1, n) \in Seq(FileBytes)
    <3>1. n \in 0..Len(buffer)
      BY <1>1
    <3> HIDE DEF n
    <3> QED BY <1>1, <3>1, SubSeqIsSeq
  <2> QED BY <2>1 DEF LeftOver, full
<1>3. \A k \in 1..full :
         [at |-> (Len(out) + k - 1) * window,
          bytes |-> SubSeq(buffer, (k - 1) * bytes + 1, k * bytes)] \in WindowSet
  <2> SUFFICES ASSUME NEW k \in 1..full
               PROVE  /\ (Len(out) + k - 1) * window \in Nat
                      /\ SubSeq(buffer, (k - 1) * bytes + 1, k * bytes) \in Seq(FileBytes)
    BY DEF WindowSet
  <2>1. k - 1 \in Nat /\ k \in Nat /\ k <= full /\ Len(out) + k - 1 \in Nat
    BY <1>1
  <2>2. (k - 1) * bytes \in Nat /\ k * bytes \in Nat /\ k * bytes <= full * bytes
    BY <1>1, <2>1, Times
  <2>3. k * bytes \in 0..Len(buffer)
    BY <1>1, <2>2
  <2>4. SubSeq(buffer, (k - 1) * bytes + 1, k * bytes) \in Seq(FileBytes)
    BY <2>2, <2>3, SubSeqIsSeq
  <2> QED BY <2>1, <2>4, Times
<1>4. w = [k \in 1..full |-> [at |-> (Len(out) + k - 1) * window,
                              bytes |-> SubSeq(buffer, (k - 1) * bytes + 1, k * bytes)]]
  BY DEF Filled, full
<1>5. w \in [1..full -> WindowSet]
  <2> HIDE DEF w
  <2> QED BY <1>3, <1>4
<1> HIDE DEF w
<1>6. w \in Seq(WindowSet) /\ Len(w) = full
  BY <1>1, <1>5
<1> QED BY <1>1, <1>2, <1>6 DEF w, full

LEMMA ReadOnIsReading ==
  ASSUME NEW x \in Readings, NEW p \in FilePieces, NEW window \in Nat, NEW bytes \in Nat \ {0}
  PROVE  ReadOn(x, p, window, bytes) \in Readings
<1> DEFINE buffer == x.buffer \o Blob(p)
           rest == LeftOver(buffer, bytes)
           full == Filled(x.out, buffer, window, bytes)
           more == x.out \o full
<1>1. x.buffer \in Seq(FileBytes) /\ x.out \in Seq(WindowSet)
  BY DEF Readings
<1>2. Blob(p) \in Seq(FileBytes)
  BY BlobIsStretch
<1>3. buffer \in Seq(FileBytes)
  BY <1>1, <1>2, ConcatProperties
<1> HIDE DEF buffer
<1>4. rest \in Seq(FileBytes) /\ full \in Seq(WindowSet)
  BY <1>1, <1>3, FilledAreWindows
<1> HIDE DEF full
<1>5. more \in Seq(WindowSet)
  BY <1>1, <1>4, ConcatProperties
<1>6. ReadOn(x, p, window, bytes) = [buffer |-> rest, out |-> more]
  BY DEF ReadOn, buffer, full
<1> HIDE DEF rest, more
<1> QED BY <1>4, <1>5, <1>6 DEF Readings

LEMMA ReadingSteps ==
  ASSUME NEW P \in Seq(FilePieces), NEW window \in Nat, NEW bytes \in Nat \ {0}
  PROVE  /\ Reading(P, window, bytes)[0] = [buffer |-> <<>>, out |-> <<>>]
         /\ \A n \in 1..Len(P) : Reading(P, window, bytes)[n]
                = ReadOn(Reading(P, window, bytes)[n - 1], P[n], window, bytes)
         /\ \A n \in 0..Len(P) : Reading(P, window, bytes)[n] \in Readings
<1> DEFINE N == Len(P)
           S == Readings
           none == [buffer |-> <<>>, out |-> <<>>]
           step == [n \in 1..N |-> [x \in S |-> ReadOn(x, P[n], window, bytes)]]
           f == Reading(P, window, bytes)
           Steps(h) == h = [n \in 0..N |-> IF n = 0 THEN none
                                           ELSE ReadOn(h[n - 1], P[n], window, bytes)]
<1>0. none \in S
  <2>1. <<>> \in Seq(FileBytes) /\ <<>> \in Seq(WindowSet)
    BY EmptySeq
  <2> QED BY <2>1 DEF Readings
<1>1. \A n \in 1..N : \A x \in S : ReadOn(x, P[n], window, bytes) \in S
  <2> SUFFICES ASSUME NEW n \in 1..N, NEW x \in S PROVE ReadOn(x, P[n], window, bytes) \in S
    OBVIOUS
  <2>1. P[n] \in FilePieces
    OBVIOUS
  <2> QED BY <2>1, ReadOnIsReading
<1>2. PICK g : IsRun(g, N, S, none, step)
  <2>1. N \in Nat
    OBVIOUS
  <2>2. Rounds(N, S, step)
    BY <1>1 DEF Rounds
  <2> HIDE DEF step, N, S, none
  <2> QED BY <1>0, <2>1, <2>2, Loop
<1> HIDE DEF none
<1>3. g \in [0..N -> S] /\ g[0] = none /\ \A n \in 1..N : g[n] = ReadOn(g[n - 1], P[n], window, bytes)
  BY <1>2 DEF IsRun
<1>4. Steps(g)
  BY <1>3
<1>5. Steps(f)
  <2>1. \E h : Steps(h)
    <3> HIDE DEF Steps
    <3> QED BY <1>4
  <2> QED BY <2>1 DEF Reading, ReadOn, Filled, LeftOver, none
<1>6. f[0] = none /\ \A n \in 1..N : f[n] = ReadOn(f[n - 1], P[n], window, bytes)
  <2> HIDE DEF f
  <2> QED BY <1>5
<1> HIDE DEF f
<1> DEFINE Typed == {n \in 0..N : f[n] \in S}
<1>7. 0 \in Typed /\ \A n \in 1..N : n - 1 \in Typed => n \in Typed
  <2> HIDE DEF S
  <2> QED BY <1>0, <1>1, <1>6
<1> HIDE DEF Typed
<1>8. 0..N \subseteq Typed
  <2>1. N \in Nat
    OBVIOUS
  <2> HIDE DEF N
  <2> QED BY <2>1, <1>7, UpTo
<1>9. \A n \in 0..N : f[n] \in S
  BY <1>8 DEF Typed
<1> QED BY <1>6, <1>9 DEF none, f

\* A part of a part is a part.
LEMMA PartOfPart ==
  ASSUME NEW S, NEW f \in Seq(S), NEW a \in Nat, NEW c \in a..Len(f), NEW i \in Nat,
         NEW j \in i..c - a
  PROVE  Part(Part(f, a, c), i, j) = Part(f, a + i, a + j)
<1> DEFINE p == Part(f, a, c)
           t == Part(p, i, j)
<1>1. /\ c \in 0..Len(f) /\ c - a \in Nat /\ j \in Nat /\ i <= j /\ j <= c - a
      /\ a + i \in Nat /\ a + j \in a + i..Len(f) /\ (a + j) - (a + i) = j - i /\ j - i \in Nat
  OBVIOUS
<1>2. p \in Seq(S) /\ Len(p) = c - a /\ \A m \in 1..c - a : p[m] = f[a + m]
  <2>1. p \in Seq(S) /\ Len(p) = (IF a < c THEN c - a ELSE 0) /\ \A m \in 1..c - a : p[m] = f[a + m]
    BY <1>1, PartIs
  <2> HIDE DEF p
  <2> QED BY <1>1, <2>1
<1> HIDE DEF p
<1>3. t \in Seq(S) /\ Len(t) = j - i /\ \A m \in 1..j - i : t[m] = p[i + m]
  <2>1. j \in 0..Len(p)
    BY <1>1, <1>2
  <2>2. t \in Seq(S) /\ Len(t) = (IF i < j THEN j - i ELSE 0) /\ \A m \in 1..j - i : t[m] = p[i + m]
    BY <1>2, <2>1, PartIs
  <2> HIDE DEF t
  <2> QED BY <1>1, <2>2
<1> HIDE DEF t
<1>5. ASSUME NEW m \in 1..j - i PROVE t[m] = f[(a + i) + m]
  <2>1. i + m \in 1..c - a /\ a + (i + m) = (a + i) + m
    BY <1>1
  <2> QED BY <1>2, <1>3, <2>1
<1> DEFINE u == a + i
           v == a + j
<1>6. u \in Nat /\ v \in u..Len(f) /\ v - u = j - i /\ \A m \in 1..v - u : t[m] = f[u + m]
  BY <1>1, <1>5
<1> HIDE DEF u, v
<1>7. t = Part(f, u, v)
  <2>1. t \in Seq(S) /\ Len(t) = v - u
    BY <1>3, <1>6
  <2> QED BY <1>6, <2>1, IsPart
<1> QED BY <1>7 DEF t, p, u, v

WindowAt(f, k, window, bytes) ==
    [at |-> (k - 1) * window, bytes |-> Part(f, Header + (k - 1) * bytes, Header + k * bytes)]

\* What was read up to the byte e of the file f: whole windows, and a rest.
ReadsTo(x, e, f, window, bytes) ==
    /\ x \in Readings
    /\ f \in Seq(FileBytes) /\ e \in Header..Len(f)
    /\ Header + Len(x.out) * bytes <= e /\ e < Header + Len(x.out) * bytes + bytes
    /\ x.buffer = Part(f, Header + Len(x.out) * bytes, e)
    /\ \A k \in 1..Len(x.out) : x.out[k] = WindowAt(f, k, window, bytes)

LEMMA ReadsFurther ==
  ASSUME NEW x, NEW e, NEW f, NEW window \in Nat, NEW bytes \in Nat \ {0},
         ReadsTo(x, e, f, window, bytes), NEW p \in FilePieces, NEW d \in e..Len(f),
         Blob(p) = Part(f, e, d)
  PROVE  ReadsTo(ReadOn(x, p, window, bytes), d, f, window, bytes)
<1> DEFINE m == Len(x.out)
           s == Header + m * bytes
           buffer == x.buffer \o Blob(p)
           full == Len(buffer) \div bytes
           w == Filled(x.out, buffer, window, bytes)
           y == ReadOn(x, p, window, bytes)
<1>1. /\ x \in Readings /\ x.buffer \in Seq(FileBytes) /\ x.out \in Seq(WindowSet) /\ m \in Nat
      /\ f \in Seq(FileBytes) /\ Len(f) \in Nat
  BY DEF ReadsTo, Readings
<1>2. Header \in Nat /\ m * bytes \in Nat /\ s \in Nat /\ e \in Nat /\ s <= e /\ e < s + bytes /\ d \in Nat
      /\ e <= d /\ d <= Len(f) /\ e <= Len(f) /\ Header <= e
  <2>1. Header \in Nat
    BY SessionTimelineAssumption
  <2>2. m * bytes \in Nat
    BY <1>1, Times
  <2>3. s <= e /\ e < s + bytes /\ e \in Header..Len(f)
    BY DEF ReadsTo
  <2> HIDE DEF m
  <2> QED BY <1>1, <2>1, <2>2, <2>3
<1>3. buffer = Part(f, s, d)
  <2>1. x.buffer = Part(f, s, e)
    BY DEF ReadsTo
  <2> HIDE DEF s
  <2>2. e \in s..Len(f)
    BY <1>1, <1>2
  <2>3. Part(f, s, e) \o Part(f, e, d) = Part(f, s, d)
    BY <1>1, <1>2, <2>2, PartsJoin
  <2> QED BY <2>1, <2>3
<1>4. buffer \in Seq(FileBytes) /\ Len(buffer) = d - s /\ d - s \in Nat
  <2> HIDE DEF s, buffer
  <2>1. d \in 0..Len(f) /\ s <= d
    BY <1>1, <1>2
  <2>2. buffer \in Seq(FileBytes) /\ Len(buffer) = (IF s < d THEN d - s ELSE 0)
    BY <1>1, <1>2, <1>3, <2>1, PartIs
  <2> QED BY <1>2, <2>1, <2>2
<1> HIDE DEF s, buffer
<1>5. full \in Nat /\ full * bytes \in Nat /\ full * bytes <= d - s /\ d - s < full * bytes + bytes
  BY <1>4, Quotient, Times
<1>6. /\ LeftOver(buffer, bytes) \in Seq(FileBytes)
      /\ w \in Seq(WindowSet) /\ Len(w) = full
  <2> DEFINE o == x.out
  <2>1. o \in Seq(WindowSet)
    BY <1>1
  <2> HIDE DEF o
  <2>2. /\ LeftOver(buffer, bytes) \in Seq(FileBytes)
        /\ Filled(o, buffer, window, bytes) \in Seq(WindowSet)
        /\ Len(Filled(o, buffer, window, bytes)) = Len(buffer) \div bytes
    BY <1>4, <2>1, FilledAreWindows
  <2> QED BY <2>2 DEF o
<1>7. y.buffer = LeftOver(buffer, bytes) /\ y.out = x.out \o w /\ y \in Readings
  <2>1. y \in Readings
    BY <1>1, ReadOnIsReading
  <2>2. y = [buffer |-> LeftOver(buffer, bytes), out |-> x.out \o w]
    BY DEF ReadOn, buffer
  <2> HIDE DEF y, w
  <2> QED BY <2>1, <2>2
<1>8. \A k \in 1..full : w[k] = [at |-> (m + k - 1) * window,
                                 bytes |-> SubSeq(buffer, (k - 1) * bytes + 1, k * bytes)]
  BY DEF Filled
<1>9. LeftOver(buffer, bytes) = SubSeq(buffer, full * bytes + 1, d - s)
  BY <1>4 DEF LeftOver
<1> HIDE DEF w, y, full
<1>10. Len(y.out) = m + full
       /\ \A k \in 1..m + full : y.out[k] = IF k <= m THEN x.out[k] ELSE w[k - m]
  <2> DEFINE o == x.out
  <2>1. o \in Seq(WindowSet) /\ Len(o) = m
    BY <1>1
  <2> HIDE DEF o, m
  <2>2. Len(o \o w) = Len(o) + Len(w)
        /\ \A k \in 1..Len(o) + Len(w) : (o \o w)[k] = IF k <= Len(o) THEN o[k] ELSE w[k - Len(o)]
    BY <1>6, <2>1, ConcatProperties
  <2>3. y.out = o \o w
    BY <1>7 DEF o
  <2>4. Len(y.out) = m + full
        /\ \A k \in 1..m + full : y.out[k] = IF k <= m THEN o[k] ELSE w[k - m]
    BY <1>6, <2>1, <2>2, <2>3
  <2> QED BY <2>4 DEF o
<1>11. (m + full) * bytes = m * bytes + full * bytes
  <2> HIDE DEF m
  <2> QED BY <1>1, <1>5
<1> DEFINE r == Header + (m + full) * bytes
<1>12. r = s + full * bytes /\ r \in Nat /\ r <= d /\ d < r + bytes
  <2>1. s = Header + m * bytes
    BY DEF s
  <2> DEFINE a == m * bytes
             b == full * bytes
             c == (m + full) * bytes
  <2>2. a \in Nat /\ b \in Nat /\ c = a + b /\ s = Header + a /\ b <= d - s /\ d - s < b + bytes
    BY <1>2, <1>5, <1>11, <2>1
  <2>3. r = Header + c
    OBVIOUS
  <2> HIDE DEF a, b, c, r
  <2>4. r = s + b /\ r \in Nat /\ r <= d /\ d < r + bytes
    BY <1>2, <2>2, <2>3
  <2> QED BY <2>4 DEF b
<1>13. y.buffer = Part(f, r, d)
  <2> DEFINE i == full * bytes
             j == d - s
  <2>1. i \in Nat /\ j \in i..d - s /\ d \in s..Len(f) /\ s + i = r /\ s + j = d
    BY <1>1, <1>2, <1>5, <1>12
  <2>2. y.buffer = Part(Part(f, s, d), i, j)
    BY <1>3, <1>7, <1>9 DEF Part
  <2> HIDE DEF i, j, r
  <2>3. Part(Part(f, s, d), i, j) = Part(f, s + i, s + j)
    BY <1>1, <1>2, <2>1, PartOfPart
  <2> QED BY <2>1, <2>2, <2>3
<1>14. ASSUME NEW k \in 1..m + full PROVE y.out[k] = WindowAt(f, k, window, bytes)
  <2>1. CASE k <= m
    <3>1. k \in 1..Len(x.out)
      BY <1>1, <2>1
    <3>2. x.out[k] = WindowAt(f, k, window, bytes)
      BY <3>1 DEF ReadsTo
    <3> QED BY <1>10, <2>1, <3>2
  <2>2. CASE ~(k <= m)
    <3> DEFINE h == k - m
    <3>1. h \in 1..full /\ h \in Nat /\ h - 1 \in Nat /\ m + h - 1 = k - 1 /\ k = m + h
      <4> HIDE DEF m
      <4> QED BY <1>1, <1>5, <2>2
    <3>2. y.out[k] = w[h]
      BY <1>10, <2>2
    <3> DEFINE i == (h - 1) * bytes
               j == h * bytes
    <3>3. w[h] = [at |-> (k - 1) * window, bytes |-> SubSeq(buffer, i + 1, j)]
      BY <1>8, <3>1
    <3> HIDE DEF h
    <3>4. i \in Nat /\ j \in Nat /\ j <= full * bytes /\ j = i + bytes
      <4>1. h <= full
        BY <3>1, <1>5
      <4>2. i \in Nat /\ j \in Nat /\ (h <= full => h * bytes <= full * bytes)
        BY <3>1, <1>5, Times
      <4>3. j = i + bytes
        BY <3>1
      <4> QED BY <4>1, <4>2, <4>3
    <3>5. s + i = Header + (k - 1) * bytes /\ s + j = Header + k * bytes
      <4>1. s = Header + m * bytes
        BY DEF s
      <4>2. (m + h) * bytes = m * bytes + h * bytes
            /\ (m + (h - 1)) * bytes = m * bytes + (h - 1) * bytes
        <5> HIDE DEF m
        <5> QED BY <1>1, <3>1
      <4>3. k - 1 = m + (h - 1)
        <5> HIDE DEF m
        <5> QED BY <1>1, <3>1
      <4>4. (k - 1) * bytes = m * bytes + i /\ k * bytes = m * bytes + j
        BY <3>1, <4>2, <4>3
      <4> DEFINE a == m * bytes
                 b == (k - 1) * bytes
                 c == k * bytes
      <4>5. a \in Nat /\ b = a + i /\ c = a + j /\ s = Header + a
        BY <1>2, <4>1, <4>4
      <4> HIDE DEF i, j, a, b, c
      <4>6. s + i = Header + b /\ s + j = Header + c
        BY <1>2, <3>4, <4>5
      <4> QED BY <4>6 DEF b, c
    <3> HIDE DEF i, j
    <3>6. j \in i..d - s /\ d \in s..Len(f)
      BY <1>1, <1>2, <1>5, <3>4
    <3>7. Part(Part(f, s, d), i, j) = Part(f, s + i, s + j)
      BY <1>1, <1>2, <3>4, <3>6, PartOfPart
    <3>8. SubSeq(buffer, i + 1, j) = Part(Part(f, s, d), i, j)
      BY <1>3 DEF Part
    <3> QED BY <3>2, <3>3, <3>5, <3>7, <3>8 DEF WindowAt
  <2> QED BY <2>1, <2>2
<1>15. d \in Header..Len(f)
  BY <1>1, <1>2
<1> HIDE DEF r
<1> QED BY <1>1, <1>7, <1>10, <1>12, <1>13, <1>14, <1>15 DEF ReadsTo, r, y

\* After the last piece every whole window is out, and the rest waits.
LEMMA SessionIsRead ==
  ASSUME NEW P, NEW at, NEW f, Laid(P, at, f), NEW window \in Nat, NEW bytes \in Nat \ {0}
  PROVE  ReadsTo(Reading(P, window, bytes)[Len(P)], at, f, window, bytes)
<1> DEFINE N == Len(P)
           R == Reading(P, window, bytes)
           E(n) == EndOfPiece(P, n)
           Held(n) == ReadsTo(R[n], E(n), f, window, bytes)
           Good == {n \in 0..N : Held(n)}
<1>1. /\ P \in Seq(FilePieces) /\ N \in Nat /\ at \in Nat /\ f \in Seq(FileBytes) /\ Len(f) = at
      /\ \A n \in 0..N : E(n) \in Nat /\ E(n) <= at /\ Header <= E(n)
      /\ E(0) = Header /\ E(N) = at /\ Header \in Nat
  BY PieceEnds, SessionTimelineAssumption
<1>2. /\ R[0] = [buffer |-> <<>>, out |-> <<>>]
      /\ \A n \in 1..N : R[n] = ReadOn(R[n - 1], P[n], window, bytes)
      /\ \A n \in 0..N : R[n] \in Readings
  BY <1>1, ReadingSteps
<1>3. Held(0)
  <2>1. R[0].buffer = <<>> /\ R[0].out = <<>> /\ R[0] \in Readings
    <3>1. 0 \in 0..N
      BY <1>1
    <3> HIDE DEF R
    <3> QED BY <1>2, <3>1
  <2> HIDE DEF R, N
  <2>2. Len(R[0].out) = 0 /\ Len(R[0].out) * bytes = 0
    <3>1. Len(<<>>) = 0 /\ 0 * bytes = 0
      OBVIOUS
    <3> QED BY <2>1, <3>1
  <2>3. Header \in 0..Len(f) /\ Header <= at
    <3>1. 0 \in 0..N
      BY <1>1
    <3> QED BY <1>1, <3>1
  <2>4. Part(f, Header, Header) = <<>>
    BY <1>1, <2>3, PartIs
  <2>5. Header + Len(R[0].out) * bytes = Header
    BY <1>1, <2>2
  <2>6. E(0) \in Header..Len(f)
    BY <1>1, <2>3
  <2>7. Header < Header + bytes
    BY <1>1
  <2>8. \A k \in 1..Len(R[0].out) : R[0].out[k] = WindowAt(f, k, window, bytes)
    BY <2>2
  <2> QED BY <1>1, <2>1, <2>4, <2>5, <2>6, <2>7, <2>8 DEF ReadsTo
<1>4. ASSUME NEW n \in 1..N, Held(n - 1) PROVE Held(n)
  <2> DEFINE p == P[n]
  <2>1. /\ p \in FilePieces /\ p.segment \in Nat /\ p.start \in Nat /\ p.length \in Nat \ {0}
        /\ p.start = E(n - 1) /\ E(n) = p.start + p.length /\ E(n) <= at
        /\ \A j \in 1..p.length : f[p.start + j] = <<p.segment, Header + j - 1>>
    <3>1. n \in 1..Len(P) /\ n \in 0..N
      BY DEF N
    <3>2. \A j \in 1..p.length : f[p.start + j] = <<p.segment, Header + j - 1>>
      BY <3>1 DEF Laid
    <3> QED BY <1>1, <3>1, <3>2, PieceEnds
  <2> DEFINE a == p.start
             b == E(n)
             l == p.length
             k == p.segment
             t == Blob(p)
  <2>2. /\ t \in Seq(FileBytes) /\ Len(t) = l
        /\ \A j \in 1..l : t[j] = <<k, Header + j - 1>>
    <3>1. t = Stretch(k, l) /\ k \in Nat /\ l \in Nat
      BY <2>1, BlobIsStretch
    <3> HIDE DEF t, k, l
    <3> QED BY <3>1, StretchIsBytes
  <2>3. a \in Nat /\ b = a + l /\ b <= at /\ l \in Nat
    BY <2>1
  <2>4. \A j \in 1..l : t[j] = f[a + j]
    BY <2>1, <2>2
  <2>5. a = E(n - 1) /\ b = E(n) /\ p \in FilePieces /\ R[n] = ReadOn(R[n - 1], p, window, bytes)
    BY <1>2, <2>1
  <2> HIDE DEF a, b, l, k, t
  <2>6. b \in a..Len(f) /\ b - a = l
    BY <1>1, <2>3
  <2>7. t = Part(f, a, b)
    <3>1. Len(t) = b - a /\ \A i \in 1..b - a : t[i] = f[a + i]
      BY <2>2, <2>4, <2>6
    <3>2. f \in Seq(FileBytes) /\ t \in Seq(FileBytes) /\ a \in Nat /\ b \in a..Len(f)
      BY <1>1, <2>2, <2>3, <2>6
    <3> QED BY <3>1, <3>2, IsPart
  <2>8. ReadsTo(R[n - 1], a, f, window, bytes)
    BY <1>4, <2>5
  <2> DEFINE x == R[n - 1]
  <2> HIDE DEF p, R
  <2>9. ReadsTo(ReadOn(x, p, window, bytes), b, f, window, bytes)
    <3>1. Blob(p) = Part(f, a, b) /\ ReadsTo(x, a, f, window, bytes)
      BY <2>7, <2>8 DEF t
    <3> HIDE DEF x
    <3> QED BY <2>5, <2>6, <3>1, ReadsFurther
  <2> QED BY <2>5, <2>9
<1>5. 0 \in Good /\ \A n \in 1..N : n - 1 \in Good => n \in Good
  <2> HIDE DEF Held
  <2> QED BY <1>1, <1>3, <1>4
<1> HIDE DEF Good
<1>6. 0..N \subseteq Good
  BY <1>1, <1>5, UpTo
<1>7. Held(N)
  <2> HIDE DEF Held
  <2> QED BY <1>1, <1>6 DEF Good
<1> QED BY <1>1, <1>7

LEMMA Remainder ==
  ASSUME NEW a \in Nat, NEW b \in Nat \ {0}, a % b = 0
  PROVE  a = (a \div b) * b
OBVIOUS

\* Windows of a whole number of frames lie end to end, from the header on.
LEMMA WindowFrames ==
  ASSUME NEW window \in Nat \ {0}, (window * Rate) % Second = 0, NEW j \in Nat
  PROVE  /\ WindowBytes(window) \in Nat \ {0}
         /\ FrameOffset(j * window) = Header + j * WindowBytes(window)
<1> USE SessionTimelineAssumption
<1> DEFINE q == FramesIn(window)
           wr == window * Rate
<1>1. wr \in Nat /\ wr % Second = 0
  BY Times
<1>2. q \in Nat /\ q * Second = wr
  <2>1. q = wr \div Second
    BY DEF FramesIn
  <2> HIDE DEF q, wr
  <2> QED BY <1>1, <2>1, Quotient, Remainder
<1>3. q # 0
  <2>1. FramesIn(0) \in Nat /\ FramesIn(0) < FramesIn(window)
    BY FramesIncrease
  <2> HIDE DEF q
  <2> QED BY <2>1, <1>2 DEF q
<1>4. WindowBytes(window) = q * FrameBytes
  BY DEF WindowBytes, FramesIn
<1> HIDE DEF q
<1>5. (j * window) * Rate = (j * q) * Second
  <2>1. (j * window) * Rate = j * wr
    OBVIOUS
  <2>2. (j * q) * Second = j * (q * Second)
    BY <1>2
  <2> QED BY <1>2, <2>1, <2>2
<1>6. j * q \in Nat /\ (j * q) * Second \in Nat
  BY <1>2, Times
<1>7. ((j * window) * Rate) \div Second = j * q
  <2> DEFINE a == (j * window) * Rate
             c == j * q
  <2>1. a \in Nat /\ c \in Nat /\ a = c * Second
    BY <1>5, <1>6
  <2> HIDE DEF a, c
  <2>2. a \div Second = c
    BY <2>1, QuotientIs
  <2> QED BY <2>2 DEF a, c
<1>8. (j * q) * FrameBytes = j * (q * FrameBytes)
  BY <1>2
<1>9. FrameOffset(j * window) = Header + (j * q) * FrameBytes
  BY <1>7 DEF FrameOffset
<1>10. WindowBytes(window) \in Nat \ {0}
  BY <1>2, <1>3, <1>4
<1> QED BY <1>4, <1>8, <1>9, <1>10

LEMMA ClipOfWindow ==
  ASSUME NEW window \in Nat \ {0}, (window * Rate) % Second = 0, NEW data \in Nat,
         NEW k \in Nat \ {0}, (k - 1) * WindowBytes(window) < data
  PROVE  LET clip == ByteRange(data, (k - 1) * window, (k - 1) * window + window)
         IN  /\ clip # Empty
             /\ clip[1] = Header + (k - 1) * WindowBytes(window)
             /\ clip[2] + 1 = Smaller(Header + k * WindowBytes(window), Header + data)
<1> DEFINE from == (k - 1) * window
           to == from + window
           first == FrameOffset(from)
           last == FrameOffset(to)
           B == WindowBytes(window)
           x == (k - 1) * B
           y == k * B
<1>1. B \in Nat \ {0} /\ first = Header + x /\ k - 1 \in Nat
  BY WindowFrames
<1>2. to = k * window
  OBVIOUS
<1>3. last = Header + y
  BY <1>2, WindowFrames
<1>4. from \in Nat /\ Larger(0, from) = from
  <2>1. from \in Nat
    BY Times
  <2> QED BY <2>1 DEF Larger
<1>5. x \in Nat /\ y = x + B /\ x < data
  <2> HIDE DEF B
  <2>1. x \in Nat /\ y = x + B
    BY <1>1
  <2> QED BY <2>1 DEF B
<1>6. Header \in Nat
  BY SessionTimelineAssumption
<1> DEFINE end == Smaller(last, Header + data)
           clip == ByteRange(data, from, to)
<1>7. clip = IF end <= first THEN Empty ELSE <<first, end - 1>>
  BY <1>4 DEF ByteRange
<1>8. ~(end <= first) /\ end \in Nat /\ end = Smaller(Header + y, Header + data)
  <2> HIDE DEF x, y, B, first, last
  <2> QED BY <1>1, <1>3, <1>5, <1>6 DEF Smaller
<1> HIDE DEF end, first, last, x, y
<1>9. clip # Empty /\ clip[1] = first /\ clip[2] + 1 = end
  BY <1>7, <1>8 DEF Empty
<1> QED BY <1>1, <1>8, <1>9 DEF x, y

\* What a scan of the file f gives its caller.
IsScan(W, f, data, window, bytes) ==
    /\ W \in Seq(WindowSet) /\ f \in Seq(FileBytes) /\ Len(f) = Header + data
    /\ data \in Nat
    /\ data <= Len(W) * bytes
    /\ Len(W) = 0 <=> data = 0
    /\ \A k \in 1..Len(W) :
          /\ (k - 1) * bytes < data
          /\ W[k].at = (k - 1) * window
          /\ W[k].bytes = Part(f, Header + (k - 1) * bytes,
                               Smaller(Header + k * bytes, Header + data))

\* The k-th window given out has its share of the bytes before at, and says when it begins.
IsWhole(x, k, at, f, window, bytes) ==
    /\ Header + (k - 1) * bytes < at /\ k * bytes <= Len(x.out) * bytes
    /\ x.out[k].at = (k - 1) * window
    /\ x.out[k].bytes = Part(f, Header + (k - 1) * bytes, Smaller(Header + k * bytes, at))

LEMMA WholeWindows ==
  ASSUME NEW x, NEW at \in Nat, NEW f, NEW window \in Nat, NEW bytes \in Nat \ {0},
         ReadsTo(x, at, f, window, bytes), NEW k \in 1..Len(x.out)
  PROVE  IsWhole(x, k, at, f, window, bytes)
<1> DEFINE m == Len(x.out)
           a == (k - 1) * bytes
           b == k * bytes
           c == m * bytes
           w == x.out[k]
<1>1. m \in Nat
  BY DEF ReadsTo, Readings
<1>2. Header + c <= at
  BY DEF ReadsTo
<1> HIDE DEF m
<1>3. k \in Nat /\ k <= m
  BY <1>1 DEF m
<1>4. a \in Nat /\ b = a + bytes /\ c \in Nat /\ b <= c
  BY <1>1, <1>3, Times
<1>5. w = WindowAt(f, k, window, bytes)
  BY DEF ReadsTo
<1>6. w.at = (k - 1) * window /\ w.bytes = Part(f, Header + a, Header + b)
  BY <1>5 DEF WindowAt
<1>7. Header \in Nat
  BY SessionTimelineAssumption
<1>8. Header + a < at /\ Smaller(Header + b, at) = Header + b
  <2> HIDE DEF a, b, c
  <2> QED BY <1>2, <1>4, <1>7 DEF Smaller
<1> HIDE DEF w
<1> QED BY <1>4, <1>6, <1>8 DEF w, m, IsWhole

\* The windows of iter_windows: those read, and what is left.
LEMMA ScanIsWindows ==
  ASSUME NEW x, NEW data \in Nat, NEW f, NEW window \in Nat, NEW bytes \in Nat \ {0},
         ReadsTo(x, Header + data, f, window, bytes), Len(f) = Header + data
  PROVE  IsScan(IF x.buffer = <<>> THEN x.out
                ELSE Append(x.out, [at |-> Len(x.out) * window, bytes |-> x.buffer]),
                f, data, window, bytes)
<1> DEFINE o == x.out
           m == Len(o)
           c == m * bytes
           rest == x.buffer
           e == [at |-> m * window, bytes |-> rest]
           W == Append(o, e)
<1>1. o \in Seq(WindowSet) /\ m \in Nat /\ f \in Seq(FileBytes) /\ rest \in Seq(FileBytes)
  BY DEF ReadsTo, Readings
<1>2. Header + c <= Header + data /\ Header + data < Header + c + bytes
      /\ rest = Part(f, Header + c, Header + data)
  BY DEF ReadsTo
<1>3. ASSUME NEW k \in 1..m
      PROVE  /\ (k - 1) * bytes < data /\ k * bytes <= m * bytes
             /\ o[k].at = (k - 1) * window
             /\ o[k].bytes = Part(f, Header + (k - 1) * bytes,
                                  Smaller(Header + k * bytes, Header + data))
  <2>1. k \in 1..Len(x.out)
    OBVIOUS
  <2> DEFINE at == Header + data
  <2>2. at \in Nat /\ ReadsTo(x, at, f, window, bytes)
    BY SessionTimelineAssumption
  <2> HIDE DEF at
  <2>3. /\ Header + (k - 1) * bytes < at /\ k * bytes <= Len(x.out) * bytes
        /\ x.out[k].at = (k - 1) * window
        /\ x.out[k].bytes = Part(f, Header + (k - 1) * bytes,
                                 Smaller(Header + k * bytes, at))
    <3> HIDE DEF o, m, c, rest, e, W
    <3>1. IsWhole(x, k, at, f, window, bytes)
      BY <2>1, <2>2, WholeWindows
    <3> QED BY <3>1 DEF IsWhole
  <2> DEFINE b == (k - 1) * bytes
  <2>4. b < data
    <3>1. b \in Nat /\ Header + b < Header + data
      BY <2>1, <2>3, Times DEF at
    <3> HIDE DEF b
    <3> QED BY <3>1, SessionTimelineAssumption
  <2> QED BY <2>3, <2>4 DEF at
<1>4. Header \in Nat
  BY SessionTimelineAssumption
<1> HIDE DEF m, o
<1>5. c \in Nat /\ (m = 0 => c = 0) /\ (m # 0 => bytes <= c) /\ (m + 1) * bytes = c + bytes
  <2>1. c \in Nat /\ (m + 1) * bytes = c + bytes /\ (m = 0 => c = 0)
    BY <1>1, Times
  <2>2. ASSUME m # 0 PROVE bytes <= c
    <3>1. 1 * bytes <= m * bytes
      BY <1>1, <2>2, Times
    <3> QED BY <3>1
  <2> QED BY <2>1, <2>2
<1> HIDE DEF rest
<1>6. Len(rest) = data - c
  <2> DEFINE a == Header + c
             b == Header + data
  <2>1. a \in Nat /\ b \in 0..Len(f) /\ a <= b /\ b - a = data - c
    <3> HIDE DEF c
    <3> QED BY <1>2, <1>4, <1>5
  <2>2. rest = Part(f, a, b)
    BY <1>2
  <2> HIDE DEF a, b, c
  <2>3. Len(rest) = IF a < b THEN b - a ELSE 0
    BY <1>1, <2>1, <2>2, PartIs
  <2> QED BY <2>1, <2>3
<1>7. CASE rest = <<>>
  <2>1. c = data
    <3>1. Len(<<>>) = 0
      OBVIOUS
    <3> HIDE DEF c
    <3> QED BY <1>5, <1>6, <1>7, <3>1
  <2>2. data <= Len(o) * bytes /\ (Len(o) = 0 <=> data = 0)
    <3>1. Len(o) = m /\ c = Len(o) * bytes
      BY DEF m
    <3> HIDE DEF c
    <3> QED BY <1>5, <2>1, <3>1
  <2>3. IsScan(o, f, data, window, bytes)
    BY <1>1, <1>3, <2>2 DEF IsScan, m
  <2> QED BY <1>7, <2>3 DEF o, rest
<1>8. CASE rest # <<>>
  <2>1. c < data
    <3> HIDE DEF c
    <3> QED BY <1>1, <1>2, <1>4, <1>5, <1>6, <1>8, EmptySeq
  <2>2. e \in WindowSet
    <3>1. m * window \in Nat
      BY <1>1, Times
    <3> QED BY <1>1, <3>1 DEF WindowSet
  <2>3. e.at = m * window /\ e.bytes = rest
    OBVIOUS
  <2> HIDE DEF e
  <2>4. W \in Seq(WindowSet) /\ Len(W) = m + 1 /\ W[m + 1] = e /\ \A k \in 1..m : W[k] = o[k]
    BY <1>1, <2>2 DEF m
  <2> HIDE DEF W
  <2>5. data <= Len(W) * bytes /\ (Len(W) = 0 <=> data = 0)
    <3>1. Len(W) * bytes = c + bytes /\ Len(W) # 0
      BY <1>1, <1>5, <2>4
    <3> HIDE DEF c
    <3> QED BY <1>2, <1>4, <1>5, <2>1, <3>1
  <2>6. ASSUME NEW k \in 1..Len(W)
        PROVE  /\ (k - 1) * bytes < data
               /\ W[k].at = (k - 1) * window
               /\ W[k].bytes = Part(f, Header + (k - 1) * bytes,
                                    Smaller(Header + k * bytes, Header + data))
    <3>1. CASE k \in 1..m
      BY <1>3, <2>4, <3>1
    <3>2. CASE k \notin 1..m
      <4>1. k = m + 1 /\ k - 1 = m
        BY <1>1, <2>4, <3>2
      <4>2. (k - 1) * bytes = c /\ k * bytes = c + bytes
        BY <1>5, <4>1
      <4> HIDE DEF c
      <4>3. Smaller(Header + k * bytes, Header + data) = Header + data
        <5>1. Smaller(Header + (c + bytes), Header + data) = Header + data
          BY <1>2, <1>4, <1>5 DEF Smaller
        <5> QED BY <4>2, <5>1
      <4>4. W[k] = e
        BY <2>4, <4>1
      <4> QED BY <1>2, <2>1, <2>3, <4>1, <4>2, <4>3, <4>4
    <3> QED BY <3>1, <3>2
  <2>7. IsScan(W, f, data, window, bytes)
    BY <1>1, <2>4, <2>5, <2>6 DEF IsScan
  <2> QED BY <1>8, <2>7 DEF W, o, rest, e, m
<1> QED BY <1>7, <1>8

\* The windows of a scan, one after the other, are the file behind its header.
LEMMA ScanIsWhole ==
  ASSUME NEW W, NEW f, NEW data, NEW window, NEW bytes \in Nat \ {0},
         IsScan(W, f, data, window, bytes)
  PROVE  FlattenSeq([k \in DOMAIN W |-> W[k].bytes]) = Part(f, Header, Header + data)
<1> DEFINE M == Len(W)
           ss == [k \in DOMAIN W |-> W[k].bytes]
           at == Header + data
           u(k) == Smaller(Header + k * bytes, at)
<1>1. /\ W \in Seq(WindowSet) /\ f \in Seq(FileBytes) /\ data \in Nat /\ Len(f) = at
      /\ data <= M * bytes
      /\ \A k \in 1..M : (k - 1) * bytes < data
                         /\ W[k].bytes = Part(f, Header + (k - 1) * bytes, u(k))
  BY DEF IsScan
<1>2. M \in Nat /\ DOMAIN W = 1..M /\ Header \in Nat /\ at \in Nat
  BY <1>1, SessionTimelineAssumption
<1>3. ss \in [1..M -> Seq(FileBytes)]
  <2>1. \A k \in 1..M : W[k] \in WindowSet
    BY <1>1
  <2>2. \A k \in 1..M : W[k].bytes \in Seq(FileBytes)
    BY <2>1 DEF WindowSet
  <2> QED BY <1>2, <2>2
<1>4. \A k \in 1..M : ss[k] = Part(f, Header + (k - 1) * bytes, u(k))
  BY <1>1, <1>2
<1> HIDE DEF ss, M
<1>5. PICK g : IsJoin(g, ss, M, FileBytes) /\ FlattenSeq(ss) = g[M]
  BY <1>2, <1>3, Joins
<1>6. g[0] = <<>> /\ \A k \in 1..M : g[k] = g[k - 1] \o ss[k]
  BY <1>5 DEF IsJoin
<1> DEFINE Is(k) == g[k] = Part(f, Header, u(k))
           Good == {k \in 0..M : Is(k)}
<1>7. Is(0)
  <2>1. u(0) = Header /\ Header \in 0..Len(f)
    BY <1>1, <1>2 DEF Smaller
  <2>2. Part(f, Header, Header) = <<>>
    <3>1. Header <= Header
      BY <1>2
    <3>2. f \in Seq(FileBytes) /\ Header \in Nat /\ Header \in 0..Len(f)
      BY <1>1, <1>2, <2>1
    <3> QED BY <3>1, <3>2, PartIs
  <2> HIDE DEF u
  <2>3. g[0] = <<>>
    BY <1>6
  <2> QED BY <2>1, <2>2, <2>3
<1>8. ASSUME NEW k \in 1..M, Is(k - 1) PROVE Is(k)
  <2> DEFINE a == Header + (k - 1) * bytes
             b == u(k)
  <2>1. u(k - 1) = a /\ a \in Nat /\ a \in Header..Len(f) /\ b \in a..Len(f)
    <3> DEFINE x == (k - 1) * bytes
               y == k * bytes
    <3>1. x \in Nat /\ y \in Nat /\ x <= y
      BY <1>2, Times
    <3>2. x < data
      BY <1>1
    <3>3. u(k - 1) = Smaller(Header + x, at) /\ a = Header + x /\ b = Smaller(Header + y, at)
      OBVIOUS
    <3> HIDE DEF x, y, u, a, b
    <3> QED BY <1>1, <1>2, <3>1, <3>2, <3>3 DEF Smaller
  <2>2. g[k] = g[k - 1] \o ss[k] /\ ss[k] = Part(f, a, b)
    BY <1>4, <1>6
  <2>3. g[k - 1] = Part(f, Header, a)
    BY <1>8, <2>1
  <2>4. b = u(k)
    OBVIOUS
  <2> HIDE DEF a, b, u
  <2>5. Part(f, Header, a) \o Part(f, a, b) = Part(f, Header, b)
    BY <1>1, <1>2, <2>1, PartsJoin
  <2> QED BY <2>2, <2>3, <2>4, <2>5
<1>9. 0 \in Good /\ \A k \in 1..M : k - 1 \in Good => k \in Good
  <2> HIDE DEF Is
  <2> QED BY <1>2, <1>7, <1>8
<1> HIDE DEF Good
<1>10. 0..M \subseteq Good
  BY <1>2, <1>9, UpTo
<1>11. Is(M)
  <2> HIDE DEF Is
  <2> QED BY <1>2, <1>10 DEF Good
<1>12. u(M) = at
  <2> DEFINE y == M * bytes
  <2>1. y \in Nat /\ data <= y
    BY <1>1, <1>2, Times
  <2>2. u(M) = Smaller(Header + y, at)
    OBVIOUS
  <2> HIDE DEF y, u
  <2> QED BY <1>1, <1>2, <2>1, <2>2 DEF Smaller
<1> HIDE DEF u
<1> QED BY <1>5, <1>11, <1>12 DEF ss

\* A scan reads what clips of the same times would.
LEMMA ScansAreClips ==
  ASSUME NEW N \in Nat, NEW sizes \in [1..N -> Nat], NEW window \in Nat \ {0}
  PROVE  WindowsAreClips(sizes, window)
<1> DEFINE W == IterWindows(sizes, window)
           data == Size(sizes) - Header
           f == Bytes(sizes)
           at == Size(sizes)
           P == Plan(sizes).pieces
           B == WindowBytes(window)
           Clip(w) == ByteRange(data, w.at, w.at + window)
<1> SUFFICES ASSUME (window * Rate) % Second = 0
             PROVE  /\ data > 0 <=> W # <<>>
                    /\ \A k \in DOMAIN W :
                          /\ Clip(W[k]) # Empty
                          /\ W[k].bytes = SubSeq(f, Clip(W[k])[1] + 1, Clip(W[k])[2] + 1)
                    /\ FlattenSeq([k \in DOMAIN W |-> W[k].bytes])
                          = SubSeq(f, Header + 1, Header + data)
  BY DEF WindowsAreClips
<1>1. Laid(P, at, f)
  BY PlanIsLaid
<1>2. B \in Nat \ {0}
  <2>1. 0 \in Nat
    OBVIOUS
  <2> QED BY <2>1, WindowFrames
<1> DEFINE x == Reading(P, window, B)[Len(P)]
<1>3. W = IF x.buffer = <<>> THEN x.out
          ELSE Append(x.out, [at |-> Len(x.out) * window, bytes |-> x.buffer])
  BY DEF IterWindows
<1> HIDE DEF P, B, f, W
<1>4. ReadsTo(x, at, f, window, B)
  BY <1>1, <1>2, SessionIsRead
<1>5. data \in Nat /\ at = Header + data /\ Len(f) = at
  <2>1. at \in Nat /\ Len(f) = at /\ at \in Header..Len(f) /\ Header \in Nat
    BY <1>1, <1>4, SessionTimelineAssumption DEF Laid, ReadsTo
  <2> HIDE DEF at
  <2>2. at - Header \in Nat /\ at = Header + (at - Header)
    BY <2>1
  <2> QED BY <2>1, <2>2 DEF at
<1> HIDE DEF x, at, data
<1>6. IsScan(W, f, data, window, B)
  BY <1>2, <1>3, <1>4, <1>5, ScanIsWindows
<1>7. data > 0 <=> W # <<>>
  <2>1. W \in Seq(WindowSet) /\ (Len(W) = 0 <=> data = 0)
    BY <1>6 DEF IsScan
  <2>2. W = <<>> <=> Len(W) = 0
    BY <2>1, EmptySeq
  <2> QED BY <1>5, <2>1, <2>2
<1>8. ASSUME NEW k \in DOMAIN W
      PROVE  /\ Clip(W[k]) # Empty
             /\ W[k].bytes = SubSeq(f, Clip(W[k])[1] + 1, Clip(W[k])[2] + 1)
  <2>1. k \in 1..Len(W) /\ k \in Nat \ {0}
    BY <1>6 DEF IsScan
  <2>2. /\ (k - 1) * B < data
        /\ W[k].at = (k - 1) * window
        /\ W[k].bytes = Part(f, Header + (k - 1) * B, Smaller(Header + k * B, Header + data))
    BY <1>6, <2>1 DEF IsScan
  <2> DEFINE clip == ByteRange(data, (k - 1) * window, (k - 1) * window + window)
  <2>3. Clip(W[k]) = clip
    BY <2>2
  <2>4. /\ clip # Empty
        /\ clip[1] = Header + (k - 1) * B
        /\ clip[2] + 1 = Smaller(Header + k * B, Header + data)
    BY <1>5, <2>1, <2>2, ClipOfWindow DEF B
  <2>5. W[k].bytes = SubSeq(f, clip[1] + 1, clip[2] + 1)
    BY <2>2, <2>4 DEF Part
  <2> QED BY <2>3, <2>4, <2>5
<1>9. FlattenSeq([k \in DOMAIN W |-> W[k].bytes]) = SubSeq(f, Header + 1, Header + data)
  BY <1>2, <1>6, ScanIsWhole DEF Part
<1> QED BY <1>7, <1>8, <1>9 DEF f, data

----------------------------------------------------------------------------
(* Speech detection (spans_from_scores, blocks_from_spans), for all scores. *)

Span == [start : Int, end : Int]

\* When frame i ends; frames count from 1.
T(i) == i * FrameMs

LEMMA FrameTimes == \A i \in Int : T(i) \in Int /\ T(i - 1) \in Int /\ T(i - 1) < T(i)
<1> SUFFICES ASSUME NEW i \in Int PROVE T(i) \in Int /\ T(i - 1) \in Int /\ T(i - 1) < T(i)
  OBVIOUS
<1>1. FrameMs \in Nat /\ FrameMs > 0
  BY SpeechSpansAssumption
<1>2. i * FrameMs \in Int /\ (i - 1) * FrameMs = i * FrameMs - FrameMs
  BY <1>1
<1> QED BY <1>1, <1>2 DEF T

LEMMA FrameGap == \A i, j \in Int : T(j) - T(i) = T(j - i)
<1> SUFFICES ASSUME NEW i \in Int, NEW j \in Int PROVE T(j) - T(i) = T(j - i)
  OBVIOUS
<1>1. FrameMs \in Nat
  BY SpeechSpansAssumption
<1> QED BY <1>1 DEF T

LEMMA FrameOrder ==
  ASSUME NEW i \in Int, NEW j \in Int, i < j
  PROVE  T(i) < T(j)
<1>1. FrameMs \in Nat /\ FrameMs > 0
  BY SpeechSpansAssumption
<1>2. PICK d \in Nat : d > 0 /\ d = j - i
  OBVIOUS
<1>3. d * FrameMs > 0
  BY <1>1, <1>2
<1>4. T(j) = T(i) + d * FrameMs
  BY <1>1, <1>2 DEF T
<1>5. T(i) \in Int /\ d * FrameMs \in Int
  BY <1>1 DEF T
<1> QED BY <1>3, <1>4, <1>5

LEMMA FrameRank ==
  ASSUME NEW i \in Int, NEW j \in Int
  PROVE  /\ (i < j) <=> (T(i) < T(j))
         /\ (i <= j) <=> (T(i) <= T(j))
         /\ (i = j) <=> (T(i) = T(j))
<1>1. T(i) \in Int /\ T(j) \in Int
  BY FrameTimes
<1>2. i < j => T(i) < T(j)
  BY FrameOrder
<1>3. j < i => T(j) < T(i)
  BY FrameOrder
<1>4. i = j => T(i) = T(j)
  OBVIOUS
<1> QED BY <1>1, <1>2, <1>3, <1>4

LEMMA SpanFields ==
  ASSUME NEW R \in Seq(Span)
  PROVE  /\ Len(R) \in Nat /\ DOMAIN R = 1..Len(R)
         /\ \A k \in 1..Len(R) : R[k] \in Span /\ R[k].start \in Int /\ R[k].end \in Int
<1>1. Len(R) \in Nat /\ DOMAIN R = 1..Len(R) /\ \A k \in 1..Len(R) : R[k] \in Span
  OBVIOUS
<1>2. \A s \in Span : s.start \in Int /\ s.end \in Int
  BY DEF Span
<1> QED BY <1>1, <1>2

LEMMA HeardIsSpans ==
  ASSUME NEW scores, NEW i \in Int, NEW R \in Seq(Span)
  PROVE  Heard(R, scores, i) \in Seq(Span)
<1>1. (i - 1) * FrameMs \in Int /\ i * FrameMs \in Int
  BY SpeechSpansAssumption
<1>2. [start |-> (i - 1) * FrameMs, end |-> i * FrameMs] \in Span
  BY <1>1 DEF Span
<1>3. ASSUME R # <<>> PROVE [R EXCEPT ![Len(R)].end = i * FrameMs] \in Seq(Span)
  <2>1. Len(R) \in 1..Len(R) /\ R[Len(R)] \in Span
    BY <1>3
  <2>2. [R[Len(R)] EXCEPT !.end = i * FrameMs] \in Span
    BY <1>1, <2>1 DEF Span
  <2> QED BY <2>1, <2>2
<1> QED BY <1>2, <1>3 DEF Heard

\* Raw is the last of a sequence of states.
IsHearing(f, scores) ==
    /\ f[0] = <<>>
    /\ \A n \in 1..Len(scores) : f[n] = Heard(f[n - 1], scores, n)
    /\ Raw(scores) = f[Len(scores)]

LEMMA RawSteps ==
  ASSUME NEW scores, Len(scores) \in Nat
  PROVE  \E f : IsHearing(f, scores)
<1> DEFINE N == Len(scores)
           S == Seq(Span)
           step == [n \in 1..N |-> [x \in S |-> Heard(x, scores, n)]]
           Steps(h) == h = [n \in 0..N |-> IF n = 0 THEN <<>> ELSE Heard(h[n - 1], scores, n)]
           f == CHOOSE h : Steps(h)
<1>1. \A n \in 1..N : \A x \in S : Heard(x, scores, n) \in S
  BY HeardIsSpans
<1>2. PICK g : IsRun(g, N, S, <<>>, step)
  <2>1. <<>> \in S
    OBVIOUS
  <2>2. Rounds(N, S, step)
    BY <1>1 DEF Rounds
  <2> HIDE DEF step, S
  <2> QED BY <2>1, <2>2, Loop
<1>3. g \in [0..N -> S] /\ g[0] = <<>> /\ \A n \in 1..N : g[n] = Heard(g[n - 1], scores, n)
  BY <1>2 DEF IsRun
<1>4. Steps(g)
  BY <1>3
<1>5. Steps(f)
  <2> HIDE DEF Steps
  <2> QED BY <1>4
<1>6. Raw(scores) = f[N]
  BY DEF Raw
<1> HIDE DEF f
<1>7. f[0] = <<>> /\ \A n \in 1..N : f[n] = Heard(f[n - 1], scores, n)
  BY <1>5
<1> QED BY <1>6, <1>7 DEF IsHearing

\* How the loops put their spans together: the last one reaches further, or one
\* more is added.
Reaches(H, R, e) ==
    /\ H \in Seq(Span) /\ Len(H) = Len(R) /\ Len(R) > 0
    /\ \A k \in 1..Len(R) - 1 : H[k] = R[k]
    /\ H[Len(R)].start = R[Len(R)].start /\ H[Len(R)].end = e

Adds(H, R, s) ==
    /\ H \in Seq(Span) /\ Len(H) = Len(R) + 1
    /\ \A k \in 1..Len(R) : H[k] = R[k]
    /\ H[Len(R) + 1] = s

LEMMA LastReaches ==
  ASSUME NEW R \in Seq(Span), R # <<>>, NEW s, s.start = R[Len(R)].start, s.end \in Int,
         s \in Span
  PROVE  Reaches([R EXCEPT ![Len(R)] = s], R, s.end)
<1>1. Len(R) \in 1..Len(R) /\ Len(R) > 0
  OBVIOUS
<1> DEFINE H == [R EXCEPT ![Len(R)] = s]
<1>2. H \in Seq(Span) /\ Len(H) = Len(R)
  BY <1>1
<1>3. H[Len(R)] = s /\ \A k \in 1..Len(R) - 1 : H[k] = R[k]
  BY <1>1
<1> HIDE DEF H
<1> QED BY <1>1, <1>2, <1>3 DEF Reaches

LEMMA OneAdds ==
  ASSUME NEW R \in Seq(Span), NEW s \in Span
  PROVE  Adds(Append(R, s), R, s)
<1> DEFINE H == Append(R, s)
<1>1. H \in Seq(Span) /\ Len(H) = Len(R) + 1 /\ H[Len(R) + 1] = s
  OBVIOUS
<1>2. \A k \in 1..Len(R) : H[k] = R[k]
  OBVIOUS
<1> HIDE DEF H
<1> QED BY <1>1, <1>2 DEF Adds

\* Spans that are not empty, at least d apart, one of which holds from u to v.
Proper(R) == \A k \in 1..Len(R) : R[k].start < R[k].end
Apart(R, d) == \A k, l \in 1..Len(R) : k < l => R[l].start - R[k].end >= d
Holds(R, u, v) == \E k \in 1..Len(R) : R[k].start <= u /\ v <= R[k].end

LEMMA ReachKeeps ==
  ASSUME NEW R \in Seq(Span), NEW H, NEW e \in Int, Reaches(H, R, e), R[Len(R)].end <= e
  PROVE  /\ Proper(R) => Proper(H)
         /\ \A d \in Nat : Apart(R, d) => Apart(H, d)
         /\ \A u, v \in Int : Holds(R, u, v) => Holds(H, u, v)
<1> DEFINE L == Len(R)
<1>1. /\ L \in Nat /\ L > 0 /\ L \in 1..L
      /\ \A k \in 1..L : R[k].start \in Int /\ R[k].end \in Int
  BY SpanFields DEF Reaches
<1>2. Len(H) = L /\ \A k \in 1..L : k < L => H[k] = R[k]
  BY <1>1 DEF Reaches
<1>3. H[L].start = R[L].start /\ H[L].end = e /\ R[L].end <= e
  BY DEF Reaches
<1> HIDE DEF L
<1>4. ASSUME NEW k \in 1..L
      PROVE  H[k].start = R[k].start /\ R[k].end <= H[k].end /\ (k < L => H[k].end = R[k].end)
  <2>1. CASE k = L
    BY <1>1, <1>3, <2>1
  <2>2. CASE k < L
    BY <1>1, <1>2, <2>2
  <2> QED BY <1>1, <2>1, <2>2
<1>5. \A k \in 1..L : H[k].end \in Int
  BY <1>2, SpanFields DEF Reaches
<1>6. ASSUME Proper(R) PROVE Proper(H)
  <2> SUFFICES ASSUME NEW k \in 1..L PROVE H[k].start < H[k].end
    BY <1>2 DEF Proper
  <2>1. R[k].start < R[k].end
    BY <1>6 DEF Proper, L
  <2> QED BY <1>1, <1>4, <1>5, <2>1
<1>7. ASSUME NEW d \in Nat, Apart(R, d) PROVE Apart(H, d)
  <2> SUFFICES ASSUME NEW k \in 1..L, NEW l \in 1..L, k < l PROVE H[l].start - H[k].end >= d
    BY <1>2 DEF Apart
  <2>1. R[l].start - R[k].end >= d
    BY <1>7 DEF Apart, L
  <2>2. k < L
    BY <1>1
  <2>3. H[k].end = R[k].end /\ H[l].start = R[l].start
    BY <1>4, <2>2
  <2> QED BY <2>1, <2>3
<1>8. ASSUME NEW u \in Int, NEW v \in Int, Holds(R, u, v) PROVE Holds(H, u, v)
  <2>1. PICK k \in 1..L : R[k].start <= u /\ v <= R[k].end
    BY <1>8 DEF Holds, L
  <2>2. H[k].start <= u /\ v <= H[k].end
    BY <1>1, <1>4, <1>5, <2>1
  <2> QED BY <1>2, <2>2 DEF Holds
<1> QED BY <1>6, <1>7, <1>8

LEMMA SpanAddKeeps ==
  ASSUME NEW R \in Seq(Span), NEW H, NEW s \in Span, Adds(H, R, s)
  PROVE  /\ Proper(R) /\ s.start < s.end => Proper(H)
         /\ \A u, v \in Int : Holds(R, u, v) => Holds(H, u, v)
         /\ Holds(H, s.start, s.end)
<1> DEFINE L == Len(R)
<1>1. /\ L \in Nat /\ \A k \in 1..L : R[k].start \in Int /\ R[k].end \in Int
      /\ s.start \in Int /\ s.end \in Int
  BY SpanFields DEF Span
<1>2. Len(H) = L + 1 /\ \A k \in 1..L : H[k] = R[k]
  BY DEF Adds
<1>3. H[L + 1] = s
  BY DEF Adds
<1> HIDE DEF L
<1>4. \A k \in 1..Len(H) : k \in 1..L \/ k = L + 1
  BY <1>1, <1>2
<1>5. L + 1 \in 1..Len(H) /\ \A k \in 1..L : k \in 1..Len(H)
  BY <1>1, <1>2
<1>6. ASSUME Proper(R), s.start < s.end PROVE Proper(H)
  <2> SUFFICES ASSUME NEW k \in 1..Len(H) PROVE H[k].start < H[k].end
    BY DEF Proper
  <2>1. CASE k \in 1..L
    <3>1. R[k].start < R[k].end /\ H[k] = R[k]
      BY <1>2, <1>6, <2>1 DEF Proper, L
    <3> QED BY <3>1
  <2>2. CASE k = L + 1
    BY <1>3, <1>6, <2>2
  <2> QED BY <1>4, <2>1, <2>2
<1>7. ASSUME NEW u \in Int, NEW v \in Int, Holds(R, u, v) PROVE Holds(H, u, v)
  <2>1. PICK k \in 1..L : R[k].start <= u /\ v <= R[k].end
    BY <1>7 DEF Holds, L
  <2>2. k \in 1..Len(H) /\ H[k].start <= u /\ v <= H[k].end
    BY <1>2, <1>5, <2>1
  <2> QED BY <2>2 DEF Holds
<1>8. Holds(H, s.start, s.end)
  <2>1. H[L + 1].start <= s.start /\ s.end <= H[L + 1].end
    BY <1>1, <1>3
  <2> QED BY <1>5, <2>1 DEF Holds
<1> QED BY <1>6, <1>7, <1>8

\* Spans that are apart begin and end in order.
LEMMA SpansInOrder ==
  ASSUME NEW R \in Seq(Span), Proper(R), Apart(R, 1),
         NEW k \in 1..Len(R), NEW l \in 1..Len(R), k <= l
  PROVE  R[k].start <= R[l].start /\ R[k].end <= R[l].end
<1> DEFINE a == R[k].start
           b == R[k].end
           u == R[l].start
           v == R[l].end
<1>1. a \in Int /\ b \in Int /\ u \in Int /\ v \in Int
  BY SpanFields
<1>2. CASE k = l
  <2>1. a = u /\ b = v
    BY <1>2
  <2> HIDE DEF a, b, u, v
  <2> QED BY <1>1, <2>1 DEF a, b, u, v
<1>3. CASE k < l
  <2>1. u - b >= 1 /\ a < b /\ u < v
    BY <1>3 DEF Apart, Proper
  <2> HIDE DEF a, b, u, v
  <2>2. a <= u /\ b <= v
    BY <1>1, <2>1
  <2> QED BY <2>2 DEF a, b, u, v
<1> QED BY <1>2, <1>3

LEMMA AddApart ==
  ASSUME NEW R \in Seq(Span), NEW H, NEW s \in Span, Adds(H, R, s), NEW d \in Nat,
         Apart(R, d), Proper(R), Len(R) > 0 => s.start - R[Len(R)].end >= d
  PROVE  Apart(H, d)
<1> DEFINE L == Len(R)
<1>1. /\ L \in Nat /\ \A k \in 1..L : R[k].start \in Int /\ R[k].end \in Int
      /\ s.start \in Int /\ s.end \in Int
  BY SpanFields DEF Span
<1>2. Len(H) = L + 1 /\ \A k \in 1..L : H[k] = R[k]
  BY DEF Adds
<1>3. H[L + 1] = s
  BY DEF Adds
<1> HIDE DEF L
<1>4. \A k \in 1..Len(H) : k \in 1..L \/ k = L + 1
  BY <1>1, <1>2
<1> SUFFICES ASSUME NEW k \in 1..Len(H), NEW l \in 1..Len(H), k < l
             PROVE  H[l].start - H[k].end >= d
  BY DEF Apart
<1>5. k \in 1..L /\ H[k] = R[k]
  BY <1>1, <1>2
<1>6. CASE l \in 1..L
  <2>1. R[l].start - R[k].end >= d
    BY <1>5, <1>6 DEF Apart, L
  <2>2. H[l] = R[l]
    BY <1>2, <1>6
  <2> QED BY <1>5, <2>1, <2>2
<1>7. CASE l = L + 1
  <2>1. L \in 1..L /\ L > 0
    BY <1>1, <1>5
  <2>2. s.start - R[L].end >= d
    BY <2>1 DEF L
  <2>3. R[k].end <= R[L].end
    <3>1. CASE k < L
      <4>1. R[L].start - R[k].end >= d /\ R[L].start < R[L].end
        BY <1>5, <2>1, <3>1 DEF Apart, Proper, L
      <4>2. R[L].start \in Int /\ R[L].end \in Int /\ R[k].end \in Int
        BY <1>1, <1>5, <2>1
      <4> QED BY <4>1, <4>2
    <3>2. CASE k = L
      BY <1>1, <1>5, <3>2
    <3> QED BY <1>1, <1>5, <3>1, <3>2
  <2>4. R[L].end \in Int /\ R[k].end \in Int
    BY <1>1, <1>5, <2>1
  <2>5. s.start - R[k].end >= d
    BY <1>1, <2>2, <2>3, <2>4
  <2> QED BY <1>3, <1>5, <1>7, <2>5
<1> QED BY <1>4, <1>6, <1>7

\* A run of frames, all of them loud.
IsRunOf(s, scores, p, q) ==
    /\ p <= q /\ s.start = T(p - 1) /\ s.end = T(q)
    /\ \A i \in p..q : scores[i] >= Threshold

\* What has been heard up to frame m.
RawInv(R, scores, m) ==
    /\ R \in Seq(Span)
    /\ \A k \in 1..Len(R) : \E p, q \in 1..m : IsRunOf(R[k], scores, p, q)
    /\ Proper(R) /\ Apart(R, 1)
    /\ \A i \in 1..m : scores[i] >= Threshold => Holds(R, T(i - 1), T(i))

LEMMA QuietFrame ==
  ASSUME NEW scores, NEW m \in Nat \ {0}, NEW R, RawInv(R, scores, m - 1), ~(scores[m] >= Threshold)
  PROVE  RawInv(R, scores, m)
<1>1. 1..m - 1 \subseteq 1..m
  OBVIOUS
<1>2. \A i \in 1..m : scores[i] >= Threshold => i \in 1..m - 1
  OBVIOUS
<1> QED BY <1>1, <1>2 DEF RawInv

\* A frame that goes on with the last run.
LEMMA FrameReaches ==
  ASSUME NEW scores, NEW m \in Nat \ {0}, NEW R, RawInv(R, scores, m - 1),
         scores[m] >= Threshold, NEW H, Reaches(H, R, T(m)), R[Len(R)].end = T(m - 1)
  PROVE  RawInv(H, scores, m)
<1> DEFINE L == Len(R)
<1>1. R \in Seq(Span) /\ L \in Nat /\ L > 0 /\ L \in 1..L
  BY SpanFields DEF RawInv, Reaches
<1>2. m \in Int /\ m - 1 \in Int /\ T(m) \in Int /\ T(m - 1) \in Int /\ T(m - 1) < T(m)
  <2>1. m \in Int /\ m - 1 \in Int
    OBVIOUS
  <2> QED BY <2>1, FrameTimes
<1>3. /\ H \in Seq(Span) /\ Len(H) = L
      /\ H[L].start = R[L].start /\ H[L].end = T(m)
      /\ \A k \in 1..L - 1 : H[k] = R[k]
  BY DEF Reaches
<1>4. /\ Proper(R) => Proper(H)
      /\ \A d \in Nat : Apart(R, d) => Apart(H, d)
      /\ \A u, v \in Int : Holds(R, u, v) => Holds(H, u, v)
  <2>1. R[Len(R)].end <= T(m)
    BY <1>2
  <2> QED BY <1>1, <1>2, <2>1, ReachKeeps
<1>5. \A k \in 1..L : \E p, q \in 1..m - 1 : IsRunOf(R[k], scores, p, q)
  BY DEF RawInv
<1>6. PICK p \in 1..m - 1, q \in 1..m - 1 : IsRunOf(R[L], scores, p, q)
  BY <1>1, <1>5
<1>7. q = m - 1
  <2>1. T(q) = T(m - 1)
    BY <1>6 DEF IsRunOf
  <2>2. q \in Int
    OBVIOUS
  <2> QED BY <1>2, <2>1, <2>2, FrameRank
<1>8. IsRunOf(H[L], scores, p, m)
  <2>1. \A i \in p..m : i \in p..q \/ i = m
    BY <1>7
  <2>2. \A i \in p..m : scores[i] >= Threshold
    BY <1>6, <2>1 DEF IsRunOf
  <2>3. p <= m /\ H[L].start = T(p - 1)
    BY <1>3, <1>6 DEF IsRunOf
  <2> QED BY <1>3, <2>2, <2>3 DEF IsRunOf
<1> HIDE DEF L
<1>9. ASSUME NEW k \in 1..Len(H) PROVE \E a, b \in 1..m : IsRunOf(H[k], scores, a, b)
  <2>1. CASE k = L
    <3>1. p \in 1..m /\ m \in 1..m
      OBVIOUS
    <3> QED BY <1>8, <2>1, <3>1
  <2>2. CASE k < L
    <3>1. k \in 1..L /\ k \in 1..L - 1
      BY <1>1, <1>3, <2>2
    <3>2. PICK a \in 1..m - 1, b \in 1..m - 1 : IsRunOf(R[k], scores, a, b)
      BY <1>5, <3>1
    <3>3. a \in 1..m /\ b \in 1..m /\ H[k] = R[k]
      BY <1>3, <3>1
    <3> QED BY <3>2, <3>3
  <2> QED BY <1>1, <1>3, <2>1, <2>2
<1>10. ASSUME NEW i \in 1..m, scores[i] >= Threshold PROVE Holds(H, T(i - 1), T(i))
  <2>1. CASE i = m
    <3>1. H[L].start <= T(m - 1) /\ T(m) <= H[L].end
      <4>1. p - 1 \in Int /\ p - 1 <= m - 1
        OBVIOUS
      <4>2. T(p - 1) <= T(m - 1) /\ T(p - 1) \in Int
        BY <1>2, <4>1, FrameRank, FrameTimes
      <4>3. H[L].start = T(p - 1)
        BY <1>8 DEF IsRunOf
      <4> QED BY <1>2, <1>3, <4>2, <4>3
    <3> QED BY <1>1, <1>3, <2>1, <3>1 DEF Holds
  <2>2. CASE i \in 1..m - 1
    <3>1. Holds(R, T(i - 1), T(i))
      BY <1>10, <2>2 DEF RawInv
    <3>2. T(i - 1) \in Int /\ T(i) \in Int
      <4>1. i \in Int
        OBVIOUS
      <4> QED BY <4>1, FrameTimes
    <3> QED BY <1>4, <3>1, <3>2
  <2> QED BY <2>1, <2>2
<1> QED BY <1>3, <1>4, <1>9, <1>10 DEF RawInv

\* A frame that begins a run.
LEMMA FrameBegins ==
  ASSUME NEW scores, NEW m \in Nat \ {0}, NEW R, RawInv(R, scores, m - 1),
         scores[m] >= Threshold, NEW H, Adds(H, R, [start |-> T(m - 1), end |-> T(m)]),
         Len(R) > 0 => R[Len(R)].end # T(m - 1)
  PROVE  RawInv(H, scores, m)
<1> DEFINE L == Len(R)
           s == [start |-> T(m - 1), end |-> T(m)]
<1>1. R \in Seq(Span) /\ L \in Nat /\ \A k \in 1..L : R[k].end \in Int
  BY SpanFields DEF RawInv
<1>2. m \in Int /\ m - 1 \in Int /\ T(m) \in Int /\ T(m - 1) \in Int /\ T(m - 1) < T(m)
  <2>1. m \in Int /\ m - 1 \in Int
    OBVIOUS
  <2> QED BY <2>1, FrameTimes
<1>3. s \in Span /\ s.start = T(m - 1) /\ s.end = T(m)
  BY <1>2 DEF Span
<1>4. /\ H \in Seq(Span) /\ Len(H) = L + 1 /\ H[L + 1] = s
      /\ \A k \in 1..L : H[k] = R[k]
  BY DEF Adds
<1>5. \A k \in 1..L : \E p, q \in 1..m - 1 : IsRunOf(R[k], scores, p, q)
  BY DEF RawInv
<1>6. Adds(H, R, s)
  OBVIOUS
<1> HIDE DEF s, L
<1>7. L > 0 => s.start - R[L].end >= 1
  <2> SUFFICES ASSUME L > 0 PROVE s.start - R[L].end >= 1
    OBVIOUS
  <2>1. L \in 1..L
    BY <1>1
  <2>2. PICK p \in 1..m - 1, q \in 1..m - 1 : IsRunOf(R[L], scores, p, q)
    BY <1>5, <2>1
  <2>3. R[L].end = T(q) /\ R[L].end # T(m - 1)
    BY <2>2 DEF IsRunOf, L
  <2>4. q \in Int /\ q <= m - 1
    OBVIOUS
  <2>5. T(q) <= T(m - 1) /\ T(q) \in Int
    BY <1>2, <2>4, FrameRank, FrameTimes
  <2> QED BY <1>2, <1>3, <2>3, <2>5
<1>8. /\ Proper(R) /\ s.start < s.end => Proper(H)
      /\ Apart(R, 1) /\ Proper(R) => Apart(H, 1)
      /\ \A u, v \in Int : Holds(R, u, v) => Holds(H, u, v)
      /\ Holds(H, s.start, s.end)
  <2>1. 1 \in Nat /\ (Len(R) > 0 => s.start - R[Len(R)].end >= 1)
    BY <1>7 DEF L
  <2>2. /\ Proper(R) /\ s.start < s.end => Proper(H)
        /\ \A u, v \in Int : Holds(R, u, v) => Holds(H, u, v)
        /\ Holds(H, s.start, s.end)
    BY <1>1, <1>3, <1>6, SpanAddKeeps
  <2>3. Apart(R, 1) /\ Proper(R) => Apart(H, 1)
    BY <1>1, <1>3, <1>6, <2>1, AddApart
  <2> QED BY <2>2, <2>3
<1>9. ASSUME NEW k \in 1..Len(H) PROVE \E a, b \in 1..m : IsRunOf(H[k], scores, a, b)
  <2>1. CASE k = L + 1
    <3>1. m \in 1..m /\ \A i \in m..m : i = m
      OBVIOUS
    <3>2. IsRunOf(s, scores, m, m)
      BY <1>3, <3>1 DEF IsRunOf
    <3> QED BY <1>4, <2>1, <3>1, <3>2
  <2>2. CASE k \in 1..L
    <3>1. PICK a \in 1..m - 1, b \in 1..m - 1 : IsRunOf(R[k], scores, a, b)
      BY <1>5, <2>2
    <3>2. a \in 1..m /\ b \in 1..m /\ H[k] = R[k]
      BY <1>4, <2>2
    <3> QED BY <3>1, <3>2
  <2> QED BY <1>1, <1>4, <2>1, <2>2
<1>10. ASSUME NEW i \in 1..m, scores[i] >= Threshold PROVE Holds(H, T(i - 1), T(i))
  <2>1. CASE i = m
    BY <1>3, <1>8, <2>1
  <2>2. CASE i \in 1..m - 1
    <3>1. Holds(R, T(i - 1), T(i))
      BY <1>10, <2>2 DEF RawInv
    <3>2. T(i - 1) \in Int /\ T(i) \in Int
      <4>1. i \in Int
        OBVIOUS
      <4> QED BY <4>1, FrameTimes
    <3> QED BY <1>8, <3>1, <3>2
  <2> QED BY <2>1, <2>2
<1>11. Proper(R) /\ Apart(R, 1)
  BY DEF RawInv
<1> QED BY <1>2, <1>3, <1>4, <1>8, <1>9, <1>10, <1>11 DEF RawInv

LEMMA LoudFrame ==
  ASSUME NEW scores, NEW m \in Nat \ {0}, NEW R, RawInv(R, scores, m - 1),
         scores[m] \in Int, scores[m] >= Threshold
  PROVE  RawInv(Heard(R, scores, m), scores, m)
<1>1. R \in Seq(Span)
  BY DEF RawInv
<1>2. T(m) \in Int /\ T(m - 1) \in Int /\ ~(scores[m] < Threshold)
  <2>1. m \in Int
    OBVIOUS
  <2>2. Threshold \in Int
    BY SpeechSpansAssumption
  <2> QED BY <2>1, <2>2, FrameTimes
<1>3. CASE R # <<>> /\ R[Len(R)].end = T(m - 1)
  <2> DEFINE s == [R[Len(R)] EXCEPT !.end = T(m)]
  <2>1. Heard(R, scores, m) = [R EXCEPT ![Len(R)] = s]
    BY <1>2, <1>3 DEF Heard, T
  <2>2. Len(R) \in 1..Len(R) /\ R[Len(R)] \in Span
    BY <1>1, <1>3
  <2>3. s \in Span /\ s.start = R[Len(R)].start /\ s.end = T(m)
    BY <1>2, <2>2 DEF Span
  <2> HIDE DEF s
  <2>4. Reaches(Heard(R, scores, m), R, T(m))
    BY <1>1, <1>2, <1>3, <2>1, <2>3, LastReaches
  <2> QED BY <1>3, <2>4, FrameReaches
<1>4. CASE ~(R # <<>> /\ R[Len(R)].end = T(m - 1))
  <2> DEFINE s == [start |-> T(m - 1), end |-> T(m)]
  <2>1. Heard(R, scores, m) = Append(R, s)
    BY <1>2, <1>4 DEF Heard, T
  <2>2. s \in Span
    BY <1>2 DEF Span
  <2>3. Adds(Heard(R, scores, m), R, s)
    <3> HIDE DEF s
    <3> QED BY <1>1, <2>1, <2>2, OneAdds
  <2>4. Len(R) > 0 => R[Len(R)].end # T(m - 1)
    BY <1>1, <1>4
  <2> QED BY <2>3, <2>4, FrameBegins
<1> QED BY <1>3, <1>4

\* The runs are the loud frames, in order, with a quiet frame before each.
LEMMA RawIsSpeech ==
  ASSUME NEW scores \in Seq(Int)
  PROVE  RawInv(Raw(scores), scores, Len(scores))
<1>0. Len(scores) \in Nat /\ \A n \in 1..Len(scores) : scores[n] \in Int
  OBVIOUS
<1>1. PICK f : IsHearing(f, scores)
  BY <1>0, RawSteps
<1> DEFINE Good == {n \in 0..Len(scores) : RawInv(f[n], scores, n)}
<1>2. 0 \in Good
  <2>1. RawInv(<<>>, scores, 0)
    BY DEF RawInv, Proper, Apart
  <2> QED BY <1>0, <1>1, <2>1 DEF IsHearing
<1>3. ASSUME NEW n \in 1..Len(scores), n - 1 \in Good PROVE n \in Good
  <2>1. f[n] = Heard(f[n - 1], scores, n) /\ scores[n] \in Int /\ n \in Nat \ {0}
    BY <1>0, <1>1 DEF IsHearing
  <2>2. RawInv(f[n - 1], scores, n - 1)
    BY <1>3
  <2>3. CASE scores[n] >= Threshold
    <3> DEFINE R == f[n - 1]
    <3>1. n \in Nat \ {0} /\ scores[n] \in Int /\ RawInv(R, scores, n - 1)
      BY <2>1, <2>2
    <3> HIDE DEF R
    <3>2. RawInv(Heard(R, scores, n), scores, n)
      BY <2>3, <3>1, LoudFrame
    <3> QED BY <1>0, <2>1, <3>2 DEF R
  <2>4. CASE ~(scores[n] >= Threshold)
    <3>1. scores[n] < Threshold
      <4> DEFINE level == scores[n]
      <4>1. Threshold \in Int
        BY SpeechSpansAssumption
      <4>2. level \in Int
        BY <1>0
      <4>3. ~(level >= Threshold)
        BY <2>4
      <4> HIDE DEF level
      <4>4. level < Threshold
        BY <4>1, <4>2, <4>3
      <4> QED BY <4>4 DEF level
    <3>2. f[n] = f[n - 1]
      BY <2>1, <3>1 DEF Heard
    <3>3. RawInv(f[n], scores, n)
      BY <2>1, <2>2, <2>4, <3>2, QuietFrame
    <3> QED BY <1>0, <3>3
  <2> QED BY <2>3, <2>4
<1> HIDE DEF Good
<1>4. 0..Len(scores) \subseteq Good
  BY <1>0, <1>2, <1>3, UpTo
<1>5. Len(scores) \in Good
  BY <1>0, <1>4
<1> QED BY <1>1, <1>5 DEF Good, IsHearing

\* One round of each of the loops that join spans.
MergeStep(done, s) ==
    IF done # <<>> /\ s.start - done[Len(done)].end < MergeGap
    THEN [done EXCEPT ![Len(done)] = Extend(@, s)] ELSE Append(done, s)

PadStep(done, s) ==
    IF done # <<>> /\ s.start <= done[Len(done)].end
    THEN [done EXCEPT ![Len(done)] = Extend(@, s)] ELSE Append(done, s)

BlockStep(done, s) ==
    IF done # <<>> /\ (/\ s.start - done[Len(done)].end <= BlockGap
                      /\ s.end - done[Len(done)].start <= MaxBlock)
    THEN [done EXCEPT ![Len(done)] = Widen(@, s)] ELSE Append(done, s)

LEMMA LastExtends ==
  ASSUME NEW R \in Seq(Span), R # <<>>, NEW s \in Span
  PROVE  Reaches([R EXCEPT ![Len(R)] = Extend(@, s)], R, s.end)
<1> DEFINE e == Extend(R[Len(R)], s)
<1>1. R[Len(R)] \in Span
  OBVIOUS
<1>2. e \in Span /\ e.start = R[Len(R)].start /\ e.end = s.end /\ e.end \in Int
  BY <1>1 DEF Extend, Span
<1> HIDE DEF e
<1>3. Reaches([R EXCEPT ![Len(R)] = e], R, e.end)
  BY <1>2, LastReaches
<1>4. Reaches([R EXCEPT ![Len(R)] = e], R, s.end)
  BY <1>2, <1>3
<1> QED BY <1>4 DEF e

LEMMA LastWidens ==
  ASSUME NEW R \in Seq(Span), R # <<>>, NEW s \in Span, R[Len(R)].end <= s.end
  PROVE  Reaches([R EXCEPT ![Len(R)] = Widen(@, s)], R, s.end)
<1> DEFINE e == Widen(R[Len(R)], s)
<1>1. R[Len(R)] \in Span
  OBVIOUS
<1>2. e \in Span /\ e.start = R[Len(R)].start /\ e.end = s.end /\ e.end \in Int
  BY <1>1 DEF Widen, Larger, Span
<1> HIDE DEF e
<1>3. Reaches([R EXCEPT ![Len(R)] = e], R, e.end)
  BY <1>2, LastReaches
<1>4. Reaches([R EXCEPT ![Len(R)] = e], R, s.end)
  BY <1>2, <1>3
<1> QED BY <1>4 DEF e

LEMMA NotEmpty ==
  ASSUME NEW R \in Seq(Span)
  PROVE  (R # <<>>) <=> (Len(R) > 0)
OBVIOUS

LEMMA MergeStepIs ==
  ASSUME NEW D \in Seq(Span), NEW s \in Span
  PROVE  \/ /\ Len(D) > 0 /\ s.start - D[Len(D)].end < MergeGap
            /\ Reaches(MergeStep(D, s), D, s.end)
         \/ /\ Len(D) > 0 => s.start - D[Len(D)].end >= MergeGap
            /\ Adds(MergeStep(D, s), D, s)
<1>1. CASE D # <<>> /\ s.start - D[Len(D)].end < MergeGap
  BY <1>1, LastExtends, NotEmpty DEF MergeStep
<1>2. CASE ~(D # <<>> /\ s.start - D[Len(D)].end < MergeGap)
  <2>1. Adds(MergeStep(D, s), D, s)
    BY <1>2, OneAdds DEF MergeStep
  <2>2. Len(D) > 0 => s.start - D[Len(D)].end >= MergeGap
    <3> SUFFICES ASSUME Len(D) > 0 PROVE s.start - D[Len(D)].end >= MergeGap
      OBVIOUS
    <3>1. D[Len(D)] \in Span /\ MergeGap \in Int
      BY SpeechSpansAssumption
    <3>2. D[Len(D)].end \in Int /\ s.start \in Int
      BY <3>1 DEF Span
    <3> QED BY <1>2, <3>1, <3>2, NotEmpty
  <2> QED BY <2>1, <2>2
<1> QED BY <1>1, <1>2

LEMMA PadStepIs ==
  ASSUME NEW D \in Seq(Span), NEW s \in Span
  PROVE  \/ /\ Len(D) > 0 /\ s.start <= D[Len(D)].end
            /\ Reaches(PadStep(D, s), D, s.end)
         \/ /\ Len(D) > 0 => s.start > D[Len(D)].end
            /\ Adds(PadStep(D, s), D, s)
<1>1. CASE D # <<>> /\ s.start <= D[Len(D)].end
  BY <1>1, LastExtends, NotEmpty DEF PadStep
<1>2. CASE ~(D # <<>> /\ s.start <= D[Len(D)].end)
  <2>1. Adds(PadStep(D, s), D, s)
    BY <1>2, OneAdds DEF PadStep
  <2>2. Len(D) > 0 => s.start > D[Len(D)].end
    <3> SUFFICES ASSUME Len(D) > 0 PROVE s.start > D[Len(D)].end
      OBVIOUS
    <3>1. D[Len(D)] \in Span
      OBVIOUS
    <3>2. D[Len(D)].end \in Int /\ s.start \in Int
      BY <3>1 DEF Span
    <3> QED BY <1>2, <3>2, NotEmpty
  <2> QED BY <2>1, <2>2
<1> QED BY <1>1, <1>2

\* Spans come in order, so that a block reaches to the end of its last one.
LEMMA BlockStepIs ==
  ASSUME NEW D \in Seq(Span), NEW s \in Span, Len(D) > 0 => D[Len(D)].end <= s.end
  PROVE  \/ /\ Len(D) > 0 /\ s.end - D[Len(D)].start <= MaxBlock
            /\ Reaches(BlockStep(D, s), D, s.end)
         \/ /\ Len(D) > 0 => \/ s.start - D[Len(D)].end > BlockGap
                            \/ s.end - D[Len(D)].start > MaxBlock
            /\ Adds(BlockStep(D, s), D, s)
<1> DEFINE CanJoin == /\ s.start - D[Len(D)].end <= BlockGap
                   /\ s.end - D[Len(D)].start <= MaxBlock
<1>1. CASE D # <<>> /\ CanJoin
  BY <1>1, LastWidens, NotEmpty DEF BlockStep
<1>2. CASE ~(D # <<>> /\ CanJoin)
  <2>1. Adds(BlockStep(D, s), D, s)
    BY <1>2, OneAdds DEF BlockStep
  <2>2. Len(D) > 0 => \/ s.start - D[Len(D)].end > BlockGap
                      \/ s.end - D[Len(D)].start > MaxBlock
    <3> SUFFICES ASSUME Len(D) > 0 PROVE \/ s.start - D[Len(D)].end > BlockGap
                                         \/ s.end - D[Len(D)].start > MaxBlock
      OBVIOUS
    <3>1. D[Len(D)] \in Span /\ BlockGap \in Int /\ MaxBlock \in Int
      BY SpeechSpansAssumption
    <3>2. /\ D[Len(D)].end \in Int /\ D[Len(D)].start \in Int
          /\ s.start \in Int /\ s.end \in Int
      BY <3>1 DEF Span
    <3> QED BY <1>2, <3>1, <3>2, NotEmpty
  <2> QED BY <2>1, <2>2
<1> QED BY <1>1, <1>2

\* Each of them is the last of a sequence of states, as Raw is.
IsMerging(f, R) ==
    /\ f[0] = <<>> /\ \A n \in 1..Len(R) : f[n] = MergeStep(f[n - 1], R[n])
    /\ Merged(R) = f[Len(R)]

LEMMA MergedSteps ==
  ASSUME NEW R \in Seq(Span)
  PROVE  \E f : IsMerging(f, R)
<1> DEFINE N == Len(R)
           S == Seq(Span)
           step == [n \in 1..N |-> [x \in S |-> MergeStep(x, R[n])]]
           Steps(h) == h = [n \in 0..N |-> IF n = 0 THEN <<>> ELSE MergeStep(h[n - 1], R[n])]
           f == CHOOSE h : Steps(h)
<1>1. \A n \in 1..N : \A x \in S : MergeStep(x, R[n]) \in S
  <2> SUFFICES ASSUME NEW n \in 1..N, NEW x \in S PROVE MergeStep(x, R[n]) \in S
    OBVIOUS
  <2>1. R[n] \in Span
    OBVIOUS
  <2> QED BY <2>1, MergeStepIs DEF Reaches, Adds
<1>2. PICK g : IsRun(g, N, S, <<>>, step)
  <2>1. N \in Nat /\ <<>> \in S
    OBVIOUS
  <2>2. Rounds(N, S, step)
    BY <1>1 DEF Rounds
  <2> HIDE DEF N, step, S
  <2> QED BY <2>1, <2>2, Loop
<1>3. g \in [0..N -> S] /\ g[0] = <<>> /\ \A n \in 1..N : g[n] = MergeStep(g[n - 1], R[n])
  BY <1>2 DEF IsRun
<1>4. Steps(g)
  BY <1>3
<1>5. Steps(f)
  <2> HIDE DEF Steps
  <2> QED BY <1>4
<1>6. Merged(R) = f[N]
  BY DEF Merged, Coalesce, MergeStep
<1> HIDE DEF f
<1>7. f[0] = <<>> /\ \A n \in 1..N : f[n] = MergeStep(f[n - 1], R[n])
  BY <1>5
<1> QED BY <1>6, <1>7 DEF IsMerging

\* A span that takes in what was heard from R[a] to R[b].
Chain(s, R, a, b) ==
    /\ a <= b /\ s.start = R[a].start /\ s.end = R[b].end
    /\ \A c \in a..b - 1 : R[c + 1].start - R[c].end < MergeGap

MergedInv(D, R, n) ==
    /\ D \in Seq(Span) /\ Proper(D) /\ Apart(D, 1) /\ Apart(D, MergeGap)
    /\ \A k \in 1..Len(D) : \E a, b \in 1..n : Chain(D[k], R, a, b)
    /\ \A c \in 1..n : Holds(D, R[c].start, R[c].end)
    /\ n > 0 => Len(D) > 0 /\ \E a \in 1..n : Chain(D[Len(D)], R, a, n)

LEMMA MergeStepKeeps ==
  ASSUME NEW R \in Seq(Span), Proper(R), Apart(R, 1), NEW n \in 1..Len(R),
         NEW D, MergedInv(D, R, n - 1)
  PROVE  MergedInv(MergeStep(D, R[n]), R, n)
<1> DEFINE H == MergeStep(D, R[n])
           L == Len(D)
           s == R[n]
<1>1. D \in Seq(Span) /\ s \in Span /\ L \in Nat /\ n \in Nat /\ n - 1 \in Nat /\ MergeGap \in Nat
  BY SpeechSpansAssumption DEF MergedInv
<1>2. /\ \A k \in 1..L : D[k].start \in Int /\ D[k].end \in Int
      /\ \A k \in 1..Len(R) : R[k].start \in Int /\ R[k].end \in Int
      /\ s.start \in Int /\ s.end \in Int /\ s.start < s.end
  BY <1>1, SpanFields DEF Proper
<1>3. /\ Proper(D) /\ Apart(D, 1) /\ Apart(D, MergeGap)
      /\ \A k \in 1..L : \E a, b \in 1..n - 1 : Chain(D[k], R, a, b)
      /\ \A c \in 1..n - 1 : Holds(D, R[c].start, R[c].end)
      /\ n - 1 > 0 => L > 0 /\ \E a \in 1..n - 1 : Chain(D[L], R, a, n - 1)
  BY DEF MergedInv
<1>4. L > 0 => n - 1 > 0
  <2> SUFFICES ASSUME L > 0 PROVE n - 1 > 0
    OBVIOUS
  <2>1. 1 \in 1..L
    BY <1>1
  <2>2. PICK a \in 1..n - 1 : TRUE
    BY <1>3, <2>1
  <2> QED BY <1>1, <2>2
<1>5. L > 0 => /\ D[L].end = R[n - 1].end /\ s.start - D[L].end >= 1 /\ n - 1 \in 1..Len(R)
               /\ D[L].start < D[L].end /\ L \in 1..L
  <2> SUFFICES ASSUME L > 0
               PROVE  /\ D[L].end = R[n - 1].end /\ s.start - D[L].end >= 1 /\ n - 1 \in 1..Len(R)
                      /\ D[L].start < D[L].end /\ L \in 1..L
    OBVIOUS
  <2>1. D[L].end = R[n - 1].end
    BY <1>3, <1>4 DEF Chain
  <2>2. n - 1 \in 1..Len(R) /\ n - 1 < n
    BY <1>1, <1>4
  <2>3. R[n].start - R[n - 1].end >= 1
    BY <2>2 DEF Apart
  <2>4. L \in 1..L
    BY <1>1
  <2> QED BY <1>3, <2>1, <2>2, <2>3, <2>4 DEF Proper
<1>6. ASSUME NEW c \in 1..n PROVE c = n \/ c \in 1..n - 1
  BY <1>1
<1>7. 1..n - 1 \subseteq 1..n /\ n \in 1..n
  BY <1>1
<1>8. CASE L > 0 /\ s.start - D[L].end < MergeGap /\ Reaches(H, D, s.end)
  <2>0. s.end \in Int /\ D[L].end <= s.end /\ L \in 1..L
    BY <1>2, <1>5, <1>8
  <2>1. H \in Seq(Span) /\ Len(H) = L /\ H[L].start = D[L].start /\ H[L].end = s.end
    BY <1>8 DEF Reaches
  <2>2. \A k \in 1..L : k = L \/ (k \in 1..L - 1 /\ H[k] = D[k])
    BY <1>1, <1>8 DEF Reaches
  <2>3. /\ Proper(D) => Proper(H)
        /\ \A d \in Nat : Apart(D, d) => Apart(H, d)
        /\ \A u, v \in Int : Holds(D, u, v) => Holds(H, u, v)
    <3>1. Reaches(H, D, s.end)
      BY <1>8
    <3> HIDE DEF H, s
    <3> QED BY <1>1, <2>0, <3>1, ReachKeeps DEF L
  <2> HIDE DEF H, L
  <2>4. PICK a \in 1..n - 1 : Chain(D[L], R, a, n - 1)
    BY <1>3, <1>4, <1>8
  <2>5. Chain(H[L], R, a, n)
    <3>1. a <= n /\ H[L].start = R[a].start /\ H[L].end = R[n].end
      BY <1>1, <2>1, <2>4 DEF Chain
    <3>2. \A c \in a..n - 1 : c = n - 1 \/ c \in a..n - 2
      BY <1>1
    <3>3. \A c \in a..n - 1 - 1 : R[c + 1].start - R[c].end < MergeGap
      BY <2>4 DEF Chain
    <3>4. R[n - 1 + 1].start - R[n - 1].end < MergeGap
      <4>1. n - 1 + 1 = n
        BY <1>1
      <4> QED BY <1>5, <1>8, <4>1
    <3>5. \A c \in a..n - 1 : R[c + 1].start - R[c].end < MergeGap
      BY <1>1, <3>2, <3>3, <3>4
    <3> QED BY <3>1, <3>5 DEF Chain
  <2>6. ASSUME NEW k \in 1..Len(H) PROVE \E x, y \in 1..n : Chain(H[k], R, x, y)
    <3>1. CASE k = L
      BY <1>7, <2>5, <3>1
    <3>2. CASE k \in 1..L - 1 /\ H[k] = D[k]
      <4>1. k \in 1..L
        BY <1>1, <3>2
      <4>2. PICK x \in 1..n - 1, y \in 1..n - 1 : Chain(D[k], R, x, y)
        BY <1>3, <4>1
      <4> QED BY <1>7, <3>2, <4>2
    <3> QED BY <2>1, <2>2, <3>1, <3>2
  <2>7. ASSUME NEW c \in 1..n PROVE Holds(H, R[c].start, R[c].end)
    <3>1. CASE c = n
      <4>1. H[L].start <= s.start /\ s.end <= H[L].end
        BY <1>2, <1>5, <1>8, <2>0, <2>1
      <4> QED BY <2>0, <2>1, <3>1, <4>1 DEF Holds
    <3>2. CASE c \in 1..n - 1
      <4>0. c \in 1..Len(R)
        OBVIOUS
      <4>1. R[c].start \in Int /\ R[c].end \in Int
        BY <1>2, <4>0
      <4> QED BY <1>3, <2>3, <3>2, <4>1
    <3> QED BY <1>6, <3>1, <3>2
  <2>8. Apart(H, 1) /\ Apart(H, MergeGap) /\ Proper(H)
    BY <1>1, <1>3, <2>3
  <2>9. Len(H) > 0 /\ \E x \in 1..n : Chain(H[Len(H)], R, x, n)
    BY <1>7, <1>8, <2>1, <2>5
  <2>10. MergedInv(H, R, n)
    BY <2>1, <2>6, <2>7, <2>8, <2>9 DEF MergedInv
  <2> QED BY <2>10 DEF H
<1>9. CASE (L > 0 => s.start - D[L].end >= MergeGap) /\ Adds(H, D, s)
  <2>1. H \in Seq(Span) /\ Len(H) = L + 1 /\ H[L + 1] = s /\ \A k \in 1..L : H[k] = D[k]
    BY <1>9 DEF Adds
  <2>2. /\ Proper(D) /\ s.start < s.end => Proper(H)
        /\ \A u, v \in Int : Holds(D, u, v) => Holds(H, u, v)
        /\ Holds(H, s.start, s.end)
    <3>1. Adds(H, D, s)
      BY <1>9
    <3> HIDE DEF H, s
    <3> QED BY <1>1, <3>1, SpanAddKeeps
  <2>3. Apart(H, 1) /\ Apart(H, MergeGap)
    <3>1. Adds(H, D, s) /\ 1 \in Nat
      BY <1>9
    <3>2. Len(D) > 0 => s.start - D[Len(D)].end >= 1
      BY <1>5
    <3>3. Len(D) > 0 => s.start - D[Len(D)].end >= MergeGap
      BY <1>9
    <3> HIDE DEF H, s, L
    <3>4. Apart(H, 1)
      BY <1>1, <1>3, <3>1, <3>2, AddApart
    <3>5. Apart(H, MergeGap)
      BY <1>1, <1>3, <3>1, <3>3, AddApart
    <3> QED BY <3>4, <3>5
  <2> HIDE DEF H, L
  <2>4. Chain(H[L + 1], R, n, n)
    <3>1. n <= n /\ n..n - 1 = {}
      BY <1>1
    <3> QED BY <2>1, <3>1 DEF Chain
  <2>5. ASSUME NEW k \in 1..Len(H) PROVE \E x, y \in 1..n : Chain(H[k], R, x, y)
    <3>1. CASE k = L + 1
      BY <1>7, <2>4, <3>1
    <3>2. CASE k \in 1..L
      <4>1. PICK x \in 1..n - 1, y \in 1..n - 1 : Chain(D[k], R, x, y)
        BY <1>3, <3>2
      <4>2. H[k] = D[k]
        BY <2>1, <3>2
      <4> QED BY <1>7, <4>1, <4>2
    <3> QED BY <1>1, <2>1, <3>1, <3>2
  <2>6. ASSUME NEW c \in 1..n PROVE Holds(H, R[c].start, R[c].end)
    <3>1. CASE c = n
      BY <2>2, <3>1
    <3>2. CASE c \in 1..n - 1
      <4>0. c \in 1..Len(R)
        OBVIOUS
      <4>1. R[c].start \in Int /\ R[c].end \in Int
        BY <1>2, <4>0
      <4> QED BY <1>3, <2>2, <3>2, <4>1
    <3> QED BY <1>6, <3>1, <3>2
  <2>7. Len(H) > 0 /\ \E x \in 1..n : Chain(H[Len(H)], R, x, n)
    <3>1. Len(H) > 0 /\ H[Len(H)] = H[L + 1]
      BY <1>1, <2>1
    <3> QED BY <1>7, <2>4, <3>1
  <2>8. MergedInv(H, R, n)
    BY <1>2, <1>3, <2>1, <2>2, <2>3, <2>5, <2>6, <2>7 DEF MergedInv
  <2> QED BY <2>8 DEF H
<1>10. \/ L > 0 /\ s.start - D[L].end < MergeGap /\ Reaches(H, D, s.end)
       \/ (L > 0 => s.start - D[L].end >= MergeGap) /\ Adds(H, D, s)
  BY <1>1, MergeStepIs
<1> QED BY <1>8, <1>9, <1>10

\* Merged spans begin and end where runs do, across gaps below the limit only.
LEMMA MergedIsChains ==
  ASSUME NEW R \in Seq(Span), Proper(R), Apart(R, 1)
  PROVE  MergedInv(Merged(R), R, Len(R))
<1>0. Len(R) \in Nat
  OBVIOUS
<1>1. PICK f : IsMerging(f, R)
  BY MergedSteps
<1> DEFINE Good == {n \in 0..Len(R) : MergedInv(f[n], R, n)}
<1>2. 0 \in Good
  <2>1. MergedInv(<<>>, R, 0)
    BY DEF MergedInv, Proper, Apart
  <2> QED BY <1>0, <1>1, <2>1 DEF IsMerging
<1>3. ASSUME NEW n \in 1..Len(R), n - 1 \in Good PROVE n \in Good
  <2>1. f[n] = MergeStep(f[n - 1], R[n])
    BY <1>1 DEF IsMerging
  <2>2. MergedInv(f[n - 1], R, n - 1)
    BY <1>3
  <2>3. MergedInv(f[n], R, n)
    BY <2>1, <2>2, MergeStepKeeps
  <2> QED BY <1>0, <2>3
<1> HIDE DEF Good
<1>4. 0..Len(R) \subseteq Good
  BY <1>0, <1>2, <1>3, UpTo
<1>5. Len(R) \in Good
  BY <1>0, <1>4
<1> QED BY <1>1, <1>5 DEF Good, IsMerging

\* The frames that are loud, and how SpeechMs links them.
Loud(scores) == {i \in 1..Len(scores) : scores[i] >= Threshold}

Linked(loud, i, j) == \A a, b \in loud \intersect (i..j) :
    a >= b - 1 \/ (\E c \in loud : a < c /\ c < b) \/ T(b - a - 1) < MergeGap

LoudStretch(loud, i) == {j \in loud : IF i < j THEN Linked(loud, i, j) ELSE Linked(loud, j, i)}

\* A span is a stretch of loud frames, from the first to the last.
IsStretch(s, loud, p, q) ==
    /\ p \in loud /\ q \in loud /\ p <= q
    /\ s.start = T(p - 1) /\ s.end = T(q)
    /\ Linked(loud, p, q)

AreStretches(M, loud) ==
    /\ M \in Seq(Span) /\ Proper(M) /\ Apart(M, 1) /\ Apart(M, MergeGap)
    /\ \A k \in 1..Len(M) : \E p, q \in loud : IsStretch(M[k], loud, p, q)
    /\ \A i \in loud : Holds(M, T(i - 1), T(i))

NoneBetween(loud, x, y) == \A c \in loud : ~(x < c /\ c < y)

AreNeighbours(scores, x, y) ==
    /\ x \in Loud(scores) /\ y \in Loud(scores) /\ x < y - 1
    /\ NoneBetween(Loud(scores), x, y)

LieIn(s, x, y) == s.start <= T(x - 1) /\ T(y) <= s.end

\* Two loud frames with none between them, in runs that were merged, are near.
LEMMA NeighboursAreNear ==
  ASSUME NEW scores \in Seq(Int), NEW R, RawInv(R, scores, Len(scores)),
         NEW s, NEW a \in 1..Len(R), NEW b \in 1..Len(R), Chain(s, R, a, b),
         NEW x, NEW y, AreNeighbours(scores, x, y), LieIn(s, x, y)
  PROVE  T(y - x - 1) < MergeGap
<1> DEFINE N == Len(scores)
<1>1. /\ N \in Nat /\ x \in 1..N /\ y \in 1..N /\ x \in Int /\ y \in Int
      /\ x - 1 \in Int /\ y - 1 \in Int /\ x < y - 1
      /\ scores[x] >= Threshold /\ scores[y] >= Threshold
  BY DEF Loud, AreNeighbours
<1>2. /\ R \in Seq(Span) /\ Len(R) \in Nat /\ Proper(R) /\ Apart(R, 1)
      /\ \A k \in 1..Len(R) : R[k].start \in Int /\ R[k].end \in Int
      /\ \A k \in 1..Len(R) : \E p, q \in 1..N : IsRunOf(R[k], scores, p, q)
      /\ Holds(R, T(x - 1), T(x)) /\ Holds(R, T(y - 1), T(y))
  BY <1>1, SpanFields DEF RawInv
<1> HIDE DEF N
<1>3. PICK c \in 1..Len(R) : R[c].start <= T(x - 1) /\ T(x) <= R[c].end
  BY <1>2 DEF Holds
<1>4. PICK d \in 1..Len(R) : R[d].start <= T(y - 1) /\ T(y) <= R[d].end
  BY <1>2 DEF Holds
<1>5. PICK pc \in 1..N, qc \in 1..N : IsRunOf(R[c], scores, pc, qc)
  BY <1>2
<1>6. /\ T(x) \in Int /\ T(x - 1) \in Int /\ T(x - 1) < T(x)
      /\ T(y) \in Int /\ T(y - 1) \in Int /\ T(y - 1) < T(y)
  BY <1>1, FrameTimes
<1>7. /\ pc \in Int /\ qc \in Int /\ pc - 1 \in Int
      /\ R[c].start = T(pc - 1) /\ R[c].end = T(qc) /\ T(qc) \in Int
  BY <1>5, FrameTimes DEF IsRunOf
<1>8. pc <= x /\ x <= qc
  <2>1. pc - 1 <= x - 1
    BY <1>1, <1>3, <1>7, FrameRank
  <2>2. x <= qc
    BY <1>1, <1>3, <1>7, FrameRank
  <2> QED BY <1>1, <1>7, <2>1, <2>2
<1>9. c # d
  <2> SUFFICES ASSUME c = d PROVE FALSE
    OBVIOUS
  <2>1. y <= qc
    BY <1>1, <1>4, <1>7, FrameRank
  <2>2. x + 1 \in pc..qc /\ x + 1 \in 1..N
    BY <1>1, <1>7, <1>8, <2>1
  <2>3. x + 1 \in Loud(scores)
    BY <1>5, <2>2 DEF IsRunOf, Loud, N
  <2>4. x < x + 1 /\ x + 1 < y
    BY <1>1
  <2> QED BY <2>3, <2>4 DEF NoneBetween, AreNeighbours
<1>10. ~(d < c)
  <2> SUFFICES ASSUME d < c PROVE FALSE
    OBVIOUS
  <2>1. R[c].start - R[d].end >= 1
    BY <1>2 DEF Apart
  <2>2. R[c].start \in Int /\ R[d].end \in Int
    BY <1>2
  <2>3. T(y) < T(x - 1)
    <3> DEFINE u == R[d].end
               v == R[c].start
    <3>1. T(y) <= u /\ v <= T(x - 1) /\ v - u >= 1 /\ u \in Int /\ v \in Int
      BY <1>3, <1>4, <2>1, <2>2
    <3> HIDE DEF u, v
    <3> QED BY <1>6, <3>1
  <2>4. y < x - 1
    BY <1>1, <2>3, FrameRank
  <2> QED BY <1>1, <2>4
<1>11. c < d /\ c + 1 \in 1..Len(R) /\ c + 1 <= d
  BY <1>2, <1>9, <1>10
<1>12. R[d].start \in Int /\ R[c].end \in Int /\ R[d].start - R[c].end >= 1
  BY <1>2, <1>11 DEF Apart
<1>13. qc = x
  <2>1. T(qc) <= T(y - 1)
    BY <1>4, <1>6, <1>7, <1>12
  <2>2. qc <= y - 1
    BY <1>1, <1>7, <2>1, FrameRank
  <2>3. qc \in pc..qc
    BY <1>7, <1>8, <1>1
  <2>4. qc \in Loud(scores)
    BY <1>5, <2>3 DEF IsRunOf, Loud, N
  <2>5. ~(x < qc /\ qc < y)
    BY <2>4 DEF NoneBetween, AreNeighbours
  <2>6. x \in Int /\ y \in Int /\ qc \in Int /\ x <= qc
    BY <1>1, <1>7, <1>8
  <2> QED BY <2>2, <2>5, <2>6
<1>14. PICK pd \in 1..N, qd \in 1..N : IsRunOf(R[c + 1], scores, pd, qd)
  BY <1>2, <1>11
<1>15. /\ pd \in Int /\ pd - 1 \in Int /\ R[c + 1].start = T(pd - 1) /\ T(pd - 1) \in Int
       /\ pd \in Loud(scores)
  <2>1. pd \in Int /\ pd - 1 \in Int /\ pd \in pd..qd
    BY <1>14 DEF IsRunOf
  <2> QED BY <1>14, <2>1, FrameTimes DEF IsRunOf, Loud, N
<1>16. x < pd
  <2>1. R[c + 1].start - R[c].end >= 1
    BY <1>2, <1>11 DEF Apart
  <2>2. T(x) < T(pd - 1)
    <3> DEFINE u == R[c].end
               v == R[c + 1].start
    <3>1. u = T(x) /\ v = T(pd - 1) /\ v - u >= 1 /\ u \in Int /\ v \in Int
      BY <1>6, <1>7, <1>13, <1>15, <2>1
    <3> HIDE DEF u, v
    <3>2. u < v
      BY <3>1
    <3> QED BY <3>1, <3>2
  <2>3. x < pd - 1
    BY <1>1, <1>15, <2>2, FrameRank
  <2> QED BY <1>1, <1>15, <2>3
<1>17. pd <= y
  <2>1. R[c + 1].start <= R[d].start
    BY <1>2, <1>11, SpansInOrder
  <2>2. T(pd - 1) <= T(y - 1)
    <3> DEFINE u == R[c + 1].start
               v == R[d].start
               w == T(y - 1)
    <3>1. u = T(pd - 1) /\ u \in Int /\ v \in Int /\ w \in Int /\ u <= v /\ v <= w
      BY <1>4, <1>6, <1>12, <1>15, <2>1
    <3> HIDE DEF u, v
    <3>2. u <= w
      <4> HIDE DEF w
      <4> QED BY <3>1
    <3> QED BY <3>1, <3>2
  <2>3. pd - 1 <= y - 1
    BY <1>1, <1>15, <2>2, FrameRank
  <2> QED BY <1>1, <1>15, <2>3
<1>18. pd = y
  <2>1. ~(x < pd /\ pd < y)
    BY <1>15 DEF NoneBetween, AreNeighbours
  <2> QED BY <1>1, <1>15, <1>16, <1>17, <2>1
<1>19. a <= c
  <2> SUFFICES ASSUME c < a PROVE FALSE
    BY <1>2
  <2>1. R[a].start - R[c].end >= 1 /\ R[a].start \in Int
    BY <1>2 DEF Apart
  <2>2. R[a].start <= T(x - 1)
    BY DEF Chain, LieIn
  <2> DEFINE u == R[c].end
             v == R[a].start
  <2>3. u \in Int /\ v \in Int /\ v - u >= 1 /\ v <= T(x - 1) /\ T(x) <= u
    BY <1>3, <1>12, <2>1, <2>2
  <2> HIDE DEF u, v
  <2> QED BY <1>6, <2>3
<1>20. d <= b
  <2> SUFFICES ASSUME b < d PROVE FALSE
    BY <1>2
  <2>1. R[d].start - R[b].end >= 1 /\ R[b].end \in Int
    BY <1>2 DEF Apart
  <2>2. T(y) <= R[b].end
    BY DEF Chain, LieIn
  <2> DEFINE u == R[b].end
             v == R[d].start
  <2>3. u \in Int /\ v \in Int /\ v - u >= 1 /\ v <= T(y - 1) /\ T(y) <= u
    BY <1>4, <1>12, <2>1, <2>2
  <2> HIDE DEF u, v
  <2> QED BY <1>6, <2>3
<1>21. R[c + 1].start - R[c].end < MergeGap
  <2>1. c \in a..b - 1
    BY <1>2, <1>11, <1>19, <1>20
  <2> QED BY <2>1 DEF Chain
<1>22. T(y - 1) - T(x) < MergeGap
  BY <1>7, <1>13, <1>15, <1>18, <1>21
<1>23. T(y - 1) - T(x) = T(y - 1 - x) /\ y - 1 - x = y - x - 1
  BY <1>1, FrameGap
<1> QED BY <1>22, <1>23

\* Merged spans are the stretches of linked frames, one for each.
LEMMA MergedIsStretches ==
  ASSUME NEW scores \in Seq(Int)
  PROVE  AreStretches(Merged(Raw(scores)), Loud(scores))
<1> DEFINE R == Raw(scores)
           M == Merged(Raw(scores))
           loud == Loud(scores)
           N == Len(scores)
<1>1. RawInv(R, scores, N)
  BY RawIsSpeech
<1>2. R \in Seq(Span) /\ Proper(R) /\ Apart(R, 1)
  BY <1>1 DEF RawInv
<1>3. MergedInv(M, R, Len(R))
  BY <1>2, MergedIsChains
<1> HIDE DEF R, M
<1>4. /\ M \in Seq(Span) /\ Proper(M) /\ Apart(M, 1) /\ Apart(M, MergeGap)
      /\ \A k \in 1..Len(M) : \E a, b \in 1..Len(R) : Chain(M[k], R, a, b)
      /\ \A c \in 1..Len(R) : Holds(M, R[c].start, R[c].end)
  BY <1>3 DEF MergedInv
<1>5. \A c \in 1..Len(R) : \E p, q \in 1..N : IsRunOf(R[c], scores, p, q)
  BY <1>1 DEF RawInv
<1>6. ASSUME NEW c \in 1..Len(R), NEW p \in 1..N, NEW q \in 1..N, IsRunOf(R[c], scores, p, q)
      PROVE  /\ p \in loud /\ q \in loud
  <2>1. p \in p..q /\ q \in p..q
    BY <1>6 DEF IsRunOf
  <2> QED BY <1>6, <2>1 DEF IsRunOf, Loud
<1>7. ASSUME NEW k \in 1..Len(M) PROVE \E p, q \in loud : IsStretch(M[k], loud, p, q)
  <2>1. PICK a \in 1..Len(R), b \in 1..Len(R) : Chain(M[k], R, a, b)
    BY <1>4
  <2>2. PICK p \in 1..N, p2 \in 1..N : IsRunOf(R[a], scores, p, p2)
    BY <1>5
  <2>3. PICK q2 \in 1..N, q \in 1..N : IsRunOf(R[b], scores, q2, q)
    BY <1>5
  <2>4. p \in loud /\ q \in loud
    BY <1>6, <2>2, <2>3
  <2>5. M[k].start = T(p - 1) /\ M[k].end = T(q)
    BY <2>1, <2>2, <2>3 DEF Chain, IsRunOf
  <2>6. p \in Int /\ q \in Int /\ p - 1 \in Int
    OBVIOUS
  <2>7. p <= q
    <3>1. T(p - 1) < T(q)
      BY <1>4, <2>5 DEF Proper
    <3>2. p - 1 < q
      BY <2>6, <3>1, FrameRank
    <3> QED BY <2>6, <3>2
  <2>8. Linked(loud, p, q)
    <3> SUFFICES ASSUME NEW x \in loud, NEW y \in loud, x \in p..q, y \in p..q,
                        ~(x >= y - 1), ~\E c \in loud : x < c /\ c < y
                 PROVE  T(y - x - 1) < MergeGap
      BY DEF Linked
    <3>1. x \in Int /\ y \in Int /\ x - 1 \in Int /\ x < y - 1
      BY <2>6
    <3>2. p - 1 <= x - 1 /\ y <= q
      BY <2>6, <3>1
    <3>3. T(p - 1) <= T(x - 1) /\ T(y) <= T(q)
      BY <2>6, <3>1, <3>2, FrameRank
    <3>4. LieIn(M[k], x, y)
      BY <2>5, <3>3 DEF LieIn
    <3>5. AreNeighbours(scores, x, y)
      BY <3>1 DEF NoneBetween, AreNeighbours
    <3> QED BY <1>1, <2>1, <3>1, <3>4, <3>5, NeighboursAreNear
  <2>9. IsStretch(M[k], loud, p, q)
    BY <2>4, <2>5, <2>7, <2>8 DEF IsStretch
  <2> QED BY <2>4, <2>9
<1>8. ASSUME NEW i \in loud PROVE Holds(M, T(i - 1), T(i))
  <2>1. i \in 1..N /\ scores[i] >= Threshold /\ i \in Int
    BY DEF Loud
  <2>2. Holds(R, T(i - 1), T(i))
    BY <1>1, <2>1 DEF RawInv
  <2>3. PICK c \in 1..Len(R) : R[c].start <= T(i - 1) /\ T(i) <= R[c].end
    BY <2>2 DEF Holds
  <2>4. PICK k \in 1..Len(M) : M[k].start <= R[c].start /\ R[c].end <= M[k].end
    BY <1>4 DEF Holds
  <2>5. /\ M[k].start \in Int /\ M[k].end \in Int /\ R[c].start \in Int /\ R[c].end \in Int
        /\ T(i) \in Int /\ T(i - 1) \in Int
    BY <1>2, <1>4, <2>1, SpanFields, FrameTimes
  <2>6. M[k].start <= T(i - 1) /\ T(i) <= M[k].end
    BY <2>3, <2>4, <2>5
  <2> QED BY <2>6 DEF Holds
<1> HIDE DEF loud
<1>9. AreStretches(M, loud)
  BY <1>4, <1>7, <1>8 DEF AreStretches
<1> QED BY <1>9 DEF M, loud

\* No link leads over the silence between two of the spans.
LEMMA SilenceParts ==
  ASSUME NEW loud \in SUBSET Nat, NEW M, AreStretches(M, loud),
         NEW k \in 1..Len(M), k + 1 \in 1..Len(M),
         NEW p1 \in loud, NEW q1 \in loud, IsStretch(M[k], loud, p1, q1),
         NEW p2 \in loud, NEW q2 \in loud, IsStretch(M[k + 1], loud, p2, q2),
         NEW i \in Nat, NEW j \in Nat, i <= q1, p2 <= j
  PROVE  ~Linked(loud, i, j)
<1>1. /\ M \in Seq(Span) /\ Proper(M) /\ Apart(M, 1) /\ Apart(M, MergeGap) /\ Len(M) \in Nat
      /\ \A h \in 1..Len(M) : M[h].start \in Int /\ M[h].end \in Int
  BY SpanFields DEF AreStretches
<1>2. /\ q1 \in Int /\ p2 \in Int /\ p2 - 1 \in Int
      /\ M[k].end = T(q1) /\ M[k + 1].start = T(p2 - 1)
      /\ T(q1) \in Int /\ T(p2 - 1) \in Int /\ MergeGap \in Int
  <2>1. q1 \in Nat /\ p2 \in Nat
    OBVIOUS
  <2>2. q1 \in Int /\ p2 \in Int /\ p2 - 1 \in Int
    BY <2>1
  <2>3. T(q1) \in Int /\ T(p2 - 1) \in Int
    BY <2>2, FrameTimes
  <2>4. M[k].end = T(q1) /\ M[k + 1].start = T(p2 - 1)
    BY DEF IsStretch
  <2>5. MergeGap \in Int
    BY SpeechSpansAssumption
  <2> QED BY <2>2, <2>3, <2>4, <2>5
<1>3. T(p2 - 1) - T(q1) >= 1 /\ T(p2 - 1) - T(q1) >= MergeGap
  <2>1. k < k + 1
    BY <1>1
  <2> QED BY <1>1, <1>2, <2>1 DEF Apart
<1>4. q1 < p2 - 1
  <2>1. T(q1) < T(p2 - 1)
    BY <1>2, <1>3
  <2> QED BY <1>2, <2>1, FrameRank
<1>5. ASSUME NEW c \in loud PROVE ~(q1 < c /\ c < p2)
  <2>1. c \in Nat /\ c \in Int /\ c - 1 \in Int
    OBVIOUS
  <2>2. T(c) \in Int /\ T(c - 1) \in Int
    BY <2>1, FrameTimes
  <2>3. PICK h \in 1..Len(M) : M[h].start <= T(c - 1) /\ T(c) <= M[h].end
    BY DEF AreStretches, Holds
  <2>4. M[h].start \in Int /\ M[h].end \in Int
    BY <1>1
  <2>5. CASE h <= k
    <3>1. M[h].end <= M[k].end
      BY <1>1, <2>5, SpansInOrder
    <3> DEFINE e == M[h].end
    <3>2. e \in Int /\ T(c) <= e /\ e <= T(q1)
      BY <1>2, <2>3, <2>4, <3>1
    <3> HIDE DEF e
    <3>3. T(c) <= T(q1)
      BY <1>2, <2>2, <3>2
    <3>4. c <= q1
      BY <1>2, <2>1, <3>3, FrameRank
    <3> QED BY <1>2, <2>1, <3>4
  <2>6. CASE k < h
    <3>1. M[k + 1].start <= M[h].start
      <4>1. k + 1 <= h
        BY <1>1, <2>6
      <4> QED BY <1>1, <4>1, SpansInOrder
    <3> DEFINE e == M[h].start
    <3>2. e \in Int /\ e <= T(c - 1) /\ T(p2 - 1) <= e
      BY <1>2, <2>3, <2>4, <3>1
    <3> HIDE DEF e
    <3>3. T(p2 - 1) <= T(c - 1)
      BY <1>2, <2>2, <3>2
    <3>4. p2 - 1 <= c - 1
      BY <1>2, <2>1, <3>3, FrameRank
    <3> QED BY <1>2, <2>1, <3>4
  <2> QED BY <1>1, <2>5, <2>6
<1>6. ~(T(p2 - q1 - 1) < MergeGap)
  <2>1. T(p2 - 1) - T(q1) = T(p2 - 1 - q1) /\ p2 - 1 - q1 = p2 - q1 - 1
    BY <1>2, FrameGap
  <2> QED BY <1>2, <1>3, <2>1
<1>7. q1 \in loud \intersect (i..j) /\ p2 \in loud \intersect (i..j)
  BY <1>2, <1>4
<1> QED BY <1>2, <1>4, <1>5, <1>6, <1>7 DEF Linked

LEMMA LinksShrink ==
  ASSUME NEW loud \in SUBSET Nat, NEW p \in Nat, NEW q \in Nat, Linked(loud, p, q),
         NEW i \in p..q, NEW j \in p..q
  PROVE  Linked(loud, i, j)
<1>1. i..j \subseteq p..q
  OBVIOUS
<1> QED BY <1>1 DEF Linked

\* A loud frame of a span is linked to those of that span, and to no other.
LEMMA StretchIs ==
  ASSUME NEW loud \in SUBSET Nat, NEW M, AreStretches(M, loud), NEW k \in 1..Len(M),
         NEW p \in loud, NEW q \in loud, IsStretch(M[k], loud, p, q),
         NEW i \in loud, i \in p..q
  PROVE  LoudStretch(loud, i) = loud \intersect (p..q)
<1>1. /\ M \in Seq(Span) /\ Len(M) \in Nat /\ Proper(M) /\ Apart(M, 1)
      /\ \A h \in 1..Len(M) : M[h].start \in Int /\ M[h].end \in Int
      /\ \A h \in 1..Len(M) : \E a, b \in loud : IsStretch(M[h], loud, a, b)
  BY SpanFields DEF AreStretches
<1>2. p \in Nat /\ q \in Nat /\ i \in Nat /\ \A j \in loud : j \in Nat
  OBVIOUS
<1>3. ASSUME NEW j \in loud, j \in p..q PROVE j \in LoudStretch(loud, i)
  <2>1. Linked(loud, i, j) /\ Linked(loud, j, i)
    BY <1>2, <1>3, LinksShrink DEF IsStretch
  <2> QED BY <2>1 DEF LoudStretch
<1>4. ASSUME NEW j \in LoudStretch(loud, i), j \notin p..q PROVE FALSE
  <2>1. j \in loud /\ j \in Nat /\ j - 1 \in Int /\ j \in Int
    BY <1>2 DEF LoudStretch
  <2>2. PICK l \in 1..Len(M) : M[l].start <= T(j - 1) /\ T(j) <= M[l].end
    BY <2>1 DEF AreStretches, Holds
  <2>3. PICK a \in loud, b \in loud : IsStretch(M[l], loud, a, b)
    BY <1>1
  <2>4. /\ a \in Int /\ b \in Int /\ a - 1 \in Int /\ T(j - 1) \in Int /\ T(j) \in Int
        /\ M[l].start = T(a - 1) /\ M[l].end = T(b)
    <3>1. a \in Nat /\ b \in Nat
      OBVIOUS
    <3>2. a \in Int /\ b \in Int /\ a - 1 \in Int
      BY <3>1
    <3> QED BY <2>1, <2>3, <3>2, FrameTimes DEF IsStretch
  <2>5. a <= j /\ j <= b
    <3>1. a - 1 <= j - 1
      BY <2>1, <2>2, <2>4, FrameRank
    <3>2. j <= b
      BY <2>1, <2>2, <2>4, FrameRank
    <3> QED BY <2>1, <2>4, <3>1, <3>2
  <2>6. /\ M[k].start = T(p - 1) /\ M[k].end = T(q) /\ p - 1 \in Int /\ p \in Int /\ q \in Int
        /\ T(p - 1) \in Int /\ T(q) \in Int
    <3>1. p - 1 \in Int /\ p \in Int /\ q \in Int
      BY <1>2
    <3> QED BY <3>1, FrameTimes DEF IsStretch
  <2>7. k # l
    <3> SUFFICES ASSUME k = l PROVE FALSE
      OBVIOUS
    <3>1. a - 1 = p - 1 /\ b = q
      BY <2>4, <2>6, FrameRank
    <3>2. a = p
      BY <2>4, <2>6, <3>1
    <3> QED BY <1>2, <1>4, <2>1, <2>5, <3>1, <3>2
  <2>8. CASE k < l
    <3>1. k + 1 \in 1..Len(M) /\ k + 1 <= l
      BY <1>1, <2>8
    <3>2. PICK a1 \in loud, b1 \in loud : IsStretch(M[k + 1], loud, a1, b1)
      BY <1>1, <3>1
    <3>3. a1 \in Nat /\ M[k + 1].start = T(a1 - 1)
      BY <3>2 DEF IsStretch
    <3>4. M[k + 1].start <= M[l].start
      BY <1>1, <3>1, SpansInOrder
    <3>5. a1 - 1 <= a - 1
      <4>1. a1 - 1 \in Int
        BY <3>3
      <4> QED BY <2>4, <3>3, <3>4, <4>1, FrameRank
    <3>6. a1 <= j
      BY <2>1, <2>4, <2>5, <3>3, <3>5
    <3>7. i <= q /\ i < j
      <4>1. M[l].start - M[k].end >= 1
        BY <1>1, <2>8 DEF Apart
      <4>2. T(q) < T(a - 1)
        <5>1. T(a - 1) \in Int
          BY <2>4, FrameTimes
        <5>2. T(a - 1) - T(q) >= 1
          BY <2>4, <2>6, <4>1
        <5> QED BY <2>6, <5>1, <5>2
      <4>3. q < a - 1
        BY <2>4, <2>6, <4>2, FrameRank
      <4>4. i <= q
        BY <1>2
      <4> QED BY <1>2, <2>1, <2>4, <2>5, <2>6, <4>3, <4>4
    <3>8. ~Linked(loud, i, j)
      BY <1>2, <2>1, <3>1, <3>2, <3>6, <3>7, SilenceParts
    <3> QED BY <3>7, <3>8 DEF LoudStretch
  <2>9. CASE l < k
    <3>1. k - 1 \in 1..Len(M) /\ l <= k - 1 /\ k - 1 + 1 = k
      BY <1>1, <2>9
    <3>2. PICK a1 \in loud, b1 \in loud : IsStretch(M[k - 1], loud, a1, b1)
      BY <1>1, <3>1
    <3>3. b1 \in Nat /\ M[k - 1].end = T(b1)
      BY <3>2 DEF IsStretch
    <3>4. M[l].end <= M[k - 1].end
      BY <1>1, <3>1, SpansInOrder
    <3>5. b <= b1
      <4>1. b1 \in Int
        BY <3>3
      <4> QED BY <2>4, <3>3, <3>4, <4>1, FrameRank
    <3>6. j <= b1
      BY <2>1, <2>4, <2>5, <3>3, <3>5
    <3>7. ~Linked(loud, j, i)
      <4>1. IsStretch(M[k - 1 + 1], loud, p, q) /\ k - 1 + 1 \in 1..Len(M)
        BY <3>1
      <4>2. p <= i
        BY <1>2
      <4> QED BY <1>2, <2>1, <3>1, <3>2, <3>6, <4>1, <4>2, SilenceParts
    <3>8. j < i
      <4>1. M[k].start - M[l].end >= 1
        BY <1>1, <2>9 DEF Apart
      <4>2. T(b) < T(p - 1)
        <5>1. T(b) \in Int
          BY <2>4, FrameTimes
        <5> QED BY <2>4, <2>6, <4>1, <5>1
      <4>3. b < p - 1
        BY <2>4, <2>6, <4>2, FrameRank
      <4>4. p \in Int /\ b \in Int /\ i \in Int /\ j \in Int
        BY <1>2, <2>1, <2>4, <2>6
      <4>5. p <= i
        OBVIOUS
      <4> QED BY <2>5, <4>3, <4>4, <4>5
    <3> QED BY <1>2, <2>1, <3>7, <3>8 DEF LoudStretch
  <2> QED BY <1>1, <2>7, <2>8, <2>9
<1>5. \A j \in LoudStretch(loud, i) : j \in loud
  BY DEF LoudStretch
<1> QED BY <1>3, <1>4, <1>5

\* The extent of a stretch of loud frames, with the padding.
Extent(S) == [start |-> T(Min(S) - 1) - Pad, end |-> T(Max(S)) + Pad]

LoudStretches(loud) == {LoudStretch(loud, i) : i \in loud}
Lasting(loud) == {S \in LoudStretches(loud) : T(Max(S) - Min(S) + 1) >= MinSpeech}

LEMMA SpeechMsIs ==
  ASSUME NEW scores \in Seq(Int), NEW total
  PROVE  SpeechMs(scores, total)
           = AllMs({Extent(S) : S \in Lasting(Loud(scores))}) \intersect (0..total - 1)
<1>1. DOMAIN scores = 1..Len(scores)
  OBVIOUS
<1> QED BY <1>1 DEF SpeechMs, Extent, Lasting, LoudStretches, LoudStretch, Linked, Loud, T

IsFromTo(S, p, q) == Min(S) = p /\ Max(S) = q /\ T(q - p + 1) = T(q) - T(p - 1)

LEMMA ExtentIs ==
  ASSUME NEW loud \in SUBSET Nat, NEW p \in loud, NEW q \in loud, p <= q,
         NEW S, S = loud \intersect (p..q)
  PROVE  IsFromTo(S, p, q)
<1>1. p \in Nat /\ q \in Nat /\ p \in S /\ q \in S /\ \A x \in S : x \in Nat /\ p <= x /\ x <= q
  OBVIOUS
<1>2. Min(S) = p
  <2>1. Min(S) \in S /\ \A y \in S : Min(S) <= y
    BY <1>1, MinIsLeast
  <2> DEFINE m == Min(S)
  <2>2. m \in Nat /\ p <= m /\ m <= p
    BY <1>1, <2>1
  <2> HIDE DEF m
  <2>3. m = p
    BY <1>1, <2>2
  <2> QED BY <2>3 DEF m
<1>3. Max(S) = q
  <2>1. \E x \in S : \A y \in S : x >= y
    <3>1. \A y \in S : q >= y
      BY <1>1
    <3> QED BY <1>1, <3>1
  <2> DEFINE m == Max(S)
  <2>2. m \in S /\ \A y \in S : m >= y
    BY <2>1 DEF Max
  <2>3. m \in Nat /\ m <= q /\ m >= q
    BY <1>1, <2>2
  <2> HIDE DEF m
  <2>4. m = q
    BY <1>1, <2>3
  <2> QED BY <2>4 DEF m
<1>4. T(q - p + 1) = T(q) - T(p - 1)
  <2>1. p - 1 \in Int /\ q \in Int /\ q - (p - 1) = q - p + 1
    BY <1>1
  <2> QED BY <2>1, FrameGap
<1> QED BY <1>2, <1>3, <1>4 DEF IsFromTo

\* A moment is a span's when its padding reaches there.
Near(s, x) == s.start - Pad <= x /\ x < s.end + Pad

LEMMA ExtentHas ==
  ASSUME NEW S, NEW s \in Span, NEW x \in Int,
         Extent(S).start = s.start - Pad, Extent(S).end = s.end + Pad
  PROVE  x \in Ms(Extent(S)) <=> Near(s, x)
<1>1. s.start \in Int /\ s.end \in Int /\ Pad \in Int
  BY SpeechSpansAssumption DEF Span
<1> DEFINE u == Extent(S).start
           v == Extent(S).end
<1>2. Ms(Extent(S)) = u..v - 1
  BY DEF Ms
<1>3. u \in Int /\ v \in Int /\ u = s.start - Pad /\ v = s.end + Pad
  BY <1>1
<1> HIDE DEF u, v
<1>4. x \in u..v - 1 <=> u <= x /\ x < v
  BY <1>3
<1>5. Near(s, x) <=> u <= x /\ x < v
  BY <1>3 DEF Near
<1>6. x \in Ms(Extent(S)) <=> x \in u..v - 1
  BY <1>2
<1> QED
  <2> HIDE DEF Near
  <2> QED BY <1>4, <1>5, <1>6

\* What SpeechMs takes for speech is what the spans that are long enough hold.
LEMMA SpeechIsSpans ==
  ASSUME NEW scores \in Seq(Int), NEW total \in Nat, NEW M, AreStretches(M, Loud(scores)),
         NEW x \in 0..total - 1
  PROVE  x \in SpeechMs(scores, total)
           <=> \E k \in 1..Len(M) : LongEnough(M[k]) /\ Near(M[k], x)
<1> DEFINE loud == Loud(scores)
<1>1. loud \in SUBSET Nat
  BY DEF Loud
<1>2. /\ M \in Seq(Span) /\ Len(M) \in Nat
      /\ \A k \in 1..Len(M) : M[k] \in Span /\ M[k].start \in Int /\ M[k].end \in Int
      /\ \A k \in 1..Len(M) : \E p, q \in loud : IsStretch(M[k], loud, p, q)
      /\ \A i \in loud : Holds(M, T(i - 1), T(i))
      /\ AreStretches(M, loud)
  BY SpanFields DEF AreStretches
<1>3. x \in Int
  OBVIOUS
<1>4. x \in SpeechMs(scores, total) <=> \E S \in Lasting(loud) : x \in Ms(Extent(S))
  <2>1. x \in SpeechMs(scores, total) <=> x \in AllMs({Extent(S) : S \in Lasting(loud)})
    BY SpeechMsIs
  <2> HIDE DEF loud
  <2> QED BY <2>1 DEF AllMs
<1> HIDE DEF loud
<1>5. ASSUME NEW k \in 1..Len(M), NEW p \in loud, NEW q \in loud, IsStretch(M[k], loud, p, q),
             NEW i \in loud, i \in p..q, NEW S, S = LoudStretch(loud, i)
      PROVE  /\ S \in Lasting(loud) <=> LongEnough(M[k])
             /\ x \in Ms(Extent(S)) <=> Near(M[k], x)
  <2>1. S = loud \intersect (p..q)
    <3>1. LoudStretch(loud, i) = loud \intersect (p..q)
      BY <1>1, <1>2, <1>5, StretchIs
    <3> QED BY <1>5, <3>1
  <2>2. p <= q /\ M[k].start = T(p - 1) /\ M[k].end = T(q)
    BY <1>5 DEF IsStretch
  <2>3. Min(S) = p /\ Max(S) = q /\ T(q - p + 1) = T(q) - T(p - 1)
    <3>1. IsFromTo(S, p, q)
      BY <1>1, <2>1, <2>2, ExtentIs
    <3> QED BY <3>1 DEF IsFromTo
  <2>4. S \in LoudStretches(loud)
    BY <1>5 DEF LoudStretches
  <2>5. Extent(S).start = M[k].start - Pad /\ Extent(S).end = M[k].end + Pad
    BY <2>2, <2>3 DEF Extent
  <2>6. S \in Lasting(loud) <=> LongEnough(M[k])
    BY <2>2, <2>3, <2>4 DEF Lasting, LongEnough
  <2> QED BY <1>2, <1>3, <2>5, <2>6, ExtentHas
<1>6. ASSUME NEW S \in Lasting(loud), x \in Ms(Extent(S))
      PROVE  \E k \in 1..Len(M) : LongEnough(M[k]) /\ Near(M[k], x)
  <2>1. PICK i \in loud : S = LoudStretch(loud, i)
    BY DEF Lasting, LoudStretches
  <2>2. PICK k \in 1..Len(M) : M[k].start <= T(i - 1) /\ T(i) <= M[k].end
    BY <1>2 DEF Holds
  <2>3. PICK p \in loud, q \in loud : IsStretch(M[k], loud, p, q)
    BY <1>2
  <2>4. i \in p..q
    <3>1. i \in Int /\ i - 1 \in Int /\ p \in Int /\ p - 1 \in Int /\ q \in Int
      <4>1. i \in Nat /\ p \in Nat /\ q \in Nat
        BY <1>1
      <4> QED BY <4>1
    <3>2. T(p - 1) <= T(i - 1) /\ T(i) <= T(q)
      BY <2>2, <2>3 DEF IsStretch
    <3>3. p - 1 <= i - 1 /\ i <= q
      BY <3>1, <3>2, FrameRank
    <3> QED BY <3>1, <3>3
  <2>5. LongEnough(M[k]) /\ Near(M[k], x)
    BY <1>5, <1>6, <2>1, <2>3, <2>4
  <2> QED BY <2>5
<1>7. ASSUME NEW k \in 1..Len(M), LongEnough(M[k]), Near(M[k], x)
      PROVE  \E S \in Lasting(loud) : x \in Ms(Extent(S))
  <2>1. PICK p \in loud, q \in loud : IsStretch(M[k], loud, p, q)
    BY <1>2
  <2>2. p \in p..q
    <3>1. p \in Nat /\ q \in Nat /\ p <= q
      BY <1>1, <2>1 DEF IsStretch
    <3> QED BY <3>1
  <2>3. LoudStretch(loud, p) \in Lasting(loud) /\ x \in Ms(Extent(LoudStretch(loud, p)))
    BY <1>5, <1>7, <2>1, <2>2
  <2> QED BY <2>3
<1> QED
  BY <1>4, <1>6, <1>7

\* The spans that are long enough, one after the other.
SelectStep(done, s) == IF LongEnough(s) THEN Append(done, s) ELSE done

IsSelecting(f, R) ==
    /\ f[0] = <<>> /\ \A n \in 1..Len(R) : f[n] = SelectStep(f[n - 1], R[n])
    /\ Selected(R, LongEnough) = f[Len(R)]

LEMMA SelectedSteps ==
  ASSUME NEW R \in Seq(Span)
  PROVE  \E f : IsSelecting(f, R)
<1> DEFINE N == Len(R)
           S == Seq(Span)
           step == [n \in 1..N |-> [x \in S |-> SelectStep(x, R[n])]]
           Steps(h) == h = [n \in 0..N |-> IF n = 0 THEN <<>> ELSE SelectStep(h[n - 1], R[n])]
           f == CHOOSE h : Steps(h)
<1>1. \A n \in 1..N : \A x \in S : SelectStep(x, R[n]) \in S
  <2> SUFFICES ASSUME NEW n \in 1..N, NEW x \in S PROVE SelectStep(x, R[n]) \in S
    OBVIOUS
  <2>1. R[n] \in Span
    OBVIOUS
  <2> QED BY <2>1 DEF SelectStep
<1>2. PICK g : IsRun(g, N, S, <<>>, step)
  <2>1. N \in Nat /\ <<>> \in S
    OBVIOUS
  <2>2. Rounds(N, S, step)
    BY <1>1 DEF Rounds
  <2> HIDE DEF N, step, S
  <2> QED BY <2>1, <2>2, Loop
<1>3. g \in [0..N -> S] /\ g[0] = <<>> /\ \A n \in 1..N : g[n] = SelectStep(g[n - 1], R[n])
  BY <1>2 DEF IsRun
<1>4. Steps(g)
  BY <1>3
<1>5. Steps(f)
  <2> HIDE DEF Steps
  <2> QED BY <1>4
<1>6. Selected(R, LongEnough) = f[N]
  BY DEF Selected, SelectStep
<1> HIDE DEF f
<1>7. f[0] = <<>> /\ \A n \in 1..N : f[n] = SelectStep(f[n - 1], R[n])
  BY <1>5
<1> QED BY <1>6, <1>7 DEF IsSelecting

SelectedInv(D, R, n) ==
    /\ D \in Seq(Span) /\ Proper(D) /\ Apart(D, 1)
    /\ \A k \in 1..Len(D) : \E c \in 1..n : D[k] = R[c] /\ LongEnough(R[c])
    /\ \A c \in 1..n : LongEnough(R[c]) => \E k \in 1..Len(D) : D[k] = R[c]

LEMMA SelectStepKeeps ==
  ASSUME NEW R \in Seq(Span), Proper(R), Apart(R, 1), NEW n \in 1..Len(R),
         NEW D, SelectedInv(D, R, n - 1)
  PROVE  SelectedInv(SelectStep(D, R[n]), R, n)
<1> DEFINE H == SelectStep(D, R[n])
           L == Len(D)
           s == R[n]
<1>1. /\ D \in Seq(Span) /\ s \in Span /\ L \in Nat /\ n \in Nat /\ n - 1 \in Nat
      /\ Proper(D) /\ Apart(D, 1)
      /\ \A k \in 1..L : \E c \in 1..n - 1 : D[k] = R[c] /\ LongEnough(R[c])
      /\ \A c \in 1..n - 1 : LongEnough(R[c]) => \E k \in 1..L : D[k] = R[c]
  BY DEF SelectedInv
<1>2. 1..n - 1 \subseteq 1..n /\ n \in 1..n /\ \A c \in 1..n : c = n \/ c \in 1..n - 1
  BY <1>1
<1>3. CASE ~LongEnough(s)
  <2>1. H = D
    BY <1>3 DEF SelectStep
  <2>2. \A k \in 1..L : \E c \in 1..n : D[k] = R[c] /\ LongEnough(R[c])
    BY <1>1, <1>2
  <2>3. \A c \in 1..n : LongEnough(R[c]) => \E k \in 1..L : D[k] = R[c]
    BY <1>1, <1>2, <1>3
  <2> HIDE DEF s
  <2>4. SelectedInv(D, R, n)
    BY <1>1, <2>2, <2>3 DEF SelectedInv
  <2> QED BY <2>1, <2>4
<1>4. CASE LongEnough(s)
  <2>1. Adds(H, D, s)
    BY <1>1, <1>4, OneAdds DEF SelectStep
  <2>2. H \in Seq(Span) /\ Len(H) = L + 1 /\ H[L + 1] = s /\ \A k \in 1..L : H[k] = D[k]
    BY <2>1 DEF Adds
  <2>3. s.start < s.end
    BY DEF Proper
  <2>4. L > 0 => s.start - D[L].end >= 1
    <3> SUFFICES ASSUME L > 0 PROVE s.start - D[L].end >= 1
      OBVIOUS
    <3>1. L \in 1..L
      BY <1>1
    <3>2. PICK c \in 1..n - 1 : D[L] = R[c]
      BY <1>1, <3>1
    <3>3. c \in 1..Len(R) /\ c < n
      BY <1>1
    <3>4. R[n].start - R[c].end >= 1
      BY <3>3 DEF Apart
    <3> QED BY <3>2, <3>4
  <2>5. Proper(H) /\ Apart(H, 1)
    <3>1. Len(D) > 0 => s.start - D[Len(D)].end >= 1
      BY <2>4
    <3> HIDE DEF H, s, L
    <3>2. Proper(H)
      BY <1>1, <2>1, <2>3, SpanAddKeeps
    <3>3. Apart(H, 1)
      BY <1>1, <2>1, <3>1, AddApart
    <3> QED BY <3>2, <3>3
  <2> HIDE DEF H, L
  <2>6. ASSUME NEW k \in 1..Len(H) PROVE \E c \in 1..n : H[k] = R[c] /\ LongEnough(R[c])
    <3>1. CASE k = L + 1
      BY <1>2, <1>4, <2>2, <3>1
    <3>2. CASE k \in 1..L
      <4>1. PICK c \in 1..n - 1 : D[k] = R[c] /\ LongEnough(R[c])
        BY <1>1, <3>2
      <4> QED BY <1>2, <2>2, <3>2, <4>1
    <3> QED BY <1>1, <2>2, <3>1, <3>2
  <2>7. ASSUME NEW c \in 1..n, LongEnough(R[c]) PROVE \E k \in 1..Len(H) : H[k] = R[c]
    <3>0. L + 1 \in 1..Len(H) /\ 1..L \subseteq 1..Len(H)
      BY <1>1, <2>2
    <3>1. CASE c = n
      BY <2>2, <3>0, <3>1
    <3>2. CASE c \in 1..n - 1
      <4>1. PICK k \in 1..L : D[k] = R[c]
        BY <1>1, <2>7, <3>2
      <4> QED BY <2>2, <3>0, <4>1
    <3> QED BY <1>2, <3>1, <3>2
  <2>8. SelectedInv(H, R, n)
    BY <2>2, <2>5, <2>6, <2>7 DEF SelectedInv
  <2> QED BY <2>8 DEF H
<1> QED BY <1>3, <1>4

\* What is kept is all that is long enough, in order.
LEMMA SelectedAreLong ==
  ASSUME NEW R \in Seq(Span), Proper(R), Apart(R, 1)
  PROVE  SelectedInv(Selected(R, LongEnough), R, Len(R))
<1>0. Len(R) \in Nat
  OBVIOUS
<1>1. PICK f : IsSelecting(f, R)
  BY SelectedSteps
<1> DEFINE Good == {n \in 0..Len(R) : SelectedInv(f[n], R, n)}
<1>2. 0 \in Good
  <2>1. SelectedInv(<<>>, R, 0)
    BY DEF SelectedInv, Proper, Apart
  <2> QED BY <1>0, <1>1, <2>1 DEF IsSelecting
<1>3. ASSUME NEW n \in 1..Len(R), n - 1 \in Good PROVE n \in Good
  <2>1. f[n] = SelectStep(f[n - 1], R[n])
    BY <1>1 DEF IsSelecting
  <2>2. SelectedInv(f[n - 1], R, n - 1)
    BY <1>3
  <2>3. SelectedInv(f[n], R, n)
    BY <2>1, <2>2, SelectStepKeeps
  <2> QED BY <1>0, <2>3
<1> HIDE DEF Good
<1>4. 0..Len(R) \subseteq Good
  BY <1>0, <1>2, <1>3, UpTo
<1>5. Len(R) \in Good
  BY <1>0, <1>4
<1> QED BY <1>1, <1>5 DEF Good, IsSelecting

\* Joining widened spans that touch.
IsPadding(f, W) ==
    /\ f[0] = <<>> /\ \A n \in 1..Len(W) : f[n] = PadStep(f[n - 1], W[n])

LEMMA PaddedSteps ==
  ASSUME NEW W \in Seq(Span)
  PROVE  \E f : IsPadding(f, W)
             /\ Coalesce(W, LAMBDA a, b : b.start <= a.end, Extend) = f[Len(W)]
<1> DEFINE N == Len(W)
           S == Seq(Span)
           step == [n \in 1..N |-> [x \in S |-> PadStep(x, W[n])]]
           Steps(h) == h = [n \in 0..N |-> IF n = 0 THEN <<>> ELSE PadStep(h[n - 1], W[n])]
           f == CHOOSE h : Steps(h)
<1>1. \A n \in 1..N : \A x \in S : PadStep(x, W[n]) \in S
  <2> SUFFICES ASSUME NEW n \in 1..N, NEW x \in S PROVE PadStep(x, W[n]) \in S
    OBVIOUS
  <2>1. W[n] \in Span
    OBVIOUS
  <2> QED BY <2>1, PadStepIs DEF Reaches, Adds
<1>2. PICK g : IsRun(g, N, S, <<>>, step)
  <2>1. N \in Nat /\ <<>> \in S
    OBVIOUS
  <2>2. Rounds(N, S, step)
    BY <1>1 DEF Rounds
  <2> HIDE DEF N, step, S
  <2> QED BY <2>1, <2>2, Loop
<1>3. g \in [0..N -> S] /\ g[0] = <<>> /\ \A n \in 1..N : g[n] = PadStep(g[n - 1], W[n])
  BY <1>2 DEF IsRun
<1>4. Steps(g)
  BY <1>3
<1>5. Steps(f)
  <2> HIDE DEF Steps
  <2> QED BY <1>4
<1>6. Coalesce(W, LAMBDA a, b : b.start <= a.end, Extend) = f[N]
  BY DEF Coalesce, PadStep
<1> HIDE DEF f
<1>7. f[0] = <<>> /\ \A n \in 1..N : f[n] = PadStep(f[n - 1], W[n])
  BY <1>5
<1> QED BY <1>6, <1>7 DEF IsPadding

\* A moment within a span, and within one of several.
In(s, x) == s.start <= x /\ x < s.end
InOne(R, n, x) == \E k \in 1..n : In(R[k], x)

\* Spans that may overlap, but begin and end in the same order.
Follow(W) == \A c, d \in 1..Len(W) : c < d => /\ W[c].start <= W[d].start
                                              /\ W[c].end <= W[d].end

PaddedInv(D, W, n) ==
    /\ D \in Seq(Span) /\ Proper(D) /\ Apart(D, 1)
    /\ \A x \in Int : InOne(D, Len(D), x) <=> InOne(W, n, x)
    /\ n = 0 <=> Len(D) = 0
    /\ n > 0 => D[Len(D)].start <= W[n].start /\ D[Len(D)].end = W[n].end

LEMMA InReached ==
  ASSUME NEW D \in Seq(Span), NEW H, NEW s \in Span, Reaches(H, D, s.end),
         D[Len(D)].start <= s.start, s.start <= D[Len(D)].end, D[Len(D)].end <= s.end,
         s.start < s.end, NEW x \in Int
  PROVE  InOne(H, Len(H), x) <=> InOne(D, Len(D), x) \/ In(s, x)
<1> DEFINE L == Len(D)
<1>1. /\ L \in Nat /\ L > 0 /\ L \in 1..L /\ Len(H) = L
      /\ \A k \in 1..L : D[k].start \in Int /\ D[k].end \in Int
      /\ s.start \in Int /\ s.end \in Int
      /\ \A k \in 1..L - 1 : H[k] = D[k]
      /\ H[L].start = D[L].start /\ H[L].end = s.end
  BY SpanFields DEF Reaches, Span
<1>2. D[L].start <= s.start /\ s.start <= D[L].end /\ D[L].end <= s.end
  OBVIOUS
<1>3. \A k \in 1..L : k = L \/ k \in 1..L - 1
  BY <1>1
<1> HIDE DEF L
<1>4. In(H[L], x) <=> In(D[L], x) \/ In(s, x)
  <2> DEFINE a == D[L].start
             b == D[L].end
  <2>1. /\ a \in Int /\ b \in Int /\ a <= s.start /\ s.start <= b /\ b <= s.end
        /\ In(H[L], x) <=> a <= x /\ x < s.end
        /\ In(D[L], x) <=> a <= x /\ x < b
        /\ In(s, x) <=> s.start <= x /\ x < s.end
    BY <1>1, <1>2 DEF In
  <2> HIDE DEF a, b
  <2> QED BY <1>1, <2>1
<1>5. \A k \in 1..L - 1 : In(H[k], x) <=> In(D[k], x)
  BY <1>1
<1>6. InOne(H, L, x) => InOne(D, L, x) \/ In(s, x)
  BY <1>1, <1>3, <1>4, <1>5 DEF InOne
<1>7. InOne(D, L, x) \/ In(s, x) => InOne(H, L, x)
  BY <1>1, <1>3, <1>4, <1>5 DEF InOne
<1> QED BY <1>1, <1>6, <1>7 DEF L

LEMMA InAdded ==
  ASSUME NEW D \in Seq(Span), NEW H, NEW s, Adds(H, D, s), NEW x
  PROVE  InOne(H, Len(H), x) <=> InOne(D, Len(D), x) \/ In(s, x)
<1> DEFINE L == Len(D)
<1>1. L \in Nat /\ Len(H) = L + 1 /\ H[L + 1] = s /\ \A k \in 1..L : H[k] = D[k]
  BY DEF Adds
<1>2. \A k \in 1..L + 1 : k = L + 1 \/ k \in 1..L
  BY <1>1
<1>3. L + 1 \in 1..L + 1 /\ \A k \in 1..L : k \in 1..L + 1
  BY <1>1
<1> HIDE DEF L
<1>4. InOne(H, L + 1, x) => InOne(D, L, x) \/ In(s, x)
  BY <1>1, <1>2 DEF InOne
<1>5. InOne(D, L, x) \/ In(s, x) => InOne(H, L + 1, x)
  BY <1>1, <1>3 DEF InOne
<1> QED BY <1>1, <1>4, <1>5 DEF L

LEMMA InMore ==
  ASSUME NEW W, NEW n \in Nat \ {0}, NEW x
  PROVE  InOne(W, n, x) <=> InOne(W, n - 1, x) \/ In(W[n], x)
<1>1. \A k \in 1..n : k = n \/ k \in 1..n - 1
  OBVIOUS
<1>2. n \in 1..n /\ \A k \in 1..n - 1 : k \in 1..n
  OBVIOUS
<1> QED BY <1>1, <1>2 DEF InOne

LEMMA PadStepKeeps ==
  ASSUME NEW W \in Seq(Span), Proper(W), Follow(W), NEW n \in 1..Len(W),
         NEW D, PaddedInv(D, W, n - 1)
  PROVE  PaddedInv(PadStep(D, W[n]), W, n)
<1> DEFINE H == PadStep(D, W[n])
           L == Len(D)
           s == W[n]
<1>1. /\ D \in Seq(Span) /\ s \in Span /\ L \in Nat /\ n \in Nat /\ n > 0 /\ n - 1 \in Nat
      /\ Proper(D) /\ Apart(D, 1)
      /\ \A x \in Int : InOne(D, L, x) <=> InOne(W, n - 1, x)
      /\ n - 1 = 0 <=> L = 0
      /\ n - 1 > 0 => D[L].start <= W[n - 1].start /\ D[L].end = W[n - 1].end
  BY DEF PaddedInv
<1>2. /\ \A k \in 1..L : D[k].start \in Int /\ D[k].end \in Int
      /\ \A k \in 1..Len(W) : W[k].start \in Int /\ W[k].end \in Int
      /\ s.start \in Int /\ s.end \in Int /\ s.start < s.end
  BY <1>1, SpanFields DEF Proper
<1>3. L > 0 => D[L].start <= s.start /\ D[L].end <= s.end /\ L \in 1..L
  <2> SUFFICES ASSUME L > 0 PROVE D[L].start <= s.start /\ D[L].end <= s.end /\ L \in 1..L
    OBVIOUS
  <2>1. n - 1 \in 1..Len(W) /\ n - 1 < n /\ n - 1 > 0 /\ L \in 1..L
    BY <1>1
  <2>2. W[n - 1].start <= W[n].start /\ W[n - 1].end <= W[n].end
    BY <2>1 DEF Follow
  <2> DEFINE a == W[n - 1].start
             b == D[L].start
  <2>3. a \in Int /\ b \in Int /\ b <= a /\ a <= s.start
    BY <1>1, <1>2, <2>1, <2>2
  <2> HIDE DEF a, b
  <2>4. b <= s.start
    BY <1>2, <2>3
  <2> QED BY <1>1, <2>1, <2>2, <2>4 DEF b
<1>4. \A x \in Int : InOne(W, n, x) <=> InOne(W, n - 1, x) \/ In(s, x)
  BY <1>1, InMore
<1>5. CASE L > 0 /\ s.start <= D[L].end /\ Reaches(H, D, s.end)
  <2>1. /\ H \in Seq(Span) /\ Len(H) = L /\ L > 0
        /\ H[L].start = D[L].start /\ H[L].end = s.end
    BY <1>5 DEF Reaches
  <2>2. Proper(H) /\ Apart(H, 1) /\ \A x \in Int : InOne(H, Len(H), x) <=> InOne(D, L, x) \/ In(s, x)
    <3>1. Reaches(H, D, s.end) /\ D[Len(D)].end <= s.end /\ D[Len(D)].start <= s.start
          /\ s.start <= D[Len(D)].end
      BY <1>3, <1>5
    <3> HIDE DEF H, s
    <3>2. \A x \in Int : InOne(H, Len(H), x) <=> InOne(D, Len(D), x) \/ In(s, x)
      BY <1>1, <1>2, <3>1, InReached
    <3>3. (Proper(D) => Proper(H)) /\ \A d \in Nat : Apart(D, d) => Apart(H, d)
      BY <1>1, <1>2, <3>1, ReachKeeps
    <3> QED BY <1>1, <3>2, <3>3
  <2> HIDE DEF H, L, s
  <2>3. \A x \in Int : InOne(H, Len(H), x) <=> InOne(W, n, x)
    BY <1>1, <1>4, <2>2
  <2>4. H[Len(H)].start <= s.start /\ H[Len(H)].end = s.end
    BY <1>3, <1>5, <2>1
  <2>5. PaddedInv(H, W, n)
    BY <1>1, <2>1, <2>2, <2>3, <2>4 DEF PaddedInv, s
  <2> QED BY <2>5 DEF H
<1>6. CASE (L > 0 => s.start > D[L].end) /\ Adds(H, D, s)
  <2>1. H \in Seq(Span) /\ Len(H) = L + 1 /\ H[L + 1] = s
    BY <1>6 DEF Adds
  <2>2. Proper(H) /\ Apart(H, 1) /\ \A x \in Int : InOne(H, Len(H), x) <=> InOne(D, L, x) \/ In(s, x)
    <3>1. Adds(H, D, s)
      BY <1>6
    <3>2. Len(D) > 0 => s.start - D[Len(D)].end >= 1
      BY <1>2, <1>3, <1>6
    <3> HIDE DEF H, s
    <3>3. \A x \in Int : InOne(H, Len(H), x) <=> InOne(D, Len(D), x) \/ In(s, x)
      BY <1>1, <3>1, InAdded
    <3>4. Proper(H)
      BY <1>1, <1>2, <3>1, SpanAddKeeps
    <3>5. Apart(H, 1)
      BY <1>1, <3>1, <3>2, AddApart
    <3> QED BY <3>3, <3>4, <3>5
  <2> HIDE DEF H, L, s
  <2>3. \A x \in Int : InOne(H, Len(H), x) <=> InOne(W, n, x)
    BY <1>1, <1>4, <2>2
  <2>4. H[Len(H)].start <= s.start /\ H[Len(H)].end = s.end /\ Len(H) # 0
    BY <1>1, <1>2, <2>1
  <2>5. PaddedInv(H, W, n)
    BY <1>1, <2>1, <2>2, <2>3, <2>4 DEF PaddedInv, s
  <2> QED BY <2>5 DEF H
<1>7. \/ L > 0 /\ s.start <= D[L].end /\ Reaches(H, D, s.end)
      \/ (L > 0 => s.start > D[L].end) /\ Adds(H, D, s)
  BY <1>1, PadStepIs
<1> QED BY <1>5, <1>6, <1>7

\* Widened spans that meet are joined: they hold what they held, and are apart.
LEMMA JoinedArePadded ==
  ASSUME NEW W \in Seq(Span), Proper(W), Follow(W)
  PROVE  PaddedInv(Coalesce(W, LAMBDA a, b : b.start <= a.end, Extend), W, Len(W))
<1> DEFINE J == Coalesce(W, LAMBDA a, b : b.start <= a.end, Extend)
<1>0. Len(W) \in Nat
  OBVIOUS
<1>1. PICK f : IsPadding(f, W) /\ J = f[Len(W)]
  BY PaddedSteps
<1> HIDE DEF J
<1> DEFINE Good == {n \in 0..Len(W) : PaddedInv(f[n], W, n)}
<1>2. 0 \in Good
  <2>1. PaddedInv(<<>>, W, 0)
    BY DEF PaddedInv, Proper, Apart, InOne
  <2> QED BY <1>0, <1>1, <2>1 DEF IsPadding
<1>3. ASSUME NEW n \in 1..Len(W), n - 1 \in Good PROVE n \in Good
  <2>1. f[n] = PadStep(f[n - 1], W[n])
    BY <1>1 DEF IsPadding
  <2>2. PaddedInv(f[n - 1], W, n - 1)
    BY <1>3
  <2>3. PaddedInv(f[n], W, n)
    BY <2>1, <2>2, PadStepKeeps
  <2> QED BY <1>0, <2>3
<1> HIDE DEF Good
<1>4. 0..Len(W) \subseteq Good
  BY <1>0, <1>2, <1>3, UpTo
<1>5. Len(W) \in Good
  BY <1>0, <1>4
<1>6. PaddedInv(J, W, Len(W))
  BY <1>1, <1>5 DEF Good
<1> QED BY <1>6 DEF J

\* Spans widened by the padding, within the audio.
Widened(K, total) == [k \in DOMAIN K |-> [start |-> Larger(0, K[k].start - Pad),
                                          end   |-> Smaller(total, K[k].end + Pad)]]

LieWithin(K, total) == \A k \in 1..Len(K) : 0 <= K[k].start /\ K[k].end <= total

LEMMA WidenedAre ==
  ASSUME NEW K \in Seq(Span), Proper(K), Apart(K, 1), NEW total \in Nat, LieWithin(K, total)
  PROVE  LET W == Widened(K, total)
         IN  /\ W \in Seq(Span) /\ Len(W) = Len(K) /\ Proper(W) /\ Follow(W)
             /\ \A k \in 1..Len(K) : \A x \in Int :
                    In(W[k], x) <=> x \in 0..total - 1 /\ Near(K[k], x)
<1> DEFINE W == Widened(K, total)
           L == Len(K)
<1>1. L \in Nat /\ DOMAIN K = 1..L /\ \A k \in 1..L : K[k].start \in Int /\ K[k].end \in Int
  BY SpanFields
<1>2. Pad \in Nat
  BY SpeechSpansAssumption
<1>3. ASSUME NEW k \in 1..L
      PROVE  /\ W[k] \in Span
             /\ W[k].start = Larger(0, K[k].start - Pad)
             /\ W[k].end = Smaller(total, K[k].end + Pad)
  <2>1. W[k] = [start |-> Larger(0, K[k].start - Pad), end |-> Smaller(total, K[k].end + Pad)]
    BY <1>1 DEF Widened
  <2>2. Larger(0, K[k].start - Pad) \in Int /\ Smaller(total, K[k].end + Pad) \in Int
    BY <1>1, <1>2 DEF Larger, Smaller
  <2> QED BY <2>1, <2>2 DEF Span
<1>4. W \in Seq(Span) /\ Len(W) = L
  <2>1. DOMAIN W = 1..L
    BY <1>1 DEF Widened
  <2>2. W = [k \in 1..L |-> W[k]]
    BY <2>1 DEF Widened
  <2> HIDE DEF W
  <2>3. [k \in 1..L |-> W[k]] \in Seq(Span)
    BY <1>1, <1>3
  <2> QED BY <1>1, <2>1, <2>2, <2>3
<1>5. ASSUME NEW k \in 1..L PROVE 0 <= K[k].start /\ K[k].start < K[k].end /\ K[k].end <= total
  BY DEF Proper, LieWithin
<1>6. ASSUME NEW k \in 1..L PROVE W[k].start < W[k].end
  <2> DEFINE a == K[k].start
             b == K[k].end
  <2>1. a \in Int /\ b \in Int /\ 0 <= a /\ a < b /\ b <= total
    BY <1>1, <1>5
  <2>2. W[k].start = Larger(0, a - Pad) /\ W[k].end = Smaller(total, b + Pad)
    BY <1>3
  <2> HIDE DEF a, b
  <2>3. Larger(0, a - Pad) < Smaller(total, b + Pad)
    BY <1>2, <2>1 DEF Larger, Smaller
  <2> QED BY <2>2, <2>3
<1>7. ASSUME NEW c \in 1..L, NEW d \in 1..L, c < d
      PROVE  W[c].start <= W[d].start /\ W[c].end <= W[d].end
  <2> DEFINE a == K[c].start
             b == K[c].end
             e == K[d].start
             g == K[d].end
  <2>1. a \in Int /\ b \in Int /\ e \in Int /\ g \in Int /\ a < b /\ e < g
    BY <1>1, <1>5
  <2>2. e - b >= 1
    BY <1>7 DEF Apart
  <2>3. /\ W[c].start = Larger(0, a - Pad) /\ W[c].end = Smaller(total, b + Pad)
        /\ W[d].start = Larger(0, e - Pad) /\ W[d].end = Smaller(total, g + Pad)
    BY <1>3
  <2> HIDE DEF a, b, e, g
  <2>4. Larger(0, a - Pad) <= Larger(0, e - Pad)
    BY <1>2, <2>1, <2>2 DEF Larger
  <2>5. Smaller(total, b + Pad) <= Smaller(total, g + Pad)
    BY <1>2, <2>1, <2>2 DEF Smaller
  <2> QED BY <2>3, <2>4, <2>5
<1>8. ASSUME NEW k \in 1..L, NEW x \in Int
      PROVE  In(W[k], x) <=> x \in 0..total - 1 /\ Near(K[k], x)
  <2> DEFINE a == K[k].start
             b == K[k].end
  <2>1. a \in Int /\ b \in Int
    BY <1>1
  <2>2. W[k].start = Larger(0, a - Pad) /\ W[k].end = Smaller(total, b + Pad)
    BY <1>3
  <2>3. Near(K[k], x) <=> a - Pad <= x /\ x < b + Pad
    BY DEF Near
  <2> HIDE DEF a, b
  <2>4. Larger(0, a - Pad) <= x <=> 0 <= x /\ a - Pad <= x
    BY <1>2, <2>1 DEF Larger
  <2>5. x < Smaller(total, b + Pad) <=> x < total /\ x < b + Pad
    BY <1>2, <2>1 DEF Smaller
  <2>6. x \in 0..total - 1 <=> 0 <= x /\ x < total
    OBVIOUS
  <2>7. In(W[k], x) <=> Larger(0, a - Pad) <= x /\ x < Smaller(total, b + Pad)
    BY <2>2 DEF In
  <2> QED BY <2>3, <2>4, <2>5, <2>6, <2>7
<1> HIDE DEF W
<1>9. Proper(W) /\ Follow(W)
  BY <1>4, <1>6, <1>7 DEF Proper, Follow
<1> QED BY <1>4, <1>8, <1>9 DEF W

\* Before they are split, the spans hold just what SpeechMs takes for speech.
LEMMA PaddedIsSpeech ==
  ASSUME NEW scores \in Seq(Int), NEW total \in Nat, T(Len(scores)) <= total
  PROVE  LET P == Padded(Kept(scores), total)
         IN  /\ P \in Seq(Span) /\ Proper(P) /\ Apart(P, 1)
             /\ \A x \in Int : InOne(P, Len(P), x) <=> x \in SpeechMs(scores, total)
<1> DEFINE loud == Loud(scores)
           M == Merged(Raw(scores))
           K == Kept(scores)
           W == Widened(K, total)
           P == Padded(K, total)
<1>1. AreStretches(M, loud)
  BY MergedIsStretches
<1>2. /\ M \in Seq(Span) /\ Proper(M) /\ Apart(M, 1) /\ Len(M) \in Nat
      /\ \A k \in 1..Len(M) : \E p, q \in loud : IsStretch(M[k], loud, p, q)
  BY <1>1, SpanFields DEF AreStretches
<1>3. SelectedInv(K, M, Len(M))
  <2>1. K = Selected(M, LongEnough)
    BY DEF Kept
  <2> HIDE DEF M, K
  <2> QED BY <1>2, <2>1, SelectedAreLong
<1> HIDE DEF M, K
<1>4. /\ K \in Seq(Span) /\ Proper(K) /\ Apart(K, 1)
      /\ \A k \in 1..Len(K) : \E c \in 1..Len(M) : K[k] = M[c] /\ LongEnough(M[c])
      /\ \A c \in 1..Len(M) : LongEnough(M[c]) => \E k \in 1..Len(K) : K[k] = M[c]
  BY <1>3 DEF SelectedInv
<1>5. LieWithin(K, total)
  <2> SUFFICES ASSUME NEW k \in 1..Len(K) PROVE 0 <= K[k].start /\ K[k].end <= total
    BY DEF LieWithin
  <2>1. PICK c \in 1..Len(M) : K[k] = M[c]
    BY <1>4
  <2>2. PICK p \in loud, q \in loud : IsStretch(M[c], loud, p, q)
    BY <1>2
  <2>3. p \in 1..Len(scores) /\ q \in 1..Len(scores) /\ Len(scores) \in Nat
    BY DEF Loud
  <2>4. 0 \in Int /\ p - 1 \in Int /\ 0 <= p - 1 /\ q \in Int /\ Len(scores) \in Int
    BY <2>3
  <2>5. T(0) <= T(p - 1) /\ T(q) <= T(Len(scores))
    BY <2>3, <2>4, FrameRank
  <2>6. T(0) = 0
    BY SpeechSpansAssumption DEF T
  <2>7. T(q) \in Int /\ T(Len(scores)) \in Int
    BY <2>4, FrameTimes
  <2>8. K[k].start = T(p - 1) /\ K[k].end = T(q)
    BY <2>1, <2>2 DEF IsStretch
  <2>9. T(q) <= total
    BY <2>5, <2>7
  <2> QED BY <2>5, <2>6, <2>8, <2>9
<1>6. /\ W \in Seq(Span) /\ Len(W) = Len(K) /\ Proper(W) /\ Follow(W)
      /\ \A k \in 1..Len(K) : \A x \in Int :
             In(W[k], x) <=> x \in 0..total - 1 /\ Near(K[k], x)
  BY <1>4, <1>5, WidenedAre
<1>7. P = Coalesce(W, LAMBDA a, b : b.start <= a.end, Extend)
  BY DEF Padded, Widened
<1> HIDE DEF W, P
<1>8. PaddedInv(P, W, Len(W))
  <2>1. PaddedInv(Coalesce(W, LAMBDA a, b : b.start <= a.end, Extend), W, Len(W))
    BY <1>6, JoinedArePadded
  <2> QED BY <1>7, <2>1
<1>9. ASSUME NEW x \in Int
      PROVE  InOne(W, Len(W), x) <=> x \in SpeechMs(scores, total)
  <2>1. InOne(W, Len(W), x) <=> x \in 0..total - 1 /\ \E k \in 1..Len(K) : Near(K[k], x)
    BY <1>6 DEF InOne
  <2>2. (\E k \in 1..Len(K) : Near(K[k], x))
          <=> \E c \in 1..Len(M) : LongEnough(M[c]) /\ Near(M[c], x)
    BY <1>4
  <2>3. x \in SpeechMs(scores, total) => x \in 0..total - 1
    BY SpeechMsIs
  <2>4. x \in 0..total - 1 =>
          (x \in SpeechMs(scores, total)
             <=> \E c \in 1..Len(M) : LongEnough(M[c]) /\ Near(M[c], x))
    BY <1>1, SpeechIsSpans
  <2> QED BY <2>1, <2>2, <2>3, <2>4
<1>10. /\ P \in Seq(Span) /\ Proper(P) /\ Apart(P, 1)
       /\ \A x \in Int : InOne(P, Len(P), x) <=> x \in SpeechMs(scores, total)
  BY <1>8, <1>9 DEF PaddedInv
<1> QED BY <1>10 DEF P, K

\* One of the frames is the quietest, and it comes first.
LEMMA QuietExists ==
  ASSUME NEW scores \in Seq(Nat), NEW lo \in Nat, NEW hi \in Nat, lo < hi, hi <= Len(scores),
         NEW quiet,
         quiet = {i \in lo..hi - 1 : \A j \in lo..hi - 1 : scores[i + 1] <= scores[j + 1]}
  PROVE  Min(quiet) \in lo..hi - 1
<1> DEFINE S == {scores[i + 1] : i \in lo..hi - 1}
<1>1. \A i \in lo..hi - 1 : scores[i + 1] \in Nat
  OBVIOUS
<1>2. S \in SUBSET Nat /\ S # {}
  <2>1. lo \in lo..hi - 1
    OBVIOUS
  <2> QED BY <1>1, <2>1
<1> HIDE DEF S
<1>3. PICK m \in S : \A y \in S : m <= y
  BY <1>2, LeastNumber
<1>4. PICK i \in lo..hi - 1 : scores[i + 1] = m
  BY DEF S
<1>5. \A j \in lo..hi - 1 : scores[i + 1] <= scores[j + 1]
  BY <1>3, <1>4 DEF S
<1>6. i \in quiet
  BY <1>5
<1>7. \A x \in quiet : x \in Nat /\ x \in lo..hi - 1
  OBVIOUS
<1>8. Min(quiet) \in quiet
  <2>1. quiet \in SUBSET Nat /\ quiet # {}
    BY <1>6, <1>7
  <2> QED BY <2>1, MinIsLeast
<1> QED BY <1>7, <1>8

\* A cut goes on by a millisecond at least, and by the window at most.
LEMMA CutIsInside ==
  ASSUME NEW scores \in Seq(Nat), NEW at \in Nat
  PROVE  /\ QuietestCut(at, scores) \in Nat
         /\ at < QuietestCut(at, scores) /\ QuietestCut(at, scores) <= at + MaxSpan
<1> DEFINE w == (MaxSpan * 3) \div 4
           lo == (at + w) \div FrameMs
           cap == (at + MaxSpan) \div FrameMs
           hi == Smaller(cap, Len(scores))
           quiet == {i \in lo..hi - 1 : \A j \in lo..hi - 1 : scores[i + 1] <= scores[j + 1]}
<1>1. FrameMs \in Nat \ {0} /\ MaxSpan \in Nat \ {0} /\ w >= FrameMs
  BY SpeechSpansAssumption
<1>2. w \in Nat
  BY <1>1, Quotient
<1>3. QuietestCut(at, scores) = IF lo >= hi THEN at + MaxSpan ELSE Min(quiet) * FrameMs
  BY DEF QuietestCut
<1>4. /\ lo \in Nat /\ at + w < lo * FrameMs + FrameMs
      /\ cap \in Nat /\ cap * FrameMs <= at + MaxSpan
  <2>1. at + w \in Nat /\ at + MaxSpan \in Nat
    BY <1>1, <1>2
  <2> HIDE DEF w
  <2> QED BY <1>1, <2>1, Quotient
<1>5. hi \in Nat /\ hi <= cap /\ hi <= Len(scores)
  <2> HIDE DEF cap
  <2>1. Len(scores) \in Nat
    OBVIOUS
  <2> QED BY <1>4, <2>1 DEF Smaller
<1> HIDE DEF w, lo, cap, hi
<1>6. CASE lo >= hi
  BY <1>1, <1>3, <1>6
<1>7. CASE ~(lo >= hi)
  <2>1. Min(quiet) \in lo..hi - 1
    BY <1>4, <1>5, <1>7, QuietExists
  <2> DEFINE i == Min(quiet)
  <2>2. QuietestCut(at, scores) = i * FrameMs /\ i \in Nat /\ lo <= i /\ i <= cap
    BY <1>3, <1>4, <1>5, <1>7, <2>1
  <2> HIDE DEF i
  <2>3. lo * FrameMs <= i * FrameMs /\ i * FrameMs <= cap * FrameMs
    BY <1>1, <1>4, <2>2
  <2>4. i * FrameMs \in Nat /\ lo * FrameMs \in Nat /\ cap * FrameMs \in Nat
    BY <1>1, <1>4, <2>2
  <2> DEFINE a == i * FrameMs
             b == lo * FrameMs
             c == cap * FrameMs
  <2>5. /\ a \in Nat /\ b \in Nat /\ c \in Nat /\ b <= a /\ a <= c
        /\ at + w < b + FrameMs /\ c <= at + MaxSpan /\ QuietestCut(at, scores) = a
    BY <1>4, <2>2, <2>3, <2>4
  <2> HIDE DEF a, b, c
  <2> QED BY <1>1, <1>2, <2>5
<1> QED BY <1>6, <1>7

\* Spans of which each fits the window, in order, up to e.
AreShort(U, e) ==
    /\ U \in Seq(Span) /\ Proper(U) /\ Apart(U, 0)
    /\ \A k \in 1..Len(U) : U[k].end - U[k].start <= MaxSpan /\ U[k].end <= e

LEMMA OneMoreShort ==
  ASSUME NEW U, NEW e \in Int, AreShort(U, e), NEW s \in Span, s.start >= e,
         s.start < s.end, s.end - s.start <= MaxSpan
  PROVE  /\ AreShort(Append(U, s), s.end)
         /\ \A x : InOne(Append(U, s), Len(Append(U, s)), x) <=> InOne(U, Len(U), x) \/ In(s, x)
<1> DEFINE H == Append(U, s)
           L == Len(U)
<1>1. /\ U \in Seq(Span) /\ L \in Nat /\ Proper(U) /\ Apart(U, 0)
      /\ \A k \in 1..L : U[k].start \in Int /\ U[k].end \in Int
      /\ \A k \in 1..L : U[k].end - U[k].start <= MaxSpan /\ U[k].end <= e
      /\ s.start \in Int /\ s.end \in Int
  BY SpanFields DEF AreShort, Span
<1>2. Adds(H, U, s)
  BY <1>1, OneAdds
<1> HIDE DEF H
<1>3. /\ H \in Seq(Span) /\ Len(H) = L + 1 /\ H[L + 1] = s
      /\ \A k \in 1..L : H[k] = U[k]
  BY <1>2 DEF Adds
<1>4. Len(U) > 0 => s.start - U[Len(U)].end >= 0
  <2> SUFFICES ASSUME L > 0 PROVE s.start - U[L].end >= 0
    OBVIOUS
  <2>1. L \in 1..L
    BY <1>1
  <2>2. U[L].end \in Int /\ U[L].end <= e
    BY <1>1, <2>1
  <2> QED BY <1>1, <2>2
<1> HIDE DEF L
<1>5. Proper(H) /\ Apart(H, 0) /\ \A x : InOne(H, Len(H), x) <=> InOne(U, Len(U), x) \/ In(s, x)
  <2>1. Proper(H)
    BY <1>1, <1>2, SpanAddKeeps
  <2>2. Apart(H, 0)
    BY <1>1, <1>2, <1>4, AddApart
  <2>3. \A x : InOne(H, Len(H), x) <=> InOne(U, Len(U), x) \/ In(s, x)
    BY <1>1, <1>2, InAdded
  <2> QED BY <2>1, <2>2, <2>3
<1>6. ASSUME NEW k \in 1..Len(H) PROVE H[k].end - H[k].start <= MaxSpan /\ H[k].end <= s.end
  <2>1. CASE k = L + 1
    BY <1>1, <1>3, <2>1
  <2>2. CASE k \in 1..L
    <3>1. /\ H[k] = U[k] /\ U[k].end \in Int /\ U[k].end <= e
          /\ U[k].end - U[k].start <= MaxSpan
      BY <1>1, <1>3, <2>2
    <3> DEFINE u == U[k].end
    <3>2. u \in Int /\ u <= e /\ H[k].end = u
      BY <3>1
    <3> HIDE DEF u
    <3>3. u <= s.end
      BY <1>1, <3>2
    <3> QED BY <3>1, <3>2, <3>3
  <2> QED BY <1>1, <1>3, <2>1, <2>2
<1>7. AreShort(H, s.end)
  BY <1>3, <1>5, <1>6 DEF AreShort
<1> QED BY <1>5, <1>7 DEF H

Loops == [at : Nat, done : Seq(Span)]

\* What is cut off a span so far, after n rounds.
SplitInv(loop, span, n) ==
    /\ loop \in Loops /\ span.start <= loop.at /\ loop.at < span.end
    /\ AreShort(loop.done, loop.at)
    /\ \A x \in Int : InOne(loop.done, Len(loop.done), x) <=> span.start <= x /\ x < loop.at
    /\ loop.at - span.start >= n \/ span.end - loop.at <= MaxSpan

LEMMA CutOffKeeps ==
  ASSUME NEW scores \in Seq(Nat), NEW span \in Span, NEW n \in Nat \ {0},
         NEW loop, SplitInv(loop, span, n - 1)
  PROVE  SplitInv(CutOff(loop, span, scores), span, n)
<1> DEFINE at == loop.at
           done == loop.done
           cut == QuietestCut(at, scores)
           s == [start |-> at, end |-> cut]
           H == Append(done, s)
           next == [at |-> cut, done |-> H]
<1>1. /\ loop \in Loops /\ at \in Nat /\ done \in Seq(Span) /\ span.start <= at /\ at < span.end
      /\ AreShort(done, at) /\ span.start \in Int /\ span.end \in Int /\ MaxSpan \in Nat
      /\ \A x \in Int : InOne(done, Len(done), x) <=> span.start <= x /\ x < at
      /\ at - span.start >= n - 1 \/ span.end - at <= MaxSpan
  BY SpeechSpansAssumption DEF SplitInv, Loops, Span
<1>2. cut \in Nat /\ at < cut /\ cut <= at + MaxSpan
  BY <1>1, CutIsInside
<1>3. CASE span.end - at > MaxSpan
  <2>1. CutOff(loop, span, scores) = next
    BY <1>3 DEF CutOff
  <2>2. s \in Span /\ s.start = at /\ s.end = cut
    BY <1>1, <1>2 DEF Span
  <2> HIDE DEF at, done, cut, s
  <2>3. s.start >= at /\ s.start < s.end /\ s.end - s.start <= MaxSpan
    BY <1>1, <1>2, <2>2
  <2>4. /\ AreShort(H, cut)
        /\ \A x : InOne(H, Len(H), x) <=> InOne(done, Len(done), x) \/ In(s, x)
    BY <1>1, <2>2, <2>3, OneMoreShort
  <2> HIDE DEF H
  <2>5. next \in Loops /\ next.at = cut /\ next.done = H
    BY <1>2, <2>4 DEF Loops, AreShort
  <2> HIDE DEF next
  <2>6. \A x \in Int : In(s, x) <=> at <= x /\ x < cut
    BY <2>2 DEF In
  <2>7. \A x \in Int : InOne(H, Len(H), x) <=> span.start <= x /\ x < cut
    BY <1>1, <1>2, <2>4, <2>6
  <2>8. span.start <= cut /\ cut < span.end /\ cut - span.start >= n
    BY <1>1, <1>2, <1>3
  <2>9. SplitInv(next, span, n)
    BY <2>4, <2>5, <2>7, <2>8 DEF SplitInv
  <2> QED BY <2>1, <2>9
<1>4. CASE ~(span.end - at > MaxSpan)
  <2>1. CutOff(loop, span, scores) = loop
    BY <1>4 DEF CutOff
  <2>2. span.end - at <= MaxSpan
    BY <1>1, <1>4
  <2>3. SplitInv(loop, span, n)
    BY <1>1, <2>2 DEF SplitInv
  <2> QED BY <2>1, <2>3
<1> QED BY <1>3, <1>4

IsSplitting(f, span, scores) ==
    LET N == span.end - span.start
    IN  /\ f[0] = [at |-> span.start, done |-> <<>>]
        /\ \A n \in 1..N : f[n] = CutOff(f[n - 1], span, scores)
        /\ Split(span, scores) = Append(f[N].done, [start |-> f[N].at, end |-> span.end])

LEMMA SplitSteps ==
  ASSUME NEW scores \in Seq(Nat), NEW span, span.start \in Nat, span.end - span.start \in Nat
  PROVE  \E f : IsSplitting(f, span, scores)
<1> DEFINE N == span.end - span.start
           S == Loops
           base == [at |-> span.start, done |-> <<>>]
           step == [n \in 1..N |-> [x \in S |-> CutOff(x, span, scores)]]
           Steps(h) == h = [n \in 0..N |-> IF n = 0 THEN [at |-> span.start, done |-> <<>>]
                                           ELSE CutOff(h[n - 1], span, scores)]
           f == CHOOSE h : Steps(h)
<1>1. \A n \in 1..N : \A x \in S : CutOff(x, span, scores) \in S
  <2> SUFFICES ASSUME NEW x \in S PROVE CutOff(x, span, scores) \in S
    OBVIOUS
  <2>1. x.at \in Nat /\ x.done \in Seq(Span)
    BY DEF Loops
  <2> DEFINE cut == QuietestCut(x.at, scores)
             s == [start |-> x.at, end |-> cut]
  <2>2. cut \in Nat
    BY <2>1, CutIsInside
  <2>3. CutOff(x, span, scores) = x \/ CutOff(x, span, scores) = [at |-> cut, done |-> Append(x.done, s)]
    BY DEF CutOff
  <2> HIDE DEF cut
  <2>4. s \in Span
    BY <2>1, <2>2 DEF Span
  <2>5. Append(x.done, s) \in Seq(Span)
    BY <2>1, <2>4
  <2> HIDE DEF s
  <2>6. [at |-> cut, done |-> Append(x.done, s)] \in S
    BY <2>2, <2>5 DEF Loops
  <2> HIDE DEF S
  <2> QED BY <2>3, <2>6
<1>2. PICK g : IsRun(g, N, S, base, step)
  <2>1. N \in Nat /\ base \in S
    BY DEF Loops
  <2>2. Rounds(N, S, step)
    BY <1>1 DEF Rounds
  <2> HIDE DEF N, step, S, base
  <2> QED BY <2>1, <2>2, Loop
<1>3. g \in [0..N -> S] /\ g[0] = base /\ \A n \in 1..N : g[n] = CutOff(g[n - 1], span, scores)
  BY <1>2 DEF IsRun
<1>4. Steps(g)
  BY <1>3
<1>5. Steps(f)
  <2> HIDE DEF Steps
  <2> QED BY <1>4
<1>6. Split(span, scores) = Append(f[N].done, [start |-> f[N].at, end |-> span.end])
  BY DEF Split
<1> HIDE DEF f
<1>7. f[0] = base /\ \A n \in 1..N : f[n] = CutOff(f[n - 1], span, scores)
  BY <1>5
<1> QED BY <1>6, <1>7 DEF IsSplitting

\* The pieces of a span are the span, and each fits the window.
LEMMA SplitTiles ==
  ASSUME NEW scores \in Seq(Nat), NEW span \in Span, span.start \in Nat, span.start < span.end
  PROVE  LET U == Split(span, scores)
         IN  /\ AreShort(U, span.end)
             /\ \A x \in Int : InOne(U, Len(U), x) <=> In(span, x)
<1> DEFINE N == span.end - span.start
<1>1. N \in Nat /\ span.start \in Int /\ span.end \in Int /\ MaxSpan \in Nat
  BY SpeechSpansAssumption DEF Span
<1>2. PICK f : IsSplitting(f, span, scores)
  BY <1>1, SplitSteps
<1>3. /\ f[0] = [at |-> span.start, done |-> <<>>]
      /\ \A n \in 1..N : f[n] = CutOff(f[n - 1], span, scores)
      /\ Split(span, scores) = Append(f[N].done, [start |-> f[N].at, end |-> span.end])
  BY <1>2 DEF IsSplitting
<1> DEFINE Good == {n \in 0..N : SplitInv(f[n], span, n)}
<1> HIDE DEF N
<1>4. 0 \in Good
  <2> DEFINE b == [at |-> span.start, done |-> <<>>]
  <2>1. b \in Loops /\ b.at = span.start /\ b.done = <<>>
    BY DEF Loops
  <2>2. AreShort(<<>>, span.start) /\ \A x \in Int : ~InOne(<<>>, Len(<<>>), x)
    BY DEF AreShort, Proper, Apart, InOne
  <2>3. f[0] = b
    BY <1>3
  <2> HIDE DEF b
  <2>4. SplitInv(b, span, 0)
    BY <1>1, <2>1, <2>2 DEF SplitInv
  <2> QED BY <1>1, <2>3, <2>4
<1>5. ASSUME NEW n \in 1..N, n - 1 \in Good PROVE n \in Good
  <2>1. f[n] = CutOff(f[n - 1], span, scores) /\ n \in Nat \ {0}
    <3>1. n \in Nat \ {0}
      BY <1>1
    <3> QED BY <1>3, <3>1
  <2>2. SplitInv(f[n - 1], span, n - 1)
    BY <1>5
  <2>3. SplitInv(f[n], span, n)
    BY <2>1, <2>2, CutOffKeeps
  <2> QED BY <1>1, <2>3
<1> HIDE DEF Good
<1>6. 0..N \subseteq Good
  BY <1>1, <1>4, <1>5, UpTo
<1>7. SplitInv(f[N], span, N)
  BY <1>1, <1>6 DEF Good
<1> DEFINE at == f[N].at
           done == f[N].done
           s == [start |-> at, end |-> span.end]
<1>8. /\ at \in Nat /\ span.start <= at /\ at < span.end /\ AreShort(done, at)
      /\ \A x \in Int : InOne(done, Len(done), x) <=> span.start <= x /\ x < at
      /\ at - span.start >= N \/ span.end - at <= MaxSpan
  BY <1>7 DEF SplitInv, Loops
<1> HIDE DEF at, done
<1>9. span.end - at <= MaxSpan
  BY <1>1, <1>8 DEF N
<1>10. s \in Span /\ s.start = at /\ s.end = span.end
  BY <1>1, <1>8 DEF Span
<1>11. Split(span, scores) = Append(done, s)
  BY <1>3 DEF at, done
<1> HIDE DEF s
<1>12. /\ AreShort(Append(done, s), span.end)
       /\ \A x : InOne(Append(done, s), Len(Append(done, s)), x)
                   <=> InOne(done, Len(done), x) \/ In(s, x)
  <2>1. s.start >= at /\ s.start < s.end /\ s.end - s.start <= MaxSpan
    BY <1>1, <1>8, <1>9, <1>10
  <2> QED BY <1>8, <1>10, <2>1, OneMoreShort
<1>13. \A x \in Int : In(s, x) <=> at <= x /\ x < span.end
  BY <1>10 DEF In
<1>14. \A x \in Int : In(span, x) <=> span.start <= x /\ x < span.end
  BY DEF In
<1>15. \A x \in Int : InOne(done, Len(done), x) \/ In(s, x) <=> In(span, x)
  BY <1>1, <1>8, <1>13, <1>14
<1> QED BY <1>11, <1>12, <1>15

\* Spans put behind spans.
LEMMA ShortBehind ==
  ASSUME NEW e \in Int, NEW g \in Int, e <= g, NEW U, AreShort(U, e), NEW V, AreShort(V, g),
         \A k \in 1..Len(V) : e <= V[k].start
  PROVE  /\ AreShort(U \o V, g)
         /\ \A x : InOne(U \o V, Len(U \o V), x) <=> InOne(U, Len(U), x) \/ InOne(V, Len(V), x)
<1> DEFINE H == U \o V
           L == Len(U)
           R == Len(V)
<1>1. /\ U \in Seq(Span) /\ V \in Seq(Span) /\ L \in Nat /\ R \in Nat
      /\ \A k \in 1..L : U[k].start \in Int /\ U[k].end \in Int
      /\ \A k \in 1..R : V[k].start \in Int /\ V[k].end \in Int
      /\ Proper(U) /\ Proper(V) /\ Apart(U, 0) /\ Apart(V, 0)
      /\ \A k \in 1..L : U[k].end - U[k].start <= MaxSpan /\ U[k].end <= e
      /\ \A k \in 1..R : V[k].end - V[k].start <= MaxSpan /\ V[k].end <= g
  BY SpanFields DEF AreShort
<1>2. /\ H \in Seq(Span) /\ Len(H) = L + R
      /\ \A k \in 1..L + R : H[k] = IF k <= L THEN U[k] ELSE V[k - L]
  BY <1>1
<1> HIDE DEF H
<1>3. \A k \in 1..L : H[k] = U[k] /\ k \in 1..L + R
  BY <1>1, <1>2
<1>4. ASSUME NEW k \in 1..R PROVE L + k \in 1..L + R /\ H[L + k] = V[k]
  <2> HIDE DEF L, R
  <2>1. L + k \in 1..L + R /\ ~(L + k <= L) /\ (L + k) - L = k
    BY <1>1
  <2> QED BY <1>2, <2>1
<1>5. \A k \in 1..L + R : k \in 1..L \/ (k - L \in 1..R /\ H[k] = V[k - L] /\ L < k)
  BY <1>1, <1>2
<1> HIDE DEF L, R
<1>6. ASSUME NEW k \in 1..L + R
      PROVE  H[k].start < H[k].end /\ H[k].end - H[k].start <= MaxSpan /\ H[k].end <= g
  <2>1. CASE k \in 1..L
    <3> DEFINE u == U[k].end
    <3>1. u \in Int /\ u <= e
      BY <1>1, <2>1
    <3> HIDE DEF u
    <3>2. u <= g
      BY <3>1
    <3> QED BY <1>1, <1>3, <2>1, <3>2 DEF Proper, u, L
  <2>2. CASE k - L \in 1..R /\ H[k] = V[k - L]
    BY <1>1, <2>2 DEF Proper, R
  <2> QED BY <1>5, <2>1, <2>2
<1>7. ASSUME NEW k \in 1..L + R, NEW l \in 1..L + R, k < l PROVE H[l].start - H[k].end >= 0
  <2>1. CASE l \in 1..L
    <3>1. k \in 1..L
      BY <1>1, <1>7, <2>1
    <3>2. U[l].start - U[k].end >= 0
      BY <1>1, <1>7, <2>1, <3>1 DEF Apart, L
    <3> QED BY <1>3, <2>1, <3>1, <3>2
  <2>2. CASE l - L \in 1..R /\ H[l] = V[l - L] /\ L < l
    <3>1. CASE k \in 1..L
      <4> DEFINE u == U[k].end
                 v == V[l - L].start
      <4>1. u \in Int /\ v \in Int /\ u <= e /\ e <= v
        BY <1>1, <2>2, <3>1 DEF R
      <4>2. H[k].end = u /\ H[l].start = v
        BY <1>3, <2>2, <3>1
      <4> HIDE DEF u, v
      <4> QED BY <4>1, <4>2
    <3>2. CASE k - L \in 1..R /\ H[k] = V[k - L]
      <4>1. k - L < l - L
        BY <1>1, <1>7
      <4>2. V[l - L].start - V[k - L].end >= 0
        BY <1>1, <2>2, <3>2, <4>1 DEF Apart, R
      <4> QED BY <2>2, <3>2, <4>2
    <3> QED BY <1>5, <3>1, <3>2
  <2> QED BY <1>5, <2>1, <2>2
<1>8. AreShort(H, g)
  BY <1>2, <1>6, <1>7 DEF AreShort, Proper, Apart
<1>9. ASSUME NEW x PROVE InOne(H, L + R, x) <=> InOne(U, L, x) \/ InOne(V, R, x)
  <2>1. InOne(H, L + R, x) => InOne(U, L, x) \/ InOne(V, R, x)
    BY <1>3, <1>5 DEF InOne
  <2>2. InOne(U, L, x) \/ InOne(V, R, x) => InOne(H, L + R, x)
    BY <1>3, <1>4 DEF InOne
  <2> QED BY <2>1, <2>2
<1> QED BY <1>2, <1>8, <1>9 DEF H, L, R

\* The pieces of the first k of the spans.
PiecesInv(U, P, k) ==
    /\ AreShort(U, IF k = 0 THEN 0 ELSE P[k].end)
    /\ \A x \in Int : InOne(U, Len(U), x) <=> InOne(P, k, x)

\* Spans of the audio, apart from one another.
AreSpeech(P) ==
    /\ P \in Seq(Span) /\ Proper(P) /\ Apart(P, 1)
    /\ \A k \in 1..Len(P) : P[k].start \in Nat

LEMMA PiecesGoOn ==
  ASSUME NEW scores \in Seq(Nat), NEW P, AreSpeech(P), NEW k \in 1..Len(P),
         NEW U, PiecesInv(U, P, k - 1)
  PROVE  PiecesInv(U \o Split(P[k], scores), P, k)
<1> DEFINE e == IF k - 1 = 0 THEN 0 ELSE P[k - 1].end
           g == P[k].end
           V == Split(P[k], scores)
<1>1. /\ P[k] \in Span /\ P[k].start \in Nat /\ P[k].start < g /\ g \in Int /\ k \in Nat \ {0}
      /\ \A l \in 1..Len(P) : P[l].end \in Int
  BY SpanFields DEF AreSpeech, Proper
<1>2. AreShort(V, g) /\ \A x \in Int : InOne(V, Len(V), x) <=> In(P[k], x)
  BY <1>1, SplitTiles
<1>3. e \in Int /\ e <= P[k].start
  <2>1. CASE k = 1
    BY <1>1, <2>1
  <2>2. CASE k # 1
    <3>1. k - 1 \in 1..Len(P) /\ k - 1 < k
      BY <2>2
    <3>2. P[k].start - P[k - 1].end >= 1
      BY <3>1 DEF AreSpeech, Apart
    <3> QED BY <1>1, <2>2, <3>1, <3>2
  <2> QED BY <2>1, <2>2
<1> HIDE DEF V
<1>4. \A l \in 1..Len(V) : e <= V[l].start
  <2> SUFFICES ASSUME NEW l \in 1..Len(V) PROVE e <= V[l].start
    OBVIOUS
  <2>1. V[l].start \in Int /\ V[l].end \in Int /\ V[l].start < V[l].end
    BY <1>2, SpanFields DEF AreShort, Proper
  <2> DEFINE x == V[l].start
  <2>2. In(V[l], x)
    BY <2>1 DEF In
  <2>3. InOne(V, Len(V), x)
    BY <2>2 DEF InOne
  <2>4. In(P[k], x)
    BY <1>2, <2>1, <2>3
  <2>5. x \in Int /\ P[k].start <= x
    BY <2>1, <2>4 DEF In
  <2> HIDE DEF x
  <2>6. e <= x
    <3> HIDE DEF e
    <3> QED BY <1>1, <1>3, <2>5
  <2> QED BY <2>6 DEF x
<1>5. AreShort(U, e) /\ \A x \in Int : InOne(U, Len(U), x) <=> InOne(P, k - 1, x)
  BY DEF PiecesInv
<1>6. e <= g
  <2> HIDE DEF e, g
  <2> QED BY <1>1, <1>3
<1> HIDE DEF e
<1>7. /\ AreShort(U \o V, g)
      /\ \A x : InOne(U \o V, Len(U \o V), x) <=> InOne(U, Len(U), x) \/ InOne(V, Len(V), x)
  <2> HIDE DEF g
  <2> QED BY <1>1, <1>2, <1>3, <1>4, <1>5, <1>6, ShortBehind
<1>8. \A x : InOne(P, k, x) <=> InOne(P, k - 1, x) \/ In(P[k], x)
  BY <1>1, InMore
<1>9. \A x \in Int : InOne(U \o V, Len(U \o V), x) <=> InOne(P, k, x)
  BY <1>2, <1>5, <1>7, <1>8
<1>10. PiecesInv(U \o V, P, k)
  BY <1>1, <1>7, <1>9 DEF PiecesInv
<1> QED BY <1>10 DEF V

IsCutting(f, P, scores) ==
    /\ f[0] = <<>>
    /\ \A k \in 1..Len(P) : f[k] = f[k - 1] \o Split(P[k], scores)

LEMMA CuttingSteps ==
  ASSUME NEW scores \in Seq(Nat), NEW total, NEW P, P = Padded(Kept(scores), total), AreSpeech(P)
  PROVE  \E f : IsCutting(f, P, scores) /\ SpansFromScores(scores, total) = f[Len(P)]
<1> DEFINE N == Len(P)
           S == Seq(Span)
           More(x, k) == x \o Split(P[k], scores)
           step == [k \in 1..N |-> [x \in S |-> More(x, k)]]
           Steps(h) == h = [k \in 0..N |-> IF k = 0 THEN <<>> ELSE More(h[k - 1], k)]
           f == CHOOSE h : Steps(h)
<1>0. N \in Nat /\ P \in Seq(Span)
  BY DEF AreSpeech
<1>1. \A k \in 1..N : \A x \in S : x \o Split(P[k], scores) \in S
  <2> SUFFICES ASSUME NEW k \in 1..N, NEW x \in S PROVE x \o Split(P[k], scores) \in S
    OBVIOUS
  <2>1. P[k] \in Span /\ P[k].start \in Nat /\ P[k].start < P[k].end
    BY <1>0 DEF AreSpeech, Proper
  <2>2. Split(P[k], scores) \in Seq(Span)
    BY <2>1, SplitTiles DEF AreShort
  <2> QED BY <2>2
<1>2. PICK g : IsRun(g, N, S, <<>>, step)
  <2>1. <<>> \in S
    OBVIOUS
  <2>2. Rounds(N, S, step)
    BY <1>1 DEF Rounds
  <2> HIDE DEF N, step, S
  <2> QED BY <1>0, <2>1, <2>2, Loop
<1>3. g \in [0..N -> S] /\ g[0] = <<>> /\ \A k \in 1..N : g[k] = More(g[k - 1], k)
  BY <1>2 DEF IsRun
<1>4. Steps(g)
  <2> HIDE DEF More, S
  <2> QED BY <1>3
<1>5. Steps(f)
  <2> HIDE DEF Steps
  <2> QED BY <1>4
<1>6. SpansFromScores(scores, total) = f[N]
  BY DEF SpansFromScores
<1> HIDE DEF f
<1>7. f[0] = <<>> /\ \A k \in 1..N : f[k] = f[k - 1] \o Split(P[k], scores)
  BY <1>5
<1> QED BY <1>6, <1>7 DEF IsCutting

\* Splitting leaves what the spans hold, and each piece fits the window.
LEMMA SpansAreSpeech ==
  ASSUME NEW scores \in Seq(Nat), NEW total \in Nat, T(Len(scores)) <= total
  PROVE  LET U == SpansFromScores(scores, total)
         IN  /\ AreShort(U, total)
             /\ \A x \in Int : InOne(U, Len(U), x) <=> x \in SpeechMs(scores, total)
<1> DEFINE P == Padded(Kept(scores), total)
           U == SpansFromScores(scores, total)
<1>1. scores \in Seq(Int)
  OBVIOUS
<1>2. /\ P \in Seq(Span) /\ Proper(P) /\ Apart(P, 1)
      /\ \A x \in Int : InOne(P, Len(P), x) <=> x \in SpeechMs(scores, total)
  BY <1>1, PaddedIsSpeech
<1> HIDE DEF P
<1>3. Len(P) \in Nat /\ \A k \in 1..Len(P) : P[k].start \in Int /\ P[k].end \in Int
  BY <1>2, SpanFields
<1>4. ASSUME NEW k \in 1..Len(P), NEW x \in Int, In(P[k], x) PROVE 0 <= x /\ x < total
  <2>1. InOne(P, Len(P), x)
    BY <1>4 DEF InOne
  <2>2. x \in 0..total - 1
    BY <1>1, <1>2, <2>1, SpeechMsIs
  <2> QED BY <2>2
<1>5. ASSUME NEW k \in 1..Len(P) PROVE P[k].start \in Nat /\ P[k].end <= total
  <2> DEFINE a == P[k].start
             b == P[k].end
  <2>1. a \in Int /\ b \in Int /\ a < b
    BY <1>2, <1>3 DEF Proper
  <2>2. \A x \in Int : a <= x /\ x < b => In(P[k], x)
    BY DEF In
  <2> HIDE DEF a, b
  <2>3. In(P[k], a) /\ In(P[k], b - 1) /\ b - 1 \in Int
    BY <2>1, <2>2
  <2>4. 0 <= a /\ b - 1 < total
    BY <1>4, <2>1, <2>3
  <2>5. a \in Nat /\ b <= total
    BY <2>1, <2>4
  <2> QED BY <2>5 DEF a, b
<1>6. AreSpeech(P)
  BY <1>2, <1>5 DEF AreSpeech
<1>7. PICK f : IsCutting(f, P, scores) /\ U = f[Len(P)]
  BY <1>6, CuttingSteps DEF P
<1> DEFINE Good == {k \in 0..Len(P) : PiecesInv(f[k], P, k)}
<1>8. 0 \in Good
  <2>1. PiecesInv(<<>>, P, 0)
    BY DEF PiecesInv, AreShort, Proper, Apart, InOne
  <2> QED BY <1>3, <1>7, <2>1 DEF IsCutting
<1>9. ASSUME NEW k \in 1..Len(P), k - 1 \in Good PROVE k \in Good
  <2>1. f[k] = f[k - 1] \o Split(P[k], scores)
    BY <1>7 DEF IsCutting
  <2>2. PiecesInv(f[k - 1], P, k - 1)
    BY <1>9
  <2>3. PiecesInv(f[k], P, k)
    BY <1>6, <2>1, <2>2, PiecesGoOn
  <2> QED BY <1>3, <2>3
<1> HIDE DEF Good, U
<1>10. 0..Len(P) \subseteq Good
  BY <1>3, <1>8, <1>9, UpTo
<1>11. PiecesInv(U, P, Len(P))
  BY <1>3, <1>7, <1>10 DEF Good
<1> DEFINE e == IF Len(P) = 0 THEN 0 ELSE P[Len(P)].end
<1>12. AreShort(U, e) /\ e \in Int /\ e <= total
  <2>1. Len(P) # 0 => Len(P) \in 1..Len(P)
    BY <1>3
  <2> QED BY <1>3, <1>5, <1>11, <2>1 DEF PiecesInv
<1> HIDE DEF e
<1>13. AreShort(U, total)
  <2>1. \A k \in 1..Len(U) : U[k].end \in Int
    BY <1>12, SpanFields DEF AreShort
  <2>2. \A k \in 1..Len(U) : U[k].end <= e
    BY <1>12 DEF AreShort
  <2>3. ASSUME NEW k \in 1..Len(U) PROVE U[k].end <= total
    <3> DEFINE u == U[k].end
    <3>1. u \in Int /\ u <= e
      BY <2>1, <2>2
    <3> HIDE DEF u
    <3>2. u <= total
      BY <1>12, <3>1
    <3> QED BY <3>2 DEF u
  <2> QED BY <1>12, <2>3 DEF AreShort
<1>14. \A x \in Int : InOne(U, Len(U), x) <=> x \in SpeechMs(scores, total)
  BY <1>2, <1>11 DEF PiecesInv
<1> QED BY <1>13, <1>14 DEF U

\* What speech_detect returns is all that SpeechMs takes for speech, as clips.
LEMMA SpansAreCovered ==
  ASSUME NEW scores \in Seq(Nat), NEW total \in Nat, T(Len(scores)) <= total
  PROVE  LET U == SpansFromScores(scores, total)
         IN  AllMs(ToSet(U)) = SpeechMs(scores, total) /\ AreClips(U, total)
<1> DEFINE U == SpansFromScores(scores, total)
           N == Len(U)
<1>1. AreShort(U, total) /\ \A x \in Int : InOne(U, N, x) <=> x \in SpeechMs(scores, total)
  BY SpansAreSpeech
<1> HIDE DEF U
<1>2. /\ U \in Seq(Span) /\ N \in Nat /\ DOMAIN U = 1..N /\ Proper(U) /\ Apart(U, 0)
      /\ \A k \in 1..N : U[k].start \in Int /\ U[k].end \in Int
      /\ \A k \in 1..N : U[k].end - U[k].start <= MaxSpan /\ U[k].end <= total
  BY <1>1, SpanFields DEF AreShort
<1>3. ToSet(U) = {U[k] : k \in 1..N}
  BY <1>2 DEF ToSet
<1>4. \A x \in SpeechMs(scores, total) : x \in Int /\ 0 <= x
  <2>1. scores \in Seq(Int)
    OBVIOUS
  <2>2. \A x \in SpeechMs(scores, total) : x \in 0..total - 1
    BY <2>1, SpeechMsIs
  <2> QED BY <2>2
<1> HIDE DEF N
<1>5. ASSUME NEW k \in 1..N, NEW x
      PROVE  x \in Ms(U[k]) <=> x \in Int /\ In(U[k], x)
  <2> DEFINE a == U[k].start
             b == U[k].end
  <2>1. a \in Int /\ b \in Int
    BY <1>2
  <2>2. Ms(U[k]) = a..b - 1 /\ (In(U[k], x) <=> a <= x /\ x < b)
    BY DEF Ms, In
  <2> HIDE DEF a, b
  <2>3. x \in a..b - 1 <=> x \in Int /\ a <= x /\ x < b
    BY <2>1
  <2> QED BY <2>2, <2>3
<1>6. ASSUME NEW x PROVE x \in AllMs(ToSet(U)) <=> x \in Int /\ InOne(U, N, x)
  <2>1. x \in AllMs(ToSet(U)) <=> \E k \in 1..N : x \in Ms(U[k])
    BY <1>3 DEF AllMs
  <2> QED BY <1>5, <2>1 DEF InOne
<1>7. AllMs(ToSet(U)) = SpeechMs(scores, total)
  BY <1>1, <1>4, <1>6
<1>8. ASSUME NEW k \in 1..N PROVE 0 <= U[k].start /\ U[k].start < U[k].end
  <2> DEFINE a == U[k].start
  <2>1. a \in Int /\ a < U[k].end
    BY <1>2 DEF Proper, N
  <2>2. In(U[k], a)
    BY <1>2, <2>1 DEF In
  <2> HIDE DEF a
  <2>3. InOne(U, N, a)
    BY <2>2 DEF InOne
  <2>4. 0 <= a
    BY <1>1, <1>4, <2>1, <2>3
  <2> QED BY <2>1, <2>4 DEF a
<1>9. AreDisjoint(U)
  <2> SUFFICES ASSUME NEW i \in 1..N, NEW j \in 1..N, i < j PROVE U[i].end <= U[j].start
    BY <1>2 DEF AreDisjoint
  <2>1. U[j].start - U[i].end >= 0
    BY <1>2 DEF Apart, N
  <2> QED BY <1>2, <2>1
<1>10. AreClips(U, total)
  BY <1>2, <1>8, <1>9 DEF AreClips
<1> QED BY <1>7, <1>10 DEF U

\* The blocks that are diarized.
IsBlocking(f, S) ==
    /\ f[0] = <<>> /\ \A n \in 1..Len(S) : f[n] = BlockStep(f[n - 1], S[n])
    /\ BlocksFromSpans(S) = f[Len(S)]

LEMMA BlockIsSpans ==
  ASSUME NEW D \in Seq(Span), NEW s \in Span
  PROVE  BlockStep(D, s) \in Seq(Span)
<1>1. ASSUME D # <<>> PROVE [D EXCEPT ![Len(D)] = Widen(@, s)] \in Seq(Span)
  <2>1. Len(D) \in 1..Len(D) /\ D[Len(D)] \in Span
    BY <1>1
  <2>2. Widen(D[Len(D)], s) \in Span
    BY <2>1 DEF Widen, Larger, Span
  <2> QED BY <2>1, <2>2
<1> QED BY <1>1 DEF BlockStep

LEMMA BlockingSteps ==
  ASSUME NEW R \in Seq(Span)
  PROVE  \E f : IsBlocking(f, R)
<1> DEFINE N == Len(R)
           S == Seq(Span)
           step == [n \in 1..N |-> [x \in S |-> BlockStep(x, R[n])]]
           Steps(h) == h = [n \in 0..N |-> IF n = 0 THEN <<>> ELSE BlockStep(h[n - 1], R[n])]
           f == CHOOSE h : Steps(h)
<1>1. \A n \in 1..N : \A x \in S : BlockStep(x, R[n]) \in S
  <2> SUFFICES ASSUME NEW n \in 1..N, NEW x \in S PROVE BlockStep(x, R[n]) \in S
    OBVIOUS
  <2>1. R[n] \in Span
    OBVIOUS
  <2> QED BY <2>1, BlockIsSpans
<1>2. PICK g : IsRun(g, N, S, <<>>, step)
  <2>1. N \in Nat /\ <<>> \in S
    OBVIOUS
  <2>2. Rounds(N, S, step)
    BY <1>1 DEF Rounds
  <2> HIDE DEF N, step, S
  <2> QED BY <2>1, <2>2, Loop
<1>3. g \in [0..N -> S] /\ g[0] = <<>> /\ \A n \in 1..N : g[n] = BlockStep(g[n - 1], R[n])
  BY <1>2 DEF IsRun
<1>4. Steps(g)
  BY <1>3
<1>5. Steps(f)
  <2> HIDE DEF Steps
  <2> QED BY <1>4
<1>6. BlocksFromSpans(R) = f[N]
  BY DEF BlocksFromSpans, Coalesce, BlockStep
<1> HIDE DEF f
<1>7. f[0] = <<>> /\ \A n \in 1..N : f[n] = BlockStep(f[n - 1], R[n])
  BY <1>5
<1> QED BY <1>6, <1>7 DEF IsBlocking

\* A block begins with a span, one the block before it could not take.
CannotTake(b, s) == s.start - b.end > BlockGap \/ s.end - b.start > MaxBlock
BeginsWith(D, k, s) == /\ D[k].start = s.start /\ s.end <= D[k].end
                       /\ k > 1 => CannotTake(D[k - 1], s)

BlocksInv(D, R, n) ==
    /\ D \in Seq(Span) /\ Proper(D) /\ Apart(D, 0)
    /\ \A k \in 1..Len(D) : D[k].end - D[k].start <= MaxBlock
    /\ \A c \in 1..n : Holds(D, R[c].start, R[c].end)
    /\ \A k \in 1..Len(D) : \E c \in 1..n : BeginsWith(D, k, R[c])
    /\ n > 0 => D[Len(D)].end = R[n].end
    /\ n = 0 <=> Len(D) = 0

LEMMA BlockStepKeeps ==
  ASSUME NEW R, NEW e, AreShort(R, e), NEW n \in 1..Len(R), NEW D, BlocksInv(D, R, n - 1)
  PROVE  BlocksInv(BlockStep(D, R[n]), R, n)
<1> DEFINE H == BlockStep(D, R[n])
           L == Len(D)
           s == R[n]
<1>1. /\ D \in Seq(Span) /\ R \in Seq(Span) /\ s \in Span
      /\ L \in Nat /\ n \in Nat /\ n > 0 /\ n - 1 \in Nat
      /\ Proper(R) /\ Apart(R, 0) /\ Proper(D) /\ Apart(D, 0)
      /\ \A k \in 1..L : D[k].end - D[k].start <= MaxBlock
      /\ \A c \in 1..n - 1 : Holds(D, R[c].start, R[c].end)
      /\ \A k \in 1..L : \E c \in 1..n - 1 : BeginsWith(D, k, R[c])
      /\ n - 1 > 0 => D[L].end = R[n - 1].end
      /\ n - 1 = 0 <=> L = 0
  BY DEF BlocksInv, AreShort
<1>2. /\ \A k \in 1..L : D[k].start \in Int /\ D[k].end \in Int
      /\ \A c \in 1..Len(R) : R[c].start \in Int /\ R[c].end \in Int
      /\ s.start \in Int /\ s.end \in Int /\ s.start < s.end
      /\ MaxBlock \in Int /\ s.end - s.start <= MaxBlock
  <2>1. s.start \in Int /\ s.end \in Int /\ s.start < s.end /\ s.end - s.start <= MaxSpan
    BY <1>1, SpanFields DEF AreShort, Proper
  <2>2. MaxSpan \in Int /\ MaxBlock \in Int /\ MaxSpan <= MaxBlock
    BY SpeechSpansAssumption
  <2> HIDE DEF s
  <2>3. s.end - s.start <= MaxBlock
    BY <2>1, <2>2
  <2> QED BY <1>1, <2>1, <2>2, <2>3, SpanFields
<1>3. L > 0 => /\ L \in 1..L /\ s.start - D[L].end >= 0 /\ D[L].end <= s.end
               /\ D[L].start < D[L].end
  <2> SUFFICES ASSUME L > 0
               PROVE  /\ L \in 1..L /\ s.start - D[L].end >= 0 /\ D[L].end <= s.end
                      /\ D[L].start < D[L].end
    OBVIOUS
  <2>1. n - 1 \in 1..Len(R) /\ n - 1 < n /\ n - 1 > 0 /\ L \in 1..L
    BY <1>1
  <2>2. R[n].start - R[n - 1].end >= 0
    BY <1>1, <2>1 DEF Apart
  <2>3. D[L].end = R[n - 1].end /\ D[L].start < D[L].end /\ D[L].end \in Int
    BY <1>1, <1>2, <2>1 DEF Proper
  <2> QED BY <1>2, <2>1, <2>2, <2>3
<1>4. 1..n - 1 \subseteq 1..n /\ n \in 1..n /\ \A c \in 1..n : c = n \/ c \in 1..n - 1
  BY <1>1
<1>5. CASE L > 0 /\ s.end - D[L].start <= MaxBlock /\ Reaches(H, D, s.end)
  <2>1. /\ H \in Seq(Span) /\ Len(H) = L /\ H[L].start = D[L].start /\ H[L].end = s.end
        /\ \A k \in 1..L : k = L \/ (k \in 1..L - 1 /\ H[k] = D[k])
    BY <1>1, <1>5 DEF Reaches
  <2>2. Proper(H) /\ Apart(H, 0) /\ \A u, v \in Int : Holds(D, u, v) => Holds(H, u, v)
    <3>1. Reaches(H, D, s.end) /\ D[Len(D)].end <= s.end /\ 0 \in Nat
      BY <1>3, <1>5
    <3> HIDE DEF H, s
    <3>2. /\ Proper(D) => Proper(H)
          /\ \A d \in Nat : Apart(D, d) => Apart(H, d)
          /\ \A u, v \in Int : Holds(D, u, v) => Holds(H, u, v)
      BY <1>1, <1>2, <3>1, ReachKeeps
    <3> QED BY <1>1, <3>1, <3>2
  <2> HIDE DEF H, L, s
  <2>3. ASSUME NEW k \in 1..L PROVE H[k].end - H[k].start <= MaxBlock
    BY <1>1, <1>5, <2>1
  <2>4. ASSUME NEW k \in 1..L PROVE H[k].start = D[k].start /\ D[k].end <= H[k].end
    <3>1. CASE k = L
      BY <1>3, <1>5, <2>1, <3>1
    <3>2. CASE k \in 1..L - 1 /\ H[k] = D[k]
      BY <1>2, <3>2
    <3> QED BY <2>1, <3>1, <3>2
  <2>5. ASSUME NEW k \in 1..L PROVE \E c \in 1..n : BeginsWith(H, k, R[c])
    <3>1. PICK c \in 1..n - 1 : BeginsWith(D, k, R[c])
      BY <1>1
    <3>2. c \in 1..Len(R) /\ c \in 1..n
      BY <1>1, <1>4
    <3>3. R[c].end <= H[k].end
      <4> DEFINE u == D[k].end
                 v == H[k].end
                 w == R[c].end
      <4>1. u \in Int /\ w \in Int /\ w <= u /\ u <= v
        BY <1>2, <2>4, <3>1, <3>2 DEF BeginsWith
      <4>2. v \in Int
        BY <2>1, SpanFields
      <4> HIDE DEF u, v, w
      <4>3. w <= v
        BY <4>1, <4>2
      <4> QED BY <4>3 DEF w, v
    <3>4. k > 1 => H[k - 1] = D[k - 1]
      <4> SUFFICES ASSUME k > 1 PROVE H[k - 1] = D[k - 1]
        OBVIOUS
      <4>1. k - 1 \in 1..L /\ k - 1 # L
        BY <1>1
      <4> QED BY <2>1, <4>1
    <3> QED BY <2>4, <3>1, <3>2, <3>3, <3>4 DEF BeginsWith
  <2>6. ASSUME NEW c \in 1..n PROVE Holds(H, R[c].start, R[c].end)
    <3>1. CASE c = n
      <4>1. H[L].start <= s.start /\ s.end <= H[L].end
        <5> DEFINE a == D[L].start
                   b == D[L].end
        <5>1. a \in Int /\ b \in Int /\ a < b /\ s.start - b >= 0
          BY <1>2, <1>3, <1>5
        <5> HIDE DEF a, b
        <5>2. a <= s.start
          BY <1>2, <5>1
        <5> QED BY <1>2, <2>1, <5>2 DEF a
      <4> QED BY <1>3, <1>5, <2>1, <3>1, <4>1 DEF Holds, s
    <3>2. CASE c \in 1..n - 1
      <4>1. c \in 1..Len(R)
        BY <1>1
      <4>2. R[c].start \in Int /\ R[c].end \in Int
        BY <1>2, <4>1
      <4> QED BY <1>1, <2>2, <3>2, <4>2
    <3> QED BY <1>4, <3>1, <3>2
  <2>7. H[Len(H)].end = R[n].end /\ (n = 0 <=> Len(H) = 0)
    BY <1>1, <1>5, <2>1 DEF s
  <2>8. BlocksInv(H, R, n)
    BY <2>1, <2>2, <2>3, <2>5, <2>6, <2>7 DEF BlocksInv
  <2> QED BY <2>8 DEF H
<1>6. CASE /\ L > 0 => s.start - D[L].end > BlockGap \/ s.end - D[L].start > MaxBlock
           /\ Adds(H, D, s)
  <2>1. H \in Seq(Span) /\ Len(H) = L + 1 /\ H[L + 1] = s /\ \A k \in 1..L : H[k] = D[k]
    BY <1>6 DEF Adds
  <2>2. /\ Proper(H) /\ Apart(H, 0) /\ Holds(H, s.start, s.end)
        /\ \A u, v \in Int : Holds(D, u, v) => Holds(H, u, v)
    <3>1. Adds(H, D, s)
      BY <1>6
    <3>2. (Len(D) > 0 => s.start - D[Len(D)].end >= 0) /\ 0 \in Nat
      BY <1>3
    <3> HIDE DEF H, s
    <3>3. /\ Proper(H) /\ Holds(H, s.start, s.end)
          /\ \A u, v \in Int : Holds(D, u, v) => Holds(H, u, v)
      BY <1>1, <1>2, <3>1, SpanAddKeeps
    <3>4. Apart(H, 0)
      BY <1>1, <3>1, <3>2, AddApart
    <3> QED BY <3>3, <3>4
  <2> HIDE DEF H, L, s
  <2>3. \A k \in 1..L + 1 : k = L + 1 \/ k \in 1..L
    BY <1>1
  <2>4. ASSUME NEW k \in 1..L + 1 PROVE H[k].end - H[k].start <= MaxBlock
    BY <1>1, <1>2, <2>1, <2>3
  <2>5. BeginsWith(H, L + 1, s)
    <3>1. L + 1 > 1 => CannotTake(H[(L + 1) - 1], s)
      <4> SUFFICES ASSUME L > 0 PROVE CannotTake(H[(L + 1) - 1], s)
        BY <1>1
      <4>1. (L + 1) - 1 = L /\ H[L] = D[L]
        BY <1>1, <1>3, <2>1
      <4> QED BY <1>6, <4>1 DEF CannotTake
    <3>2. H[L + 1].start = s.start /\ s.end <= H[L + 1].end
      <4>1. s.end \in Int /\ s.end <= s.end
        BY <1>2
      <4> QED BY <2>1, <4>1
    <3> QED BY <3>1, <3>2 DEF BeginsWith
  <2>6. ASSUME NEW k \in 1..L + 1 PROVE \E c \in 1..n : BeginsWith(H, k, R[c])
    <3>1. CASE k = L + 1
      BY <1>4, <2>5, <3>1 DEF s
    <3>2. CASE k \in 1..L
      <4>1. PICK c \in 1..n - 1 : BeginsWith(D, k, R[c])
        BY <1>1, <3>2
      <4>2. k > 1 => H[k - 1] = D[k - 1]
        <5> SUFFICES ASSUME k > 1 PROVE H[k - 1] = D[k - 1]
          OBVIOUS
        <5>1. k - 1 \in 1..L
          BY <1>1, <3>2
        <5> QED BY <2>1, <5>1
      <4>3. H[k] = D[k] /\ c \in 1..n
        BY <1>4, <2>1, <3>2
      <4> QED BY <4>1, <4>2, <4>3 DEF BeginsWith
    <3> QED BY <2>3, <3>1, <3>2
  <2>7. ASSUME NEW c \in 1..n PROVE Holds(H, R[c].start, R[c].end)
    <3>1. CASE c = n
      BY <2>2, <3>1 DEF s
    <3>2. CASE c \in 1..n - 1
      <4>1. c \in 1..Len(R)
        BY <1>1
      <4>2. R[c].start \in Int /\ R[c].end \in Int
        BY <1>2, <4>1
      <4> QED BY <1>1, <2>2, <3>2, <4>2
    <3> QED BY <1>4, <3>1, <3>2
  <2>8. H[Len(H)].end = R[n].end /\ (n = 0 <=> Len(H) = 0)
    BY <1>1, <2>1 DEF s
  <2>9. BlocksInv(H, R, n)
    BY <2>1, <2>2, <2>4, <2>6, <2>7, <2>8 DEF BlocksInv
  <2> QED BY <2>9 DEF H
<1>7. \/ L > 0 /\ s.end - D[L].start <= MaxBlock /\ Reaches(H, D, s.end)
      \/ /\ L > 0 => s.start - D[L].end > BlockGap \/ s.end - D[L].start > MaxBlock
         /\ Adds(H, D, s)
  <2>1. Len(D) > 0 => D[Len(D)].end <= s.end
    BY <1>3
  <2> QED BY <1>1, <2>1, BlockStepIs
<1> QED BY <1>5, <1>6, <1>7

\* The loop of blocks_from_spans keeps BlocksInv, from the first span to the last.
LEMMA BlocksAre ==
  ASSUME NEW R, NEW e, AreShort(R, e)
  PROVE  BlocksInv(BlocksFromSpans(R), R, Len(R))
<1>0. Len(R) \in Nat /\ R \in Seq(Span)
  BY DEF AreShort
<1>1. PICK f : IsBlocking(f, R)
  BY <1>0, BlockingSteps
<1> DEFINE Good == {n \in 0..Len(R) : BlocksInv(f[n], R, n)}
<1>2. 0 \in Good
  <2>1. BlocksInv(<<>>, R, 0)
    BY DEF BlocksInv, Proper, Apart
  <2> QED BY <1>0, <1>1, <2>1 DEF IsBlocking
<1>3. ASSUME NEW n \in 1..Len(R), n - 1 \in Good PROVE n \in Good
  <2>1. f[n] = BlockStep(f[n - 1], R[n])
    BY <1>1 DEF IsBlocking
  <2>2. BlocksInv(f[n - 1], R, n - 1)
    BY <1>3
  <2>3. BlocksInv(f[n], R, n)
    BY <2>1, <2>2, BlockStepKeeps
  <2> QED BY <1>0, <2>3
<1> HIDE DEF Good
<1>4. 0..Len(R) \subseteq Good
  BY <1>0, <1>2, <1>3, UpTo
<1>5. Len(R) \in Good
  BY <1>0, <1>4
<1> QED BY <1>1, <1>5 DEF Good, IsBlocking

\* Each span is in one block, and a block begins where the last could not go on.
LEMMA BlocksHold ==
  ASSUME NEW R, NEW e, AreShort(R, e), NEW D, BlocksInv(D, R, Len(R))
  PROVE  AreBlocksOf(D, R)
<1> DEFINE L == Len(D)
           N == Len(R)
<1>1. /\ D \in Seq(Span) /\ R \in Seq(Span) /\ L \in Nat /\ N \in Nat
      /\ DOMAIN D = 1..L /\ DOMAIN R = 1..N
      /\ \A k \in 1..L : D[k].start \in Int /\ D[k].end \in Int
      /\ \A c \in 1..N : R[c].start \in Int /\ R[c].end \in Int
  BY SpanFields DEF BlocksInv, AreShort
<1>2. /\ Proper(R) /\ Apart(R, 0) /\ Proper(D) /\ Apart(D, 0)
      /\ \A k \in 1..L : D[k].end - D[k].start <= MaxBlock
      /\ \A c \in 1..N : Holds(D, R[c].start, R[c].end)
      /\ \A k \in 1..L : \E c \in 1..N : BeginsWith(D, k, R[c])
  BY DEF BlocksInv, AreShort
<1>3. /\ \A c \in 1..N : R[c].start < R[c].end
      /\ \A k, l \in 1..N : k < l => R[l].start - R[k].end >= 0
      /\ \A k, l \in 1..L : k < l => D[l].start - D[k].end >= 0
  BY <1>2 DEF Proper, Apart
<1> HIDE DEF L, N
<1>4. ASSUME NEW i \in 1..L, NEW j \in 1..L, i < j, NEW c \in 1..N,
             Covers(D[i], R[c]), Covers(D[j], R[c])
      PROVE  FALSE
  <2> DEFINE a == R[c].start
             b == R[c].end
             u == D[i].end
             v == D[j].start
  <2>1. a \in Int /\ b \in Int /\ u \in Int /\ v \in Int /\ a < b /\ v - u >= 0
    BY <1>1, <1>3, <1>4
  <2>2. b <= u /\ v <= a
    BY <1>4 DEF Covers
  <2> HIDE DEF a, b, u, v
  <2> QED BY <2>1, <2>2
<1>5. ASSUME NEW c \in 1..N
      PROVE  Cardinality({i \in 1..L : Covers(D[i], R[c])}) = 1
  <2>1. PICK i \in 1..L : Covers(D[i], R[c])
    BY <1>2 DEF Holds, Covers, L
  <2>2. \A j \in 1..L : Covers(D[j], R[c]) => j = i
    <3> SUFFICES ASSUME NEW j \in 1..L, Covers(D[j], R[c]), j # i PROVE FALSE
      OBVIOUS
    <3>1. j < i \/ i < j
      BY <1>1
    <3> QED BY <1>4, <2>1, <3>1
  <2>3. {j \in 1..L : Covers(D[j], R[c])} = {i}
    BY <2>1, <2>2
  <2> QED BY <2>3, FS_Singleton
<1>6. ASSUME NEW i \in 1..L \ {1}
      PROVE  LET next == R[Min({k \in 1..N : Covers(D[i], R[k])})]
             IN  next.start - D[i - 1].end > BlockGap \/ next.end - D[i - 1].start > MaxBlock
  <2> DEFINE W == {k \in 1..N : Covers(D[i], R[k])}
             m == Min(W)
  <2>1. PICK c \in 1..N : BeginsWith(D, i, R[c])
    BY <1>2
  <2>2. D[i].start = R[c].start /\ R[c].end <= D[i].end
    BY <2>1 DEF BeginsWith
  <2>3. c \in W
    <3>1. D[i].start <= R[c].start
      BY <1>1, <2>2
    <3> QED BY <2>2, <3>1 DEF Covers
  <2>4. W \in SUBSET Nat /\ W # {}
    <3>1. \A k \in 1..N : k \in Nat
      BY <1>1
    <3> QED BY <2>3, <3>1
  <2>5. m \in W /\ m <= c
    BY <2>3, <2>4, MinIsLeast
  <2>6. m \in 1..N /\ Covers(D[i], R[m])
    BY <2>5
  <2> HIDE DEF m, W
  <2>7. ~(m < c)
    <3> SUFFICES ASSUME m < c PROVE FALSE
      OBVIOUS
    <3> DEFINE a == R[m].start
               b == R[m].end
               u == R[c].start
    <3>1. a \in Int /\ b \in Int /\ u \in Int /\ a < b /\ u - b >= 0
      BY <1>1, <1>3, <2>6
    <3>2. u <= a
      BY <2>2, <2>6 DEF Covers
    <3> HIDE DEF a, b, u
    <3> QED BY <3>1, <3>2
  <2>8. m = c
    BY <1>1, <2>5, <2>6, <2>7
  <2>9. i > 1
    BY <1>1
  <2>10. CannotTake(D[i - 1], R[m])
    BY <2>1, <2>8, <2>9 DEF BeginsWith
  <2> QED BY <2>10 DEF CannotTake, m, W
<1>7. \A c \in DOMAIN R : Cardinality({i \in DOMAIN D : Covers(D[i], R[c])}) = 1
  BY <1>1, <1>5
<1>8. \A i \in DOMAIN D : D[i].end - D[i].start <= MaxBlock
  BY <1>1, <1>2
<1> DEFINE NextOf(b) == R[Min({k \in DOMAIN R : Covers(b, R[k])})]
<1>9. \A i \in DOMAIN D \ {1} : \/ NextOf(D[i]).start - D[i - 1].end > BlockGap
                                \/ NextOf(D[i]).end - D[i - 1].start > MaxBlock
  BY <1>1, <1>6
<1> QED BY <1>7, <1>8, <1>9, Zenon DEF AreBlocksOf

----------------------------------------------------------------------------
(* The calls of Algorithms.                                                *)

LEMMA SizesAreNatural ==
  ASSUME NEW n, NEW limit, NEW sizes \in [1..n -> 0..limit]
  PROVE  sizes \in [1..n -> Nat]
OBVIOUS

LEMMA FileHasAHeader ==
  ASSUME NEW n \in Nat, NEW sizes \in [1..n -> Nat]
  PROVE  Size(sizes) \in Nat
BY PlanIsLaid DEF Laid

\* Every call's media is what its invariant says; the rest of MediaIsServed is true
\* of any input.
ServingInv == MediaIsServed /\ (Did("media") => MediaInv(call.media))

\* Each call of Algorithms leaves media requests as they are, or serves one.
LEMMA OtherCallsServe ==
  ASSUME call'.of \notin {"audio", "load", "scan", "clips", "range", "media"}
  PROVE  ServingInv'
BY DEF ServingInv, MediaIsServed, Did

LEMMA MediaIsServedIfKept ==
  ASSUME call'.of = "media", MediaInv(call'.media)
  PROVE  ServingInv'
BY CacheStaysBounded DEF ServingInv, MediaIsServed, Did, MediaInv

LEMMA ServeMediaKeeps ==
  ASSUME ServingInv, ServeMedia
  PROVE  ServingInv'
<1> DEFINE m == IF Did("media") THEN call.media ELSE NoMedia
           count == IF Did("media") THEN call.count ELSE 0
           Became(next) == call' = [of |-> "media", count |-> count + 1, media |-> next]
<1>1. MediaInv(m)
  BY MediaBegins DEF ServingInv
<1>2. ASSUME NEW next, Became(next), MediaInv(next) PROVE ServingInv'
  <2>1. call'.of = "media" /\ call'.media = next
    BY <1>2
  <2> QED BY <1>2, <2>1, MediaIsServedIfKept
<1>3. \/ \E s \in MediaSessions, bytes \in 0..1 : \E number \in (0..MaxCreated) \ Numbers(m, s) :
            Became(Ingested(m, s, number, bytes))
      \/ \E s \in MediaSessions : \E x \in m.segments[s] : Became(Deleted(m, s, x))
      \/ \E l \in Listeners, s \in MediaSessions : Became(Looked(m, l, s))
      \/ \E l \in Listeners : m.seen[l] # Nobody /\ Became(Read(m, l))
      \/ \E l \in Listeners : m.seen[l] # Nobody /\ m.seen[l].rows # {} /\ Became(Built(m, l))
      \/ \E l \in Listeners : Became(Failed(m, l))
  BY DEF ServeMedia
<1> HIDE DEF m, count, Became
<1>4. ASSUME NEW s \in MediaSessions, NEW bytes \in 0..1, NEW number \in 0..MaxCreated,
             Became(Ingested(m, s, number, bytes))
      PROVE  ServingInv'
  <2>1. number \in Nat /\ bytes \in Nat
    OBVIOUS
  <2> QED BY <1>1, <1>2, <1>4, <2>1, IngestKeeps
<1>5. ASSUME NEW s \in MediaSessions, NEW x, Became(Deleted(m, s, x)) PROVE ServingInv'
  BY <1>1, <1>2, <1>5, DeleteKeeps
<1>6. ASSUME NEW l \in Listeners, NEW s \in MediaSessions, Became(Looked(m, l, s))
      PROVE  ServingInv'
  BY <1>1, <1>2, <1>6, LookKeeps
<1>7. ASSUME NEW l \in Listeners, m.seen[l] # Nobody, Became(Read(m, l)) PROVE ServingInv'
  BY <1>1, <1>2, <1>7, ReadKeeps
<1>8. ASSUME NEW l \in Listeners, m.seen[l] # Nobody, m.seen[l].rows # {}, Became(Built(m, l))
      PROVE  ServingInv'
  BY <1>1, <1>2, <1>8, BuildKeeps
<1>9. ASSUME NEW l \in Listeners, Became(Failed(m, l)) PROVE ServingInv'
  BY <1>1, <1>2, <1>9, FailKeeps
<1> QED BY <1>3, <1>4, <1>5, <1>6, <1>7, <1>8, <1>9

LEMMA ReadAudioServes ==
  ASSUME ReadAudio
  PROVE  ServingInv'
<1>1. PICK n \in 1..MaxSegments : \E sizes \in [1..n -> 0..MaxBlob] :
          \E from, to \in 0..Size(sizes) - 1 :
              /\ from <= to
              /\ call' = [of |-> "audio", sizes |-> sizes, from |-> from, to |-> to,
                          slices |-> Slices(sizes, from, to)]
  BY DEF ReadAudio
<1>2. PICK sizes \in [1..n -> 0..MaxBlob] :
          \E from, to \in 0..Size(sizes) - 1 :
              /\ from <= to
              /\ call' = [of |-> "audio", sizes |-> sizes, from |-> from, to |-> to,
                          slices |-> Slices(sizes, from, to)]
  BY <1>1
<1>3. PICK from \in 0..Size(sizes) - 1, to \in 0..Size(sizes) - 1 :
              /\ from <= to
              /\ call' = [of |-> "audio", sizes |-> sizes, from |-> from, to |-> to,
                          slices |-> Slices(sizes, from, to)]
  BY <1>2
<1>4. n \in Nat /\ sizes \in [1..n -> Nat]
  BY SizesAreNatural
<1>5. Size(sizes) \in Nat
  BY <1>4, FileHasAHeader
<1>6. from \in Nat /\ to \in Nat /\ to < Size(sizes)
  BY <1>5
<1>7. SlicesAreExact(sizes, from, to)
  BY <1>3, <1>4, <1>6, RangesAreExact
<1>8. call'.of = "audio" /\ call'.sizes = sizes /\ call'.from = from /\ call'.to = to
  BY <1>3
<1> QED BY <1>7, <1>8 DEF ServingInv, MediaIsServed, Did

LEMMA LoadSessionServes ==
  ASSUME LoadSession
  PROVE  ServingInv'
<1> DEFINE Kinds == [wav : BOOLEAN, rate : 0..2, header : 0..2, size : {Header - 1, Header + 1}]
<1>1. PICK n \in 0..2 : \E segments \in [1..n -> Kinds] :
              call' = [of |-> "load", segments |-> segments]
  BY DEF LoadSession
<1> HIDE DEF Kinds
<1>2. PICK segments \in [1..n -> Kinds] : call' = [of |-> "load", segments |-> segments]
  BY <1>1
<1>3. n \in Nat
  OBVIOUS
<1>4. TimelinesAreUniform(segments)
  BY <1>3, TimelineIsUniform
<1>5. call'.of = "load" /\ call'.segments = segments
  BY <1>2
<1> QED BY <1>4, <1>5 DEF ServingInv, MediaIsServed, Did

LEMMA ScanSessionServes ==
  ASSUME ScanSession
  PROVE  ServingInv'
<1>1. PICK n \in 1..MaxSegments : \E sizes \in [1..n -> 0..MaxBlob + 1], window \in 1..MaxBlob :
          call' = [of |-> "scan", sizes |-> sizes, window |-> window]
  BY DEF ScanSession
<1>2. PICK sizes \in [1..n -> 0..MaxBlob + 1], window \in 1..MaxBlob :
          call' = [of |-> "scan", sizes |-> sizes, window |-> window]
  BY <1>1
<1>3. n \in Nat /\ sizes \in [1..n -> Nat] /\ window \in Nat \ {0}
  BY SizesAreNatural
<1>4. WindowsAreClips(sizes, window)
  BY <1>3, ScansAreClips
<1>5. call'.of = "scan" /\ call'.sizes = sizes /\ call'.window = window
  BY <1>2
<1> QED BY <1>4, <1>5 DEF ServingInv, MediaIsServed, Did

LEMMA RenderClipsServes ==
  ASSUME RenderClips
  PROVE  ServingInv'
<1>1. PICK data \in 0..MaxData : \E from, mid, to \in 0..TotalMs(data) :
          /\ from < mid /\ mid < to
          /\ call' = [of |-> "clips", data |-> data, from |-> from, mid |-> mid, to |-> to,
                      left |-> ByteRange(data, from, mid), right |-> ByteRange(data, mid, to)]
  BY DEF RenderClips
<1>2. PICK from \in 0..TotalMs(data), mid \in 0..TotalMs(data), to \in 0..TotalMs(data) :
          call' = [of |-> "clips", data |-> data, from |-> from, mid |-> mid, to |-> to,
                      left |-> ByteRange(data, from, mid), right |-> ByteRange(data, mid, to)]
  BY <1>1
<1>3. data \in Nat /\ from \in Nat /\ mid \in Nat /\ to \in Nat
  OBVIOUS
<1>4. ClipsTile(data, from, mid, to)
  BY <1>3, ClipsDoTile
<1>5. call'.of = "clips" /\ call'.data = data /\ call'.from = from /\ call'.mid = mid /\ call'.to = to
  BY <1>2
<1> QED BY <1>4, <1>5 DEF ServingInv, MediaIsServed, Did

LEMMA AnswerRangeServes ==
  ASSUME AnswerRange
  PROVE  ServingInv'
<1>1. PICK first \in {Absent} \union 0..MaxBlob + 1, last \in {Absent} \union 0..MaxBlob + 1,
           size \in 0..MaxBlob :
          call' = [of |-> "range", first |-> first, last |-> last, size |-> size,
                   answer |-> ParseRange(first, last, size)]
  BY DEF AnswerRange
<1>2. first \in {Absent} \union Nat /\ last \in {Absent} \union Nat /\ size \in Nat
  OBVIOUS
<1>3. RangesAreAnswered(first, last, size)
  BY <1>2, RangeIsAnswered
<1>4. call'.of = "range" /\ call'.first = first /\ call'.last = last /\ call'.size = size
  BY <1>1
<1> QED BY <1>3, <1>4 DEF ServingInv, MediaIsServed, Did

\* Media requests get the audio they ask for.
THEOREM MediaServed == AlgSpec => []MediaIsServed
<1>1. AlgInit => ServingInv
  BY DEF AlgInit, ServingInv, MediaIsServed, Did
<1>2. ServingInv /\ [AlgNext]_call => ServingInv'
  <2> SUFFICES ASSUME ServingInv, [AlgNext]_call PROVE ServingInv'
    OBVIOUS
  <2>1. CASE ReadAudio
    BY <2>1, ReadAudioServes
  <2>2. CASE LoadSession
    BY <2>2, LoadSessionServes
  <2>3. CASE ScanSession
    BY <2>3, ScanSessionServes
  <2>4. CASE RenderClips
    BY <2>4, RenderClipsServes
  <2>5. CASE AnswerRange
    BY <2>5, AnswerRangeServes
  <2>6. CASE ServeMedia
    BY <2>6, ServeMediaKeeps
  <2>7. CASE DetectSpeech
    BY <2>7, OtherCallsServe DEF DetectSpeech
  <2>8. CASE MakeUtterances
    BY <2>8, OtherCallsServe DEF MakeUtterances
  <2>9. CASE AuditTurns
    BY <2>9, OtherCallsServe DEF AuditTurns
  <2>10. CASE CarryOver
    BY <2>10, OtherCallsServe DEF CarryOver
  <2>11. CASE Talk
    BY <2>11, OtherCallsServe DEF Talk
  <2>12. CASE Hear
    BY <2>12, OtherCallsServe DEF Hear
  <2>13. CASE TagWindows
    BY <2>13, OtherCallsServe DEF TagWindows
  <2>14. CASE SuppressLabels
    BY <2>14, OtherCallsServe DEF SuppressLabels
  <2>15. CASE ViewTimeline
    BY <2>15, OtherCallsServe DEF ViewTimeline
  <2>16. CASE ListSpeakers
    BY <2>16, OtherCallsServe DEF ListSpeakers
  <2>17. CASE FindFixes
    BY <2>17, OtherCallsServe DEF FindFixes
  <2>18. CASE ThinTrack
    BY <2>18, OtherCallsServe DEF ThinTrack
  <2>19. CASE UNCHANGED call
    BY <2>19 DEF ServingInv, MediaIsServed, Did
  <2> QED BY <2>1, <2>2, <2>3, <2>4, <2>5, <2>6, <2>7, <2>8, <2>9, <2>10, <2>11, <2>12, <2>13,
             <2>14, <2>15, <2>16, <2>17, <2>18, <2>19 DEF AlgNext
<1>3. ServingInv => MediaIsServed
  BY DEF ServingInv
<1> QED BY <1>1, <1>2, <1>3, PTL DEF AlgSpec

\* What was said where is listed by start, but need not be apart.
LEMMA CarriedCurationFollows ==
  ASSUME CarryOver
  PROVE  CurationFollowsSpeech'
<1> DEFINE R == {u \in [start : 0..MaxMoment, end : 0..MaxMoment] : u.start < u.end}
           Listed(n) == {seq \in [1..n -> R] :
                            \A i \in 1..n - 1 : ~Earlier(seq[i + 1], seq[i])}
<1>1. PICK i \in 0..MaxCarried, j \in 0..MaxCarried, k \in 0..MaxCarried :
          \E old \in Listed(i), some \in Listed(j), more \in Listed(k) :
              call' = [of |-> "carry", old |-> old, new |-> <<some, more>>,
                       utterances |-> some \o more, label |-> MapLabel(old, <<some, more>>)]
  BY DEF CarryOver
<1>2. PICK old \in Listed(i), some \in Listed(j), more \in Listed(k) :
              call' = [of |-> "carry", old |-> old, new |-> <<some, more>>,
                       utterances |-> some \o more, label |-> MapLabel(old, <<some, more>>)]
  BY <1>1
<1>3. Timed(R)
  BY DEF Timed
<1>4. /\ i \in Nat /\ j \in Nat /\ k \in Nat
      /\ old \in [1..i -> R] /\ some \in [1..j -> R] /\ more \in [1..k -> R]
  OBVIOUS
<1> HIDE DEF R, Listed
<1>5. old \in Seq(R) /\ some \in Seq(R) /\ more \in Seq(R)
  BY <1>4
<1> DEFINE new == <<some, more>>
           all == some \o more
<1>6. all \in Seq(R)
  BY <1>5, ConcatProperties
<1>7. 2 \in Nat /\ new \in [1..2 -> Seq(R)] /\ DOMAIN new = 1..2
  BY <1>5
<1>8. call'.of = "carry" /\ call'.old = old /\ call'.new = new /\ call'.utterances = all
  BY <1>2
<1> HIDE DEF new, all
<1>9. EditsAreCovered(old, all)
  BY <1>3, <1>5, <1>6, EditsGoWithSpeech
<1>10. ASSUME AreDisjoint(old), \A l \in DOMAIN new : AreDisjoint(new[l])
       PROVE  LabelsFollowSpeech(old, new)
  <2>1. \A l \in 1..2 : AreDisjoint(new[l])
    BY <1>7, <1>10
  <2> QED BY <1>3, <1>5, <1>7, <1>10, <2>1, LabelsGoWithSpeech
<1> QED BY <1>8, <1>9, <1>10 DEF CurationFollowsSpeech

\* Curation follows the speech it was about.
THEOREM CurationFollowed == AlgSpec => []CurationFollowsSpeech
<1>1. AlgInit => CurationFollowsSpeech
  BY DEF AlgInit, CurationFollowsSpeech, Did
<1>2. ASSUME call'.of # "carry" PROVE CurationFollowsSpeech'
  BY <1>2 DEF CurationFollowsSpeech, Did
<1>3. CurationFollowsSpeech /\ [AlgNext]_call => CurationFollowsSpeech'
  <2> SUFFICES ASSUME CurationFollowsSpeech, [AlgNext]_call PROVE CurationFollowsSpeech'
    OBVIOUS
  <2>1. CASE CarryOver
    BY <2>1, CarriedCurationFollows
  <2>2. CASE ServeMedia
    BY <1>2, <2>2 DEF ServeMedia
  <2>3. CASE ReadAudio
    BY <1>2, <2>3 DEF ReadAudio
  <2>4. CASE LoadSession
    BY <1>2, <2>4 DEF LoadSession
  <2>5. CASE ScanSession
    BY <1>2, <2>5 DEF ScanSession
  <2>6. CASE RenderClips
    BY <1>2, <2>6 DEF RenderClips
  <2>7. CASE AnswerRange
    BY <1>2, <2>7 DEF AnswerRange
  <2>8. CASE DetectSpeech
    BY <1>2, <2>8 DEF DetectSpeech
  <2>9. CASE MakeUtterances
    BY <1>2, <2>9 DEF MakeUtterances
  <2>10. CASE AuditTurns
    BY <1>2, <2>10 DEF AuditTurns
  <2>11. CASE Talk
    BY <1>2, <2>11 DEF Talk
  <2>12. CASE Hear
    BY <1>2, <2>12 DEF Hear
  <2>13. CASE TagWindows
    BY <1>2, <2>13 DEF TagWindows
  <2>14. CASE SuppressLabels
    BY <1>2, <2>14 DEF SuppressLabels
  <2>15. CASE ViewTimeline
    BY <1>2, <2>15 DEF ViewTimeline
  <2>16. CASE ListSpeakers
    BY <1>2, <2>16 DEF ListSpeakers
  <2>17. CASE FindFixes
    BY <1>2, <2>17 DEF FindFixes
  <2>18. CASE ThinTrack
    BY <1>2, <2>18 DEF ThinTrack
  <2>19. CASE UNCHANGED call
    BY <2>19 DEF CurationFollowsSpeech, Did
  <2> QED BY <2>1, <2>2, <2>3, <2>4, <2>5, <2>6, <2>7, <2>8, <2>9, <2>10, <2>11, <2>12, <2>13,
             <2>14, <2>15, <2>16, <2>17, <2>18, <2>19 DEF AlgNext
<1> QED BY <1>1, <1>3, PTL DEF AlgSpec

\* A call of speech_detect, and diarize's blocks of what it found.
LEMMA DetectedSpeechIsCovered == DetectSpeech => SpeechIsCovered'
<1> SUFFICES ASSUME DetectSpeech PROVE SpeechIsCovered'
  OBVIOUS
<1>1. PICK n \in 0..NumFrames, rest \in 0..FrameMs - 1 : \E scores \in [1..n -> Levels] :
          LET total == n * FrameMs + rest
              spans == SpansFromScores(scores, total)
          IN  call' = [of |-> "speech", scores |-> scores, total |-> total, spans |-> spans,
                       blocks |-> BlocksFromSpans(spans)]
  BY DEF DetectSpeech
<1>2. PICK scores \in [1..n -> Levels] :
          LET total == n * FrameMs + rest
              spans == SpansFromScores(scores, total)
          IN  call' = [of |-> "speech", scores |-> scores, total |-> total, spans |-> spans,
                       blocks |-> BlocksFromSpans(spans)]
  BY <1>1
<1> DEFINE total == n * FrameMs + rest
           U == SpansFromScores(scores, total)
           B == BlocksFromSpans(U)
<1>3. n \in Nat /\ rest \in Nat /\ FrameMs \in Nat /\ n * FrameMs \in Nat
  BY AlgorithmsAssumption, SpeechSpansAssumption
<1>4. scores \in Seq(Nat) /\ Len(scores) = n
  <2>1. \A i \in 1..n : scores[i] \in Nat
    BY AlgorithmsAssumption
  <2> QED BY <1>3, <2>1
<1>5. total \in Nat /\ T(Len(scores)) <= total
  BY <1>3, <1>4 DEF T
<1>6. /\ call'.scores = scores /\ call'.total = total
      /\ call'.spans = U /\ call'.blocks = B
  BY <1>2
<1> HIDE DEF total, U, B
<1>7. AllMs(ToSet(U)) = SpeechMs(scores, total) /\ AreClips(U, total)
  BY <1>4, <1>5, SpansAreCovered DEF U
<1>8. AreBlocksOf(B, U)
  <2>1. AreShort(U, total)
    BY <1>4, <1>5, SpansAreSpeech DEF U
  <2> QED BY <2>1, BlocksAre, BlocksHold DEF B
<1> QED BY <1>6, <1>7, <1>8 DEF SpeechIsCovered

\* The spans are the loud stretches with the gaps and the padding the settings allow,
\* as clips, and each is in one block (spans_from_scores, blocks_from_spans).
THEOREM SpeechCovered == AlgSpec => []SpeechIsCovered
<1>1. AlgInit => SpeechIsCovered
  BY DEF AlgInit, SpeechIsCovered, Did
<1>2. ASSUME call'.of # "speech" PROVE SpeechIsCovered'
  BY <1>2 DEF SpeechIsCovered, Did
<1>3. SpeechIsCovered /\ [AlgNext]_call => SpeechIsCovered'
  <2> SUFFICES ASSUME SpeechIsCovered, [AlgNext]_call PROVE SpeechIsCovered'
    OBVIOUS
  <2>1. CASE DetectSpeech
    BY <2>1, DetectedSpeechIsCovered
  <2>2. CASE ServeMedia
    BY <1>2, <2>2 DEF ServeMedia
  <2>3. CASE ReadAudio
    BY <1>2, <2>3 DEF ReadAudio
  <2>4. CASE LoadSession
    BY <1>2, <2>4 DEF LoadSession
  <2>5. CASE ScanSession
    BY <1>2, <2>5 DEF ScanSession
  <2>6. CASE RenderClips
    BY <1>2, <2>6 DEF RenderClips
  <2>7. CASE AnswerRange
    BY <1>2, <2>7 DEF AnswerRange
  <2>8. CASE CarryOver
    BY <1>2, <2>8 DEF CarryOver
  <2>9. CASE MakeUtterances
    BY <1>2, <2>9 DEF MakeUtterances
  <2>10. CASE AuditTurns
    BY <1>2, <2>10 DEF AuditTurns
  <2>11. CASE Talk
    BY <1>2, <2>11 DEF Talk
  <2>12. CASE Hear
    BY <1>2, <2>12 DEF Hear
  <2>13. CASE TagWindows
    BY <1>2, <2>13 DEF TagWindows
  <2>14. CASE SuppressLabels
    BY <1>2, <2>14 DEF SuppressLabels
  <2>15. CASE ViewTimeline
    BY <1>2, <2>15 DEF ViewTimeline
  <2>16. CASE ListSpeakers
    BY <1>2, <2>16 DEF ListSpeakers
  <2>17. CASE FindFixes
    BY <1>2, <2>17 DEF FindFixes
  <2>18. CASE ThinTrack
    BY <1>2, <2>18 DEF ThinTrack
  <2>19. CASE UNCHANGED call
    BY <2>19 DEF SpeechIsCovered, Did
  <2> QED BY <2>1, <2>2, <2>3, <2>4, <2>5, <2>6, <2>7, <2>8, <2>9, <2>10, <2>11, <2>12, <2>13,
             <2>14, <2>15, <2>16, <2>17, <2>18, <2>19 DEF AlgNext
<1> QED BY <1>1, <1>3, PTL DEF AlgSpec
=============================================================================
