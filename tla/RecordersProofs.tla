--------------------------- MODULE RecordersProofs ---------------------------
(***************************************************************************)
(* Proofs about the two recording screens of WebViewLearn, for any number  *)
(* of jobs, chunks, visits and recordings.  VoiceRecorder: why a recording *)
(* microphone has a reader, when the button hides one, when hello.wav is   *)
(* what one job recorded, and what the process can die of.  VideoCapture:  *)
(* the buttons reach the recording that runs, and when deleting a row ends *)
(* the process.                                                            *)
(***************************************************************************)
EXTENDS MCRecorders, Integers, TLAPS

-----------------------------------------------------------------------------
(* The voice screen: types.                                                *)

Chunks == Seq(Jobs \union {NoJob})

LEMMA JobsFacts == NoJob \notin Jobs /\ Jobs \subseteq Nat
BY MaxJobsAssumption DEF Jobs, NoJob

\* A file stays a file of chunks, and one that grows at its end by its own job's.
LEMMA WriteAtType ==
  ASSUME NEW f \in Chunks, NEW n \in Nat \ {0}, NEW j \in Jobs
  PROVE  WriteAt(f, n, j) \in Chunks
<1> DEFINE m == IF Len(f) < n THEN n ELSE Len(f)
<1>1. m \in Nat
  BY DEF Chunks
<1>2. \A i \in 1 .. Len(f) : f[i] \in Jobs \union {NoJob}
  BY DEF Chunks
<1>3. \A i \in 1 .. m :
        (IF i = n THEN j ELSE IF i <= Len(f) THEN f[i] ELSE NoJob) \in Jobs \union {NoJob}
  BY <1>2 DEF Chunks
<1> HIDE DEF m
<1>4. [i \in 1 .. m |-> IF i = n THEN j ELSE IF i <= Len(f) THEN f[i] ELSE NoJob] \in Chunks
  BY <1>1, <1>3 DEF Chunks
<1> QED BY <1>4 DEF WriteAt, m

LEMMA WriteAtEnd ==
  ASSUME NEW n \in Nat, NEW j \in Jobs
  PROVE  WriteAt([i \in 1 .. n |-> j], n + 1, j) = [i \in 1 .. n + 1 |-> j]
<1>1. Len([i \in 1 .. n |-> j]) = n
  OBVIOUS
<1>2. WriteAt([i \in 1 .. n |-> j], n + 1, j) =
        [i \in 1 .. n + 1 |->
           IF i = n + 1 THEN j ELSE IF i <= n THEN [k \in 1 .. n |-> j][i] ELSE NoJob]
  BY <1>1 DEF WriteAt
<1>3. \A i \in 1 .. n + 1 : i = n + 1 \/ i \in 1 .. n
  OBVIOUS
<1> QED BY <1>2, <1>3

LEMMA VoiceTypeInit == Init => TypeOK
<1> SUFFICES ASSUME Init PROVE TypeOK
  OBVIOUS
<1>1. << >> \in Chunks /\ 0 \in 0 .. MaxChunks
  BY MaxChunksAssumption DEF Chunks
<1>2. wav \in [job : Jobs \union {NoJob}, header : Nat, data : Chunks]
  BY <1>1 DEF Init, NoJob
<1>3. total \in [Jobs -> 0 .. MaxChunks]
  BY <1>1 DEF Init
<1> QED BY <1>1, <1>2, <1>3 DEF Init, TypeOK, Chunks, Over

LEMMA VoiceTypeStep == TypeOK /\ [Next]_vars => TypeOK'
<1> SUFFICES ASSUME TypeOK, [Next]_vars PROVE TypeOK'
  OBVIOUS
<1> USE DEF uiVars, fileVars
<1>1. CASE Grant \/ ClickStart \/ ClickStop
  BY <1>1 DEF Grant, ClickStart, ClickStop, Stopped, TypeOK
<1>2. ASSUME NEW j \in Jobs \union {NoJob}, Crash(j)
      PROVE  /\ pc' \in [Jobs -> Over \union {"launched", "checked", "recording", "reading",
                                               "ended", "copying"}]
             /\ rec' = "released" /\ screen' = "crashed"
  BY <1>2 DEF Crash, Over
<1>3. CASE Dispose
  BY <1>2, <1>3 DEF Dispose, Released, TypeOK, Over
<1>4. ASSUME NEW j \in Jobs, StartRecording(j) \/ OpenThrows(j) PROVE TypeOK'
  BY <1>2, <1>4 DEF StartRecording, OpenThrows, TypeOK
<1>5. ASSUME NEW j \in Jobs, Check(j) \/ OpenOrReadFails(j) \/ ReadEnds(j) PROVE TypeOK'
  BY <1>5 DEF Check, OpenOrReadFails, ReadEnds, TypeOK, Over
<1>6. ASSUME NEW j \in Jobs, OpenPcm(j) PROVE TypeOK'
  BY <1>6 DEF OpenPcm, TypeOK
<1>7. ASSUME NEW j \in Jobs, ReadChunk(j) PROVE TypeOK'
  <2>1. total[j] + 1 \in 1 .. MaxChunks /\ pcm \in Chunks
    BY <1>7, MaxChunksAssumption DEF ReadChunk, TypeOK, Chunks
  <2>2. pcm' \in Chunks
    BY <1>7, <2>1, WriteAtType DEF ReadChunk
  <2>3. total' \in [Jobs -> 0 .. MaxChunks]
    BY <1>7, <2>1 DEF ReadChunk, TypeOK
  <2> QED BY <1>7, <2>2, <2>3 DEF ReadChunk, TypeOK, Chunks
<1>8. ASSUME NEW j \in Jobs, OpenWav(j) PROVE TypeOK'
  <2>1. wav' \in [job : Jobs \union {NoJob}, header : Nat, data : Chunks]
    BY <1>8, MaxChunksAssumption DEF OpenWav, TypeOK, Chunks
  <2> QED BY <1>8, <2>1 DEF OpenWav, TypeOK, Chunks
<1>9. ASSUME NEW j \in Jobs, CopyWav(j) PROVE TypeOK'
  <2>1. wav' \in [job : Jobs \union {NoJob}, header : Nat, data : Chunks]
    BY <1>9 DEF CopyWav, TypeOK, Chunks
  <2> QED BY <1>9, <2>1 DEF CopyWav, TypeOK, Chunks, Over
<1>10. CASE UNCHANGED vars
  BY <1>10 DEF vars, TypeOK
<1> QED BY <1>1, <1>3, <1>4, <1>5, <1>6, <1>7, <1>8, <1>9, <1>10 DEF Next, Runs, Fails

-----------------------------------------------------------------------------
(* The voice screen: the inductive invariant.                              *)

\* What "stop" overtakes when it is pressed: the recorder is not drained yet.
NotReading == {"launched", "checked", "recording"}

\* The button says "start" over a job that has still to start the recorder, or to read
\* it, only after a hasty press.
PressInv ==
  /\ ~isStart /\ screen = "shown" => hasty \/ \A j \in Jobs : pc[j] \notin NotReading
  /\ rec = "released" => screen # "shown"
  /\ screen = "crashed" => Active = {}

\* Without a hasty press jobs follow one another.
AloneInv == ~hasty => \A j, k \in Active : j = k

\* What job j has written, alone.
OwnChunks(j) == [i \in 1 .. total[j] |-> j]
PcmInv ==
  /\ \A j \in Jobs : pc[j] \in {"idle"} \union NotReading => total[j] = 0
  /\ ~hasty /\ ~ioFailed =>
       \A j \in Jobs : pc[j] \in {"reading", "ended", "copying"} => pcm = OwnChunks(j)

\* Who wrote the header, and what it says.
WavInv ==
  /\ wav.job # NoJob => pc[wav.job] \in {"copying", "done", "cancelled", "threw"}
  /\ ~hasty /\ ~ioFailed =>
       /\ \A j \in Jobs : pc[j] = "copying" => wav.job = j
       /\ wav.job # NoJob /\ pc[wav.job] \in {"copying", "done"} => wav.header = total[wav.job]
       /\ wav.job # NoJob /\ pc[wav.job] = "done" => wav.data = OwnChunks(wav.job)

VoiceInv ==
  RecordingHasReader /\ HiddenRecordingOnlyIfHasty /\ PressInv /\ AloneInv /\ PcmInv /\ WavInv

LEMMA VoiceInvInit == Init => VoiceInv
<1> SUFFICES ASSUME Init PROVE VoiceInv
  OBVIOUS
<1>1. \A j \in Jobs : pc[j] = "idle" /\ total[j] = 0
  BY DEF Init
<1>2. PressInv /\ AloneInv
  BY <1>1 DEF Init, PressInv, AloneInv, Active, NotReading, Over
<1>3. PcmInv /\ WavInv
  BY <1>1 DEF Init, PcmInv, WavInv, NotReading
<1>4. RecordingHasReader /\ HiddenRecordingOnlyIfHasty
  BY DEF Init, RecordingHasReader, HiddenRecordingOnlyIfHasty
<1> QED BY <1>2, <1>3, <1>4 DEF VoiceInv

\* Jobs stay alone as long as none begins.
LEMMA StaysAlone ==
  ASSUME AloneInv, hasty => hasty', Active' \subseteq Active
  PROVE  AloneInv'
BY DEF AloneInv

\* A job that is neither stopped nor crashed by the others moves from one place to the next.
LEMMA ActiveFacts ==
  ASSUME TypeOK, NEW j \in Jobs, NEW to, pc' = [pc EXCEPT ![j] = to], pc[j] \notin Over
  PROVE  /\ pc'[j] = to /\ \A k \in Jobs : k # j => pc'[k] = pc[k]
         /\ j \in Active /\ Active' \subseteq Active
BY DEF TypeOK, Active

\* The process dies: the microphone goes, and every job with it.
LEMMA CrashKeeps ==
  ASSUME TypeOK, VoiceInv, NEW j \in Jobs \union {NoJob}, Crash(j),
         j \in Jobs => pc[j] \in {"checked", "recording", "ended"},
         UNCHANGED <<granted, isStart, total, fileVars, hasty>>, ioFailed => ioFailed'
  PROVE  VoiceInv'
<1>1. /\ screen' = "crashed" /\ rec' = "released"
      /\ \A k \in Jobs : pc'[k] \in Over /\ (pc[k] \in Over => pc'[k] = pc[k])
      /\ \A k \in Jobs : pc[k] \notin Over => pc'[k] \in {"threw", "cancelled"}
  BY DEF Crash, Over
<1>2. Active' = {}
  BY <1>1 DEF Active
<1>3. RecordingHasReader' /\ HiddenRecordingOnlyIfHasty' /\ PressInv'
  BY <1>1, <1>2 DEF RecordingHasReader, HiddenRecordingOnlyIfHasty, PressInv
<1>4. AloneInv'
  BY <1>2 DEF AloneInv
<1>5. PcmInv'
  <2>1. \A k \in Jobs : pc'[k] \notin {"launched", "checked", "recording", "reading", "ended", "copying"}
    BY <1>1 DEF Over
  <2>2. \A k \in Jobs : pc'[k] = "idle" => pc[k] = "idle"
    BY <1>1 DEF Over
  <2> QED BY <2>1, <2>2 DEF VoiceInv, PcmInv, NotReading
<1>6. WavInv'
  <2>1. wav' = wav /\ wav.job \in Jobs \union {NoJob}
    BY DEF fileVars, TypeOK
  <2>2. \A k \in Jobs : pc'[k] # "copying" /\ (pc'[k] = "done" => pc[k] = "done")
    BY <1>1 DEF Over
  <2>3. wav.job # NoJob => pc'[wav.job] \in {"done", "cancelled", "threw"}
    BY <1>1, <2>1 DEF VoiceInv, WavInv, Over
  <2> QED BY <2>1, <2>2, <2>3 DEF VoiceInv, WavInv, OwnChunks, fileVars
<1> QED BY <1>3, <1>4, <1>5, <1>6 DEF VoiceInv

LEMMA GrantKeeps == TypeOK /\ VoiceInv /\ (Grant \/ UNCHANGED vars) => VoiceInv'
<1> SUFFICES ASSUME TypeOK, VoiceInv, Grant \/ UNCHANGED vars PROVE VoiceInv'
  OBVIOUS
<1>1. UNCHANGED <<isStart, screen, rec, pc, total, pcm, wav, hasty, ioFailed>>
  BY DEF Grant, vars, uiVars, fileVars
<1> QED BY <1>1 DEF VoiceInv, RecordingHasReader, HiddenRecordingOnlyIfHasty, PressInv, AloneInv, PcmInv,
                    WavInv, Active, OwnChunks

\* A job that begins over another makes the session hasty.
LEMMA ClickStartKeeps == TypeOK /\ VoiceInv /\ ClickStart => VoiceInv'
<1> SUFFICES ASSUME TypeOK, VoiceInv, ClickStart PROVE VoiceInv'
  OBVIOUS
<1>1. PICK j \in Jobs : pc[j] = "idle" /\ pc' = [pc EXCEPT ![j] = "launched"]
  BY DEF ClickStart
<1>2. /\ UNCHANGED <<granted, screen, rec, total, pcm, wav, ioFailed>>
      /\ screen = "shown" /\ isStart' = TRUE /\ (hasty' <=> hasty \/ Active # {})
  BY DEF ClickStart, fileVars
<1>3. pc'[j] = "launched" /\ \A k \in Jobs : k # j => pc'[k] = pc[k]
  BY <1>1 DEF TypeOK
<1>4. Active' \subseteq Active \union {j}
  BY <1>3 DEF Active
<1>5. AloneInv'
  BY <1>2, <1>4 DEF AloneInv
<1>6. RecordingHasReader'
  BY <1>1, <1>2, <1>3 DEF VoiceInv, RecordingHasReader
<1>7. HiddenRecordingOnlyIfHasty' /\ PressInv'
  BY <1>2 DEF VoiceInv, HiddenRecordingOnlyIfHasty, PressInv
<1>8. PcmInv'
  BY <1>1, <1>2, <1>3 DEF VoiceInv, PcmInv, NotReading, OwnChunks
<1>9. WavInv'
  <2>1. wav.job \in Jobs \union {NoJob}
    BY DEF TypeOK
  <2>2. wav.job # NoJob => wav.job # j /\ pc'[wav.job] = pc[wav.job]
    BY <1>1, <1>3, <2>1 DEF VoiceInv, WavInv
  <2> QED BY <1>2, <1>3, <2>1, <2>2 DEF VoiceInv, WavInv, OwnChunks
<1> QED BY <1>5, <1>6, <1>7, <1>8, <1>9 DEF VoiceInv

LEMMA ClickStopKeeps == TypeOK /\ VoiceInv /\ ClickStop => VoiceInv'
<1> SUFFICES ASSUME TypeOK, VoiceInv, ClickStop PROVE VoiceInv'
  OBVIOUS
<1>1. /\ UNCHANGED <<granted, screen, pc, total, pcm, wav, ioFailed>>
      /\ screen = "shown" /\ isStart' = FALSE /\ rec' = Stopped
      /\ hasty' <=> (hasty \/ \E j \in Active : pc[j] \in {"launched", "checked", "recording"})
  BY DEF ClickStop, fileVars
<1>2. rec' # "recording" /\ (rec' = "released" <=> rec = "released")
  BY <1>1 DEF Stopped, TypeOK
<1>3. \A j \in Jobs : pc[j] \in NotReading => j \in Active
  BY DEF NotReading, Active, Over
<1>4. PressInv'
  BY <1>1, <1>2, <1>3 DEF VoiceInv, PressInv, NotReading, Active
<1>5. RecordingHasReader' /\ HiddenRecordingOnlyIfHasty'
  BY <1>2 DEF RecordingHasReader, HiddenRecordingOnlyIfHasty
<1>6. AloneInv'
  BY <1>1 DEF VoiceInv, AloneInv, Active
<1>7. PcmInv' /\ WavInv'
  BY <1>1 DEF VoiceInv, PcmInv, WavInv, OwnChunks
<1> QED BY <1>4, <1>5, <1>6, <1>7 DEF VoiceInv

LEMMA DisposeKeeps == TypeOK /\ VoiceInv /\ Dispose => VoiceInv'
<1> SUFFICES ASSUME TypeOK, VoiceInv, Dispose PROVE VoiceInv'
  OBVIOUS
<1>1. CASE ~granted
  BY <1>1, CrashKeeps, JobsFacts DEF Dispose
<1>2. CASE granted
  <2>1. /\ UNCHANGED <<granted, isStart, total, pcm, wav, hasty, ioFailed>>
        /\ screen' = "left" /\ rec' = "released"
        /\ \A j \in Jobs : pc'[j] = IF pc[j] = "launched" THEN "cancelled" ELSE pc[j]
    BY <1>2 DEF Dispose, Released, fileVars
  <2>2. Active' \subseteq Active
    BY <2>1 DEF Active, Over
  <2>3. AloneInv'
    BY <2>1, <2>2, StaysAlone DEF VoiceInv
  <2>4. RecordingHasReader' /\ HiddenRecordingOnlyIfHasty' /\ PressInv'
    BY <2>1 DEF RecordingHasReader, HiddenRecordingOnlyIfHasty, PressInv
  <2>5. PcmInv'
    BY <2>1 DEF VoiceInv, PcmInv, NotReading, OwnChunks
  <2>6. WavInv'
    <3>1. wav.job \in Jobs \union {NoJob}
      BY DEF TypeOK
    <3>2. wav.job # NoJob => pc'[wav.job] = pc[wav.job]
      BY <2>1, <3>1 DEF VoiceInv, WavInv
    <3>3. \A j \in Jobs : pc'[j] = "copying" => pc[j] = "copying"
      BY <2>1
    <3> QED BY <2>1, <3>1, <3>2, <3>3 DEF VoiceInv, WavInv, OwnChunks
  <2> QED BY <2>3, <2>4, <2>5, <2>6 DEF VoiceInv
<1> QED BY <1>1, <1>2

\* The steps of a job before it reads.
LEMMA BeforeReading ==
  ASSUME TypeOK, VoiceInv, NEW j \in Jobs,
         Check(j) \/ (StartRecording(j) /\ rec # "released")
  PROVE  VoiceInv'
<1> DEFINE to == pc'[j]
<1>1. /\ UNCHANGED <<uiVars, total, fileVars, hasty, ioFailed>>
      /\ pc' = [pc EXCEPT ![j] = to]
      /\ \/ pc[j] = "launched" /\ to \in {"done", "checked"} /\ rec' = rec
         \/ pc[j] = "checked" /\ to = "recording" /\ rec' = "recording" /\ rec # "released"
  BY DEF Check, StartRecording, uiVars, TypeOK
<1> HIDE DEF to
<1>2. /\ pc'[j] = to /\ \A k \in Jobs : k # j => pc'[k] = pc[k]
      /\ j \in Active /\ Active' \subseteq Active
  BY <1>1, ActiveFacts DEF Over
<1>3. AloneInv'
  BY <1>1, <1>2, StaysAlone DEF VoiceInv
<1>4. RecordingHasReader'
  BY <1>1, <1>2 DEF VoiceInv, RecordingHasReader
<1>5. pc[j] \in NotReading /\ (pc'[j] \in NotReading \/ pc'[j] = "done")
  BY <1>1, <1>2 DEF NotReading
<1>6. HiddenRecordingOnlyIfHasty'
  BY <1>1, <1>5 DEF VoiceInv, HiddenRecordingOnlyIfHasty, PressInv, uiVars
<1>7. PressInv'
  BY <1>1, <1>2, <1>5 DEF VoiceInv, PressInv, uiVars, NotReading
<1>8. PcmInv'
  BY <1>1, <1>2 DEF VoiceInv, PcmInv, NotReading, OwnChunks, fileVars
<1>9. WavInv'
  <2>1. wav.job \in Jobs \union {NoJob}
    BY DEF TypeOK
  <2>2. wav.job # NoJob => wav.job # j /\ pc'[wav.job] = pc[wav.job]
    BY <1>1, <1>2, <2>1 DEF VoiceInv, WavInv
  <2>3. \A k \in Jobs : pc'[k] = "copying" => pc[k] = "copying"
    BY <1>1, <1>2
  <2> QED BY <1>1, <2>1, <2>2, <2>3 DEF VoiceInv, WavInv, OwnChunks, fileVars
<1> QED BY <1>3, <1>4, <1>6, <1>7, <1>8, <1>9 DEF VoiceInv

\* The steps of a job that reads, or is about to: the file is its own if it is alone.
LEMMA Reading ==
  ASSUME TypeOK, VoiceInv, NEW j \in Jobs,
         OpenPcm(j) \/ ReadChunk(j) \/ ReadEnds(j) \/ OpenOrReadFails(j)
  PROVE  VoiceInv'
<1> DEFINE to == pc'[j]
<1>1. /\ UNCHANGED <<uiVars, rec, wav, hasty>> /\ (ioFailed => ioFailed')
      /\ \A k \in Jobs : k # j => total'[k] = total[k]
      /\ pc' = [pc EXCEPT ![j] = to]
      /\ \/ pc[j] = "recording" /\ to = "reading" /\ pcm' = << >> /\ total' = total /\ ioFailed' = ioFailed
         \/ /\ pc[j] = "reading" /\ to = "reading" /\ total'[j] = total[j] + 1
            /\ pcm' = WriteAt(pcm, total[j] + 1, j) /\ ioFailed' = ioFailed
         \/ /\ pc[j] = "reading" /\ to = "ended" /\ rec # "recording" /\ pcm' = pcm /\ total' = total
            /\ ioFailed' = ioFailed
         \/ /\ pc[j] \in {"recording", "reading", "ended"} /\ to \in {"ended", "done"} /\ ioFailed'
            /\ pcm' = pcm /\ total' = total
  BY DEF OpenPcm, ReadChunk, ReadEnds, OpenOrReadFails, TypeOK, fileVars
<1> HIDE DEF to
<1>2. /\ pc'[j] = to /\ \A k \in Jobs : k # j => pc'[k] = pc[k]
      /\ j \in Active /\ Active' \subseteq Active
  BY <1>1, ActiveFacts DEF Over
<1>3. AloneInv'
  BY <1>1, <1>2, StaysAlone DEF VoiceInv
<1>4. RecordingHasReader'
  BY <1>1, <1>2 DEF VoiceInv, RecordingHasReader
<1>5. HiddenRecordingOnlyIfHasty'
  BY <1>1 DEF VoiceInv, HiddenRecordingOnlyIfHasty, uiVars
<1>6. PressInv'
  <2>1. \A k \in Jobs : pc'[k] \in NotReading => pc[k] \in NotReading
    BY <1>1, <1>2 DEF NotReading
  <2> QED BY <1>1, <1>2, <2>1 DEF VoiceInv, PressInv, uiVars
<1>7. PcmInv'
  <2>1. ASSUME NEW k \in Jobs, pc'[k] \in {"idle"} \union NotReading PROVE total'[k] = 0
    <3>1. k # j
      BY <1>1, <1>2, <2>1 DEF NotReading
    <3> QED BY <1>1, <1>2, <2>1, <3>1 DEF VoiceInv, PcmInv
  <2>2. ASSUME ~hasty', ~ioFailed', NEW k \in Jobs, pc'[k] \in {"reading", "ended", "copying"}
        PROVE  pcm' = OwnChunks(k)'
    <3>1. k \in Active' /\ k = j
      BY <1>1, <1>2, <2>2 DEF Active, Over, VoiceInv, AloneInv
    <3>2. ~hasty /\ ~ioFailed
      BY <1>1, <2>2
    <3>3. CASE pc[j] = "recording" /\ pcm' = << >> /\ total' = total
      <4>1. total'[j] = 0
        BY <3>3 DEF VoiceInv, PcmInv, NotReading
      <4>2. [i \in 1 .. 0 |-> j] = << >>
        OBVIOUS
      <4> QED BY <3>1, <3>3, <4>1, <4>2 DEF OwnChunks
    <3>4. CASE pc[j] = "reading" /\ pcm' = pcm /\ total' = total
      BY <3>1, <3>2, <3>4 DEF VoiceInv, PcmInv, OwnChunks
    <3>5. CASE pc[j] = "reading" /\ total'[j] = total[j] + 1 /\ pcm' = WriteAt(pcm, total[j] + 1, j)
      <4>1. pcm = [i \in 1 .. total[j] |-> j] /\ total[j] \in Nat
        BY <3>2, <3>5, MaxChunksAssumption DEF VoiceInv, PcmInv, OwnChunks, TypeOK
      <4>2. pcm' = [i \in 1 .. total[j] + 1 |-> j]
        BY <3>5, <4>1, WriteAtEnd
      <4> QED BY <3>1, <3>5, <4>2 DEF OwnChunks
    <3> QED BY <1>1, <2>2, <3>3, <3>4, <3>5
  <2> QED BY <2>1, <2>2 DEF PcmInv
<1>8. WavInv'
  <2>1. wav' = wav /\ wav.job \in Jobs \union {NoJob}
    BY <1>1 DEF TypeOK
  <2>2. wav.job # NoJob => wav.job # j /\ pc'[wav.job] = pc[wav.job] /\ total'[wav.job] = total[wav.job]
    BY <1>1, <1>2, <2>1 DEF VoiceInv, WavInv
  <2>3. \A k \in Jobs : pc'[k] = "copying" => pc[k] = "copying"
    BY <1>1, <1>2
  <2>4. WavInv
    BY DEF VoiceInv
  <2>5. wav.job # NoJob => OwnChunks(wav.job)' = OwnChunks(wav.job)
    BY <2>1, <2>2 DEF OwnChunks
  <2> QED BY <1>1, <2>1, <2>2, <2>3, <2>4, <2>5 DEF WavInv
<1> QED BY <1>3, <1>4, <1>5, <1>6, <1>7, <1>8 DEF VoiceInv

LEMMA OpenWavKeeps ==
  ASSUME TypeOK, VoiceInv, NEW j \in Jobs, OpenWav(j)
  PROVE  VoiceInv'
<1>1. /\ UNCHANGED <<uiVars, rec, total, pcm, hasty, ioFailed>>
      /\ pc[j] = "ended" /\ pc' = [pc EXCEPT ![j] = "copying"]
      /\ wav'.job = j /\ wav'.header = total[j]
  BY DEF OpenWav
<1>2. /\ pc'[j] = "copying" /\ \A k \in Jobs : k # j => pc'[k] = pc[k]
      /\ j \in Active /\ Active' \subseteq Active
  BY <1>1, ActiveFacts DEF Over
<1>3. AloneInv'
  BY <1>1, <1>2, StaysAlone DEF VoiceInv
<1>4. RecordingHasReader' /\ HiddenRecordingOnlyIfHasty'
  BY <1>1, <1>2 DEF VoiceInv, RecordingHasReader, HiddenRecordingOnlyIfHasty, uiVars
<1>5. PressInv'
  BY <1>1, <1>2 DEF VoiceInv, PressInv, uiVars, NotReading
<1>6. PcmInv'
  BY <1>1, <1>2 DEF VoiceInv, PcmInv, NotReading, OwnChunks
<1>7. ASSUME ~hasty, NEW k \in Jobs, pc'[k] = "copying" PROVE k = j
  BY <1>2, <1>7 DEF VoiceInv, AloneInv, Active, Over
<1>8. WavInv'
  BY <1>1, <1>2, <1>7 DEF WavInv
<1> QED BY <1>3, <1>4, <1>5, <1>6, <1>8 DEF VoiceInv

LEMMA CopyWavKeeps ==
  ASSUME TypeOK, VoiceInv, NEW j \in Jobs, CopyWav(j)
  PROVE  VoiceInv'
<1>1. /\ UNCHANGED <<uiVars, rec, total, pcm, hasty, ioFailed>>
      /\ pc[j] = "copying" /\ pc' = [pc EXCEPT ![j] = "done"]
      /\ wav'.job = wav.job /\ wav'.header = wav.header /\ wav'.data = pcm
      /\ wav.job \in Jobs \union {NoJob}
  BY DEF CopyWav, TypeOK
<1>2. /\ pc'[j] = "done" /\ \A k \in Jobs : k # j => pc'[k] = pc[k]
      /\ j \in Active /\ Active' \subseteq Active
  BY <1>1, ActiveFacts DEF Over
<1>3. AloneInv'
  BY <1>1, <1>2, StaysAlone DEF VoiceInv
<1>4. RecordingHasReader' /\ HiddenRecordingOnlyIfHasty'
  BY <1>1, <1>2 DEF VoiceInv, RecordingHasReader, HiddenRecordingOnlyIfHasty, uiVars
<1>5. PressInv'
  BY <1>1, <1>2 DEF VoiceInv, PressInv, uiVars, NotReading
<1>6. PcmInv'
  BY <1>1, <1>2 DEF VoiceInv, PcmInv, NotReading, OwnChunks
<1>7. WavInv'
  <2>1. wav.job # NoJob => pc'[wav.job] \in {"copying", "done", "cancelled", "threw"}
    BY <1>1, <1>2 DEF VoiceInv, WavInv
  <2>2. ASSUME ~hasty, ~ioFailed
        PROVE  /\ wav.job = j /\ pcm = OwnChunks(j) /\ wav.header = total[j]
               /\ \A k \in Jobs : pc'[k] # "copying"
    <3>1. wav.job = j /\ pcm = OwnChunks(j)
      BY <1>1, <2>2 DEF VoiceInv, WavInv, PcmInv
    <3>2. j # NoJob
      BY JobsFacts
    <3>3. \A k \in Jobs : pc'[k] # "copying"
      BY <1>2, <2>2 DEF VoiceInv, AloneInv, Active, Over
    <3> QED BY <1>1, <2>2, <3>1, <3>2, <3>3 DEF VoiceInv, WavInv
  <2> QED BY <1>1, <2>1, <2>2 DEF WavInv, OwnChunks
<1> QED BY <1>3, <1>4, <1>5, <1>6, <1>7 DEF VoiceInv

LEMMA VoiceInvStep == TypeOK /\ VoiceInv /\ [Next]_vars => VoiceInv'
<1> SUFFICES ASSUME TypeOK, VoiceInv, [Next]_vars PROVE VoiceInv'
  OBVIOUS
<1>1. ASSUME NEW j \in Jobs, StartRecording(j), rec = "released" PROVE VoiceInv'
  BY <1>1, CrashKeeps DEF StartRecording
<1>2. ASSUME NEW j \in Jobs, OpenThrows(j) PROVE VoiceInv'
  BY <1>2, CrashKeeps DEF OpenThrows
<1> QED
  BY <1>1, <1>2, GrantKeeps, ClickStartKeeps, ClickStopKeeps, DisposeKeeps, BeforeReading, Reading,
     OpenWavKeeps, CopyWavKeeps
  DEF Next, Runs, Fails

LEMMA VoiceSafe == Spec => [](TypeOK /\ VoiceInv)
BY VoiceTypeInit, VoiceTypeStep, VoiceInvInit, VoiceInvStep, PTL DEF Spec

\* A microphone that records has a job that reads it, unless a file or a read failed, and
\* the button offers to stop it, unless a press overtook a job.
THEOREM MicrophoneIsExplained == Spec => []MicrophoneExplained
<1>1. TypeOK /\ VoiceInv => MicrophoneExplained
  BY DEF VoiceInv, MicrophoneExplained
<1> QED BY <1>1, VoiceSafe, PTL

\* A finished hello.wav is what one job recorded, and its header says so.
THEOREM WavIsFaithful == Spec => []WavFaithfulUnlessHasty
<1>1. VoiceInv => WavFaithfulUnlessHasty
  BY DEF VoiceInv, WavInv, WavFaithfulUnlessHasty, OwnChunks
<1> QED BY <1>1, VoiceSafe, PTL

\* The process dies of a file, of a missing permission, or of a screen left too early.
THEOREM DeathsAreExplained == Spec => CrashesExplained
<1>1. ASSUME TypeOK, VoiceInv, Next, screen' = "crashed"
      PROVE  screen = "left" \/ ioFailed' \/ ~granted
  <2>1. screen # "crashed"
    BY <1>1 DEF VoiceInv, PressInv, Next, Runs, Fails, Grant, ClickStart, ClickStop, Dispose, Check,
       StartRecording, OpenPcm, ReadChunk, ReadEnds, OpenWav, CopyWav, OpenThrows, OpenOrReadFails,
       Active, Over
  <2>2. \/ Dispose /\ ~granted
        \/ \E j \in Jobs : StartRecording(j) /\ rec = "released"
        \/ ioFailed'
    BY <1>1, <2>1 DEF Next, Runs, Fails, Grant, ClickStart, ClickStop, Dispose, Check, StartRecording,
       OpenPcm, ReadChunk, ReadEnds, OpenWav, CopyWav, OpenThrows, OpenOrReadFails, uiVars
  <2> QED BY <2>1, <2>2, <1>1 DEF VoiceInv, PressInv, TypeOK
<1>2. TypeOK /\ VoiceInv /\ [Next]_vars
        => [screen' = "crashed" => screen = "left" \/ ioFailed' \/ ~granted]_vars
  BY <1>1
<1> QED BY <1>2, VoiceSafe, PTL DEF Spec, CrashesExplained

-----------------------------------------------------------------------------
(* The video screen: the inductive invariant.                              *)

\* Recordings of visits to come do not exist.
OwnersInv == \A r \in Recordings : videoOwner[r] <= videoVisit

\* What CameraX ended, and what has lost its row, is finalized; what is being stopped
\* without a row was stopped too early.
PhasesInv ==
  /\ \A r \in videoOnItsOwn : videoPhase[r] = "finalized" /\ videoOutput[r] # "deleted"
  /\ \A r \in Recordings :
       /\ videoOutput[r] = "deleted" => videoPhase[r] = "finalized"
       /\ videoPhase[r] = "stopping" /\ videoOutput[r] = "none" => r \in videoTooEarly

\* An event is about a finalized recording, and the error that deletes its row about one
\* that was stopped, too early if there is no row.
EventInv(e) ==
  /\ videoPhase[e.of] = "finalized"
  /\ e.error = "noValidData" => e.of \notin videoOnItsOwn /\ (e.hasUri \/ e.of \in videoTooEarly)
PostedInv == \A i \in DOMAIN videoPosted : EventInv(videoPosted[i])

VideoInv == Video!ButtonsReachRecorder /\ Video!DeletesExplained /\ OwnersInv /\ PhasesInv /\ PostedInv

LEMMA EventFacts ==
  ASSUME NEW S, NEW q \in Seq(S), NEW e \in S
  PROVE  /\ Append(q, e) \in Seq(S)
         /\ DOMAIN Append(q, e) = 1 .. Len(q) + 1 /\ DOMAIN q = 1 .. Len(q) /\ Len(q) \in Nat
         /\ \A i \in 1 .. Len(q) : Append(q, e)[i] = q[i] /\ q[i] \in S
         /\ Append(q, e)[Len(q) + 1] = e
OBVIOUS

LEMMA HeadFacts ==
  ASSUME NEW S, NEW q \in Seq(S), q # << >>
  PROVE  /\ Head(q) = q[1] /\ 1 \in DOMAIN q /\ Head(q) \in S
         /\ Tail(q) \in Seq(S)
         /\ \A i \in DOMAIN Tail(q) : i + 1 \in DOMAIN q /\ Tail(q)[i] = q[i + 1]
OBVIOUS

Events == [of : Recordings, error : {"none", "noValidData", "other"}, hasUri : BOOLEAN]

LEMMA VideoInit == Video!Init => Video!TypeOK /\ VideoInv
<1> SUFFICES ASSUME Video!Init PROVE Video!TypeOK /\ VideoInv
  OBVIOUS
<1>1. << >> \in Seq(Events)
  OBVIOUS
<1>2. Video!TypeOK
  BY <1>1, VideoAssumption DEF Video!Init, Video!TypeOK, Events, Video!NoRecording
<1>3. Video!ButtonsReachRecorder
  BY DEF Video!Init, Video!ButtonsReachRecorder, Video!Running, Video!NoRecording
<1>4. Video!DeletesExplained /\ OwnersInv /\ PhasesInv /\ PostedInv
  BY DEF Video!Init, Video!DeletesExplained, OwnersInv, PhasesInv, PostedInv
<1> QED BY <1>2, <1>3, <1>4 DEF VideoInv

\* A recording is finalized and its event posted, whoever ended it.
LEMMA FinalizedKeeps ==
  ASSUME Video!TypeOK, VideoInv, NEW r \in Recordings, NEW error \in {"none", "noValidData", "other"},
         Video!Finalized(r, error),
         videoPhase[r] \in {"pending", "recording", "stopping"},
         UNCHANGED <<videoOwner, videoVisit, videoOutput, videoDeath>>,
         \/ videoOnItsOwn' = videoOnItsOwn
         \/ videoOnItsOwn' = videoOnItsOwn \union {r} /\ error # "noValidData",
         videoTooEarly \subseteq videoTooEarly',
         error = "noValidData" => videoOutput[r] # "none" \/ r \in videoTooEarly'
  PROVE  /\ videoPosted' \in Seq(Events)
         /\ videoPhase' \in [Recordings -> {"none", "pending", "recording", "stopping", "finalized"}]
         /\ videoPhase'[r] = "finalized" /\ \A q \in Recordings : q # r => videoPhase'[q] = videoPhase[q]
         /\ Video!DeletesExplained' /\ OwnersInv' /\ PhasesInv' /\ PostedInv'
<1> DEFINE e == [of |-> r, error |-> error, hasUri |-> videoOutput[r] # "none"]
<1>1. e \in Events
  BY DEF Events
<1>2. /\ videoPosted' = Append(videoPosted, e) /\ videoPosted \in Seq(Events)
      /\ e.of = r /\ e.error = error /\ (e.hasUri <=> videoOutput[r] # "none")
  BY DEF Video!Finalized, Video!TypeOK, Events
<1> HIDE DEF e
<1>3. /\ videoPhase'[r] = "finalized" /\ \A q \in Recordings : q # r => videoPhase'[q] = videoPhase[q]
      /\ videoPhase' \in [Recordings -> {"none", "pending", "recording", "stopping", "finalized"}]
  BY DEF Video!Finalized, Video!TypeOK
<1>4. r \notin videoOnItsOwn /\ videoOutput[r] # "deleted"
  BY DEF VideoInv, PhasesInv
<1>5. \A q \in videoOnItsOwn' : q \in Recordings /\ (q \in videoOnItsOwn \/ q = r)
  BY DEF Video!TypeOK
<1>6. Video!DeletesExplained'
  BY <1>4, <1>5 DEF VideoInv, Video!DeletesExplained
<1>7. OwnersInv'
  BY DEF VideoInv, OwnersInv
<1>8. PhasesInv'
  BY <1>3, <1>4, <1>5 DEF VideoInv, PhasesInv
<1>9. PostedInv'
  <2>1. /\ videoPosted' \in Seq(Events)
        /\ DOMAIN videoPosted' = 1 .. Len(videoPosted) + 1 /\ DOMAIN videoPosted = 1 .. Len(videoPosted)
        /\ Len(videoPosted) \in Nat
        /\ \A i \in 1 .. Len(videoPosted) : videoPosted'[i] = videoPosted[i] /\ videoPosted[i] \in Events
        /\ videoPosted'[Len(videoPosted) + 1] = e
    BY <1>1, <1>2, EventFacts
  <2>2. ASSUME NEW f \in Events, EventInv(f)
        PROVE  /\ videoPhase'[f.of] = "finalized"
               /\ f.error = "noValidData" =>
                    f.of \notin videoOnItsOwn' /\ (f.hasUri \/ f.of \in videoTooEarly')
    <3>1. f.of \in Recordings /\ f.of # r
      BY <2>2 DEF EventInv, Events
    <3> QED BY <1>3, <1>5, <2>2, <3>1 DEF EventInv
  <2>3. ASSUME NEW i \in 1 .. Len(videoPosted) PROVE EventInv(videoPosted[i])'
    BY <2>1, <2>2 DEF VideoInv, PostedInv, EventInv
  <2>4. EventInv(e)'
    <3>1. error = "noValidData" => r \notin videoOnItsOwn'
      BY <1>4, <1>5
    <3> QED BY <1>2, <1>3, <3>1 DEF EventInv, e
  <2>5. \A i \in 1 .. Len(videoPosted) + 1 : i \in 1 .. Len(videoPosted) \/ i = Len(videoPosted) + 1
    BY <2>1
  <2>6. ASSUME NEW i \in DOMAIN videoPosted' PROVE EventInv(videoPosted[i])'
    <3>1. CASE i \in 1 .. Len(videoPosted)
      BY <2>3, <3>1
    <3>2. CASE i = Len(videoPosted) + 1
      BY <1>2, <2>1, <2>4, <3>2, <1>3, <1>4, <1>5 DEF EventInv
    <3> QED BY <2>1, <2>5, <3>1, <3>2
  <2> QED BY <2>6 DEF PostedInv
<1> QED BY <1>1, <1>2, <1>3, <1>6, <1>7, <1>8, <1>9, EventFacts

\* No event is about a recording that is not finalized.
LEMMA PostedOfFinalized ==
  ASSUME Video!TypeOK, VideoInv, NEW r \in Recordings, videoPhase[r] # "finalized"
  PROVE  \A i \in DOMAIN videoPosted : videoPosted[i].of \in Recordings /\ videoPosted[i].of # r
<1>1. videoPosted \in Seq(Events)
  BY DEF Video!TypeOK, Events
<1>2. \A i \in DOMAIN videoPosted : videoPosted[i] \in Events
  BY <1>1
<1>3. \A i \in DOMAIN videoPosted : videoPhase[videoPosted[i].of] = "finalized"
  BY DEF VideoInv, PostedInv, EventInv
<1>4. \A e \in Events : e.of \in Recordings
  BY DEF Events
<1> QED BY <1>2, <1>3, <1>4

\* What leaves the recorder alone.
LEMMA RecorderStays ==
  ASSUME VideoInv, UNCHANGED <<videoVisit, videoRecording, videoOwner, videoPhase, videoOutput,
                               videoPosted, videoOnItsOwn, videoTooEarly>>,
         videoDeath' \in {videoDeath, "noCamera"}
  PROVE  VideoInv'
<1>1. Video!Running(videoVisit)' = Video!Running(videoVisit)
  BY DEF Video!Running
<1>2. Video!ButtonsReachRecorder'
  BY <1>1 DEF VideoInv, Video!ButtonsReachRecorder
<1>3. Video!DeletesExplained' /\ OwnersInv' /\ PhasesInv'
  BY DEF VideoInv, Video!DeletesExplained, OwnersInv, PhasesInv
<1>4. PostedInv'
  BY DEF VideoInv, PostedInv, EventInv
<1> QED BY <1>2, <1>3, <1>4 DEF VideoInv

LEMMA ScreenKeeps ==
  ASSUME Video!TypeOK, VideoInv,
         Video!InitCamera \/ Video!Grant \/ Video!Hide \/ UNCHANGED Video!vars
  PROVE  Video!TypeOK' /\ VideoInv'
<1> USE DEF Video!screenVars, Video!recorderVars
<1>1. /\ UNCHANGED <<videoVisit, videoRecording, videoOwner, videoPhase, videoOutput,
                     videoPosted, videoOnItsOwn, videoTooEarly>>
      /\ videoDeath' \in {videoDeath, "noCamera"}
      /\ videoGranted' \in {videoGranted, TRUE}
      /\ videoScreen' \in {videoScreen, "shown", "hidden", "left"}
  BY DEF Video!InitCamera, Video!Grant, Video!Hide, Video!vars
<1>2. Video!TypeOK'
  BY <1>1 DEF Video!TypeOK
<1> QED BY <1>1, <1>2, RecorderStays

LEMMA ReturnKeeps == Video!TypeOK /\ VideoInv /\ Video!Return => Video!TypeOK' /\ VideoInv'
<1> SUFFICES ASSUME Video!TypeOK, VideoInv, Video!Return PROVE Video!TypeOK' /\ VideoInv'
  OBVIOUS
<1>1. /\ UNCHANGED <<videoGranted, videoDeath, videoOwner, videoPhase, videoOutput, videoPosted,
                     videoOnItsOwn, videoTooEarly>>
      /\ videoVisit' = videoVisit + 1 /\ videoVisit + 1 \in Visits /\ videoVisit \in Nat
      /\ videoScreen' = "entering" /\ videoRecording' = 0
  BY VideoAssumption DEF Video!Return, Video!recorderVars, Video!TypeOK, Video!NoRecording
<1>2. Video!TypeOK'
  BY <1>1 DEF Video!TypeOK, Video!NoRecording
<1>3. ASSUME NEW r \in Recordings PROVE videoOwner[r] \in Nat /\ videoOwner[r] <= videoVisit
  <2>1. videoOwner[r] \in Visits \union {0}
    BY DEF Video!TypeOK
  <2>2. \A v \in Visits \union {0} : v \in Nat
    BY VideoAssumption
  <2>3. videoOwner[r] <= videoVisit
    BY DEF VideoInv, OwnersInv
  <2> QED BY <2>1, <2>2, <2>3
<1>4. OwnersInv'
  BY <1>1, <1>3 DEF OwnersInv
<1>5. Video!Running(videoVisit)' = {}
  <2>1. \A r \in Recordings : videoOwner[r] # videoVisit + 1
    BY <1>1, <1>3
  <2> QED BY <1>1, <2>1 DEF Video!Running
<1>6. Video!ButtonsReachRecorder'
  BY <1>1, <1>5 DEF VideoInv, Video!ButtonsReachRecorder, Video!NoRecording
<1>7. Video!DeletesExplained' /\ PhasesInv'
  BY <1>1 DEF VideoInv, Video!DeletesExplained, PhasesInv
<1>8. PostedInv'
  BY <1>1 DEF VideoInv, PostedInv, EventInv
<1> QED BY <1>2, <1>4, <1>6, <1>7, <1>8 DEF VideoInv

\* Nothing runs when a recording is started.
LEMMA PressStartKeeps == Video!TypeOK /\ VideoInv /\ Video!PressStart => Video!TypeOK' /\ VideoInv'
<1> SUFFICES ASSUME Video!TypeOK, VideoInv, Video!PressStart PROVE Video!TypeOK' /\ VideoInv'
  OBVIOUS
<1>1. PICK r \in Recordings : videoPhase[r] = "none" /\ Video!Start(r)
  BY DEF Video!PressStart
<1>2. videoRecording = 0 /\ UNCHANGED <<videoGranted, videoVisit, videoScreen, videoOutput, videoPosted,
                                        videoOnItsOwn, videoTooEarly>>
  BY DEF Video!PressStart, Video!screenVars, Video!NoRecording
<1>3. Video!Running(videoVisit) = {}
  BY <1>2, VideoAssumption DEF VideoInv, Video!ButtonsReachRecorder, Video!Running
<1>4. /\ videoOwner' = [videoOwner EXCEPT ![r] = videoVisit]
      /\ videoPhase' = [videoPhase EXCEPT ![r] = "pending"]
      /\ videoRecording' = r /\ videoDeath' = videoDeath
  BY <1>1, <1>3 DEF Video!Start
<1>5. /\ videoOwner'[r] = videoVisit /\ videoPhase'[r] = "pending"
      /\ \A q \in Recordings : q # r => videoOwner'[q] = videoOwner[q] /\ videoPhase'[q] = videoPhase[q]
  BY <1>4 DEF Video!TypeOK
<1>6. Video!TypeOK'
  BY <1>2, <1>4 DEF Video!TypeOK
<1>7. Video!Running(videoVisit)' = {r}
  BY <1>2, <1>3, <1>5 DEF Video!Running
<1>8. Video!ButtonsReachRecorder'
  BY <1>2, <1>4, <1>7 DEF VideoInv, Video!ButtonsReachRecorder
<1>9. OwnersInv'
  BY <1>2, <1>5, VideoAssumption DEF VideoInv, OwnersInv, Video!TypeOK
<1>10. Video!DeletesExplained' /\ PhasesInv'
  <2>1. videoOutput[r] # "deleted" /\ r \notin videoOnItsOwn
    BY <1>1 DEF VideoInv, PhasesInv
  <2> QED BY <1>2, <1>4, <1>5, <2>1 DEF VideoInv, Video!DeletesExplained, PhasesInv, Video!TypeOK
<1>11. PostedInv'
  <2>1. \A i \in DOMAIN videoPosted : videoPosted[i].of \in Recordings /\ videoPosted[i].of # r
    BY <1>1, PostedOfFinalized
  <2> QED BY <1>2, <1>5, <2>1 DEF VideoInv, PostedInv, EventInv
<1> QED BY <1>6, <1>8, <1>9, <1>10, <1>11 DEF VideoInv

\* "stop" is pressed: the recording it stops runs no more.
LEMMA PressStopKeeps == Video!TypeOK /\ VideoInv /\ Video!PressStop => Video!TypeOK' /\ VideoInv'
<1> SUFFICES ASSUME Video!TypeOK, VideoInv, Video!PressStop PROVE Video!TypeOK' /\ VideoInv'
  OBVIOUS
<1> DEFINE r == videoRecording
<1>1. /\ UNCHANGED <<videoGranted, videoVisit, videoScreen, videoDeath, videoOwner, videoOutput, videoOnItsOwn>>
      /\ r \in Recordings /\ videoRecording' = 0 /\ Video!StopRecording(r)
      /\ Video!Running(videoVisit) \subseteq {r} /\ r \in Video!Running(videoVisit) \union videoOnItsOwn
      /\ videoDeath # "startThrew"
  BY DEF Video!PressStop, Video!screenVars, Video!NoRecording, Video!TypeOK, VideoInv,
         Video!ButtonsReachRecorder
<1>2. /\ videoTooEarly \subseteq videoTooEarly' /\ videoTooEarly' \subseteq Recordings
      /\ r \in Video!Running(videoVisit) /\ videoOutput[r] = "none" => r \in videoTooEarly'
  BY <1>1 DEF Video!StopRecording, Video!TypeOK
<1>3. r \in videoOnItsOwn => videoPhase[r] = "finalized"
  BY DEF VideoInv, PhasesInv
<1>4. ASSUME videoPhase' \in [Recordings -> {"none", "pending", "recording", "stopping", "finalized"}],
             videoPosted' \in Seq(Events)
      PROVE  Video!TypeOK'
  BY <1>1, <1>2, <1>4 DEF Video!TypeOK, Events, Video!NoRecording
<1>5. ASSUME videoPhase'[r] \notin {"pending", "recording"},
             \A q \in Recordings : q # r => videoPhase'[q] = videoPhase[q]
      PROVE  Video!ButtonsReachRecorder'
  <2>1. \A q \in Recordings : q # r => q \notin Video!Running(videoVisit)
    BY <1>1
  <2>2. \A q \in Recordings : ~(videoOwner'[q] = videoVisit' /\ videoPhase'[q] \in {"pending", "recording"})
    BY <1>1, <1>5, <2>1 DEF Video!Running
  <2>3. Video!Running(videoVisit)' = {}
    BY <2>2 DEF Video!Running
  <2> QED BY <1>1, <2>3 DEF Video!ButtonsReachRecorder, Video!NoRecording
<1>6. CASE videoPhase[r] = "pending" /\ Video!Finalized(r, "noValidData")
  <2>1. videoOutput[r] # "none" \/ r \in videoTooEarly'
    BY <1>1, <1>2, <1>3, <1>6
  <2>2. /\ videoPosted' \in Seq(Events)
        /\ videoPhase' \in [Recordings -> {"none", "pending", "recording", "stopping", "finalized"}]
        /\ videoPhase'[r] = "finalized" /\ \A q \in Recordings : q # r => videoPhase'[q] = videoPhase[q]
        /\ Video!DeletesExplained' /\ OwnersInv' /\ PhasesInv' /\ PostedInv'
    BY <1>1, <1>2, <1>6, <2>1, FinalizedKeeps
  <2> QED BY <1>4, <1>5, <2>2 DEF VideoInv
<1>7. CASE videoPhase[r] = "recording" /\ videoPhase' = [videoPhase EXCEPT ![r] = "stopping"]
           /\ videoPosted' = videoPosted
  <2>1. videoPhase'[r] = "stopping" /\ \A q \in Recordings : q # r => videoPhase'[q] = videoPhase[q]
    BY <1>1, <1>7 DEF Video!TypeOK
  <2>2. Video!TypeOK' /\ Video!ButtonsReachRecorder'
    BY <1>1, <1>4, <1>5, <1>7, <2>1 DEF Video!TypeOK, Events
  <2>3. r \in Video!Running(videoVisit) /\ r \notin videoOnItsOwn /\ videoOutput[r] # "deleted"
    BY <1>1, <1>3, <1>7 DEF VideoInv, PhasesInv
  <2>4. OwnersInv' /\ Video!DeletesExplained'
    BY <1>1, <1>2 DEF VideoInv, OwnersInv, Video!DeletesExplained
  <2>5. PhasesInv'
    BY <1>1, <1>2, <2>1, <2>3 DEF VideoInv, PhasesInv, Video!TypeOK
  <2>6. PostedInv'
    <3>1. \A i \in DOMAIN videoPosted : videoPosted[i].of \in Recordings /\ videoPosted[i].of # r
      BY <1>1, <1>7, PostedOfFinalized
    <3> QED BY <1>1, <1>2, <1>7, <2>1, <3>1 DEF VideoInv, PostedInv, EventInv
  <2> QED BY <2>2, <2>4, <2>5, <2>6 DEF VideoInv
<1>8. CASE videoPhase[r] \notin {"pending", "recording"} /\ UNCHANGED <<videoPhase, videoPosted>>
  <2>1. Video!TypeOK' /\ Video!ButtonsReachRecorder'
    BY <1>1, <1>4, <1>5, <1>8 DEF Video!TypeOK, Events
  <2>2. OwnersInv' /\ Video!DeletesExplained' /\ PhasesInv'
    BY <1>1, <1>2, <1>8 DEF VideoInv, OwnersInv, Video!DeletesExplained, PhasesInv
  <2>3. PostedInv'
    BY <1>1, <1>2, <1>8 DEF VideoInv, PostedInv, EventInv
  <2> QED BY <2>1, <2>2, <2>3 DEF VideoInv
<1> QED BY <1>1, <1>6, <1>7, <1>8 DEF Video!StopRecording

\* CameraX at work on recording r: what it does to the others and to the buttons.
LEMMA RunningShrinks ==
  ASSUME Video!TypeOK, VideoInv, NEW r \in Recordings,
         UNCHANGED <<videoVisit, videoRecording, videoOwner, videoDeath>>,
         \A q \in Recordings : q # r => videoPhase'[q] = videoPhase[q],
         videoPhase'[r] \in {"pending", "recording"} => videoPhase[r] \in {"pending", "recording"},
         videoOnItsOwn \subseteq videoOnItsOwn',
         r \in videoOnItsOwn' \/ videoPhase'[r] \in {"pending", "recording"} \/ videoPhase[r] = "stopping"
  PROVE  Video!ButtonsReachRecorder'
<1>1. Video!Running(videoVisit)' \subseteq Video!Running(videoVisit)
  BY DEF Video!Running
<1>2. \A q \in Video!Running(videoVisit) : q \in Video!Running(videoVisit)' \/ q \in videoOnItsOwn'
  BY DEF Video!Running
<1> QED BY <1>1, <1>2 DEF VideoInv, Video!ButtonsReachRecorder

LEMMA BeginKeeps ==
  ASSUME Video!TypeOK, VideoInv, NEW r \in Recordings, Video!Begin(r)
  PROVE  Video!TypeOK' /\ VideoInv'
<1>1. /\ UNCHANGED <<videoGranted, videoVisit, videoScreen, videoDeath, videoRecording, videoOwner, videoOutput,
                     videoPosted, videoOnItsOwn, videoTooEarly>>
      /\ videoPhase[r] = "pending" /\ videoPhase' = [videoPhase EXCEPT ![r] = "recording"]
  BY DEF Video!Begin, Video!screenVars
<1>2. videoPhase'[r] = "recording" /\ \A q \in Recordings : q # r => videoPhase'[q] = videoPhase[q]
  BY <1>1 DEF Video!TypeOK
<1>3. Video!TypeOK'
  BY <1>1 DEF Video!TypeOK
<1>4. Video!ButtonsReachRecorder'
  BY <1>1, <1>2, RunningShrinks
<1>5. OwnersInv' /\ Video!DeletesExplained'
  BY <1>1 DEF VideoInv, OwnersInv, Video!DeletesExplained
<1>6. PhasesInv'
  BY <1>1, <1>2 DEF VideoInv, PhasesInv, Video!TypeOK
<1>7. PostedInv'
  <2>1. \A i \in DOMAIN videoPosted : videoPosted[i].of \in Recordings /\ videoPosted[i].of # r
    BY <1>1, PostedOfFinalized
  <2> QED BY <1>1, <1>2, <2>1 DEF VideoInv, PostedInv, EventInv
<1> QED BY <1>3, <1>4, <1>5, <1>6, <1>7 DEF VideoInv

LEMMA ProduceKeeps ==
  ASSUME Video!TypeOK, VideoInv, NEW r \in Recordings, Video!Produce(r)
  PROVE  Video!TypeOK' /\ VideoInv'
<1>1. /\ UNCHANGED <<videoGranted, videoVisit, videoScreen, videoDeath, videoRecording, videoOwner, videoPhase,
                     videoPosted, videoOnItsOwn, videoTooEarly>>
      /\ videoPhase[r] = "recording" /\ videoOutput'[r] \in {"empty", "filled"}
      /\ \A q \in Recordings : q # r => videoOutput'[q] = videoOutput[q]
      /\ videoOutput' \in [Recordings -> {"none", "empty", "filled", "deleted"}]
  BY DEF Video!Produce, Video!screenVars, Video!TypeOK
<1>2. Video!TypeOK'
  BY <1>1 DEF Video!TypeOK
<1>3. Video!ButtonsReachRecorder'
  <2>1. Video!Running(videoVisit)' = Video!Running(videoVisit)
    BY <1>1 DEF Video!Running
  <2> QED BY <1>1, <2>1 DEF VideoInv, Video!ButtonsReachRecorder
<1>4. OwnersInv' /\ Video!DeletesExplained' /\ PhasesInv'
  <2>1. r \notin videoOnItsOwn
    BY <1>1 DEF VideoInv, PhasesInv
  <2> QED BY <1>1, <2>1 DEF VideoInv, OwnersInv, Video!DeletesExplained, PhasesInv, Video!TypeOK
<1>5. PostedInv'
  BY <1>1 DEF VideoInv, PostedInv, EventInv
<1> QED BY <1>2, <1>3, <1>4, <1>5 DEF VideoInv

LEMMA FinishKeeps ==
  ASSUME Video!TypeOK, VideoInv, NEW r \in Recordings, Video!FinishStopped(r) \/ Video!EndOnItsOwn(r)
  PROVE  Video!TypeOK' /\ VideoInv'
<1>1. PICK error \in {"none", "noValidData", "other"} :
        /\ Video!Finalized(r, error) /\ videoPhase[r] \in {"pending", "recording", "stopping"}
        /\ \/ /\ videoPhase[r] = "stopping" /\ videoOnItsOwn' = videoOnItsOwn
           \/ videoOnItsOwn' = videoOnItsOwn \union {r} /\ error # "noValidData"
        /\ error = "noValidData" => videoPhase[r] = "stopping"
  BY DEF Video!FinishStopped, Video!EndOnItsOwn
<1>2. UNCHANGED <<videoGranted, videoVisit, videoScreen, videoDeath, videoRecording, videoOwner, videoOutput,
                  videoTooEarly>>
  BY DEF Video!FinishStopped, Video!EndOnItsOwn, Video!screenVars
<1>3. error = "noValidData" => videoOutput[r] # "none" \/ r \in videoTooEarly'
  BY <1>1, <1>2 DEF VideoInv, PhasesInv
<1>4. /\ videoPosted' \in Seq(Events)
      /\ videoPhase' \in [Recordings -> {"none", "pending", "recording", "stopping", "finalized"}]
      /\ videoPhase'[r] = "finalized" /\ \A q \in Recordings : q # r => videoPhase'[q] = videoPhase[q]
      /\ Video!DeletesExplained' /\ OwnersInv' /\ PhasesInv' /\ PostedInv'
  BY <1>1, <1>2, <1>3, FinalizedKeeps
<1>5. videoOnItsOwn \subseteq videoOnItsOwn' /\ videoOnItsOwn' \subseteq Recordings
  BY <1>1 DEF Video!TypeOK
<1>6. Video!TypeOK'
  BY <1>2, <1>4, <1>5 DEF Video!TypeOK, Events
<1>7. r \in videoOnItsOwn' \/ videoPhase[r] = "stopping"
  BY <1>1
<1>8. Video!ButtonsReachRecorder'
  BY <1>2, <1>4, <1>5, <1>7, RunningShrinks
<1> QED BY <1>4, <1>6, <1>8 DEF VideoInv

\* An event reaches the listener, which deletes the row of a video without data.
LEMMA DeliverKeeps == Video!TypeOK /\ VideoInv /\ Video!Deliver => Video!TypeOK' /\ VideoInv'
<1> SUFFICES ASSUME Video!TypeOK, VideoInv, Video!Deliver PROVE Video!TypeOK' /\ VideoInv'
  OBVIOUS
<1> DEFINE e == Head(videoPosted)
<1>1. /\ UNCHANGED <<videoGranted, videoVisit, videoScreen, videoRecording, videoOwner, videoPhase,
                     videoOnItsOwn, videoTooEarly>>
      /\ videoPosted \in Seq(Events) /\ videoPosted # << >>
      /\ videoPosted' = Tail(videoPosted) /\ Video!OnFinalize(e)
  BY DEF Video!Deliver, Video!screenVars, Video!TypeOK, Events
<1>2. /\ e = videoPosted[1] /\ 1 \in DOMAIN videoPosted /\ e \in Events /\ videoPosted' \in Seq(Events)
      /\ \A i \in DOMAIN videoPosted' : i + 1 \in DOMAIN videoPosted /\ videoPosted'[i] = videoPosted[i + 1]
  BY <1>1, HeadFacts
<1>3. EventInv(e)
  BY <1>2 DEF VideoInv, PostedInv
<1> HIDE DEF e
<1>4. e.of \in Recordings
  BY <1>2 DEF Events
<1>5. \/ UNCHANGED <<videoOutput, videoDeath>>
      \/ /\ e.error = "noValidData" /\ e.hasUri /\ videoDeath' = videoDeath
         /\ videoOutput' = [videoOutput EXCEPT ![e.of] = "deleted"]
      \/ /\ e.error = "noValidData" /\ ~e.hasUri /\ videoDeath' = "deleteThrew" /\ videoOutput' = videoOutput
  BY <1>1 DEF Video!OnFinalize
<1>6. Video!TypeOK'
  BY <1>1, <1>2, <1>5 DEF Video!TypeOK, Events
<1>7. Video!ButtonsReachRecorder'
  <2>1. Video!Running(videoVisit)' = Video!Running(videoVisit)
    BY <1>1 DEF Video!Running
  <2>2. videoDeath' # "startThrew"
    BY <1>5 DEF VideoInv, Video!ButtonsReachRecorder
  <2> QED BY <1>1, <2>1, <2>2 DEF VideoInv, Video!ButtonsReachRecorder
<1>8. OwnersInv'
  BY <1>1 DEF VideoInv, OwnersInv
<1>9. PostedInv'
  BY <1>1, <1>2 DEF VideoInv, PostedInv, EventInv
<1>10. Video!DeletesExplained' /\ PhasesInv'
  <2>1. CASE UNCHANGED <<videoOutput, videoDeath>>
    BY <1>1, <2>1 DEF VideoInv, Video!DeletesExplained, PhasesInv
  <2>2. CASE /\ e.error = "noValidData" /\ videoDeath' = videoDeath
             /\ videoOutput' = [videoOutput EXCEPT ![e.of] = "deleted"]
    <3>1. e.of \notin videoOnItsOwn /\ videoPhase[e.of] = "finalized"
      BY <1>3, <2>2 DEF EventInv
    <3>2. videoOutput'[e.of] = "deleted" /\ \A q \in Recordings : q # e.of => videoOutput'[q] = videoOutput[q]
      BY <1>4, <2>2 DEF Video!TypeOK
    <3> QED BY <1>1, <2>2, <3>1, <3>2 DEF VideoInv, Video!DeletesExplained, PhasesInv, Video!TypeOK
  <2>3. CASE e.error = "noValidData" /\ ~e.hasUri /\ videoDeath' = "deleteThrew" /\ videoOutput' = videoOutput
    <3>1. e.of \in videoTooEarly
      BY <1>3, <2>3 DEF EventInv
    <3> QED BY <1>1, <2>3, <3>1 DEF VideoInv, Video!DeletesExplained, PhasesInv
  <2> QED BY <1>5, <2>1, <2>2, <2>3
<1> QED BY <1>6, <1>7, <1>8, <1>9, <1>10 DEF VideoInv

\* The buttons of the video screen reach its recorder, and what CameraX ended on its own is
\* never deleted.
THEOREM CaptureIsSafe == Video!Spec => []CaptureSafe
<1>1. Video!TypeOK /\ VideoInv /\ [Video!Next]_(Video!vars) => Video!TypeOK' /\ VideoInv'
  BY ScreenKeeps, ReturnKeeps, PressStartKeeps, PressStopKeeps, BeginKeeps, ProduceKeeps, FinishKeeps,
     DeliverKeeps
  DEF Video!Next, Video!Recorder, Video!Screen
<1>2. Video!TypeOK /\ VideoInv => CaptureSafe
  BY DEF VideoInv, CaptureSafe, Video!CaptureSafe
<1> QED BY <1>1, <1>2, VideoInit, PTL DEF Video!Spec
=============================================================================
