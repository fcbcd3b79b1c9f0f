--------------------------- MODULE VoiceRecorder ---------------------------
(***************************************************************************)
(* The voice screen of WebViewLearn: VoiceManager, which records with an   *)
(* AudioRecord into hello.pcm and then wraps that file into hello.wav, and *)
(* VoiceScreen, whose single button starts and stops it.  The button runs  *)
(* on the main thread and flips isStart at once; each start is a coroutine *)
(* (a job) whose body runs on Dispatchers.IO and only there looks at the   *)
(* recorder.  Leaving the screen releases the recorder and cancels the     *)
(* jobs that have not reached their blocking body.  No exception is caught *)
(* anywhere, so one that leaves a job or a click kills the process.        *)
(***************************************************************************)
EXTENDS Naturals, Sequences, FiniteSets

CONSTANTS
  MaxJobs,    \* how many times the start button is pressed (bounds the model)
  MaxChunks   \* reads with data of one job (bounds the model)

ASSUME MaxJobsAssumption == MaxJobs \in Nat
ASSUME MaxChunksAssumption == MaxChunks \in Nat

Jobs == 1 .. MaxJobs
NoJob == 0

VARIABLES
  granted,   \* RECORD_AUDIO and the storage permissions are granted
  isStart,   \* VoiceScreen.isStart: the button says "stop"
  screen,    \* "shown", "left", or the process has "crashed"
  rec,       \* the AudioRecord: "stopped", "recording" or "released"
  pc,        \* where each job is
  total,     \* totalLength of each job, in chunks
  pcm,       \* hello.pcm: which job wrote each chunk (NoJob: a hole)
  wav,       \* hello.wav: who wrote it last, the length in its header, its chunks
  hasty,     \* a button press overtook a job (history)
  ioFailed   \* a file could not be opened or a read failed once (history)

uiVars == <<granted, isStart, screen>>
fileVars == <<pcm, wav>>
vars == <<uiVars, rec, pc, total, fileVars, hasty, ioFailed>>

Init ==
  /\ granted \in BOOLEAN
  /\ isStart = FALSE          \* voiceManager.isRecording of a new VoiceManager
  /\ screen = "shown"
  /\ rec = "stopped"
  /\ pc = [j \in Jobs |-> "idle"]
  /\ total = [j \in Jobs |-> 0]
  /\ pcm = << >>
  /\ wav = [job |-> NoJob, header |-> 0, data |-> << >>]
  /\ hasty = FALSE
  /\ ioFailed = FALSE

Over == {"idle", "done", "cancelled", "threw"}
Active == {j \in Jobs : pc[j] \notin Over}

\* The process dies: its threads stop and the system takes the microphone back.
Crash(thrower) ==
  /\ screen' = "crashed"
  /\ rec' = "released"
  /\ pc' = [j \in Jobs |-> CASE j = thrower -> "threw"
                             [] pc[j] \in Over -> pc[j]
                             [] OTHER -> "cancelled"]

-----------------------------------------------------------------------------
(* The button and the screen (main thread).                                *)

\* A press without permissions only asks for them; the user may agree.
Grant ==
  /\ screen = "shown" /\ ~granted
  /\ granted' = TRUE
  /\ UNCHANGED <<isStart, screen, rec, pc, total, fileVars, hasty, ioFailed>>

\* Press "start": launch a job and flip the button, without waiting for the job.
ClickStart ==
  /\ screen = "shown" /\ granted /\ ~isStart
  /\ \E j \in Jobs :
       /\ pc[j] = "idle" /\ \A k \in 1 .. j - 1 : pc[k] # "idle"
       /\ pc' = [pc EXCEPT ![j] = "launched"]
  /\ isStart' = TRUE
  /\ hasty' = (hasty \/ Active # {})
  /\ UNCHANGED <<granted, screen, rec, total, fileVars, ioFailed>>

\* What stopRecord leaves of the recorder; its mutant releases it as well.
StoppedForGood == "released"
Stopped == IF rec = "recording" THEN "stopped" ELSE rec

\* Press "stop".
ClickStop ==
  /\ screen = "shown" /\ isStart
  /\ rec' = Stopped
  /\ isStart' = FALSE
  /\ hasty' = (hasty \/ \E j \in Active : pc[j] \in {"launched", "checked", "recording"})
  /\ UNCHANGED <<granted, screen, pc, total, fileVars, ioFailed>>

Released == "released"

\* Leave the screen: stop and release the recorder, cancel the scope.  A job that
\* entered withContext(IO) has no suspension point left and runs on.  release()
\* requires the permission, and throws without it.
Dispose ==
  /\ screen = "shown"
  /\ IF granted
       THEN /\ screen' = "left"
            /\ rec' = Released
            /\ pc' = [j \in Jobs |-> IF pc[j] = "launched" THEN "cancelled" ELSE pc[j]]
       ELSE Crash(NoJob)
  /\ UNCHANGED <<granted, isStart, total, fileVars, hasty, ioFailed>>

-----------------------------------------------------------------------------
(* A job: the body of startRecord on an IO thread.                         *)

\* if (isRecording) return
Check(j) ==
  /\ pc[j] = "launched"
  /\ pc' = [pc EXCEPT ![j] = IF rec = "recording" THEN "done" ELSE "checked"]
  /\ UNCHANGED <<uiVars, rec, total, fileVars, hasty, ioFailed>>

\* audioRecord.startRecording(): throws on a released recorder.
StartRecording(j) ==
  /\ pc[j] = "checked"
  /\ IF rec = "released"
       THEN Crash(j)
       ELSE /\ pc' = [pc EXCEPT ![j] = "recording"]
            /\ rec' = "recording"
            /\ UNCHANGED screen
  /\ UNCHANGED <<granted, isStart, total, fileVars, hasty, ioFailed>>

\* Open hello.pcm for writing, which truncates it.
OpenPcm(j) ==
  /\ pc[j] = "recording"
  /\ pc' = [pc EXCEPT ![j] = "reading"]
  /\ pcm' = << >>
  /\ UNCHANGED <<uiVars, rec, total, wav, hasty, ioFailed>>

\* A file cannot be opened: openOutputStream and openInputStream throw ...
OpenThrows(j) ==
  /\ pc[j] \in {"recording", "ended"}
  /\ Crash(j)
  /\ ioFailed' = TRUE
  /\ UNCHANGED <<granted, isStart, total, fileVars, hasty>>

\* ... or return null, and the `?.use` that follows is skipped; or read() fails.
\* The recorder goes on recording.
OpenOrReadFails(j) ==
  /\ pc[j] \in {"recording", "reading", "ended"}
  /\ pc' = [pc EXCEPT ![j] = IF @ = "ended" THEN "done" ELSE "ended"]
  /\ ioFailed' = TRUE
  /\ UNCHANGED <<uiVars, rec, total, fileVars, hasty>>

\* A file after chunk n of job j was written at its place.
WriteAt(file, n, j) ==
  [i \in 1 .. (IF Len(file) < n THEN n ELSE Len(file)) |->
     IF i = n THEN j ELSE IF i <= Len(file) THEN file[i] ELSE NoJob]

\* One turn of the loop: read() returned data, which is written and counted.
\* (Data captured before a stop may still be returned after it.)
ReadChunk(j) ==
  /\ pc[j] = "reading"
  /\ rec # "released"
  /\ total[j] < MaxChunks
  /\ total' = [total EXCEPT ![j] = @ + 1]
  /\ pcm' = WriteAt(pcm, total[j] + 1, j)
  /\ UNCHANGED <<uiVars, rec, pc, wav, hasty, ioFailed>>

\* Mutant of ReadEnds: the loop is left at any read.
ReadEndsEarly(j) ==
  /\ pc[j] = "reading"
  /\ pc' = [pc EXCEPT ![j] = "ended"]
  /\ UNCHANGED <<uiVars, rec, total, fileVars, hasty, ioFailed>>
\* read() returned no data, which it does once the recorder stopped.
ReadEnds(j) ==
  /\ pc[j] = "reading"
  /\ rec # "recording"
  /\ pc' = [pc EXCEPT ![j] = "ended"]
  /\ UNCHANGED <<uiVars, rec, total, fileVars, hasty, ioFailed>>

\* Mutant of OpenWav: the header is written before the length is known.
OpenWavWithoutLength(j) ==
  /\ pc[j] = "ended"
  /\ pc' = [pc EXCEPT ![j] = "copying"]
  /\ wav' = [job |-> j, header |-> 0, data |-> << >>]
  /\ UNCHANGED <<uiVars, rec, total, pcm, hasty, ioFailed>>

\* Open hello.wav and write the header.
OpenWav(j) ==
  /\ pc[j] = "ended"
  /\ pc' = [pc EXCEPT ![j] = "copying"]
  /\ wav' = [job |-> j, header |-> total[j], data |-> << >>]
  /\ UNCHANGED <<uiVars, rec, total, pcm, hasty, ioFailed>>

\* Copy hello.pcm, as it is now, behind the header.
CopyWav(j) ==
  /\ pc[j] = "copying"
  /\ pc' = [pc EXCEPT ![j] = "done"]
  /\ wav' = [wav EXCEPT !.data = pcm]
  /\ UNCHANGED <<uiVars, rec, total, pcm, hasty, ioFailed>>

-----------------------------------------------------------------------------
Fails(j) == OpenThrows(j) \/ OpenOrReadFails(j)
Runs(j) ==
  \/ Check(j) \/ StartRecording(j) \/ OpenPcm(j)
  \/ ReadChunk(j) \/ ReadEnds(j) \/ OpenWav(j) \/ CopyWav(j)

Next ==
  \/ Grant \/ ClickStart \/ ClickStop \/ Dispose
  \/ \E j \in Jobs : Runs(j) \/ Fails(j)

Spec == Init /\ [][Next]_vars

\* IO threads run and read() returns; nobody has to press anything, nothing has to fail.
Fairness == \A j \in Jobs : WF_vars(Runs(j)) /\ WF_vars(ReadEnds(j))
FairSpec == Spec /\ Fairness

-----------------------------------------------------------------------------
(* Properties.                                                             *)

TypeOK ==
  /\ granted \in BOOLEAN /\ isStart \in BOOLEAN
  /\ screen \in {"shown", "left", "crashed"}
  /\ rec \in {"stopped", "recording", "released"}
  /\ pc \in [Jobs -> Over \union {"launched", "checked", "recording", "reading",
                                  "ended", "copying"}]
  /\ total \in [Jobs -> 0 .. MaxChunks]
  /\ pcm \in Seq(Jobs \union {NoJob})
  /\ wav \in [job : Jobs \union {NoJob}, header : Nat, data : Seq(Jobs \union {NoJob})]
  /\ hasty \in BOOLEAN /\ ioFailed \in BOOLEAN

\* The microphone is never left recording with no job to drain it, however the
\* presses interleave with the jobs; the one exception is a file or read failure.
RecordingHasReader ==
  rec = "recording" => ioFailed \/ \E j \in Jobs : pc[j] \in {"recording", "reading"}

\* The button can say "start" while the microphone records only if somebody pressed
\* "stop" before the job had started the recorder.
HiddenRecordingOnlyIfHasty ==
  rec = "recording" /\ ~isStart /\ screen = "shown" => hasty

\* When the microphone can be on with nobody listening or nobody knowing.
MicrophoneExplained == TypeOK /\ RecordingHasReader /\ HiddenRecordingOnlyIfHasty

\* A finished hello.wav holds exactly the chunks of the job that wrote its header,
\* and the header counts them, unless presses overtook a job or a file failed.
WavFaithfulUnlessHasty ==
  wav.job # NoJob /\ pc[wav.job] = "done" /\ ~hasty /\ ~ioFailed =>
    /\ wav.header = total[wav.job]
    /\ wav.data = [i \in 1 .. wav.header |-> wav.job]

\* The process dies for three reasons only: a file cannot be opened, the screen is
\* left without the permission, or it was left before a job started the recorder.
CrashesExplained ==
  [][screen' = "crashed" => screen = "left" \/ ioFailed' \/ ~granted]_vars

\* Once the screen was left no job goes on recording: each ends on its own.
JobsEndAfterDispose == screen = "left" ~> Active = {}
=============================================================================
