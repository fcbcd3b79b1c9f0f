---------------------------- MODULE MCRecorders ----------------------------
(***************************************************************************)
(* The two recording screens of WebViewLearn, which share nothing: one     *)
(* session of the voice screen or one of the video screen, the other       *)
(* module standing still.                                                  *)
(*                                                                         *)
(* VoiceRecorder has three presses of "start", enough for a job to be      *)
(* overtaken by a stop and by the next start, and two chunks per job.      *)
(* VideoCapture has two recordings, so that one can wait for the other to  *)
(* be finalized or be refused after it ended on its own, and two visits.   *)
(***************************************************************************)
EXTENDS VoiceRecorder

CONSTANTS Visits, Recordings

\* Both are numbered from 1; 0 is no recording.
ASSUME VideoAssumption == Visits \subseteq Nat /\ 1 \in Visits /\ Recordings \subseteq Nat \ {0}

VARIABLES
  videoGranted, videoVisit, videoScreen, videoDeath, videoRecording, videoOwner,
  videoPhase, videoOutput, videoPosted, videoOnItsOwn, videoTooEarly

videoVars ==
  <<videoGranted, videoVisit, videoScreen, videoDeath, videoRecording, videoOwner,
    videoPhase, videoOutput, videoPosted, videoOnItsOwn, videoTooEarly>>

Video == INSTANCE VideoCapture WITH
  granted <- videoGranted, visit <- videoVisit, screen <- videoScreen,
  death <- videoDeath, recording <- videoRecording, owner <- videoOwner,
  phase <- videoPhase, output <- videoOutput, posted <- videoPosted,
  onItsOwn <- videoOnItsOwn, tooEarly <- videoTooEarly

\* A voice screen that was left, and a video screen that never came up.
VoiceIdle ==
  /\ granted = TRUE /\ isStart = FALSE /\ screen = "left" /\ rec = "released"
  /\ pc = [j \in Jobs |-> "idle"] /\ total = [j \in Jobs |-> 0]
  /\ pcm = << >> /\ wav = [job |-> NoJob, header |-> 0, data |-> << >>]
  /\ hasty = FALSE /\ ioFailed = FALSE
VideoIdle ==
  /\ videoGranted = FALSE /\ videoVisit = 1
  /\ videoScreen = "entering" /\ videoDeath = "noCamera"
  /\ videoRecording = 0
  /\ videoOwner = [r \in Recordings |-> 0]
  /\ videoPhase = [r \in Recordings |-> "none"]
  /\ videoOutput = [r \in Recordings |-> "none"]
  /\ videoPosted = << >> /\ videoOnItsOwn = {} /\ videoTooEarly = {}

MCInit == (Init /\ VideoIdle) \/ (VoiceIdle /\ Video!Init)

MCNext == (Next /\ UNCHANGED videoVars) \/ (Video!Next /\ UNCHANGED vars)

MCSpec ==
  /\ MCInit /\ [][MCNext]_<<vars, videoVars>>
  /\ Fairness /\ Video!Fairness

\* The video screen's buttons reach its recorder, and when the process dies of a delete.
CaptureSafe == Video!CaptureSafe

\* What was stopped comes to its end: the jobs of a voice screen that was left, and the
\* recordings of a video screen, each as a video or without a row in the media store.
SessionsSettle == JobsEndAfterDispose /\ Video!StoppedSettle
=============================================================================
