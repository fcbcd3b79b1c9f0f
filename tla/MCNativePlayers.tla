-------------------------- MODULE MCNativePlayers --------------------------
(***************************************************************************)
(* The native code of OpenSLLearn that plays, watches and records, in four *)
(* parts that share nothing: calls on SlesPlayer's object or its           *)
(* openSLESPlay, one openSLESPlayPCM, the camera of MusicScreen, or the    *)
(* OpenSLESRecorder, the other three standing still.                       *)
(*                                                                         *)
(* SlesPlayer has a word so small that the longest file's sleep wraps,     *)
(* files whose duration is unknown and one that cannot be read.            *)
(* PcmPlayback has files of none to five blocks: an empty file ends in the *)
(* priming call, a longer one on the thread of OpenSL ES. NdkCamera has    *)
(* two presses of "create": the second comes before or after the release   *)
(* of the first. SlesRecorder has a few chunks: enough for a callback to   *)
(* be overtaken more than once and for a release at every point.           *)
(***************************************************************************)
EXTENDS SlesPlayer, Sequences

CONSTANTS Blocks, Presses, Frames, Chunks, NumBuffers

ASSUME BlocksAssumption == Blocks \in Nat

ASSUME CameraAssumption == Presses \in Nat \ {0} /\ Frames \in Nat

ASSUME RecorderAssumption == Chunks \in Nat /\ NumBuffers \in Nat \ {0}

VARIABLES
  pcmPc, pcmStep, pcmLive, pcmLeft, pcmBuffer, pcmQueued, pcmPlaying, pcmPosted, pcmHeard,
  pcmStalled, pcmTouched

pcmVars ==
  <<pcmPc, pcmStep, pcmLive, pcmLeft, pcmBuffer, pcmQueued, pcmPlaying, pcmPosted, pcmHeard,
    pcmStalled, pcmTouched>>

Pcm == INSTANCE PcmPlayback WITH
  pc <- pcmPc, step <- pcmStep, live <- pcmLive, left <- pcmLeft, buffer <- pcmBuffer,
  queued <- pcmQueued, playing <- pcmPlaying, posted <- pcmPosted, heard <- pcmHeard,
  stalled <- pcmStalled, touched <- pcmTouched

VARIABLES
  camMade, camPtr, camMain, camCur, camStep, camLive, camRunning, camListener, camFrames, camFile,
  camFreed, camTwice, camDoubled, camLeft, camTorn

camVars ==
  <<camMade, camPtr, camMain, camCur, camStep, camLive, camRunning, camListener, camFrames,
    camFile, camFreed, camTwice, camDoubled, camLeft, camTorn>>

Camera == INSTANCE NdkCamera WITH
  made <- camMade, ptr <- camPtr, main <- camMain, cur <- camCur, step <- camStep,
  live <- camLive, running <- camRunning, listener <- camListener, frames <- camFrames,
  file <- camFile, freed <- camFreed, twice <- camTwice, doubled <- camDoubled,
  left <- camLeft, torn <- camTorn

VARIABLES
  micPc, micStep, micLive, micRecording, micQueued, micFilled, micCalled, micCb, micFile,
  micOvertaken, micLate, micDead

micVars ==
  <<micPc, micStep, micLive, micRecording, micQueued, micFilled, micCalled, micCb, micFile,
    micOvertaken, micLate, micDead>>

Recorder == INSTANCE SlesRecorder WITH
  MaxChunks <- Chunks, pc <- micPc, step <- micStep, live <- micLive,
  recording <- micRecording, queued <- micQueued, filled <- micFilled, called <- micCalled,
  cb <- micCb, file <- micFile, overtaken <- micOvertaken, late <- micLate, dead <- micDead

MCMedia ==
  { [length |-> 2, known |-> TRUE, readable |-> TRUE],
    [length |-> 4, known |-> TRUE, readable |-> TRUE],
    [length |-> 4, known |-> FALSE, readable |-> TRUE],
    [length |-> 2, known |-> FALSE, readable |-> TRUE],
    [length |-> 2, known |-> TRUE, readable |-> FALSE] }

\* A player that failed before it made anything, a set-up and a recorder that did, and a
\* camera that did and was deleted twice.
PlayerIdle ==
  /\ mode = "once" /\ media = [length |-> 2, known |-> TRUE, readable |-> TRUE]
  /\ canSeek = FALSE
  /\ live = {} /\ fdOpen = TRUE
  /\ state = "stopped" /\ head = 0 /\ prefetch = FALSE
  /\ pc = "done" /\ target = NoTarget /\ asleep = 0
  /\ failed = TRUE /\ calls = Calls /\ rewound = TRUE /\ blind = FALSE /\ refused = FALSE
  /\ slept = 0
PcmIdle ==
  /\ pcmPc = "returned" /\ pcmStep = 1 /\ pcmLive = {}
  /\ pcmLeft = 0 /\ pcmBuffer = 0
  /\ pcmQueued = FALSE /\ pcmPlaying = FALSE /\ pcmPosted = FALSE
  /\ pcmHeard = << >> /\ pcmStalled = FALSE /\ pcmTouched = {}
CameraIdle ==
  /\ camMade = 1 /\ camPtr = 1 /\ camFreed = {1} /\ camTwice = {1}
  /\ camMain = "idle" /\ camCur = 1 /\ camStep = Len(Camera!DestroySteps)
  /\ camLive = [c \in Camera!Cameras |-> {}] /\ camRunning = {}
  /\ camListener = [c \in Camera!Cameras |-> 0] /\ camFrames = [c \in Camera!Cameras |-> 0]
  /\ camFile = << >> /\ camDoubled = FALSE /\ camLeft = FALSE /\ camTorn = FALSE
RecorderIdle ==
  /\ micPc = "failed" /\ micStep = 1 /\ micLive = {} /\ micRecording = FALSE
  /\ micQueued = 0 /\ micFilled = 0 /\ micCalled = 0 /\ micCb = "idle"
  /\ micFile = << >> /\ micOvertaken = FALSE /\ micLate = {} /\ micDead = "no"

MCInit ==
  \/ Init /\ PcmIdle /\ CameraIdle /\ RecorderIdle
  \/ PlayerIdle /\ Pcm!Init /\ CameraIdle /\ RecorderIdle
  \/ PlayerIdle /\ PcmIdle /\ Camera!Init /\ RecorderIdle
  \/ PlayerIdle /\ PcmIdle /\ CameraIdle /\ Recorder!Init

MCNext ==
  \/ Next /\ UNCHANGED <<pcmVars, camVars, micVars>>
  \/ Pcm!Next /\ UNCHANGED <<vars, camVars, micVars>>
  \/ Camera!Next /\ UNCHANGED <<vars, pcmVars, micVars>>
  \/ Recorder!Next /\ UNCHANGED <<vars, pcmVars, camVars>>

MCSpec ==
  /\ MCInit /\ [][MCNext]_<<vars, pcmVars, camVars, micVars>>
  /\ Fairness /\ Pcm!Fairness /\ Camera!Fairness

\* The callbacks of openSLESPlayPCM find their objects, nothing else is left, and its file
\* is heard in order and to the end.
PcmSafe == Pcm!ContextSafe /\ Pcm!HeardToTheEnd

\* No camera is lost but by a second create or by leaving the screen, none is closed under
\* its listener, none is closed by halves, and a file that one camera wrote is whole.
HoldingsSafe == Camera!HoldingsSafe

\* No callback of the recorder throws out of a full queue, a failed creation records
\* nothing, and a delete meets two callbacks at most.
QueueSafe == Recorder!QueueSafe

\* The recording is whole and in order unless a chunk overtook one not yet written.
FileFaithfulUnlessOvertaken == Recorder!FileFaithfulUnlessOvertaken

\* Nothing is recorded into a buffer the recorder's destructor has freed.
NoFillAfterFree == Recorder!NoFillAfterFree

\* The destructor of the camera ends, whatever the listener is doing.
DestroyEnds == Camera!DestroyEnds

\* Every call comes back unless getDuration polls a file without data, and what
\* openSLESPlayPCM started is destroyed in the end.
PlaybackEnds == CallsReturn /\ Pcm!Released
=============================================================================
