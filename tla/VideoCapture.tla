---------------------------- MODULE VideoCapture ----------------------------
(***************************************************************************)
(* The video screen of WebViewLearn: two buttons over a CaptureManager,    *)
(* which holds the Recording that CameraX's Recorder gave it. The Recorder *)
(* ends recordings on its own as well (the camera goes away, an encoder or *)
(* the storage fails) and says so only in an event, posted to the main     *)
(* thread, that leaves the manager's field alone. Every visit of the       *)
(* screen has a manager and a Recorder of its own.                         *)
(***************************************************************************)
EXTENDS Naturals, Sequences

CONSTANTS
  Visits,      \* how often the screen is entered (bounds the model)
  Recordings   \* the recordings started (bounds the model)

VARIABLES
  granted,     \* the permissions are granted
  visit,       \* which visit it is
  screen,      \* "entering", "shown", "hidden" by another activity, or "left"
  death,       \* what ended the process, or "none"
  recording,   \* CaptureManager.recording of this visit
  owner,       \* the visit that started each recording
  phase,       \* what CameraX makes of it
  output,      \* its row of the media store: "none", "empty", "filled", "deleted"
  posted,      \* the Finalize events posted and not delivered
  onItsOwn,    \* recordings CameraX ended, not the user (history)
  tooEarly     \* recordings stopped before they had a row (history)

screenVars == <<granted, visit, screen>>
recorderVars == <<owner, phase, output, posted, onItsOwn, tooEarly>>
vars == <<screenVars, death, recording, recorderVars>>

NoRecording == 0

Init ==
  /\ granted \in BOOLEAN
  /\ visit = 1 /\ screen = "entering" /\ death = "none"
  /\ recording = NoRecording
  /\ owner = [r \in Recordings |-> 0]
  /\ phase = [r \in Recordings |-> "none"]
  /\ output = [r \in Recordings |-> "none"]
  /\ posted = << >> /\ onItsOwn = {} /\ tooEarly = {}

Alive == death = "none"
CanPress == Alive /\ screen = "shown"

-----------------------------------------------------------------------------
(* CameraX's Recorder: one recording at a time writes, another may wait    *)
(* for it to be finalized.                                                 *)

Running(v) == {r \in Recordings : owner[r] = v /\ phase[r] \in {"pending", "recording"}}

\* The event carries the row, or Uri.EMPTY if there is none.
Finalized(r, error) ==
  /\ phase' = [phase EXCEPT ![r] = "finalized"]
  /\ posted' = Append(posted, [of |-> r, error |-> error, hasUri |-> output[r] # "none"])

\* start() of a prepared recording.
Start(r) ==
  IF Running(visit) # {}
  THEN death' = "startThrew" /\ UNCHANGED <<recording, owner, phase>>
  ELSE /\ owner' = [owner EXCEPT ![r] = visit]
       /\ phase' = [phase EXCEPT ![r] = "pending"]
       /\ recording' = r
       /\ UNCHANGED death

\* Recording.stop(): a recording that waits is finalized, one that writes will be.
StopRecording(r) ==
  /\ \/ phase[r] = "pending" /\ Finalized(r, "noValidData")
     \/ /\ phase[r] = "recording"
        /\ phase' = [phase EXCEPT ![r] = "stopping"]
        /\ UNCHANGED posted
     \/ phase[r] \notin {"pending", "recording"} /\ UNCHANGED <<phase, posted>>
  /\ tooEarly' = IF r \in Running(visit) /\ output[r] = "none"
                 THEN tooEarly \union {r} ELSE tooEarly

Begin(r) ==
  /\ phase[r] = "pending"
  /\ owner[r] = visit /\ screen = "shown"
  /\ \A q \in Recordings : owner[q] = visit => phase[q] \notin {"recording", "stopping"}
  /\ phase' = [phase EXCEPT ![r] = "recording"]
  /\ UNCHANGED <<screenVars, death, recording, owner, output, posted, onItsOwn, tooEarly>>

\* The first data make the row; some of it may not be enough for a video.
Produce(r) ==
  /\ phase[r] = "recording"
  /\ \/ output[r] = "none" /\ output' = [output EXCEPT ![r] = "empty"]
     \/ output[r] = "empty" /\ output' = [output EXCEPT ![r] = "filled"]
  /\ UNCHANGED <<screenVars, death, recording, owner, phase, posted, onItsOwn, tooEarly>>

FinishStopped(r) ==
  /\ phase[r] = "stopping"
  /\ \E error \in {IF output[r] = "filled" THEN "none" ELSE "noValidData"} :
       Finalized(r, error)
  /\ UNCHANGED <<screenVars, death, recording, owner, output, onItsOwn, tooEarly>>

\* The camera goes away, which hiding or leaving the screen makes it do, or something
\* fails. Neither is ERROR_NO_VALID_DATA.
EndOnItsOwn(r) ==
  /\ phase[r] \in {"pending", "recording", "stopping"}
  /\ Finalized(r, "other")
  /\ onItsOwn' = onItsOwn \union {r}
  /\ UNCHANGED <<screenVars, death, recording, owner, output, tooEarly>>

-----------------------------------------------------------------------------
(* The screen and the manager (main thread).                               *)

\* initCamera, when the screen is composed: binding throws without a suitable camera.
InitCamera ==
  /\ Alive /\ screen = "entering"
  /\ \/ screen' = "shown" /\ UNCHANGED death
     \/ death' = "noCamera" /\ UNCHANGED screen
  /\ UNCHANGED <<granted, visit, recording, recorderVars>>

Grant ==
  /\ CanPress /\ ~granted
  /\ granted' = TRUE
  /\ UNCHANGED <<visit, screen, death, recording, recorderVars>>

PressStart ==
  /\ CanPress /\ granted
  /\ recording = NoRecording
  /\ \E r \in Recordings :
       /\ phase[r] = "none" /\ \A q \in Recordings : q < r => phase[q] # "none"
       /\ Start(r)
  /\ UNCHANGED <<screenVars, output, posted, onItsOwn, tooEarly>>

\* Mutant: the field is cleared first.
ForgetsToStop ==
  /\ CanPress /\ recording # NoRecording
  /\ recording' = NoRecording
  /\ UNCHANGED <<screenVars, death, recorderVars>>
PressStop ==
  /\ CanPress /\ recording # NoRecording
  /\ StopRecording(recording)
  /\ recording' = NoRecording
  /\ UNCHANGED <<screenVars, death, owner, output, onItsOwn>>

\* What the listener does with an event; its mutant only logs. Without a row there is
\* Uri.EMPTY, of which no provider is found.
OnlyLogs(event) == UNCHANGED <<output, death>>
OnFinalize(event) ==
  IF event.error = "noValidData"
  THEN IF event.hasUri
       THEN output' = [output EXCEPT ![event.of] = "deleted"] /\ UNCHANGED death
       ELSE death' = "deleteThrew" /\ UNCHANGED output
  ELSE UNCHANGED <<output, death>>

Deliver ==
  /\ Alive /\ posted # << >>
  /\ OnFinalize(Head(posted))
  /\ posted' = Tail(posted)
  /\ UNCHANGED <<screenVars, recording, owner, phase, onItsOwn, tooEarly>>

\* The user goes to another activity, or back, or leaves the screen.
Hide ==
  /\ Alive
  /\ \/ screen = "shown" /\ screen' = "hidden"
     \/ screen = "hidden" /\ screen' = "shown"
     \/ screen = "shown" /\ screen' = "left"
  /\ UNCHANGED <<granted, visit, death, recording, recorderVars>>

\* The next visit, with a new manager.
Return ==
  /\ Alive /\ screen = "left" /\ visit + 1 \in Visits
  /\ visit' = visit + 1 /\ screen' = "entering"
  /\ recording' = NoRecording
  /\ UNCHANGED <<granted, death, recorderVars>>

Recorder == \E r \in Recordings : Begin(r) \/ Produce(r) \/ FinishStopped(r) \/ EndOnItsOwn(r)
Screen == InitCamera \/ Grant \/ PressStart \/ PressStop \/ Hide \/ Return

Next == Alive /\ (Recorder \/ Screen \/ Deliver)

\* CameraX finalizes what was stopped, and the main thread delivers what was posted.
Fairness ==
  /\ WF_vars(Deliver)
  /\ \A r \in Recordings : WF_vars(Alive /\ FinishStopped(r))

Spec == Init /\ [][Next]_vars /\ Fairness

-----------------------------------------------------------------------------
(* Properties.                                                             *)

TypeOK ==
  /\ granted \in BOOLEAN /\ visit \in Visits
  /\ screen \in {"entering", "shown", "hidden", "left"}
  /\ death \in {"none", "noCamera", "startThrew", "deleteThrew"}
  /\ recording \in Recordings \union {NoRecording}
  /\ owner \in [Recordings -> Visits \union {0}]
  /\ phase \in [Recordings ->
                  {"none", "pending", "recording", "stopping", "finalized"}]
  /\ output \in [Recordings -> {"none", "empty", "filled", "deleted"}]
  /\ posted \in Seq([of : Recordings, error : {"none", "noValidData", "other"},
                     hasUri : BOOLEAN])
  /\ onItsOwn \subseteq Recordings /\ tooEarly \subseteq Recordings

\* The button "stop" reaches every recording of this visit that runs, and a second
\* recording is never started over it; the button "start" is without effect, until
\* "stop" is pressed, only while one runs or after CameraX ended one on its own.
ButtonsReachRecorder ==
  /\ Running(visit) \subseteq {recording}
  /\ recording # NoRecording => recording \in Running(visit) \union onItsOwn
  /\ death # "startThrew"

\* Deleting the row of a video without data ends the process only if a recording was
\* stopped before it had a row; and what CameraX ended on its own is never deleted.
DeletesExplained ==
  /\ death = "deleteThrew" => tooEarly # {}
  /\ \A r \in onItsOwn : output[r] # "deleted"

CaptureSafe == TypeOK /\ ButtonsReachRecorder /\ DeletesExplained

Settled(r) == phase[r] = "finalized" /\ \A i \in 1 .. Len(posted) : posted[i].of # r

\* A recording that wrote when "stop" was pressed is finalized, and then is a video or has
\* lost its row in the media store, unless CameraX ended it first.
StoppedSettle ==
  \A r \in Recordings :
    phase[r] = "stopping" ~>
      \/ ~Alive
      \/ Settled(r) /\ (r \in onItsOwn \/ output[r] \in {"filled", "deleted"})
=============================================================================
