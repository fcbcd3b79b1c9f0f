----------------------------- MODULE NdkCamera -----------------------------
(***************************************************************************)
(* NDKCamera of OpenSLLearn and the two buttons of MusicScreen that create *)
(* and delete it. The main thread runs the constructor, in which every     *)
(* failing step just returns, and the destructor; the image listener, on a *)
(* thread of the image reader, writes the three planes of each frame to    *)
(* the one file yuv.yuv. The screen forgets the camera when it is left or  *)
(* the activity is recreated, as on a rotation: nothing is disposed of.    *)
(***************************************************************************)
EXTENDS Naturals, Sequences

CONSTANTS
  Presses,     \* presses of "create" (bounds the model)
  Frames       \* frames a camera delivers (bounds the model)

Cameras == 1 .. Presses

VARIABLES
  made,       \* cameras constructed so far
  ptr,        \* what the screen remembers (0: null)
  main,       \* main thread: "idle", "construct" or "destroy" ...
  cur, step,  \* ... of which camera, and the next step of it
  live,       \* camera -> its objects that exist
  running,    \* cameras whose repeating request was accepted
  listener,   \* camera -> the plane its listener writes next (0: no callback runs)
  frames,     \* camera -> frames delivered
  file,       \* yuv.yuv: the planes in it
  freed,      \* cameras deleted
  twice,      \* cameras deleted a second time: undefined from here on
  doubled,    \* a camera was created while another was not released (history)
  left,       \* the screen was left while its camera was not released (history)
  torn        \* a listener gave up in mid-frame (history)

vars == <<made, ptr, main, cur, step, live, running, listener, frames, file, freed,
          twice, doubled, left, torn>>

\* The constructor's steps that can fail, and the destructor's, in order;
\* a mutant of the latter closes the file first.
BuildSteps == <<"stream", "manager", "idList", "device", "reader", "window", "request",
                "target", "addTarget", "container", "output", "addOutput", "session",
                "repeat">>
DestroyStepsFileFirst == <<"stream", "reader", "session", "device", "manager", "container",
                           "output">>
DestroySteps == <<"reader", "session", "device", "manager", "stream", "container", "output">>

\* What no member points to: the destructor cannot free it.
Locals == {"idList", "request", "target"}

Objects == {"stream", "manager", "device", "reader", "container", "output", "session"}
             \union Locals

Init ==
  /\ made = 0 /\ ptr = 0
  /\ main = "idle" /\ cur = 0 /\ step = 1
  /\ live = [c \in Cameras |-> {}]
  /\ running = {}
  /\ listener = [c \in Cameras |-> 0]
  /\ frames = [c \in Cameras |-> 0]
  /\ file = << >>
  /\ freed = {} /\ twice = {}
  /\ doubled = FALSE /\ left = FALSE /\ torn = FALSE

Defined == twice = {}

-----------------------------------------------------------------------------
(* The main thread: the buttons and the screen.                            *)

PressCreate ==
  /\ main = "idle" /\ made < Presses /\ Defined
  /\ made' = made + 1
  /\ main' = "construct" /\ cur' = made + 1 /\ step' = 1
  /\ doubled' = (doubled \/ ~(1 .. made \subseteq freed))
  /\ UNCHANGED <<ptr, live, running, listener, frames, file, freed, twice, left, torn>>

\* ptr is never reset: a second press deletes what is already deleted.
PressRelease ==
  /\ main = "idle" /\ ptr # 0 /\ Defined
  /\ IF ptr \in freed
     THEN twice' = twice \union {ptr} /\ UNCHANGED <<main, cur, step>>
     ELSE main' = "destroy" /\ cur' = ptr /\ step' = 1 /\ twice' = twice
  /\ UNCHANGED <<made, ptr, live, running, listener, frames, file, freed, doubled, left, torn>>

\* The screen is left or recreated: ptr is gone, and what it pointed to goes on.
Leave ==
  /\ main = "idle" /\ ptr # 0 /\ Defined
  /\ ptr' = 0
  /\ left' = (left \/ ptr \notin freed)
  /\ UNCHANGED <<made, main, cur, step, live, running, listener, frames, file, freed, twice,
                 doubled, torn>>

-----------------------------------------------------------------------------
(* The constructor.                                                        *)

\* Opening the stream truncates the file; the last step starts the frames.
Build ==
  /\ main = "construct"
  /\ LET name == BuildSteps[step] IN
     /\ live' = [live EXCEPT ![cur] = @ \union ({name} \intersect Objects)]
     /\ file' = IF name = "stream" THEN << >> ELSE file
     /\ IF step < Len(BuildSteps)
        THEN step' = step + 1 /\ UNCHANGED <<main, ptr, running>>
        ELSE main' = "idle" /\ ptr' = cur /\ running' = running \union {cur} /\ step' = step
  /\ UNCHANGED <<made, cur, listener, frames, freed, twice, doubled, left, torn>>

\* A step fails: the object is handed out half built.
BuildFails ==
  /\ main = "construct"
  /\ main' = "idle" /\ ptr' = cur
  /\ UNCHANGED <<made, cur, step, live, running, listener, frames, file, freed, twice,
                 doubled, left, torn>>

-----------------------------------------------------------------------------
(* The destructor. AImageReader_delete waits for the listener;             *)
(* a mutant waits for every frame instead.                                 *)

DestroyAwaitsFrames ==
  /\ main = "destroy"
  /\ DestroySteps[step] = "reader" => frames[cur] = Frames /\ listener[cur] = 0
  /\ live' = [live EXCEPT ![cur] = @ \ {DestroySteps[step]}]
  /\ IF step < Len(DestroySteps)
     THEN step' = step + 1 /\ UNCHANGED <<main, freed>>
     ELSE main' = "idle" /\ freed' = freed \union {cur} /\ step' = step
  /\ UNCHANGED <<made, ptr, cur, running, listener, frames, file, twice, doubled, left, torn>>
Destroy ==
  /\ main = "destroy"
  /\ DestroySteps[step] = "reader" => listener[cur] = 0
  /\ live' = [live EXCEPT ![cur] = @ \ {DestroySteps[step]}]
  /\ IF step < Len(DestroySteps)
     THEN step' = step + 1 /\ UNCHANGED <<main, freed>>
     ELSE main' = "idle" /\ freed' = freed \union {cur} /\ step' = step
  /\ UNCHANGED <<made, ptr, cur, running, listener, frames, file, twice, doubled, left, torn>>

-----------------------------------------------------------------------------
(* The camera and onImageAvailable.                                        *)

\* A frame reaches the listener of a reader whose session is open.
Frame(c) ==
  /\ Defined
  /\ c \in running /\ {"reader", "session"} \subseteq live[c]
  /\ listener[c] = 0 /\ frames[c] < Frames
  /\ listener' = [listener EXCEPT ![c] = 1]
  /\ frames' = [frames EXCEPT ![c] = @ + 1]
  /\ UNCHANGED <<made, ptr, main, cur, step, live, running, file, freed, twice, doubled, left, torn>>

\* One plane, row by row.
WritePlane(c) ==
  /\ Defined
  /\ listener[c] # 0
  /\ file' = Append(file, listener[c])
  /\ listener' = [listener EXCEPT ![c] = IF @ = 3 THEN 0 ELSE @ + 1]
  /\ UNCHANGED <<made, ptr, main, cur, step, live, running, frames, freed, twice, doubled, left, torn>>

\* No image, no size, or no data of a plane: the listener returns at once.
ListenerGivesUp(c) ==
  /\ Defined
  /\ listener[c] # 0
  /\ torn' = (torn \/ listener[c] # 1)
  /\ listener' = [listener EXCEPT ![c] = 0]
  /\ UNCHANGED <<made, ptr, main, cur, step, live, running, frames, file, freed, twice, doubled, left>>

Listen(c) == WritePlane(c) \/ ListenerGivesUp(c)

Next ==
  \/ PressCreate \/ PressRelease \/ Leave
  \/ Build \/ BuildFails \/ Destroy
  \/ \E c \in Cameras : Frame(c) \/ WritePlane(c) \/ ListenerGivesUp(c)

Spec == Init /\ [][Next]_vars

\* The main thread and the listeners run; nobody has to press a button.
Fairness ==
  /\ WF_vars(Build \/ BuildFails \/ Destroy)
  /\ \A c \in Cameras : WF_vars(Listen(c))

-----------------------------------------------------------------------------
(* Properties.                                                             *)

TypeOK ==
  /\ made \in 0 .. Presses /\ ptr \in 0 .. made /\ cur \in 0 .. made
  /\ main \in {"idle", "construct", "destroy"} /\ step \in DOMAIN BuildSteps
  /\ live \in [Cameras -> SUBSET Objects]
  /\ running \subseteq Cameras /\ freed \subseteq Cameras /\ twice \subseteq freed
  /\ listener \in [Cameras -> 0 .. 3]
  /\ frames \in [Cameras -> 0 .. Frames]
  /\ file \in Seq(1 .. 3)
  /\ doubled \in BOOLEAN /\ left \in BOOLEAN /\ torn \in BOOLEAN

\* A listener that runs has its stream and its camera: the destructor deletes the reader
\* first, which waits for it, and the constructor starts frames last.
ListenerHasStream ==
  \A c \in Cameras : listener[c] # 0 => "stream" \in live[c] /\ c \notin freed

\* With one camera at a time the file is the sequence of whole frames, Y then U then V,
\* unless a listener gave up in mid-frame. Two cameras mix their planes in it.
FileIsWholeFrames ==
  ~doubled /\ ~torn => file = [i \in 1 .. Len(file) |-> ((i - 1) % 3) + 1]

\* As long as one camera is created at a time and the screen is not left with one,
\* whatever a camera still holds, a half built one included, can be released: the screen
\* points to it. Leaving loses a camera that runs on.
HeldIsReachable ==
  main = "idle" /\ ~doubled /\ ~left =>
    \A c \in Cameras : live[c] \ Locals # {} => ptr = c /\ c \notin freed

\* A deleted camera has closed everything a member points to.
DeletedHoldsOnlyLocals == \A c \in freed : live[c] \subseteq Locals

\* No camera is lost but by a second create or by leaving the screen, none is closed under
\* its listener, none is closed by halves, and a file that one camera wrote is whole.
HoldingsSafe ==
  /\ TypeOK /\ ListenerHasStream /\ HeldIsReachable /\ DeletedHoldsOnlyLocals
  /\ FileIsWholeFrames

\* The destructor ends, whatever the listener is doing.
DestroyEnds == main = "destroy" ~> main = "idle"
=============================================================================
