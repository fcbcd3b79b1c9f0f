---------------------------- MODULE PcmPlayback ----------------------------
(***************************************************************************)
(* openSLESPlayPCM of OpenSLLearn: the caller's thread builds an OpenSL ES *)
(* engine, output mix and player and a heap context, primes the player's   *)
(* queue by calling bufferCallback itself, and returns; from then on the   *)
(* callback, on a thread of OpenSL ES, reads the next block of the file    *)
(* into the one buffer and queues it, and at the end of the file destroys  *)
(* everything, the context it was called with included.                    *)
(***************************************************************************)
EXTENDS Naturals, Sequences

CONSTANT Blocks   \* blocks of the file (bounds the model)

\* The setup, in order; each step may fail.
Steps == <<"createEngine", "realizeEngine", "engineInterface", "createMix", "realizeMix",
           "createPlayer", "configInterface", "setConfig", "realizePlayer",
           "playInterface", "queueInterface", "register", "setPlaying">>

Objects == {"engine", "mix", "player", "context", "fd"}

VARIABLES
  pc,        \* the caller: "setup", "prime", "duration", "error" or "returned"
  step,      \* the next of Steps
  live,      \* what exists; "fd" is the duplicated descriptor
  left,      \* blocks not read yet
  buffer,    \* the block in the context's buffer (0: none)
  queued,    \* the buffer is queued with the player
  playing,   \* SL_PLAYSTATE_PLAYING
  posted,    \* a callback is due
  heard,     \* the blocks played
  stalled,   \* Enqueue failed, or a read failed in mid-file (history)
  touched    \* dead objects that were used

vars == <<pc, step, live, left, buffer, queued, playing, posted, heard, stalled, touched>>

Init ==
  /\ pc = "setup" /\ step = 1
  /\ live = {}
  /\ left \in 0 .. Blocks
  /\ buffer = 0
  /\ queued = FALSE /\ playing = FALSE /\ posted = FALSE
  /\ heard = << >>
  /\ stalled = FALSE
  /\ touched = {}

Use(objects) == touched' = touched \union (objects \ live)

-----------------------------------------------------------------------------
(* The caller's thread.                                                    *)

Created(name) ==
  CASE name = "createEngine" -> {"engine"}
    [] name = "createMix" -> {"mix"}
    [] name = "createPlayer" -> {"player"}
    [] name = "queueInterface" -> {"context", "fd"}   \* new PlaybackContext follows it
    [] OTHER -> {}

Step ==
  /\ pc = "setup"
  /\ IF step = Len(Steps) THEN pc' = "prime" /\ step' = step
                         ELSE step' = step + 1 /\ pc' = pc
  /\ live' = live \union Created(Steps[step])
  /\ playing' = (Steps[step] = "setPlaying")
  /\ UNCHANGED <<left, buffer, queued, posted, heard, stalled, touched>>

\* Without an engine there is nothing to clean up.
StepFails ==
  /\ pc = "setup"
  /\ pc' = IF Steps[step] = "createEngine" THEN "returned" ELSE "error"
  /\ UNCHANGED <<step, live, left, buffer, queued, playing, posted, heard, stalled, touched>>

\* What the error path destroys.
ReleasedOnError == {"context", "player", "mix", "engine"}

Error ==
  /\ pc = "error"
  /\ live' = live \ ReleasedOnError
  /\ pc' = "returned"
  /\ UNCHANGED <<step, left, buffer, queued, playing, posted, heard, stalled, touched>>

\* bufferCallback: read a block and queue it; Enqueue may fail, which is only logged;
\* nothing read, or an error, ends the playback and destroys everything.
Feed ==
  \/ /\ left > 0
     /\ left' = left - 1
     /\ buffer' = buffer + 1
     /\ \/ queued' = TRUE /\ UNCHANGED stalled
        \/ stalled' = TRUE /\ UNCHANGED queued
     /\ UNCHANGED live
  \/ /\ live' = {}
     /\ stalled' = (stalled \/ left > 0)
     /\ UNCHANGED <<left, buffer, queued>>

\* Mutant of Prime: two buffers are declared (numBuffers = 2), so the caller feeds twice.
PrimeTwice ==
  /\ pc = "prime"
  /\ pc' \in {"prime", "duration"}
  /\ Use({"context", "player"})
  /\ Feed
  /\ UNCHANGED <<step, playing, posted, heard>>

\* "the first frame must be fed": the caller runs the callback itself.
Prime ==
  /\ pc = "prime"
  /\ pc' = "duration"
  /\ Use({"context", "player"})
  /\ Feed
  /\ UNCHANGED <<step, playing, posted, heard>>

\* GetDuration on the player, whatever the callback did meanwhile.
Duration ==
  /\ pc = "duration"
  /\ pc' = "returned"
  /\ Use({"player"})
  /\ UNCHANGED <<step, live, left, buffer, queued, playing, posted, heard, stalled>>

-----------------------------------------------------------------------------
(* OpenSL ES.                                                              *)

Play ==
  /\ queued /\ playing
  /\ heard' = Append(heard, buffer)
  /\ queued' = FALSE
  /\ posted' = TRUE
  /\ UNCHANGED <<pc, step, live, left, buffer, playing, stalled, touched>>

Callback ==
  /\ posted
  /\ posted' = FALSE
  /\ Use({"context", "player"})
  /\ Feed
  /\ UNCHANGED <<pc, step, playing, heard>>

Next == Step \/ StepFails \/ Error \/ Prime \/ Duration \/ Play \/ Callback

Spec == Init /\ [][Next]_vars

\* The caller's thread runs and the player plays and calls back.
Fairness ==
  /\ WF_vars(Step \/ Error \/ Prime \/ Duration)
  /\ WF_vars(Play) /\ WF_vars(Callback)

FairSpec == Spec /\ Fairness

-----------------------------------------------------------------------------
(* Properties.                                                             *)

TypeOK ==
  /\ pc \in {"setup", "prime", "duration", "error", "returned"} /\ step \in DOMAIN Steps
  /\ live \subseteq Objects /\ touched \subseteq Objects
  /\ left \in 0 .. Blocks /\ buffer \in 0 .. Blocks
  /\ queued \in BOOLEAN /\ playing \in BOOLEAN /\ posted \in BOOLEAN /\ stalled \in BOOLEAN
  /\ heard \in Seq(1 .. Blocks)

\* A callback that is due, and a buffer that is queued, still have all their objects,
\* and never is one due while the other is queued: the callback that destroys the
\* objects is the last one there can be.
CallbackHasContext ==
  /\ queued \/ posted => live = Objects
  /\ ~(queued /\ posted)

\* A failed setup leaves nothing behind but the duplicated descriptor.
ErrorLeavesOnlyFd == pc = "returned" /\ ~playing => live \subseteq {"fd"}

\* The one use of dead objects the code allows: GetDuration after the priming call,
\* when the playback is already over.
DeadPlayerOnlyByDuration == touched # {} => pc = "returned" /\ playing /\ live = {}

\* What a callback uses is there, what a failed setup made is not, and nothing dead is
\* used but the player of a playback that is over.
ContextSafe ==
  TypeOK /\ CallbackHasContext /\ ErrorLeavesOnlyFd /\ DeadPlayerOnlyByDuration

\* The file is heard in order and without gaps, and to its end before the objects go
\* away, unless a read or Enqueue failed.
HeardToTheEnd ==
  /\ heard = [i \in 1 .. Len(heard) |-> i]
  /\ playing /\ live = {} /\ ~stalled => left = 0 /\ ~queued /\ Len(heard) = buffer

\* Whatever was started is destroyed in the end, unless Enqueue failed: then no
\* callback ever comes again.
Released == playing ~> live = {} \/ stalled
=============================================================================
