---------------------------- MODULE SlesRecorder ----------------------------
(***************************************************************************)
(* OpenSLESRecorder of OpenSLLearn. The constructor opens the microphone   *)
(* step by step, starts it and calls recordCallback itself; from then on   *)
(* OpenSL ES fills the one buffer and calls recordCallback on its thread,  *)
(* which queues the buffer again BEFORE it writes it to pcm.pcm. The       *)
(* destructor stops the recorder, deletes the context the callback uses,   *)
(* and destroys the OpenSL ES objects.                                     *)
(***************************************************************************)
EXTENDS Naturals, Sequences, FiniteSets

CONSTANTS
  MaxChunks,     \* chunks the microphone delivers (bounds the model)
  NumBuffers     \* buffers OpenSL ES takes: numBuffers in the code

VARIABLES
  pc,          \* where the caller of new / delete is
  step,        \* the next step of the constructor
  live,        \* the objects that exist
  recording,   \* SL_RECORDSTATE_RECORDING
  queued,      \* how many times the buffer is queued
  filled,      \* chunks recorded so far; the buffer holds the last one
  called,      \* callbacks run so far on the thread of OpenSL ES
  cb,          \* that thread: "idle", "enqueue" or "write"
  file,        \* pcm.pcm: chunk numbers, 0 for the buffer of zeros
  overtaken,   \* a chunk was recorded over one not written yet (history)
  late,        \* callbacks that used the deleted context
  dead         \* "no", or an exception left a callback and the process is gone: the queue
               \* was "full", or a call was "refused" for a reason of OpenSL ES

vars == <<pc, step, live, recording, queued, filled, called, cb, file, overtaken, late, dead>>
opensl == <<filled, called, cb, late>>

Steps == <<"engine", "realizeEngine", "engineInterface", "recorder", "realizeRecorder",
           "recordInterface", "queueInterface", "file", "register", "record">>

Objects == {"engine", "recorder", "file", "context"}

Init ==
  /\ pc = "construct" /\ step = 1
  /\ live = {} /\ recording = FALSE
  /\ queued = 0 /\ filled = 0 /\ called = 0
  /\ cb = "idle"
  /\ file = << >>
  /\ overtaken = FALSE /\ late = {} /\ dead = "no"

Created(name) ==
  CASE name = "engine" -> {"engine"}
    [] name = "recorder" -> {"recorder"}
    [] name = "file" -> {"file", "context"}
    [] OTHER -> {}

-----------------------------------------------------------------------------
(* The caller: getRecorder.                                                *)

\* The step that starts the microphone.
StartsAt(name) == name = "record"

Construct ==
  /\ pc = "construct" /\ dead = "no"
  /\ IF step = Len(Steps) THEN pc' = "primeEnqueue" /\ step' = step
                         ELSE step' = step + 1 /\ pc' = pc
  /\ live' = live \union Created(Steps[step])
  /\ recording' = StartsAt(Steps[step])
  /\ UNCHANGED <<queued, file, overtaken, dead>> /\ UNCHANGED opensl

\* A failing step throws; getRecorder's delete finds a null pointer, and nothing of
\* what exists is destroyed.
ConstructFails ==
  /\ pc = "construct" /\ dead = "no"
  /\ pc' = "failed"
  /\ UNCHANGED <<step, live, recording, queued, file, overtaken, dead>> /\ UNCHANGED opensl

\* The constructor calls recordCallback itself: it queues the buffer ...
PrimeEnqueueTwice ==
  /\ pc = "primeEnqueue" /\ dead = "no"
  /\ queued' = queued + 2
  /\ pc' = "primeWrite"
  /\ UNCHANGED <<step, live, recording, file, overtaken, dead>> /\ UNCHANGED opensl
PrimeEnqueue ==
  /\ pc = "primeEnqueue" /\ dead = "no"
  /\ queued' = queued + 1
  /\ pc' = "primeWrite"
  /\ UNCHANGED <<step, live, recording, file, overtaken, dead>> /\ UNCHANGED opensl

\* ... and writes it, whatever is in it by now.
PrimeWrite ==
  /\ pc = "primeWrite" /\ dead = "no"
  /\ file' = Append(file, filled)
  /\ pc' = "open"
  /\ UNCHANGED <<step, live, recording, queued, overtaken, dead>> /\ UNCHANGED opensl

\* GetRecordState or Enqueue fails in that call: the constructor throws, with the
\* microphone on and nothing queued for it.
PrimeFails ==
  /\ pc = "primeEnqueue" /\ dead = "no"
  /\ pc' = "failed"
  /\ UNCHANGED <<step, live, recording, queued, file, overtaken, dead>> /\ UNCHANGED opensl

-----------------------------------------------------------------------------
(* The caller: releaseRecorder, one action per step of the destructor.     *)

\* Mutant of Stop: the context goes first.
StopAfterDelete ==
  /\ pc = "open" /\ dead = "no"
  /\ live' = live \ {"file", "context"}
  /\ pc' = "stopped"
  /\ UNCHANGED <<step, recording, queued, file, overtaken, dead>> /\ UNCHANGED opensl
Stop ==
  /\ pc = "open" /\ dead = "no"
  /\ recording' = FALSE
  /\ pc' = "stopped"
  /\ UNCHANGED <<step, live, queued, file, overtaken, dead>> /\ UNCHANGED opensl

DeleteContext ==
  /\ pc = "stopped" /\ dead = "no"
  /\ live' = live \ {"file", "context"}
  /\ pc' = "deleted"
  /\ UNCHANGED <<step, recording, queued, file, overtaken, dead>> /\ UNCHANGED opensl

\* Destroy waits for a callback that runs and drops one that is due.
Destroy ==
  /\ pc = "deleted" /\ dead = "no"
  /\ cb = "idle"
  /\ called' = filled
  /\ live' = {}
  /\ queued' = 0
  /\ pc' = "released"
  /\ UNCHANGED <<step, recording, filled, cb, file, overtaken, late, dead>>

-----------------------------------------------------------------------------
(* OpenSL ES and recordCallback on its thread.                             *)

Due == called < filled

\* The microphone fills a queued buffer and a callback is due.
Fill ==
  /\ recording /\ queued > 0 /\ filled < MaxChunks /\ dead = "no"
  /\ filled' = filled + 1
  /\ queued' = queued - 1
  /\ overtaken' = (overtaken \/ cb = "write" \/ pc = "primeWrite")
  /\ UNCHANGED <<pc, step, live, recording, called, cb, file, late, dead>>

UseContext == late' = IF "context" \in live THEN late ELSE late \union {called'}

\* The callback looks at the state of the recorder ...
CallbackIgnoresState ==
  /\ cb = "idle" /\ Due /\ dead = "no"
  /\ called' = called + 1
  /\ UseContext
  /\ cb' = IF queued = 0 THEN "idle" ELSE "enqueue"
  /\ UNCHANGED <<pc, step, live, recording, queued, filled, file, overtaken, dead>>
CallbackStarts ==
  /\ cb = "idle" /\ Due /\ dead = "no"
  /\ called' = called + 1
  /\ UseContext
  /\ cb' = IF recording THEN "enqueue" ELSE "idle"
  /\ UNCHANGED <<pc, step, live, recording, queued, filled, file, overtaken, dead>>

\* ... queues the buffer again, and throws if OpenSL ES takes no more ...
CallbackEnqueues ==
  /\ cb = "enqueue" /\ dead = "no"
  /\ called' = called
  /\ UseContext
  /\ IF queued < NumBuffers
     THEN queued' = queued + 1 /\ cb' = "write" /\ dead' = dead
     ELSE dead' = "full" /\ UNCHANGED <<queued, cb>>
  /\ UNCHANGED <<pc, step, live, recording, filled, file, overtaken>>

\* ... and writes it.
CallbackWrites ==
  /\ cb = "write" /\ dead = "no"
  /\ called' = called
  /\ UseContext
  /\ file' = IF "file" \in live THEN Append(file, filled) ELSE file
  /\ cb' = "idle"
  /\ UNCHANGED <<pc, step, live, recording, queued, filled, overtaken, dead>>

\* GetRecordState or Enqueue fails: the callback throws through OpenSL ES.
CallbackRefused ==
  /\ dead = "no" /\ dead' = "refused"
  /\ \/ cb = "idle" /\ Due /\ called' = called + 1
     \/ cb = "enqueue" /\ called' = called
  /\ UseContext
  /\ UNCHANGED <<pc, step, live, recording, queued, filled, cb, file, overtaken>>

Next ==
  \/ Construct \/ ConstructFails \/ PrimeEnqueue \/ PrimeFails \/ PrimeWrite
  \/ Stop \/ DeleteContext \/ Destroy
  \/ Fill \/ CallbackStarts \/ CallbackEnqueues \/ CallbackWrites
  \/ CallbackRefused

Spec == Init /\ [][Next]_vars

-----------------------------------------------------------------------------
(* Properties.                                                             *)

TypeOK ==
  /\ pc \in {"construct", "failed", "primeEnqueue", "primeWrite", "open", "stopped",
             "deleted", "released"}
  /\ step \in DOMAIN Steps
  /\ live \subseteq Objects
  /\ recording \in BOOLEAN /\ overtaken \in BOOLEAN
  /\ dead \in {"no", "full", "refused"}
  /\ queued \in 0 .. NumBuffers
  /\ filled \in 0 .. MaxChunks /\ called \in 0 .. filled
  /\ cb \in {"idle", "enqueue", "write"}
  /\ file \in Seq(0 .. MaxChunks)
  /\ late \subseteq 1 .. MaxChunks

\* There is one buffer: it is queued, or with a callback that has not queued it yet,
\* never both. So Enqueue never meets a full queue, which would end the process.
OneBufferOutstanding ==
  dead # "full" /\ queued + (filled - called) + (IF cb = "enqueue" THEN 1 ELSE 0) <= 1

\* A failed construction leaks what it made. It leaves the microphone on if it was the
\* constructor's own callback that threw, all the rest being set up, but even then nothing
\* is recorded into what leaked.
FailedRecordsNothing ==
  pc = "failed" =>
    /\ recording => live = Objects
    /\ queued = 0 /\ filled = 0 /\ file = << >>

\* If no chunk is recorded over one not yet written, the file is the recording: the
\* buffer of zeros from the constructor's own call, then every chunk once, in order.
\* No callback is dropped while the file is open and the process lives.
FileFaithfulUnlessOvertaken ==
  /\ ~overtaken => file = [i \in 1 .. Len(file) |-> i - 1]
  /\ pc = "open" /\ cb = "idle" /\ dead = "no" => Len(file) = called + 1

\* Two callbacks at most find their context deleted: the one that runs and the one that
\* is due when delete begins.
TwoLateCallbacks == Cardinality(late) <= 2

\* No callback is thrown out of by a full queue, a failed creation records nothing, and a
\* delete meets two callbacks at most.
QueueSafe == TypeOK /\ OneBufferOutstanding /\ FailedRecordsNothing /\ TwoLateCallbacks

\* The destructor stops the microphone before it frees the buffer: nothing is recorded
\* into freed memory.
NoFillAfterFree == [][filled' # filled => "context" \in live]_vars
=============================================================================
