------------------------- MODULE AudioRecordManager -------------------------
(***************************************************************************)
(* AudioRecordManager of HelloKtorfit: startRecord2 runs on an IO thread,  *)
(* starts the microphone, opens hello1.pcm and copies what it reads until  *)
(* a read returns nothing. Nothing there suspends, so that a cancelled     *)
(* coroutine goes on. stopRecord only turns the microphone off. Every      *)
(* visit of the screen makes a manager; all of them write one file, which  *)
(* opening truncates, each recording at its own position.                  *)
(***************************************************************************)
EXTENDS Naturals, Sequences

CONSTANTS
  Managers,    \* one for each visit of the screen
  Recordings,  \* the calls of startRecord2
  MaxChunks    \* chunks a microphone delivers (bounds the model)

ASSUME ManagersAssumption == Managers \subseteq Nat /\ 1 \in Managers
ASSUME RecordingsAssumption == Recordings \subseteq Nat
ASSUME ChunksAssumption == MaxChunks \in Nat

VARIABLES
  recording,   \* managers whose AudioRecord is RECORDSTATE_RECORDING
  taken,       \* chunks read from each AudioRecord
  phase,       \* where each call is
  manager,     \* the manager it was made on
  held,        \* the chunk it has read and not written
  offset,      \* its position in the file
  file,        \* hello1.pcm: <<manager, chunk>>, or Hole
  overlapped   \* the file was opened while another call had it open (history)

managerVars == <<recording, taken, phase, manager, held, offset, file, overlapped>>

Hole == <<0, 0>>

Active == {"launched", "opening", "reading", "holding"}
\* How a call ends: without data left, without a stream, after a read that failed, by
\* an exception, or cancelled before it began.
Over == {"ended", "noStream", "readFailed", "threw", "cancelled"}
Writing == {r \in Recordings : phase[r] \in {"reading", "holding"}}

InitManagers ==
  /\ recording = {} /\ taken = [m \in Managers |-> 0]
  /\ phase = [r \in Recordings |-> "idle"]
  /\ manager = [r \in Recordings |-> 0]
  /\ held = [r \in Recordings |-> 0] /\ offset = [r \in Recordings |-> 0]
  /\ file = << >> /\ overlapped = FALSE

Goto(r, p) == phase' = [phase EXCEPT ![r] = p]

-----------------------------------------------------------------------------
(* startRecord2.                                                           *)

\* Called from a coroutine of the main thread, which has yet to dispatch it.
Launch(r, m) ==
  /\ phase[r] = "idle"
  /\ Goto(r, "launched")
  /\ manager' = [manager EXCEPT ![r] = m]
  /\ UNCHANGED <<recording, taken, held, offset, file, overlapped>>

\* The coroutines of m are cancelled: only those that have not begun notice.
CancelOf(m) ==
  /\ phase' = [r \in Recordings |->
       IF phase[r] = "launched" /\ manager[r] = m THEN "cancelled" ELSE phase[r]]
  /\ UNCHANGED <<recording, taken, manager, held, offset, file, overlapped>>

StartRecording(r) ==
  /\ phase[r] = "launched"
  /\ recording' = recording \union {manager[r]}
  /\ Goto(r, "opening")
  /\ UNCHANGED <<taken, manager, held, offset, file, overlapped>>

OpenFile(r) ==
  /\ phase[r] = "opening"
  /\ file' = << >>
  /\ offset' = [offset EXCEPT ![r] = 0]
  /\ overlapped' = (Writing # {})
  /\ Goto(r, "reading")
  /\ UNCHANGED <<recording, taken, manager, held>>

\* openOutputStream returns null: ?.use is passed over.
NoStream(r) ==
  /\ phase[r] = "opening"
  /\ Goto(r, "noStream")
  /\ UNCHANGED <<recording, taken, manager, held, offset, file, overlapped>>

\* Mutant of Read: the loop ends while the recorder is on.
ReadEndsEarly(r) ==
  /\ phase[r] = "reading"
  /\ Goto(r, "ended")
  /\ UNCHANGED <<recording, taken, manager, held, offset, file, overlapped>>
\* read blocks for the next chunk; of a stopped recorder it returns 0.
Read(r) ==
  /\ phase[r] = "reading"
  /\ IF manager[r] \in recording
     THEN /\ taken[manager[r]] < MaxChunks
          /\ taken' = [taken EXCEPT ![manager[r]] = @ + 1]
          /\ held' = [held EXCEPT ![r] = taken'[manager[r]]]
          /\ Goto(r, "holding")
     ELSE Goto(r, "ended") /\ UNCHANGED <<taken, held>>
  /\ UNCHANGED <<recording, manager, offset, file, overlapped>>

ReadFails(r) ==
  /\ phase[r] = "reading"
  /\ Goto(r, "readFailed")
  /\ UNCHANGED <<recording, taken, manager, held, offset, file, overlapped>>

\* A chunk written at a position: beyond the end, it leaves a hole before it.
Put(f, at, chunk) ==
  [i \in 1 .. IF at > Len(f) THEN at ELSE Len(f) |->
     CASE i = at -> chunk [] i # at /\ i <= Len(f) -> f[i] [] OTHER -> Hole]

Write(r) ==
  /\ phase[r] = "holding"
  /\ file' = Put(file, offset[r] + 1, <<manager[r], held[r]>>)
  /\ offset' = [offset EXCEPT ![r] = @ + 1]
  /\ Goto(r, "reading")
  /\ UNCHANGED <<recording, taken, manager, held, overlapped>>

\* AudioRecord cannot be built or started, the file not opened or not written.
Throws(r) ==
  /\ phase[r] \in {"launched", "opening", "holding"}
  /\ Goto(r, "threw")
  /\ UNCHANGED <<recording, taken, manager, held, offset, file, overlapped>>

-----------------------------------------------------------------------------

StopRecord(m) ==
  /\ recording' = recording \ {m}
  /\ UNCHANGED <<taken, phase, manager, held, offset, file, overlapped>>

-----------------------------------------------------------------------------
(* Properties.                                                             *)

TypeOKManagers ==
  /\ recording \subseteq Managers
  /\ taken \in [Managers -> 0 .. MaxChunks]
  /\ phase \in [Recordings -> {"idle"} \union Active \union Over]
  /\ manager \in [Recordings -> Managers \union {0}]
  /\ held \in [Recordings -> 0 .. MaxChunks] /\ offset \in [Recordings -> Nat]
  /\ file \in Seq((Managers \X (1 .. MaxChunks)) \union {Hole})
  /\ overlapped \in BOOLEAN

CallsOf(m) == {r \in Recordings : manager[r] = m}

\* A microphone that is on is read, or being started, by a call of its manager, unless
\* one of them found no stream, could not read or threw: the file is opened only after
\* the microphone is started, and nothing turns it off again.
MicrophoneIsRead ==
  \A m \in recording : \E r \in CallsOf(m) :
    phase[r] \in (Active \ {"launched"}) \union {"noStream", "readFailed", "threw"}

\* A file that was not opened over another open call is one recording: the chunks of
\* one microphone, one after the other, none missing or twice.
FileIsOneRecording ==
  ~overlapped => \A i \in 1 .. Len(file) :
    /\ file[i] = <<file[1][1], file[1][2] + i - 1>>
    /\ file[i] # Hole
=============================================================================
