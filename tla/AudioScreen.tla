---------------------------- MODULE AudioScreen ----------------------------
(***************************************************************************)
(* AudioScreen of HelloKtorfit: four buttons over an AudioRecordManager    *)
(* and an AudioTrackManager, and ten volume bars. A press of "record"      *)
(* launches a consumer and a recording joined by a rendezvous channel: the *)
(* recording offers a volume for every chunk with trySend, which the       *)
(* channel refuses unless the consumer waits for it. The consumers add the *)
(* volumes up in two variables of the file, not of the screen, and show an *)
(* average for every WINDOWS_SIZE of them. Leaving the screen cancels its  *)
(* coroutines; the next visit starts with new managers and empty bars.     *)
(***************************************************************************)
EXTENDS AudioRecordManager, AudioTrackManager, SequencesExt

CONSTANTS
  Presses,   \* presses of "record" and "play" (bounds the model)
  Window,    \* WINDOWS_SIZE
  Bars       \* BAR_SIZE

ASSUME WindowAssumption == Window \in Nat \ {0}
ASSUME BarsAssumption == Bars \in Nat \ {0} /\ Bars % 2 = 0

VARIABLES
  granted,   \* the permissions granted so far
  visit,     \* which visit of the screen it is; its recorder is Managers' member
  shown,     \* the screen is shown
  dead,      \* an exception ended the process
  consumer,  \* the consumer of each recording's channel
  received,  \* the volume it was handed and has not looked at
  window,    \* percentSum and windowSize: the volumes added up so far
  volumes,   \* the bars: what each is the average of
  averages   \* the averages shown in this visit (history)

screenVars == <<granted, visit, shown, dead>>
barVars == <<consumer, received, window, volumes, averages>>
vars == <<managerVars, trackVars, screenVars, barVars>>

Permissions == {"RECORD_AUDIO", "WRITE_EXTERNAL_STORAGE"}
Silent == << >>
Middle == Bars \div 2

Init ==
  /\ InitManagers /\ InitTrack
  /\ granted \in SUBSET Permissions
  /\ visit = 1 /\ shown = TRUE /\ dead = FALSE
  /\ consumer = [r \in Recordings |-> "none"]
  /\ received = [r \in Recordings |-> << >>]
  /\ window = << >>
  /\ volumes = [i \in 0 .. Bars - 1 |-> Silent]
  /\ averages = << >>

-----------------------------------------------------------------------------
(* The buttons (main thread).                                              *)

Pressed == Cardinality({r \in Recordings : phase[r] # "idle"})
           + Cardinality({p \in Plays : playPhase[p] # "idle"})
CanPress == shown /\ ~dead

\* Without the permissions a press only asks for them, and some are granted.
Grant ==
  /\ CanPress
  /\ \E more \in SUBSET (Permissions \ granted) : more # {} /\ granted' = granted \union more
  /\ UNCHANGED <<visit, shown, dead, managerVars, trackVars, barVars>>

PressRecord(r) ==
  /\ CanPress /\ granted = Permissions /\ Pressed < Presses
  /\ \A q \in Recordings : q < r => phase[q] # "idle"
  /\ Launch(r, visit)
  /\ consumer' = [consumer EXCEPT ![r] = "launched"]
  /\ UNCHANGED <<screenVars, trackVars, received, window, volumes, averages>>

\* stopRecord throws without the permission to record.
PressStop ==
  /\ CanPress
  /\ IF "RECORD_AUDIO" \in granted
     THEN StopRecord(visit) /\ UNCHANGED dead
     ELSE UNCHANGED managerVars /\ dead' = TRUE
  /\ UNCHANGED <<granted, visit, shown, trackVars, barVars>>

\* Every visit has a player of its own, which no other shares anything with: the model
\* has the player of the first.
PressPlay(p) ==
  /\ CanPress /\ visit = 1 /\ Pressed < Presses
  /\ \A q \in Plays : q < p => playPhase[q] # "idle"
  /\ LaunchPlay(p)
  /\ UNCHANGED <<screenVars, managerVars, barVars>>

PressPause ==
  /\ CanPress /\ visit = 1
  /\ PauseTrack
  /\ UNCHANGED <<screenVars, managerVars, barVars>>

\* The scope is cancelled: the consumers end, and what has not begun.
Leave ==
  /\ CanPress
  /\ shown' = FALSE
  /\ CancelOf(visit)
  /\ CancelPlays
  /\ consumer' = [r \in Recordings |->
       IF consumer[r] = "none" THEN "none" ELSE "cancelled"]
  /\ received' = [r \in Recordings |-> << >>]
  /\ UNCHANGED <<granted, visit, dead, window, volumes, averages>>

\* The next visit.
Return ==
  /\ ~shown /\ ~dead /\ visit + 1 \in Managers
  /\ visit' = visit + 1 /\ shown' = TRUE
  /\ volumes' = [i \in 0 .. Bars - 1 |-> Silent]
  /\ averages' = << >>
  /\ UNCHANGED <<granted, dead, managerVars, trackVars, consumer, received, window>>

-----------------------------------------------------------------------------
(* The bars (main thread).                                                 *)

Listen(r) ==
  /\ consumer[r] = "launched" /\ ~dead
  /\ consumer' = [consumer EXCEPT ![r] = "waiting"]
  /\ UNCHANGED <<screenVars, managerVars, trackVars, received, window, volumes, averages>>

\* The loop that moves the bars outwards, in place. The mutant goes the other way.
MoveAt(v, i) ==
  LET w == [v EXCEPT ![i - 1] = v[i]] IN [w EXCEPT ![Bars - i] = w[Bars - 1 - i]]
MovedFromMiddle ==
  LET f[i \in 1 .. Middle + 1] == IF i = Middle + 1 THEN volumes ELSE MoveAt(f[i + 1], i)
  IN  f[1]
Moved ==
  LET f[i \in 0 .. Middle] == IF i = 0 THEN volumes ELSE MoveAt(f[i - 1], i)
  IN  f[Middle]

\* A volume is added; the last one of a window moves the bars and shows the average.
Show(r) ==
  /\ consumer[r] = "received" /\ ~dead
  /\ LET sum == Append(window, received[r])
     IN  IF Len(sum) >= Window
         THEN /\ volumes' = [Moved EXCEPT ![Middle] = sum]
              /\ averages' = Append(averages, sum)
              /\ window' = << >>
         ELSE window' = sum /\ UNCHANGED <<volumes, averages>>
  /\ consumer' = [consumer EXCEPT ![r] = "waiting"]
  /\ received' = [received EXCEPT ![r] = << >>]
  /\ UNCHANGED <<screenVars, managerVars, trackVars>>

-----------------------------------------------------------------------------
(* The coroutines on their IO threads.                                     *)

\* channel.trySend(percent)
TrySend(r, percent) ==
  IF consumer[r] = "waiting"
  THEN /\ consumer' = [consumer EXCEPT ![r] = "received"]
       /\ received' = [received EXCEPT ![r] = percent]
  ELSE UNCHANGED <<consumer, received>>

WriteAndSend(r) ==
  /\ ~dead
  /\ Write(r)
  /\ TrySend(r, <<r, held[r]>>)
  /\ UNCHANGED <<screenVars, trackVars, window, volumes, averages>>

Record(r) ==
  /\ ~dead
  /\ StartRecording(r) \/ OpenFile(r) \/ Read(r)
  /\ UNCHANGED <<screenVars, trackVars, barVars>>

RecordEnds(r) ==
  /\ ~dead
  /\ NoStream(r) \/ ReadFails(r)
  /\ UNCHANGED <<screenVars, trackVars, barVars>>

\* An exception in a coroutine ends the process; that of a cancelled one may be lost.
Dies(of) == dead' = TRUE \/ ((~shown \/ of # visit) /\ UNCHANGED dead)

RecordThrows(r) ==
  /\ ~dead
  /\ Throws(r)
  /\ Dies(manager[r])
  /\ UNCHANGED <<granted, visit, shown, trackVars, barVars>>

Play(p) ==
  /\ ~dead
  /\ PlayStep(p)
  /\ UNCHANGED <<screenVars, managerVars, barVars>>

PlayCut(p) ==
  /\ ~dead
  /\ WriteFails(p)
  /\ UNCHANGED <<screenVars, managerVars, barVars>>

PlayDies(p) ==
  /\ ~dead
  /\ PlayThrows(p)
  /\ Dies(1)
  /\ UNCHANGED <<granted, visit, shown, managerVars, barVars>>

Hear ==
  /\ ~dead
  /\ Sound
  /\ UNCHANGED <<screenVars, managerVars, barVars>>

Buttons ==
  \/ Grant \/ PressStop \/ PressPause \/ Leave \/ Return
  \/ \E r \in Recordings : PressRecord(r)
  \/ \E p \in Plays : PressPlay(p)

Next ==
  \/ Buttons \/ Hear
  \/ \E r \in Recordings :
       Listen(r) \/ Show(r) \/ Record(r) \/ WriteAndSend(r) \/ RecordEnds(r) \/ RecordThrows(r)
  \/ \E p \in Plays : Play(p) \/ PlayCut(p) \/ PlayDies(p)

Spec == Init /\ [][Next]_vars

\* The main thread and the IO threads run, and the track plays what it has. Nobody
\* has to press a button.
Fairness ==
  /\ WF_vars(Hear)
  /\ \A r \in Recordings :
       WF_vars(Record(r)) /\ WF_vars(WriteAndSend(r)) /\ WF_vars(Listen(r) \/ Show(r))
  /\ \A p \in Plays : WF_vars(Play(p))

-----------------------------------------------------------------------------
(* Properties.                                                             *)

TypeOK ==
  /\ TypeOKManagers /\ TypeOKTrack
  /\ granted \subseteq Permissions /\ visit \in Managers /\ shown \in BOOLEAN /\ dead \in BOOLEAN
  /\ consumer \in [Recordings -> {"none", "launched", "waiting", "received", "cancelled"}]
  /\ received \in [Recordings -> Seq(Nat)]
  /\ window \in Seq(Seq(Nat)) /\ Len(window) < Window
  /\ volumes \in [0 .. Bars - 1 -> Seq(Seq(Nat))]
  /\ averages \in Seq(Seq(Seq(Nat)))

\* Whatever is pressed, and however often: a microphone that is on is read, and a file
\* nobody opened over another call is one recording.
RecordingSafe == TypeOK /\ (dead \/ MicrophoneIsRead) /\ FileIsOneRecording

\* The bars show the last averages of this visit, the newest in the middle and older
\* ones outwards on both sides, although the loop moves them in place.
BarsShowHistory ==
  LET ago(n) == IF n < Len(averages) THEN averages[Len(averages) - n] ELSE Silent
  IN  /\ \A n \in 0 .. Middle : volumes[Middle - n] = ago(n)
      /\ \A n \in 0 .. Middle - 1 : volumes[Middle + n] = ago(n)

\* Volumes are lost when the consumer is busy, but those of a recording are shown in
\* the order they were measured and none twice.
VolumesInOrder ==
  \A i, k \in DOMAIN averages : \A a \in DOMAIN averages[i], b \in DOMAIN averages[k] :
    (i < k \/ (i = k /\ a < b)) /\ averages[i][a][1] = averages[k][b][1]
      => averages[i][a][2] < averages[k][b][2]

BarsRight == BarsShowHistory /\ VolumesInOrder

\* A microphone that is turned off and not on again is read no more: its calls end, with
\* the file closed. (A microphone left behind on is read for ever: no button reaches it.)
StoppedRecordingsEnd ==
  \A m \in Managers :
    <>[](m \notin recording) =>
      <>[](dead \/ \A r \in CallsOf(m) : phase[r] \notin Active)

\* Every call of startPlay ends, also one on a track that was paused and is never
\* started again; and if the track was never paused nor a write failed, the whole file
\* is heard by then or later.
PlaysEnd ==
  \A p \in Plays :
    playPhase[p] = "launched" ~>
      \/ dead \/ playPhase[p] \in {"noStream", "threw", "cancelled"}
      \/ playPhase[p] = "ended" /\ (everPaused \/ p \in cut \/ Contains(heard, <<p, PcmLength>>))

\* No call of either manager runs for ever on a thread of the IO dispatcher, but those
\* on a microphone nobody turned off.
CallsEnd == StoppedRecordingsEnd /\ PlaysEnd
=============================================================================
