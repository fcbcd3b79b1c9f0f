------------------------- MODULE NativePlayersProofs -------------------------
(***************************************************************************)
(* Theorems about the native code of OpenSLLearn that plays, watches and   *)
(* records: SlesPlayer, the object and openSLESPlay, for all files,        *)
(* positions and widths of the sleep; PcmPlayback, openSLESPlayPCM, for    *)
(* files of any length; NdkCamera for any number of presses and of frames; *)
(* and SlesRecorder for any number of chunks and any length of the queue.  *)
(***************************************************************************)
EXTENDS MCNativePlayers, Integers, SequenceTheorems, FiniteSetTheorems, TLAPS

-----------------------------------------------------------------------------
(***************************************************************************)
(* SlesPlayer: the inductive invariant.                                    *)
(***************************************************************************)

\* Where openSLESPlay can be; and until the end the descriptor is open and nothing failed,
\* but the start of a sleep.
ModeInv ==
  /\ mode = "once" => pc \in {"new", "prefetch", "sleep", "done"}
  /\ mode = "object" => pc # "sleep"
  /\ pc # "done" => fdOpen /\ (failed => pc = "sleep")

\* A seek that is made is made to a position in the file.
TargetInv ==
  pc = "seek" => target \in Targets /\ (media.known /\ ~blind => target <= media.length)

\* openSLESPlay plays nothing before its sleep, and of that has slept what is not left.
OnceInv ==
  mode = "once" =>
    /\ pc \in {"new", "prefetch"} => head = 0 /\ state # "playing"
    /\ pc = "prefetch" => state = "paused"
    /\ pc \in {"new", "prefetch"} => slept = 0
    /\ pc = "sleep" /\ ~failed => slept + asleep = SleepsFor

PlayerInv ==
  /\ ModeInv /\ TargetInv /\ OnceInv
  /\ EndsClean /\ StopRewinds /\ HeadInFile /\ WaitedForTheFile

LEMMA MediaFacts ==
  ASSUME TypeOK
  PROVE  media.length \in Nat /\ media.known \in BOOLEAN /\ media.readable \in BOOLEAN
BY MediaAssumption DEF TypeOK

\* What a product loses when it does not wrap and is divided again: nothing.
LEMMA ProductInWord ==
  ASSUME NEW t \in Nat, NEW m \in Nat \ {0}, NEW w \in Nat, t * m < w
  PROVE  ((t * m) % w) \div m = t
<1>1. t * m \in Nat /\ (t * m) % w = t * m
  OBVIOUS
<1>2. (t * m) \div m = t
  OBVIOUS
<1> QED BY <1>1, <1>2

LEMMA QuotientType ==
  ASSUME NEW x \in Nat, NEW m \in Nat \ {0}
  PROVE  x \div m \in Nat
OBVIOUS

\* How long openSLESPlay sleeps.
LEMMA SleepFacts ==
  ASSUME TypeOK
  PROVE  /\ SleepsFor \in Nat
         /\ media.known /\ media.length * Micros < Word => SleepsFor = media.length
         /\ ~media.known => SleepsFor = Unknown
<1>1. \A t \in Nat : ((t * Micros) % Word) \div Micros \in Nat
  <2> TAKE t \in Nat
  <2>1. t * Micros \in Nat /\ Word \in Nat \ {0}
    BY SleepAssumption DEF Unknown
  <2>2. (t * Micros) % Word \in Nat
    BY <2>1
  <2> QED BY <2>2, QuotientType, SleepAssumption
<1>2. Unknown \in Nat
  BY DEF Unknown
<1>3. SleepsFor \in Nat
  BY <1>1, <1>2, MediaFacts DEF SleepsFor
<1>4. ASSUME media.known, media.length * Micros < Word PROVE SleepsFor = media.length
  BY <1>4, ProductInWord, MediaFacts, SleepAssumption DEF SleepsFor
<1>5. ASSUME ~media.known PROVE SleepsFor = Unknown
  BY <1>2, <1>5, ProductInWord, MediaFacts, SleepAssumption DEF SleepsFor
<1> QED BY <1>3, <1>4, <1>5

LEMMA PlayerInit == Init => TypeOK /\ PlayerInv
<1> SUFFICES ASSUME Init PROVE TypeOK /\ PlayerInv
  OBVIOUS
<1>1. TypeOK
  <2>1. calls \in 0 .. Calls /\ head \in Nat /\ asleep \in Nat
    BY CallsAssumption DEF Init
  <2> QED BY <2>1 DEF Init, TypeOK, Objects
<1>2. media.length \in Nat
  BY <1>1, MediaFacts
<1>3. PlayerInv
  BY <1>2 DEF Init, PlayerInv, ModeInv, TargetInv, OnceInv, EndsClean, StopRewinds, HeadInFile, WaitedForTheFile
<1> QED BY <1>1, <1>3

\* The calls made on the object: of openSLESPlay they say nothing.
LEMMA ObjectKeeps ==
  ASSUME TypeOK, PlayerInv,
         \/ Release \/ Pause \/ Stop \/ Play \/ PlaySets \/ GetDuration \/ Seek
         \/ DurationPauses \/ DurationReturns \/ DurationFails \/ SeekSets
  PROVE  TypeOK' /\ PlayerInv'
<1> USE MediaFacts, CallsAssumption, TargetsAssumption DEF input, objects, player
<1>1. /\ mode = "object" /\ pc \notin {"new", "done"} /\ mode' = mode /\ media' = media /\ canSeek' = canSeek
      /\ failed' = failed /\ ~failed /\ pc' # "sleep"
  BY DEF PlayerInv, ModeInv, Release, Pause, Stop, Play, PlaySets, GetDuration, Seek, DurationPauses,
     DurationReturns, DurationFails, SeekSets, Call, Return, TypeOK
<1>2. TypeOK'
  <2>1. CASE Release
    BY <2>1 DEF Release, TypeOK
  <2>2. CASE Pause
    BY <2>2 DEF Pause, Call, SetPlayState, TypeOK
  <2>3. CASE Stop
    <3>1. rewound' \in BOOLEAN /\ head' \in Nat /\ prefetch' \in BOOLEAN
          /\ state' \in {"stopped", "paused", "playing"}
      <4>1. CASE UNCHANGED <<player, rewound>>
        BY <4>1 DEF TypeOK
      <4>2. CASE state' = "stopped" /\ head' = 0 /\ prefetch' = FALSE /\ rewound' = TRUE
        BY <4>2
      <4> QED BY <2>3, <4>1, <4>2 DEF Stop
    <3> QED BY <2>3, <3>1 DEF Stop, Call, TypeOK
  <2>4. CASE Play \/ PlaySets
    <3>1. rewound' \in BOOLEAN
      BY <2>4 DEF Play, PlaySets, TypeOK
    <3>2. state' \in {"stopped", "paused", "playing"} /\ pc' \in {"idle", "play"}
      BY <2>4 DEF Play, PlaySets, Call, SetPlayState, TypeOK
    <3> QED BY <2>4, <3>1, <3>2 DEF Play, PlaySets, Call, TypeOK
  <2>5. CASE GetDuration \/ Seek
    BY <2>5 DEF GetDuration, Seek, Call, TypeOK
  <2>6. CASE DurationPauses
    BY <2>6 DEF DurationPauses, SetPlayState, TypeOK
  <2>7. CASE DurationReturns \/ DurationFails
    <3>1. PICK known \in BOOLEAN : Return(known)
      BY <2>7 DEF DurationReturns, DurationFails
    <3>2. pc' \in {"idle", "seek"} /\ blind' \in BOOLEAN
      BY <3>1 DEF Return, TypeOK
    <3> QED BY <3>1, <3>2 DEF Return, TypeOK
  <2>8. CASE SeekSets
    <3>1. target \in Nat
      BY <2>8 DEF SeekSets, PlayerInv, TargetInv
    <3>2. head' \in Nat /\ rewound' \in BOOLEAN
      BY <2>8, <3>1 DEF SeekSets, TypeOK
    <3> QED BY <2>8, <3>2 DEF SeekSets, TypeOK
  <2> QED BY <2>1, <2>2, <2>3, <2>4, <2>5, <2>6, <2>7, <2>8
<1>3. ModeInv' /\ EndsClean'
  BY <1>1 DEF PlayerInv, ModeInv, EndsClean, Release, Pause, Stop, Play, PlaySets, GetDuration, Seek,
     DurationPauses, DurationReturns, DurationFails, SeekSets, Call, Return
<1>4. StopRewinds'
  BY DEF PlayerInv, StopRewinds, Release, Pause, Stop, Play, PlaySets, GetDuration, Seek, DurationPauses,
     DurationReturns, DurationFails, SeekSets, Call, SetPlayState, Return, TypeOK
<1>5. HeadInFile'
  BY <1>1 DEF PlayerInv, TargetInv, HeadInFile, Release, Pause, Stop, Play, PlaySets, GetDuration, Seek,
     DurationPauses, DurationReturns, DurationFails, SeekSets, Call, SetPlayState, Return, TypeOK
<1>6. TargetInv'
  <2>1. CASE DurationReturns \/ DurationFails
    BY <1>1, <2>1 DEF TargetInv, DurationReturns, DurationFails, Return, TypeOK
  <2>2. CASE ~(DurationReturns \/ DurationFails)
    <3>1. pc' # "seek"
      BY <2>2 DEF Release, Pause, Stop, Play, PlaySets, GetDuration, Seek, DurationPauses, SeekSets, Call
    <3> QED BY <3>1 DEF TargetInv
  <2> QED BY <2>1, <2>2
<1>7. OnceInv' /\ WaitedForTheFile'
  BY <1>1 DEF OnceInv, WaitedForTheFile
<1> QED BY <1>2, <1>3, <1>4, <1>5, <1>6, <1>7 DEF PlayerInv

\* Making the player, and openSLESPlay up to its sleep and after it.
LEMMA OnceKeeps ==
  ASSUME TypeOK, PlayerInv, Create \/ CreateFails \/ StartSleep \/ PrefetchFails \/ SleepEnds
  PROVE  TypeOK' /\ PlayerInv'
<1> USE MediaFacts DEF input, objects, player
<1>1. CASE Create
  <2>1. TypeOK'
    BY <1>1 DEF Create, TypeOK
  <2>2. PlayerInv'
    BY <1>1 DEF Create, PlayerInv, ModeInv, TargetInv, OnceInv, EndsClean, StopRewinds, HeadInFile,
       WaitedForTheFile, TypeOK
  <2> QED BY <2>1, <2>2
<1>2. CASE CreateFails
  <2>1. TypeOK'
    BY <1>2 DEF CreateFails, TypeOK, Objects
  <2>2. PlayerInv'
    BY <1>2 DEF CreateFails, PlayerInv, ModeInv, TargetInv, OnceInv, EndsClean, StopRewinds, HeadInFile,
       WaitedForTheFile, TypeOK
  <2> QED BY <2>1, <2>2
<1>3. CASE StartSleep
  <2>1. SleepsFor \in Nat /\ SleepsFor' = SleepsFor
    BY <1>3, SleepFacts DEF StartSleep, SleepsFor
  <2>2. TypeOK'
    BY <1>3, <2>1 DEF StartSleep, SetPlayState, TypeOK
  <2>3. mode = "once" /\ mode' = mode /\ pc' = "sleep" /\ fdOpen' /\ rewound' = FALSE /\ state = "paused"
    BY <1>3 DEF StartSleep, PlayerInv, ModeInv, OnceInv, TypeOK
  <2>4. ModeInv' /\ TargetInv' /\ EndsClean' /\ StopRewinds' /\ WaitedForTheFile'
    BY <2>3 DEF ModeInv, TargetInv, EndsClean, StopRewinds, WaitedForTheFile
  <2>5. HeadInFile'
    BY <1>3 DEF StartSleep, PlayerInv, HeadInFile
  <2>7. slept' = 0 /\ asleep' = SleepsFor'
    BY <1>3, <2>1, <2>3 DEF StartSleep, PlayerInv, OnceInv
  <2>8. OnceInv'
    BY <2>1, <2>3, <2>7 DEF OnceInv
  <2> QED BY <2>2, <2>4, <2>5, <2>8 DEF PlayerInv
<1>4. CASE PrefetchFails
  <2>1. TypeOK'
    BY <1>4 DEF PrefetchFails, TypeOK
  <2>2. PlayerInv'
    BY <1>4 DEF PrefetchFails, PlayerInv, ModeInv, TargetInv, OnceInv, EndsClean, StopRewinds, HeadInFile,
       WaitedForTheFile, TypeOK
  <2> QED BY <2>1, <2>2
<1>5. CASE SleepEnds
  <2>1. TypeOK'
    BY <1>5 DEF SleepEnds, TypeOK
  <2>2. ModeInv' /\ TargetInv' /\ OnceInv' /\ EndsClean' /\ StopRewinds' /\ HeadInFile'
    BY <1>5 DEF SleepEnds, PlayerInv, ModeInv, TargetInv, OnceInv, EndsClean, StopRewinds, HeadInFile, TypeOK
  <2>3. ASSUME mode = "once", ~failed
        PROVE  \/ slept >= media.length
               \/ IF media.known THEN media.length * Micros >= Word ELSE media.length > Unknown
    <3>1. slept = SleepsFor
      BY <1>5, <2>3, SleepFacts DEF SleepEnds, PlayerInv, OnceInv, TypeOK
    <3>2. media.length * Micros \in Nat /\ Word \in Nat /\ Unknown \in Nat
      BY SleepAssumption DEF Unknown
    <3> QED BY <3>1, <3>2, SleepFacts
  <2>4. WaitedForTheFile'
    BY <1>5, <2>3 DEF SleepEnds, WaitedForTheFile
  <2> QED BY <2>1, <2>2, <2>4 DEF PlayerInv
<1> QED BY <1>1, <1>2, <1>3, <1>4, <1>5

\* OpenSL ES prefetches and plays, and the sleep goes by or is cut short.
LEMMA OpenSLKeeps ==
  ASSUME TypeOK, PlayerInv, OpenSL \/ SleepTick \/ SleepInterrupted
  PROVE  TypeOK' /\ PlayerInv'
<1> USE MediaFacts DEF input, objects, player
<1>1. CASE Prefetches
  <2>1. TypeOK'
    BY <1>1 DEF Prefetches, TypeOK
  <2>2. SleepsFor' = SleepsFor
    BY <1>1 DEF Prefetches, SleepsFor
  <2>3. PlayerInv'
    BY <1>1, <2>2 DEF Prefetches, PlayerInv, ModeInv, TargetInv, OnceInv, EndsClean, StopRewinds, HeadInFile,
       WaitedForTheFile
  <2> QED BY <2>1, <2>3
<1>2. CASE Tick
  <2>1. TypeOK'
    BY <1>2 DEF Tick, TypeOK
  <2>2. SleepsFor' = SleepsFor
    BY <1>2 DEF Tick, SleepsFor
  <2>3. ModeInv' /\ TargetInv' /\ EndsClean' /\ StopRewinds' /\ HeadInFile' /\ WaitedForTheFile'
    BY <1>2 DEF Tick, PlayerInv, ModeInv, TargetInv, EndsClean, StopRewinds, HeadInFile, WaitedForTheFile, TypeOK
  <2>4. OnceInv'
    BY <1>2, <2>2 DEF Tick, PlayerInv, ModeInv, OnceInv, TypeOK
  <2> QED BY <2>1, <2>3, <2>4 DEF PlayerInv
<1>3. CASE SleepTick
  <2>1. TypeOK'
    BY <1>3 DEF SleepTick, TypeOK
  <2>2. SleepsFor' = SleepsFor /\ slept' + asleep' = slept + asleep
    BY <1>3 DEF SleepTick, SleepsFor, TypeOK
  <2>3. PlayerInv'
    BY <1>3, <2>2 DEF SleepTick, PlayerInv, ModeInv, TargetInv, OnceInv, EndsClean, StopRewinds, HeadInFile,
       WaitedForTheFile
  <2> QED BY <2>1, <2>3
<1>4. CASE SleepInterrupted
  <2>1. TypeOK'
    BY <1>4 DEF SleepInterrupted, TypeOK
  <2>2. PlayerInv'
    BY <1>4 DEF SleepInterrupted, PlayerInv, ModeInv, TargetInv, OnceInv, EndsClean, StopRewinds, HeadInFile,
       WaitedForTheFile
  <2> QED BY <2>1, <2>2
<1> QED BY <1>1, <1>2, <1>3, <1>4 DEF OpenSL

\* Whatever is called on the object, and however long the file: nothing is left behind
\* but by a constructor that throws, stop rewinds, a seek stays in the file, and
\* openSLESPlay waits as long as the file lasts unless its sleep wraps or is cut short.
THEOREM PlayerIsSafe == Spec => []PlayerSafe
<1>1. Init => TypeOK /\ PlayerInv
  BY PlayerInit
<1>2. TypeOK /\ PlayerInv /\ [Next]_vars => TypeOK' /\ PlayerInv'
  <2>1. TypeOK /\ PlayerInv /\ Next => TypeOK' /\ PlayerInv'
    BY ObjectKeeps, OnceKeeps, OpenSLKeeps DEF Next, InCall, NewCall, OpenSL, Fault
  <2>2. TypeOK /\ PlayerInv /\ UNCHANGED vars => TypeOK' /\ PlayerInv'
    <3> SUFFICES ASSUME TypeOK, PlayerInv, UNCHANGED vars PROVE TypeOK' /\ PlayerInv'
      OBVIOUS
    <3> USE DEF vars, input, objects, player
    <3>1. TypeOK'
      BY DEF TypeOK
    <3>2. SleepsFor' = SleepsFor
      BY DEF SleepsFor
    <3>3. PlayerInv'
      BY <3>2 DEF PlayerInv, ModeInv, TargetInv, OnceInv, EndsClean, StopRewinds, HeadInFile, WaitedForTheFile
    <3> QED BY <3>1, <3>3
  <2> QED BY <2>1, <2>2
<1>3. TypeOK /\ PlayerInv => PlayerSafe
  BY DEF PlayerInv, PlayerSafe
<1> QED BY <1>1, <1>2, <1>3, PTL DEF Spec

-----------------------------------------------------------------------------
(***************************************************************************)
(* PcmPlayback: the inductive invariant.                                   *)
(***************************************************************************)

\* What the setup has made before its next step.
SetupInv ==
  /\ pcmPc = "setup" =>
       /\ pcmStep = 1 => pcmLive = {}
       /\ pcmStep > 1 => "engine" \in pcmLive
       /\ pcmStep > 4 => "mix" \in pcmLive
       /\ pcmStep > 6 => "player" \in pcmLive
       /\ pcmStep > 11 => {"context", "fd"} \subseteq pcmLive
  /\ pcmPc = "prime" => pcmLive = Pcm!Objects

\* What plays has all its objects, or none any more.
PlayingInv ==
  /\ pcmPc \in {"setup", "error"} => ~pcmPlaying
  /\ pcmPc \in {"prime", "duration"} => pcmPlaying
  /\ pcmPlaying => pcmLive \in {Pcm!Objects, {}}
  /\ pcmQueued \/ pcmPosted => pcmPlaying

\* One token goes round: the call that primes, then the buffer queued, then the callback.
TokenInv ==
  /\ ~pcmPlaying \/ pcmPc = "prime" =>
       ~pcmQueued /\ ~pcmPosted /\ pcmBuffer = 0 /\ Len(pcmHeard) = 0 /\ pcmTouched = {}
  /\ pcmQueued => pcmBuffer = Len(pcmHeard) + 1
  /\ pcmPosted => pcmBuffer = Len(pcmHeard)
  /\ pcmBuffer + pcmLeft <= Blocks

PcmInv ==
  /\ SetupInv /\ PlayingInv /\ TokenInv
  /\ Pcm!CallbackHasContext /\ Pcm!ErrorLeavesOnlyFd /\ Pcm!DeadPlayerOnlyByDuration
  /\ Pcm!HeardToTheEnd

USE BlocksAssumption

LEMMA StepsFacts ==
  /\ Len(Pcm!Steps) = 13 /\ DOMAIN Pcm!Steps = 1 .. 13
  /\ Pcm!Steps[1] = "createEngine" /\ Pcm!Steps[4] = "createMix" /\ Pcm!Steps[6] = "createPlayer"
  /\ Pcm!Steps[11] = "queueInterface" /\ Pcm!Steps[13] = "setPlaying"
  /\ \A i \in 1 .. 13 : i # 13 => Pcm!Steps[i] # "setPlaying"
  /\ \A i \in 1 .. 13 : i # 1 => Pcm!Steps[i] # "createEngine"
<1>1. \A i \in 1 .. 13 : i = 1 \/ i = 2 \/ i = 3 \/ i = 4 \/ i = 5 \/ i = 6 \/ i = 7 \/ i = 8
                        \/ i = 9 \/ i = 10 \/ i = 11 \/ i = 12 \/ i = 13
  OBVIOUS
<1> QED BY <1>1 DEF Pcm!Steps

LEMMA AppendIsFunction ==
  ASSUME NEW S, NEW s \in Seq(S), NEW e
  PROVE  Append(s, e) = [i \in 1 .. Len(s) + 1 |-> IF i = Len(s) + 1 THEN e ELSE s[i]]
<1>1. Len(s) \in Nat /\ s \in Seq(S \union {e})
  OBVIOUS
<1>2. /\ Append(s, e) \in Seq(S \union {e}) /\ DOMAIN Append(s, e) = 1 .. Len(s) + 1
      /\ \A i \in 1 .. Len(s) : Append(s, e)[i] = s[i]
      /\ Append(s, e)[Len(s) + 1] = e
  BY <1>1
<1>3. Append(s, e) = [i \in 1 .. Len(s) + 1 |-> Append(s, e)[i]]
  <2>1. Append(s, e) \in [1 .. Len(s) + 1 -> S \union {e}]
    BY <1>2, LenProperties
  <2> QED BY <2>1
<1>4. \A i \in 1 .. Len(s) + 1 : Append(s, e)[i] = IF i = Len(s) + 1 THEN e ELSE s[i]
  <2>1. \A i \in 1 .. Len(s) + 1 : i = Len(s) + 1 \/ i \in 1 .. Len(s)
    BY <1>1
  <2> QED BY <1>2, <2>1
<1> QED BY <1>3, <1>4

LEMMA HeardAppend ==
  ASSUME NEW S, NEW s \in Seq(S), s = [i \in 1 .. Len(s) |-> i], NEW n, n = Len(s) + 1
  PROVE  Len(Append(s, n)) = Len(s) + 1 /\ Append(s, n) = [i \in 1 .. Len(Append(s, n)) |-> i]
<1>1. Len(s) \in Nat /\ DOMAIN s = 1 .. Len(s)
  OBVIOUS
<1>2. Append(s, n) = [i \in 1 .. Len(s) + 1 |-> IF i = Len(s) + 1 THEN n ELSE s[i]]
  BY AppendIsFunction
<1>3. Append(s, n) \in Seq(S \union {n}) /\ Len(Append(s, n)) = Len(s) + 1
  BY <1>1
<1>4. \A i \in 1 .. Len(s) + 1 : (IF i = Len(s) + 1 THEN n ELSE s[i]) = i
  <2>1. \A i \in 1 .. Len(s) + 1 : i = Len(s) + 1 \/ i \in 1 .. Len(s)
    BY <1>1
  <2> QED BY <2>1
<1> QED BY <1>2, <1>3, <1>4

LEMMA PcmInit == Pcm!Init => Pcm!TypeOK /\ PcmInv
<1> SUFFICES ASSUME Pcm!Init PROVE Pcm!TypeOK /\ PcmInv
  OBVIOUS
<1>1. << >> \in Seq(1 .. Blocks) /\ Len(<< >>) = 0 /\ << >> = [i \in 1 .. 0 |-> i]
  OBVIOUS
<1>2. pcmStep = 1 /\ 1 \in DOMAIN Pcm!Steps /\ pcmLeft \in 0 .. Blocks /\ pcmBuffer \in 0 .. Blocks
      /\ pcmLeft \in Nat
  BY StepsFacts DEF Pcm!Init
<1>3. Pcm!TypeOK
  BY <1>1, <1>2 DEF Pcm!Init, Pcm!TypeOK
<1>4. SetupInv /\ PlayingInv /\ TokenInv
  BY <1>1, <1>2 DEF Pcm!Init, SetupInv, PlayingInv, TokenInv
<1>5. Pcm!CallbackHasContext /\ Pcm!ErrorLeavesOnlyFd /\ Pcm!DeadPlayerOnlyByDuration
  BY DEF Pcm!Init, Pcm!CallbackHasContext, Pcm!ErrorLeavesOnlyFd, Pcm!DeadPlayerOnlyByDuration
<1>6. Pcm!HeardToTheEnd
  BY <1>1 DEF Pcm!Init, Pcm!HeardToTheEnd
<1> QED BY <1>3, <1>4, <1>5, <1>6 DEF PcmInv

\* A step of the setup succeeds or fails, and what a failed setup had made is destroyed.
LEMMA SetupKeeps ==
  ASSUME Pcm!TypeOK, PcmInv, Pcm!Step \/ Pcm!StepFails \/ Pcm!Error
  PROVE  Pcm!TypeOK' /\ PcmInv'
<1> DEFINE name == Pcm!Steps[pcmStep]
<1>1. /\ UNCHANGED <<pcmLeft, pcmBuffer, pcmQueued, pcmPosted, pcmHeard, pcmStalled, pcmTouched>>
      /\ pcmPc \in {"setup", "error"} /\ pcmStep \in 1 .. 13
      /\ ~pcmPlaying /\ ~pcmQueued /\ ~pcmPosted /\ pcmBuffer = 0 /\ Len(pcmHeard) = 0 /\ pcmTouched = {}
  BY StepsFacts DEF Pcm!Step, Pcm!StepFails, Pcm!Error, Pcm!TypeOK, PcmInv, PlayingInv, TokenInv
<1>2. ASSUME Pcm!TypeOK', SetupInv', PlayingInv', Pcm!ErrorLeavesOnlyFd', pcmPlaying' => pcmLive' # {}
      PROVE  Pcm!TypeOK' /\ PcmInv'
  <2>1. TokenInv'
    BY <1>1 DEF PcmInv, TokenInv
  <2>2. Pcm!CallbackHasContext' /\ Pcm!DeadPlayerOnlyByDuration'
    BY <1>1 DEF Pcm!CallbackHasContext, Pcm!DeadPlayerOnlyByDuration
  <2>3. Pcm!HeardToTheEnd'
    BY <1>1, <1>2 DEF PcmInv, Pcm!HeardToTheEnd
  <2> QED BY <1>2, <2>1, <2>2, <2>3 DEF PcmInv
<1>3. CASE Pcm!Step
  <2>1. /\ pcmLive' = pcmLive \union Pcm!Created(name) /\ Pcm!Created(name) \subseteq Pcm!Objects
        /\ pcmLive' \subseteq Pcm!Objects
    BY <1>3 DEF Pcm!Step, Pcm!TypeOK, Pcm!Created, Pcm!Objects
  <2>2. CASE pcmStep = 13
    <3>1. pcmPc' = "prime" /\ pcmStep' = pcmStep /\ pcmPlaying' = TRUE
      BY <1>3, <2>2, StepsFacts DEF Pcm!Step
    <3>2. pcmLive = Pcm!Objects
      <4>1. pcmPc = "setup" /\ 13 > 1 /\ 13 > 4 /\ 13 > 6 /\ 13 > 11
        BY <1>3 DEF Pcm!Step
      <4>2. {"engine", "mix", "player", "context", "fd"} \subseteq pcmLive
        BY <2>2, <4>1 DEF PcmInv, SetupInv
      <4> QED BY <4>2 DEF Pcm!Objects, Pcm!TypeOK
    <3>3. pcmLive' = Pcm!Objects /\ Pcm!Objects # {}
      BY <2>1, <3>2 DEF Pcm!Objects
    <3>4. SetupInv' /\ PlayingInv' /\ Pcm!ErrorLeavesOnlyFd'
      BY <3>1, <3>3, <1>1 DEF SetupInv, PlayingInv, Pcm!ErrorLeavesOnlyFd
    <3>5. Pcm!TypeOK'
      BY <1>1, <2>1, <3>1 DEF Pcm!TypeOK
    <3> QED BY <1>2, <3>3, <3>4, <3>5
  <2>3. CASE pcmStep # 13
    <3>1. /\ pcmPc = "setup" /\ pcmPc' = "setup" /\ pcmStep' = pcmStep + 1 /\ pcmStep + 1 \in 1 .. 13
          /\ pcmPlaying' = FALSE
      <4>1. Pcm!Steps[pcmStep] # "setPlaying"
        BY <1>1, <2>3, StepsFacts
      <4>2. pcmPlaying' = FALSE
        BY <1>3, <4>1 DEF Pcm!Step
      <4>3. pcmStep # Len(Pcm!Steps) /\ pcmStep + 1 \in 1 .. 13
        BY <1>1, <2>3, StepsFacts
      <4> QED BY <1>3, <4>2, <4>3 DEF Pcm!Step
    <3>2. SetupInv'
      <4>1. pcmStep = 1 => "engine" \in pcmLive'
        BY <2>1, StepsFacts DEF Pcm!Created
      <4>2. pcmStep = 4 => "mix" \in pcmLive'
        BY <2>1, StepsFacts DEF Pcm!Created
      <4>3. pcmStep = 6 => "player" \in pcmLive'
        BY <2>1, StepsFacts DEF Pcm!Created
      <4>4. pcmStep = 11 => {"context", "fd"} \subseteq pcmLive'
        BY <2>1, StepsFacts DEF Pcm!Created
      <4>5. pcmLive \subseteq pcmLive'
        BY <2>1
      <4> QED BY <1>1, <3>1, <4>1, <4>2, <4>3, <4>4, <4>5 DEF PcmInv, SetupInv
    <3>3. PlayingInv' /\ Pcm!ErrorLeavesOnlyFd'
      BY <1>1, <3>1 DEF PlayingInv, Pcm!ErrorLeavesOnlyFd
    <3>4. Pcm!TypeOK'
      BY <1>1, <2>1, <3>1, StepsFacts DEF Pcm!TypeOK
    <3> QED BY <1>2, <3>1, <3>2, <3>3, <3>4
  <2> QED BY <2>2, <2>3
<1>4. CASE Pcm!StepFails
  <2>1. /\ pcmPc = "setup" /\ pcmPlaying' = pcmPlaying /\ pcmLive' = pcmLive /\ pcmStep' = pcmStep
        /\ pcmPc' = IF name = "createEngine" THEN "returned" ELSE "error"
    BY <1>4 DEF Pcm!StepFails
  <2>2. name = "createEngine" => pcmLive = {}
    <3>1. name = "createEngine" => pcmStep = 1
      BY <1>1, StepsFacts
    <3> QED BY <2>1, <3>1 DEF PcmInv, SetupInv
  <2>3. SetupInv' /\ PlayingInv' /\ Pcm!ErrorLeavesOnlyFd'
    BY <1>1, <2>1, <2>2 DEF SetupInv, PlayingInv, Pcm!ErrorLeavesOnlyFd
  <2>4. Pcm!TypeOK'
    BY <1>1, <2>1 DEF Pcm!TypeOK
  <2> QED BY <1>1, <1>2, <2>1, <2>3, <2>4
<1>5. CASE Pcm!Error
  <2>1. /\ pcmPc' = "returned" /\ pcmPlaying' = pcmPlaying /\ pcmStep' = pcmStep
        /\ pcmLive' \subseteq {"fd"} /\ pcmLive' \subseteq pcmLive
    BY <1>5 DEF Pcm!Error, Pcm!ReleasedOnError, Pcm!TypeOK, Pcm!Objects
  <2>2. SetupInv' /\ PlayingInv' /\ Pcm!ErrorLeavesOnlyFd'
    BY <1>1, <2>1 DEF SetupInv, PlayingInv, Pcm!ErrorLeavesOnlyFd
  <2>3. Pcm!TypeOK'
    BY <1>1, <2>1 DEF Pcm!TypeOK
  <2> QED BY <1>1, <1>2, <2>1, <2>2, <2>3
<1> QED BY <1>3, <1>4, <1>5

\* The callback, called by the caller or by OpenSL ES while nothing is queued.
LEMMA FeedKeeps ==
  ASSUME Pcm!TypeOK, PcmInv, Pcm!Feed, Pcm!Use({"context", "player"}),
         pcmPlaying, ~pcmQueued, pcmLive = Pcm!Objects, pcmBuffer = Len(pcmHeard), pcmTouched = {},
         pcmPosted' = FALSE, UNCHANGED <<pcmStep, pcmPlaying, pcmHeard>>,
         pcmPc' \in {"duration", "returned"}
  PROVE  Pcm!TypeOK' /\ PcmInv'
<1> DEFINE
  Reads ==
    /\ pcmLeft > 0
    /\ pcmLeft' = pcmLeft - 1
    /\ pcmBuffer' = pcmBuffer + 1
    /\ \/ pcmQueued' = TRUE /\ UNCHANGED pcmStalled
       \/ pcmStalled' = TRUE /\ UNCHANGED pcmQueued
    /\ UNCHANGED pcmLive
  Ends ==
    /\ pcmLive' = {}
    /\ pcmStalled' = (pcmStalled \/ pcmLeft > 0)
    /\ UNCHANGED <<pcmLeft, pcmBuffer, pcmQueued>>
<1>1. pcmTouched' = {}
  BY DEF Pcm!Use, Pcm!Objects
<1>2. Len(pcmHeard) \in Nat /\ pcmLeft \in Nat /\ pcmBuffer \in Nat /\ pcmBuffer + pcmLeft <= Blocks
  BY DEF Pcm!TypeOK, PcmInv, TokenInv
<1>3. Pcm!Objects # {}
  BY DEF Pcm!Objects
<1>4. ASSUME Pcm!TypeOK', pcmLive' \in {Pcm!Objects, {}}, pcmQueued' => pcmLive' = Pcm!Objects,
             pcmQueued' => pcmBuffer' = Len(pcmHeard) + 1, pcmBuffer' + pcmLeft' <= Blocks,
             pcmLive' = {} /\ ~pcmStalled' => pcmLeft' = 0 /\ ~pcmQueued' /\ Len(pcmHeard) = pcmBuffer'
      PROVE  Pcm!TypeOK' /\ PcmInv'
  <2>1. SetupInv' /\ PlayingInv'
    BY <1>4 DEF SetupInv, PlayingInv
  <2>2. TokenInv'
    BY <1>1, <1>4 DEF TokenInv
  <2>3. Pcm!CallbackHasContext' /\ Pcm!ErrorLeavesOnlyFd' /\ Pcm!DeadPlayerOnlyByDuration'
    BY <1>1, <1>4 DEF Pcm!CallbackHasContext, Pcm!ErrorLeavesOnlyFd, Pcm!DeadPlayerOnlyByDuration
  <2>4. Pcm!HeardToTheEnd'
    BY <1>4 DEF PcmInv, Pcm!HeardToTheEnd
  <2> QED BY <1>4, <2>1, <2>2, <2>3, <2>4 DEF PcmInv
<1>5. CASE Reads
  <2>1. pcmLeft' \in 0 .. Blocks /\ pcmBuffer' \in 0 .. Blocks
    BY <1>2, <1>5
  <2>2. pcmQueued' \in BOOLEAN /\ pcmStalled' \in BOOLEAN
    BY <1>5 DEF Pcm!TypeOK
  <2>3. Pcm!TypeOK'
    BY <1>1, <1>5, <2>1, <2>2 DEF Pcm!TypeOK
  <2>4. pcmBuffer' + pcmLeft' <= Blocks /\ pcmBuffer' = Len(pcmHeard) + 1
    BY <1>2, <1>5
  <2> QED BY <1>3, <1>4, <1>5, <2>3, <2>4
<1>6. CASE Ends
  <2>1. pcmStalled' \in BOOLEAN
    BY <1>6
  <2>2. ~pcmStalled' => pcmLeft = 0
    <3>1. ~pcmStalled' => ~(pcmLeft > 0)
      BY <1>6
    <3> QED BY <1>2, <3>1
  <2>3. Pcm!TypeOK'
    BY <1>1, <1>6, <2>1 DEF Pcm!TypeOK
  <2> QED BY <1>2, <1>4, <1>6, <2>2, <2>3
<1>7. Reads \/ Ends
  BY DEF Pcm!Feed
<1> HIDE DEF Reads, Ends
<1> QED BY <1>5, <1>6, <1>7

LEMMA CallbackKeeps ==
  ASSUME Pcm!TypeOK, PcmInv, Pcm!Prime \/ Pcm!Callback
  PROVE  Pcm!TypeOK' /\ PcmInv'
<1>1. CASE Pcm!Prime
  BY <1>1, FeedKeeps DEF Pcm!Prime, PcmInv, SetupInv, PlayingInv, TokenInv, Pcm!TypeOK
<1>2. CASE Pcm!Callback
  <2>1. /\ pcmPosted /\ pcmPlaying /\ ~pcmQueued /\ pcmLive = Pcm!Objects /\ pcmBuffer = Len(pcmHeard)
        /\ pcmTouched = {}
    <3>1. pcmPosted /\ Pcm!Objects # {}
      BY <1>2 DEF Pcm!Callback, Pcm!Objects
    <3> QED BY <3>1 DEF PcmInv, PlayingInv, TokenInv, Pcm!CallbackHasContext, Pcm!DeadPlayerOnlyByDuration
  <2>2. pcmPc \in {"duration", "returned"}
    BY <2>1 DEF PcmInv, PlayingInv, TokenInv, Pcm!TypeOK
  <2> QED BY <1>2, <2>1, <2>2, FeedKeeps DEF Pcm!Callback
<1> QED BY <1>1, <1>2

LEMMA DurationKeeps ==
  ASSUME Pcm!TypeOK, PcmInv, Pcm!Duration
  PROVE  Pcm!TypeOK' /\ PcmInv'
<1>1. /\ pcmPc' = "returned" /\ pcmPlaying
      /\ UNCHANGED <<pcmStep, pcmLive, pcmLeft, pcmBuffer, pcmQueued, pcmPlaying, pcmPosted, pcmHeard,
                     pcmStalled>>
      /\ pcmTouched' = pcmTouched \union ({"player"} \ pcmLive)
      /\ pcmLive = Pcm!Objects \/ pcmLive = {}
  BY DEF Pcm!Duration, Pcm!Use, PcmInv, PlayingInv
<1>2. pcmTouched' \subseteq Pcm!Objects
  BY <1>1 DEF Pcm!TypeOK, Pcm!Objects
<1>3. Pcm!TypeOK'
  BY <1>1, <1>2 DEF Pcm!TypeOK
<1>4. SetupInv' /\ PlayingInv' /\ TokenInv'
  BY <1>1 DEF PcmInv, SetupInv, PlayingInv, TokenInv
<1>5. Pcm!CallbackHasContext' /\ Pcm!ErrorLeavesOnlyFd'
  BY <1>1 DEF PcmInv, Pcm!CallbackHasContext, Pcm!ErrorLeavesOnlyFd
<1>6. Pcm!DeadPlayerOnlyByDuration'
  <2>1. pcmLive = Pcm!Objects => pcmTouched' = pcmTouched
    BY <1>1 DEF Pcm!Objects
  <2> QED BY <1>1, <2>1 DEF PcmInv, Pcm!DeadPlayerOnlyByDuration
<1>7. Pcm!HeardToTheEnd'
  BY <1>1 DEF PcmInv, Pcm!HeardToTheEnd
<1> QED BY <1>3, <1>4, <1>5, <1>6, <1>7 DEF PcmInv

LEMMA PlayKeeps ==
  ASSUME Pcm!TypeOK, PcmInv, Pcm!Play
  PROVE  Pcm!TypeOK' /\ PcmInv'
<1>1. /\ pcmQueued /\ pcmPlaying /\ pcmHeard' = Append(pcmHeard, pcmBuffer)
      /\ pcmQueued' = FALSE /\ pcmPosted' = TRUE
      /\ UNCHANGED <<pcmPc, pcmStep, pcmLive, pcmLeft, pcmBuffer, pcmPlaying, pcmStalled, pcmTouched>>
  BY DEF Pcm!Play
<1>2. pcmHeard \in Seq(1 .. Blocks) /\ Len(pcmHeard) \in Nat /\ pcmBuffer = Len(pcmHeard) + 1
      /\ pcmBuffer \in 1 .. Blocks /\ pcmPc # "prime"
  BY <1>1 DEF Pcm!TypeOK, PcmInv, TokenInv
<1>3. /\ pcmHeard' \in Seq(1 .. Blocks) /\ Len(pcmHeard') = pcmBuffer
      /\ pcmHeard' = [i \in 1 .. Len(pcmHeard') |-> i]
  <2>1. pcmHeard = [i \in 1 .. Len(pcmHeard) |-> i]
    BY DEF PcmInv, Pcm!HeardToTheEnd
  <2>2. pcmHeard' \in Seq(1 .. Blocks)
    BY <1>1, <1>2
  <2> QED BY <1>1, <1>2, <2>1, <2>2, HeardAppend
<1>4. Pcm!TypeOK'
  BY <1>1, <1>3 DEF Pcm!TypeOK
<1>5. pcmLive = Pcm!Objects /\ Pcm!Objects # {}
  BY <1>1 DEF PcmInv, Pcm!CallbackHasContext, Pcm!Objects
<1>6. SetupInv' /\ PlayingInv' /\ TokenInv'
  BY <1>1, <1>2, <1>3 DEF PcmInv, SetupInv, PlayingInv, TokenInv
<1>7. Pcm!CallbackHasContext' /\ Pcm!ErrorLeavesOnlyFd' /\ Pcm!DeadPlayerOnlyByDuration'
  BY <1>1, <1>5 DEF PcmInv, Pcm!CallbackHasContext, Pcm!ErrorLeavesOnlyFd, Pcm!DeadPlayerOnlyByDuration
<1>8. Pcm!HeardToTheEnd'
  BY <1>1, <1>3, <1>5 DEF Pcm!HeardToTheEnd
<1> QED BY <1>4, <1>6, <1>7, <1>8 DEF PcmInv

\* The callback of openSLESPlayPCM finds its context and its player whenever it is called,
\* the one use of a dead object is the caller's GetDuration, and the file is heard in order
\* and to its end.
THEOREM PcmIsSafe == Pcm!Spec => []PcmSafe
<1>1. Pcm!Init => Pcm!TypeOK /\ PcmInv
  BY PcmInit
<1>2. Pcm!TypeOK /\ PcmInv /\ [Pcm!Next]_(Pcm!vars) => Pcm!TypeOK' /\ PcmInv'
  <2>1. Pcm!TypeOK /\ PcmInv /\ Pcm!Next => Pcm!TypeOK' /\ PcmInv'
    BY SetupKeeps, CallbackKeeps, DurationKeeps, PlayKeeps DEF Pcm!Next
  <2>2. Pcm!TypeOK /\ PcmInv /\ UNCHANGED Pcm!vars => Pcm!TypeOK' /\ PcmInv'
    <3> SUFFICES ASSUME Pcm!TypeOK, PcmInv, UNCHANGED Pcm!vars PROVE Pcm!TypeOK' /\ PcmInv'
      OBVIOUS
    <3> USE DEF Pcm!vars
    <3>1. Pcm!TypeOK'
      BY DEF Pcm!TypeOK
    <3>2. SetupInv' /\ PlayingInv' /\ TokenInv'
      BY DEF PcmInv, SetupInv, PlayingInv, TokenInv
    <3>3. Pcm!CallbackHasContext' /\ Pcm!ErrorLeavesOnlyFd' /\ Pcm!DeadPlayerOnlyByDuration'
      BY DEF PcmInv, Pcm!CallbackHasContext, Pcm!ErrorLeavesOnlyFd, Pcm!DeadPlayerOnlyByDuration
    <3>4. Pcm!HeardToTheEnd'
      BY DEF PcmInv, Pcm!HeardToTheEnd
    <3> QED BY <3>1, <3>2, <3>3, <3>4 DEF PcmInv
  <2> QED BY <2>1, <2>2
<1>3. Pcm!TypeOK /\ PcmInv => PcmSafe
  BY DEF PcmInv, PcmSafe, Pcm!ContextSafe
<1> QED BY <1>1, <1>2, <1>3, PTL DEF Pcm!Spec

-----------------------------------------------------------------------------
(***************************************************************************)
(* NdkCamera: the camera of MusicScreen, for any number of presses and of  *)
(* frames.                                                                 *)
(***************************************************************************)

\* Cameras not made yet have nothing.
FreshInv ==
  \A c \in Camera!Cameras :
    c > camMade => camLive[c] = {} /\ camListener[c] = 0 /\ c \notin camRunning \union camFreed

\* The main thread constructs the newest camera, which runs only at the end, or destroys
\* the one the screen points to, which is not deleted yet, its reader first.
MainInv ==
  /\ camMain = "construct" =>
       /\ camCur = camMade /\ camCur \in Camera!Cameras
       /\ camCur \notin camRunning \union camFreed /\ camListener[camCur] = 0
       /\ camStep > 1 => "stream" \in camLive[camCur]
  /\ camMain = "destroy" =>
       /\ camCur = camPtr /\ camCur \in Camera!Cameras \ camFreed
       /\ camStep \in DOMAIN Camera!DestroySteps
       /\ \A i \in 1 .. camStep - 1 : Camera!DestroySteps[i] \notin camLive[camCur]

\* A listener runs only while its reader exists, and a camera that runs and has its reader
\* has its stream and is not deleted.
ReaderInv ==
  \A c \in Camera!Cameras :
    /\ camListener[c] # 0 => c \in camRunning /\ "reader" \in camLive[c]
    /\ c \in camRunning /\ "reader" \in camLive[c] => "stream" \in camLive[c] /\ c \notin camFreed

\* As long as one camera was created at a time, only the newest holds anything: the one in
\* hand, or the one the screen points to if it was not left with it.
HeldInv ==
  ~camDoubled => \A c \in Camera!Cameras :
    camLive[c] \ Camera!Locals # {} =>
      /\ c = camMade
      /\ camMain # "idle" => c = camCur
      /\ camMain = "idle" /\ ~camLeft => c = camPtr

\* A screen that was left with its camera has nothing in hand until a second is created.
LeftInv ==
  camLeft /\ ~camDoubled => camMain = "idle" /\ camPtr = 0 /\ ~(1 .. camMade \subseteq camFreed)

\* What the file ends with is what the listener has written of its frame.
PlanesInv ==
  ~camDoubled /\ ~camTorn =>
    /\ \A c \in Camera!Cameras : camListener[c] # 0 => Len(camFile) % 3 = camListener[c] - 1
    /\ (\A c \in Camera!Cameras : camListener[c] = 0) => Len(camFile) % 3 = 0

CameraInv ==
  /\ FreshInv /\ MainInv /\ ReaderInv /\ HeldInv /\ LeftInv /\ PlanesInv
  /\ Camera!ListenerHasStream /\ Camera!DeletedHoldsOnlyLocals /\ Camera!FileIsWholeFrames

LEMMA CameraSteps ==
  /\ DOMAIN Camera!BuildSteps = 1 .. 14 /\ Len(Camera!BuildSteps) = 14
  /\ DOMAIN Camera!DestroySteps = 1 .. 7 /\ Len(Camera!DestroySteps) = 7
  /\ Camera!BuildSteps[1] = "stream"
  /\ Camera!DestroySteps[1] = "reader"
  /\ \A o \in Camera!Objects \ Camera!Locals : \E i \in 1 .. 7 : Camera!DestroySteps[i] = o
  /\ "reader" \notin Camera!Locals /\ "stream" \notin Camera!Locals
<1>1. DOMAIN Camera!BuildSteps = 1 .. 14 /\ Len(Camera!BuildSteps) = 14 /\ Camera!BuildSteps[1] = "stream"
  BY DEF Camera!BuildSteps
<1>2. /\ DOMAIN Camera!DestroySteps = 1 .. 7 /\ Len(Camera!DestroySteps) = 7
      /\ Camera!DestroySteps[1] = "reader" /\ Camera!DestroySteps[2] = "session"
      /\ Camera!DestroySteps[3] = "device" /\ Camera!DestroySteps[4] = "manager"
      /\ Camera!DestroySteps[5] = "stream" /\ Camera!DestroySteps[6] = "container"
      /\ Camera!DestroySteps[7] = "output"
  BY DEF Camera!DestroySteps
<1>3. 1 \in 1 .. 7 /\ 2 \in 1 .. 7 /\ 3 \in 1 .. 7 /\ 4 \in 1 .. 7 /\ 5 \in 1 .. 7 /\ 6 \in 1 .. 7
      /\ 7 \in 1 .. 7
  OBVIOUS
<1>4. \A o \in Camera!Objects \ Camera!Locals :
        o \in {"stream", "manager", "device", "reader", "container", "output", "session"}
  BY DEF Camera!Objects, Camera!Locals
<1>5. \A o \in Camera!Objects \ Camera!Locals : \E i \in 1 .. 7 : Camera!DestroySteps[i] = o
  BY <1>2, <1>3, <1>4
<1> QED BY <1>1, <1>2, <1>5 DEF Camera!Locals

LEMMA NextPlane ==
  ASSUME NEW n \in Nat, NEW k \in 1 .. 3, n % 3 = k - 1
  PROVE  (n + 1) % 3 = IF k = 3 THEN 0 ELSE k
<1>1. CASE k = 1
  BY <1>1
<1>2. CASE k = 2
  BY <1>2
<1>3. CASE k = 3
  BY <1>3
<1> QED BY <1>1, <1>2, <1>3

LEMMA PlaneAppended ==
  ASSUME NEW s \in Seq(1 .. 3), s = [i \in 1 .. Len(s) |-> ((i - 1) % 3) + 1],
         NEW k \in 1 .. 3, Len(s) % 3 = k - 1
  PROVE  /\ Append(s, k) \in Seq(1 .. 3) /\ Len(Append(s, k)) = Len(s) + 1
         /\ Append(s, k) = [i \in 1 .. Len(Append(s, k)) |-> ((i - 1) % 3) + 1]
         /\ Len(Append(s, k)) % 3 = IF k = 3 THEN 0 ELSE k
<1>1. Len(s) \in Nat
  OBVIOUS
<1>2. Append(s, k) = [i \in 1 .. Len(s) + 1 |-> IF i = Len(s) + 1 THEN k ELSE s[i]]
  BY AppendIsFunction
<1>3. Append(s, k) \in Seq(1 .. 3) /\ Len(Append(s, k)) = Len(s) + 1
  BY <1>1
<1>4. \A i \in 1 .. Len(s) + 1 : (IF i = Len(s) + 1 THEN k ELSE s[i]) = ((i - 1) % 3) + 1
  <2>1. \A i \in 1 .. Len(s) + 1 : i = Len(s) + 1 \/ i \in 1 .. Len(s)
    BY <1>1
  <2>2. ((Len(s) + 1 - 1) % 3) + 1 = k
    <3>1. Len(s) + 1 - 1 = Len(s)
      BY <1>1
    <3> QED BY <3>1
  <2>3. \A i \in 1 .. Len(s) : s[i] = ((i - 1) % 3) + 1
    OBVIOUS
  <2> QED BY <2>1, <2>2, <2>3
<1>5. (Len(s) + 1) % 3 = IF k = 3 THEN 0 ELSE k
  BY <1>1, NextPlane
<1> QED BY <1>2, <1>3, <1>4, <1>5

LEMMA CameraInit ==
  ASSUME Camera!Init
  PROVE  Camera!TypeOK /\ CameraInv
<1> USE DEF Camera!Init
<1>1. Presses \in Nat /\ Frames \in Nat /\ Camera!Cameras = 1 .. Presses
  BY CameraAssumption DEF Camera!Cameras
<1>2. << >> \in Seq(1 .. 3) /\ Len(<< >>) = 0 /\ << >> = [i \in 1 .. 0 |-> ((i - 1) % 3) + 1]
      /\ 0 % 3 = 0
  OBVIOUS
<1>3. Camera!TypeOK
  <2>1. 0 \in 0 .. Presses /\ 0 \in 0 .. 0 /\ 0 \in 0 .. 3 /\ 0 \in 0 .. Frames /\ 1 \in 1 .. 14
    BY <1>1
  <2>2. /\ camListener \in [Camera!Cameras -> 0 .. 3] /\ camFrames \in [Camera!Cameras -> 0 .. Frames]
        /\ camLive \in [Camera!Cameras -> SUBSET Camera!Objects]
    BY <2>1
  <2> QED BY <1>2, <2>1, <2>2, CameraSteps DEF Camera!TypeOK
<1>4. FreshInv /\ MainInv /\ ReaderInv /\ HeldInv /\ LeftInv
  BY DEF FreshInv, MainInv, ReaderInv, HeldInv, LeftInv
<1>5. PlanesInv /\ Camera!FileIsWholeFrames
  BY <1>2 DEF PlanesInv, Camera!FileIsWholeFrames
<1>6. Camera!ListenerHasStream /\ Camera!DeletedHoldsOnlyLocals
  BY DEF Camera!ListenerHasStream, Camera!DeletedHoldsOnlyLocals
<1> QED BY <1>3, <1>4, <1>5, <1>6 DEF CameraInv

\* Of two cameras that hold a reader, with one created at a time, both are the newest.
LEMMA OneListener ==
  ASSUME Camera!TypeOK, CameraInv, ~camDoubled,
         NEW c \in Camera!Cameras, "reader" \in camLive[c]
  PROVE  /\ \A d \in Camera!Cameras : d # c => camListener[d] = 0
         /\ camMain # "idle" => c = camCur
<1>1. \A d \in Camera!Cameras : "reader" \in camLive[d] => d = camMade /\ (camMain # "idle" => d = camCur)
  BY CameraSteps DEF CameraInv, HeldInv
<1>2. \A d \in Camera!Cameras : camListener[d] # 0 => "reader" \in camLive[d]
  BY DEF CameraInv, ReaderInv
<1> QED BY <1>1, <1>2

LEMMA PressCreateKeeps ==
  ASSUME Camera!TypeOK, CameraInv, Camera!PressCreate
  PROVE  Camera!TypeOK' /\ CameraInv'
<1>1. /\ UNCHANGED <<camPtr, camLive, camRunning, camListener, camFrames, camFile, camFreed, camTwice, camLeft,
               camTorn>>
      /\ camMain = "idle" /\ camMain' = "construct" /\ camMade' = camMade + 1 /\ camCur' = camMade + 1
      /\ camStep' = 1 /\ camMade < Presses
  BY DEF Camera!PressCreate
<1>2. /\ Presses \in Nat /\ Camera!Cameras = 1 .. Presses /\ camMade \in 0 .. Presses
      /\ camPtr \in 0 .. camMade
  BY CameraAssumption DEF Camera!Cameras, Camera!TypeOK
<1>3. camMade' \in 0 .. Presses /\ camPtr' \in 0 .. camMade' /\ camCur' \in 0 .. camMade'
      /\ camCur' \in Camera!Cameras /\ camCur' > camMade
  BY <1>1, <1>2
<1>4. camDoubled' \in BOOLEAN
  BY DEF Camera!PressCreate
<1>5. ~camDoubled' => ~camDoubled /\ 1 .. camMade \subseteq camFreed
  BY DEF Camera!PressCreate
<1>6. Camera!TypeOK'
  BY <1>1, <1>3, <1>4, CameraSteps DEF Camera!TypeOK
<1>7. FreshInv'
  BY <1>1, <1>2 DEF CameraInv, FreshInv
<1>8. MainInv'
  BY <1>1, <1>3 DEF CameraInv, FreshInv, MainInv
<1>9. ReaderInv' /\ Camera!ListenerHasStream' /\ Camera!DeletedHoldsOnlyLocals'
  BY <1>1 DEF CameraInv, ReaderInv, Camera!ListenerHasStream, Camera!DeletedHoldsOnlyLocals
<1>10. HeldInv'
  <2> SUFFICES ASSUME ~camDoubled', NEW c \in Camera!Cameras, camLive[c] \ Camera!Locals # {}
               PROVE  FALSE
    BY <1>1 DEF HeldInv
  <2>1. c = camMade
    BY <1>1, <1>5 DEF CameraInv, HeldInv
  <2>2. c \in camFreed
    BY <1>2, <1>5, <2>1
  <2> QED BY <2>2 DEF CameraInv, Camera!DeletedHoldsOnlyLocals
<1>11. PlanesInv' /\ Camera!FileIsWholeFrames'
  BY <1>1, <1>5 DEF CameraInv, PlanesInv, Camera!FileIsWholeFrames
<1>12. LeftInv'
  BY <1>1, <1>5 DEF CameraInv, LeftInv
<1> QED BY <1>6, <1>7, <1>8, <1>9, <1>10, <1>11, <1>12 DEF CameraInv

LEMMA PressReleaseKeeps ==
  ASSUME Camera!TypeOK, CameraInv, Camera!PressRelease
  PROVE  Camera!TypeOK' /\ CameraInv'
<1>1. /\ UNCHANGED <<camMade, camPtr, camLive, camRunning, camListener, camFrames, camFile, camFreed,
                     camDoubled, camLeft, camTorn>>
      /\ camMain = "idle" /\ camPtr # 0
  BY DEF Camera!PressRelease
<1>2. /\ camPtr \in 0 .. camMade /\ camMade \in 0 .. Presses /\ Presses \in Nat
      /\ camPtr \in Camera!Cameras
  BY CameraAssumption, <1>1 DEF Camera!Cameras, Camera!TypeOK
<1>3. \/ /\ camPtr \in camFreed /\ camTwice' = camTwice \union {camPtr}
         /\ camMain' = camMain /\ camCur' = camCur /\ camStep' = camStep
      \/ camPtr \notin camFreed /\ camMain' = "destroy" /\ camCur' = camPtr /\ camStep' = 1 /\ camTwice' = camTwice
  BY DEF Camera!PressRelease
<1>4. Camera!TypeOK'
  <2>1. camTwice' \subseteq camFreed' /\ camCur' \in 0 .. camMade'
    BY <1>1, <1>2, <1>3 DEF Camera!TypeOK
  <2>2. camMain' \in {"idle", "construct", "destroy"} /\ camStep' \in 1 .. 14
    BY <1>3, CameraSteps DEF Camera!TypeOK
  <2> QED BY <1>1, <2>1, <2>2, CameraSteps DEF Camera!TypeOK
<1>5. FreshInv' /\ ReaderInv' /\ Camera!ListenerHasStream' /\ Camera!DeletedHoldsOnlyLocals'
  BY <1>1 DEF CameraInv, FreshInv, ReaderInv, Camera!ListenerHasStream, Camera!DeletedHoldsOnlyLocals
<1>6. MainInv'
  <2>1. CASE camMain' = "destroy"
    <3>1. \A i \in 1 .. 1 - 1 : FALSE
      OBVIOUS
    <3> QED BY <1>1, <1>2, <1>3, <2>1, <3>1, CameraSteps DEF MainInv
  <2>2. CASE camMain' # "destroy"
    BY <1>1, <1>3, <2>2 DEF MainInv
  <2> QED BY <2>1, <2>2
<1>7. HeldInv' /\ LeftInv'
  BY <1>1, <1>3 DEF CameraInv, HeldInv, LeftInv
<1>8. PlanesInv' /\ Camera!FileIsWholeFrames'
  BY <1>1 DEF CameraInv, PlanesInv, Camera!FileIsWholeFrames
<1> QED BY <1>4, <1>5, <1>6, <1>7, <1>8 DEF CameraInv

LEMMA LeaveKeeps ==
  ASSUME Camera!TypeOK, CameraInv, Camera!Leave
  PROVE  Camera!TypeOK' /\ CameraInv'
<1>1. /\ UNCHANGED <<camMade, camMain, camCur, camStep, camLive, camRunning, camListener, camFrames, camFile,
                     camFreed, camTwice, camDoubled, camTorn>>
      /\ camMain = "idle" /\ camPtr # 0 /\ camPtr' = 0
  BY DEF Camera!Leave
<1>2. camLeft' \in BOOLEAN /\ (~camLeft' => ~camLeft /\ camPtr \in camFreed)
  BY DEF Camera!Leave
<1>3. camPtr \in 1 .. camMade /\ camMade \in Nat /\ camMade \in 0 .. Presses
  BY CameraAssumption, <1>1 DEF Camera!TypeOK
<1>4. Camera!TypeOK'
  BY <1>1, <1>2, <1>3 DEF Camera!TypeOK
<1>5. /\ FreshInv' /\ MainInv' /\ ReaderInv' /\ Camera!ListenerHasStream'
      /\ Camera!DeletedHoldsOnlyLocals'
  BY <1>1 DEF CameraInv, FreshInv, MainInv, ReaderInv, Camera!ListenerHasStream,
     Camera!DeletedHoldsOnlyLocals
<1>6. HeldInv'
  <2> SUFFICES ASSUME ~camDoubled, NEW c \in Camera!Cameras, camLive[c] \ Camera!Locals # {}
               PROVE  c = camMade /\ camLeft'
    BY <1>1 DEF HeldInv
  <2>1. c = camMade /\ (~camLeft => c = camPtr)
    BY <1>1 DEF CameraInv, HeldInv
  <2>2. c \notin camFreed
    BY DEF CameraInv, Camera!DeletedHoldsOnlyLocals
  <2> QED BY <1>2, <2>1, <2>2
<1>7. LeftInv'
  <2>1. camLeft' => camLeft \/ camPtr \notin camFreed
    BY DEF Camera!Leave
  <2>2. camLeft' /\ ~camDoubled => ~(1 .. camMade \subseteq camFreed)
    BY <1>3, <2>1 DEF CameraInv, LeftInv
  <2> QED BY <1>1, <2>2 DEF LeftInv
<1>8. PlanesInv' /\ Camera!FileIsWholeFrames'
  BY <1>1 DEF CameraInv, PlanesInv, Camera!FileIsWholeFrames
<1> QED BY <1>4, <1>5, <1>6, <1>7, <1>8 DEF CameraInv

LEMMA BuildKeeps ==
  ASSUME Camera!TypeOK, CameraInv, Camera!Build
  PROVE  Camera!TypeOK' /\ CameraInv'
<1> DEFINE name == Camera!BuildSteps[camStep]
<1>1. /\ UNCHANGED <<camMade, camCur, camListener, camFrames, camFreed, camTwice, camDoubled, camLeft, camTorn>>
      /\ camMain = "construct"
      /\ camLive' = [camLive EXCEPT ![camCur] = @ \union ({name} \intersect Camera!Objects)]
      /\ camFile' = IF name = "stream" THEN << >> ELSE camFile
  BY DEF Camera!Build
<1>2. \/ camStep < 14 /\ camStep' = camStep + 1 /\ UNCHANGED <<camMain, camPtr, camRunning>>
      \/ /\ camStep = 14 /\ camStep' = camStep /\ camMain' = "idle" /\ camPtr' = camCur
         /\ camRunning' = camRunning \union {camCur}
  BY CameraSteps DEF Camera!Build, Camera!TypeOK
<1>3. /\ camCur = camMade /\ camCur \in Camera!Cameras /\ camStep \in 1 .. 14
      /\ camCur \notin camRunning \union camFreed /\ camListener[camCur] = 0
      /\ camStep > 1 => "stream" \in camLive[camCur]
  BY <1>1, CameraSteps DEF CameraInv, MainInv, Camera!TypeOK
<1>4. /\ camLive'[camCur] = camLive[camCur] \union ({name} \intersect Camera!Objects)
      /\ \A c \in Camera!Cameras : c # camCur => camLive'[c] = camLive[c]
      /\ camLive' \in [Camera!Cameras -> SUBSET Camera!Objects]
  BY <1>1, <1>3 DEF Camera!TypeOK
<1>5. "stream" \in camLive'[camCur]
  <2>1. camStep = 1 => name = "stream" /\ "stream" \in Camera!Objects
    BY CameraSteps DEF Camera!Objects
  <2> QED BY <1>3, <1>4, <2>1
<1>6. Camera!TypeOK'
  <2>1. << >> \in Seq(1 .. 3)
    OBVIOUS
  <2>2. camFile' \in Seq(1 .. 3)
    BY <1>1, <2>1 DEF Camera!TypeOK
  <2>3. camStep' \in 1 .. 14
    BY <1>2, <1>3
  <2>4. camMain' \in {"idle", "construct", "destroy"} /\ camRunning' \subseteq Camera!Cameras
    BY <1>1, <1>2, <1>3 DEF Camera!TypeOK
  <2>5. camPtr' \in 0 .. camMade'
    BY <1>1, <1>2 DEF Camera!TypeOK
  <2> QED BY <1>1, <1>4, <2>2, <2>3, <2>4, <2>5, CameraSteps DEF Camera!TypeOK
<1>7. FreshInv'
  <2>1. camMade \in Nat
    BY CameraAssumption DEF Camera!TypeOK
  <2>2. \A c \in Camera!Cameras : c > camMade => c # camCur
    BY <1>3, <2>1
  <2> QED BY <1>1, <1>2, <1>4, <2>2 DEF CameraInv, FreshInv
<1>8. MainInv'
  BY <1>1, <1>2, <1>3, <1>5 DEF MainInv
<1>9. ReaderInv' /\ Camera!ListenerHasStream' /\ Camera!DeletedHoldsOnlyLocals'
  BY <1>1, <1>2, <1>3, <1>4, <1>5 DEF CameraInv, ReaderInv, Camera!ListenerHasStream,
     Camera!DeletedHoldsOnlyLocals
<1>10. HeldInv' /\ LeftInv'
  BY <1>1, <1>2, <1>3, <1>4 DEF CameraInv, HeldInv, LeftInv
<1>11. PlanesInv' /\ Camera!FileIsWholeFrames'
  <2>1. CASE name = "stream" /\ ~camDoubled
    <3>1. \A c \in Camera!Cameras : camListener[c] = 0
      <4>1. \A c \in Camera!Cameras : camListener[c] # 0 => "reader" \in camLive[c]
        BY DEF CameraInv, ReaderInv
      <4>2. \A c \in Camera!Cameras : "reader" \in camLive[c] => c = camCur
        BY <1>1, <2>1, OneListener
      <4> QED BY <1>3, <4>1, <4>2
    <3>2. camFile' = << >> /\ Len(<< >>) = 0 /\ << >> = [i \in 1 .. 0 |-> ((i - 1) % 3) + 1] /\ 0 % 3 = 0
      BY <1>1, <2>1
    <3> QED BY <1>1, <3>1, <3>2 DEF PlanesInv, Camera!FileIsWholeFrames
  <2>2. CASE name # "stream"
    BY <1>1, <2>2 DEF CameraInv, PlanesInv, Camera!FileIsWholeFrames
  <2>3. CASE camDoubled
    BY <1>1, <2>3 DEF PlanesInv, Camera!FileIsWholeFrames
  <2> QED BY <2>1, <2>2, <2>3
<1> QED BY <1>6, <1>7, <1>8, <1>9, <1>10, <1>11 DEF CameraInv

LEMMA BuildFailsKeeps ==
  ASSUME Camera!TypeOK, CameraInv, Camera!BuildFails
  PROVE  Camera!TypeOK' /\ CameraInv'
<1>1. /\ UNCHANGED <<camMade, camCur, camStep, camLive, camRunning, camListener, camFrames, camFile, camFreed,
                     camTwice, camDoubled, camLeft, camTorn>>
      /\ camMain = "construct" /\ camMain' = "idle" /\ camPtr' = camCur
  BY DEF Camera!BuildFails
<1>2. Camera!TypeOK'
  BY <1>1 DEF Camera!TypeOK
<1>3. FreshInv' /\ MainInv' /\ ReaderInv' /\ Camera!ListenerHasStream' /\ Camera!DeletedHoldsOnlyLocals'
  BY <1>1 DEF CameraInv, FreshInv, MainInv, ReaderInv, Camera!ListenerHasStream, Camera!DeletedHoldsOnlyLocals
<1>4. HeldInv' /\ LeftInv'
  BY <1>1 DEF CameraInv, HeldInv, LeftInv
<1>5. PlanesInv' /\ Camera!FileIsWholeFrames'
  BY <1>1 DEF CameraInv, PlanesInv, Camera!FileIsWholeFrames
<1> QED BY <1>2, <1>3, <1>4, <1>5 DEF CameraInv

LEMMA DestroyKeeps ==
  ASSUME Camera!TypeOK, CameraInv, Camera!Destroy
  PROVE  Camera!TypeOK' /\ CameraInv'
<1> DEFINE name == Camera!DestroySteps[camStep]
<1>1. /\ UNCHANGED <<camMade, camPtr, camCur, camRunning, camListener, camFrames, camFile, camTwice, camDoubled,
                     camLeft, camTorn>>
      /\ camMain = "destroy" /\ (name = "reader" => camListener[camCur] = 0)
      /\ camLive' = [camLive EXCEPT ![camCur] = @ \ {name}]
  BY DEF Camera!Destroy
<1>2. /\ camCur = camPtr /\ camCur \in Camera!Cameras /\ camCur \notin camFreed /\ camStep \in 1 .. 7
      /\ \A i \in 1 .. camStep - 1 : Camera!DestroySteps[i] \notin camLive[camCur]
  BY <1>1, CameraSteps DEF CameraInv, MainInv
<1>3. \/ /\ camStep < 7 /\ camStep' = camStep + 1 /\ camMain' = camMain /\ camFreed' = camFreed
      \/ camStep = 7 /\ camStep' = camStep /\ camMain' = "idle" /\ camFreed' = camFreed \union {camCur}
  BY <1>2, CameraSteps DEF Camera!Destroy
<1>4. /\ camLive'[camCur] = camLive[camCur] \ {name}
      /\ \A c \in Camera!Cameras : c # camCur => camLive'[c] = camLive[c]
      /\ camLive' \in [Camera!Cameras -> SUBSET Camera!Objects]
  BY <1>1, <1>2 DEF Camera!TypeOK
<1>5. \A i \in 1 .. camStep : Camera!DestroySteps[i] \notin camLive'[camCur]
  <2>1. \A i \in 1 .. camStep : i = camStep \/ i \in 1 .. camStep - 1
    BY <1>2
  <2> QED BY <1>2, <1>4, <2>1
<1>6. "reader" \notin camLive'[camCur] /\ camListener[camCur] = 0
  <2>1. 1 \in 1 .. camStep /\ (camStep = 1 \/ 1 \in 1 .. camStep - 1)
    BY <1>2
  <2>2. "reader" \notin camLive'[camCur]
    BY <1>5, <2>1, CameraSteps
  <2>3. camStep # 1 => "reader" \notin camLive[camCur]
    BY <1>2, <2>1, CameraSteps
  <2>4. camListener[camCur] = 0
    BY <1>1, <1>2, <2>3, CameraSteps DEF CameraInv, ReaderInv
  <2> QED BY <2>2, <2>4
<1>7. camStep = 7 => camLive'[camCur] \subseteq Camera!Locals
  <2> SUFFICES ASSUME camStep = 7, NEW o \in camLive'[camCur], o \notin Camera!Locals PROVE FALSE
    OBVIOUS
  <2>1. o \in Camera!Objects
    BY <1>2, <1>4
  <2>2. PICK i \in 1 .. 7 : Camera!DestroySteps[i] = o
    BY <2>1, CameraSteps
  <2> QED BY <1>5, <2>2
<1>8. Camera!TypeOK'
  <2>1. camStep' \in 1 .. 14
    BY <1>2, <1>3
  <2> QED BY <1>1, <1>2, <1>3, <1>4, <2>1, CameraSteps DEF Camera!TypeOK
<1>9. FreshInv'
  <2>1. camMade \in Nat /\ camPtr \in Nat /\ camPtr <= camMade
    BY CameraAssumption DEF Camera!TypeOK
  <2>2. \A c \in Camera!Cameras : c > camMade => c # camCur
    BY CameraAssumption, <1>2, <2>1 DEF Camera!Cameras
  <2> QED BY <1>1, <1>3, <1>4, <2>2 DEF CameraInv, FreshInv
<1>10. MainInv'
  <2>1. CASE camStep = 7
    BY <1>3, <2>1 DEF MainInv
  <2>2. CASE camStep # 7
    <3>1. /\ camMain' = "destroy" /\ camFreed' = camFreed /\ camStep' = camStep + 1
          /\ camStep + 1 \in 1 .. 7 /\ (camStep + 1) - 1 = camStep
      BY <1>1, <1>2, <1>3, <2>2
    <3> QED BY <1>1, <1>2, <1>5, <3>1, CameraSteps DEF MainInv
  <2> QED BY <2>1, <2>2
<1>11. ReaderInv' /\ Camera!ListenerHasStream'
  BY <1>1, <1>2, <1>3, <1>4, <1>6 DEF CameraInv, ReaderInv, Camera!ListenerHasStream
<1>12. Camera!DeletedHoldsOnlyLocals'
  <2> SUFFICES ASSUME NEW c \in camFreed' PROVE camLive'[c] \subseteq Camera!Locals
    BY DEF Camera!DeletedHoldsOnlyLocals
  <2>1. CASE c = camCur
    BY <1>2, <1>3, <1>7, <2>1
  <2>2. CASE c # camCur
    <3>1. c \in camFreed /\ c \in Camera!Cameras
      BY <1>3, <2>2 DEF Camera!TypeOK
    <3>2. camLive[c] \subseteq Camera!Locals
      BY <3>1 DEF CameraInv, Camera!DeletedHoldsOnlyLocals
    <3> QED BY <1>4, <2>2, <3>1, <3>2
  <2> QED BY <2>1, <2>2
<1>13. HeldInv' /\ LeftInv'
  BY <1>1, <1>2, <1>3, <1>4 DEF CameraInv, HeldInv, LeftInv
<1>14. PlanesInv' /\ Camera!FileIsWholeFrames'
  BY <1>1 DEF CameraInv, PlanesInv, Camera!FileIsWholeFrames
<1> QED BY <1>8, <1>9, <1>10, <1>11, <1>12, <1>13, <1>14 DEF CameraInv

\* What the image reader's thread leaves alone.
LEMMA ListenerStays ==
  ASSUME CameraInv, NEW c \in Camera!Cameras,
         UNCHANGED <<camMade, camPtr, camMain, camCur, camStep, camLive, camRunning, camFreed, camDoubled,
                     camLeft>>,
         \A d \in Camera!Cameras : d # c => camListener'[d] = camListener[d],
         c \in camRunning /\ "reader" \in camLive[c]
  PROVE  /\ FreshInv' /\ MainInv' /\ ReaderInv' /\ HeldInv' /\ LeftInv'
         /\ Camera!ListenerHasStream' /\ Camera!DeletedHoldsOnlyLocals'
<1>1. FreshInv'
  BY DEF CameraInv, FreshInv
<1>2. MainInv'
  BY DEF CameraInv, MainInv
<1>3. ReaderInv' /\ Camera!ListenerHasStream'
  BY DEF CameraInv, ReaderInv, Camera!ListenerHasStream
<1>4. HeldInv' /\ LeftInv' /\ Camera!DeletedHoldsOnlyLocals'
  BY DEF CameraInv, HeldInv, LeftInv, Camera!DeletedHoldsOnlyLocals
<1> QED BY <1>1, <1>2, <1>3, <1>4

LEMMA FrameKeeps ==
  ASSUME Camera!TypeOK, CameraInv, NEW c \in Camera!Cameras, Camera!Frame(c)
  PROVE  Camera!TypeOK' /\ CameraInv'
<1>1. /\ UNCHANGED <<camMade, camPtr, camMain, camCur, camStep, camLive, camRunning, camFile, camFreed, camTwice,
                     camDoubled, camLeft, camTorn>>
      /\ c \in camRunning /\ "reader" \in camLive[c] /\ camListener[c] = 0 /\ camFrames[c] < Frames
      /\ camListener' = [camListener EXCEPT ![c] = 1]
      /\ camFrames' = [camFrames EXCEPT ![c] = @ + 1]
  BY DEF Camera!Frame
<1>2. /\ camListener'[c] = 1 /\ \A d \in Camera!Cameras : d # c => camListener'[d] = camListener[d]
      /\ camListener' \in [Camera!Cameras -> 0 .. 3]
  BY <1>1 DEF Camera!TypeOK
<1>3. camFrames' \in [Camera!Cameras -> 0 .. Frames]
  <2>1. camFrames[c] + 1 \in 0 .. Frames
    BY CameraAssumption, <1>1 DEF Camera!TypeOK
  <2> QED BY <1>1, <2>1 DEF Camera!TypeOK
<1>4. Camera!TypeOK'
  BY <1>1, <1>2, <1>3 DEF Camera!TypeOK
<1>5. /\ FreshInv' /\ MainInv' /\ ReaderInv' /\ HeldInv' /\ LeftInv'
      /\ Camera!ListenerHasStream' /\ Camera!DeletedHoldsOnlyLocals'
  BY <1>1, <1>2, ListenerStays
<1>6. PlanesInv' /\ Camera!FileIsWholeFrames'
  <2> SUFFICES ASSUME ~camDoubled, ~camTorn PROVE PlanesInv' /\ Camera!FileIsWholeFrames'
    BY <1>1 DEF PlanesInv, Camera!FileIsWholeFrames
  <2>1. \A d \in Camera!Cameras : camListener[d] = 0
    BY <1>1, OneListener
  <2>2. Len(camFile) % 3 = 0
    BY <2>1 DEF CameraInv, PlanesInv
  <2>3. \A d \in Camera!Cameras : camListener'[d] # 0 => camListener'[d] = 1
    BY <1>2, <2>1
  <2>4. PlanesInv'
    BY <1>1, <1>2, <2>2, <2>3 DEF PlanesInv
  <2> QED BY <1>1, <2>4 DEF CameraInv, Camera!FileIsWholeFrames
<1> QED BY <1>4, <1>5, <1>6 DEF CameraInv

LEMMA ListenKeeps ==
  ASSUME Camera!TypeOK, CameraInv, NEW c \in Camera!Cameras, Camera!Listen(c)
  PROVE  Camera!TypeOK' /\ CameraInv'
<1>1. /\ UNCHANGED <<camMade, camPtr, camMain, camCur, camStep, camLive, camRunning, camFrames, camFreed, camTwice,
                     camDoubled, camLeft>>
      /\ camListener[c] # 0
  BY DEF Camera!Listen, Camera!WritePlane, Camera!ListenerGivesUp
<1>2. /\ c \in camRunning /\ "reader" \in camLive[c]
      /\ camListener[c] \in 1 .. 3
      /\ camFile \in Seq(1 .. 3) /\ Len(camFile) \in Nat
  BY <1>1 DEF CameraInv, ReaderInv, Camera!TypeOK
<1>3. ASSUME ~camDoubled, ~camTorn
      PROVE  /\ \A d \in Camera!Cameras : d # c => camListener[d] = 0
             /\ Len(camFile) % 3 = camListener[c] - 1
  BY <1>1, <1>2, <1>3, OneListener DEF CameraInv, PlanesInv
<1>4. CASE Camera!WritePlane(c)
  <2>1. /\ camFile' = Append(camFile, camListener[c]) /\ camTorn' = camTorn
        /\ camListener' = [camListener EXCEPT ![c] = IF @ = 3 THEN 0 ELSE @ + 1]
    BY <1>4 DEF Camera!WritePlane
  <2>2. (IF camListener[c] = 3 THEN 0 ELSE camListener[c] + 1) \in 0 .. 3
    BY <1>2
  <2>3. /\ camListener'[c] = IF camListener[c] = 3 THEN 0 ELSE camListener[c] + 1
        /\ \A d \in Camera!Cameras : d # c => camListener'[d] = camListener[d]
        /\ camListener' \in [Camera!Cameras -> 0 .. 3]
    BY <2>1, <2>2 DEF Camera!TypeOK
  <2>4. camFile' \in Seq(1 .. 3)
    BY <1>2, <2>1
  <2>5. Camera!TypeOK'
    BY <1>1, <2>1, <2>3, <2>4 DEF Camera!TypeOK
  <2>6. /\ FreshInv' /\ MainInv' /\ ReaderInv' /\ HeldInv' /\ LeftInv'
        /\ Camera!ListenerHasStream' /\ Camera!DeletedHoldsOnlyLocals'
    BY <1>1, <1>2, <2>3, ListenerStays
  <2>7. PlanesInv' /\ Camera!FileIsWholeFrames'
    <3> SUFFICES ASSUME ~camDoubled, ~camTorn PROVE PlanesInv' /\ Camera!FileIsWholeFrames'
      BY <1>1, <2>1 DEF PlanesInv, Camera!FileIsWholeFrames
    <3>1. camFile = [i \in 1 .. Len(camFile) |-> ((i - 1) % 3) + 1]
      BY DEF CameraInv, Camera!FileIsWholeFrames
    <3>2. /\ Len(camFile') = Len(camFile) + 1
          /\ camFile' = [i \in 1 .. Len(camFile') |-> ((i - 1) % 3) + 1]
          /\ Len(camFile') % 3 = IF camListener[c] = 3 THEN 0 ELSE camListener[c]
      BY <1>2, <1>3, <2>1, <3>1, PlaneAppended
    <3>3. PlanesInv'
      <4>1. \A d \in Camera!Cameras : camListener'[d] # 0 => d = c /\ camListener[c] # 3
        BY <1>3, <2>3
      <4>2. camListener[c] # 3 => camListener'[c] - 1 = camListener[c] /\ camListener'[c] # 0
        BY <1>2, <2>3
      <4> QED BY <3>2, <4>1, <4>2 DEF PlanesInv
    <3> QED BY <3>2, <3>3 DEF Camera!FileIsWholeFrames
  <2> QED BY <2>5, <2>6, <2>7 DEF CameraInv
<1>5. CASE Camera!ListenerGivesUp(c)
  <2>1. /\ camFile' = camFile /\ camListener' = [camListener EXCEPT ![c] = 0]
    BY <1>5 DEF Camera!ListenerGivesUp
  <2>2. camTorn' \in BOOLEAN
    BY <1>5 DEF Camera!ListenerGivesUp
  <2>3. ~camTorn' => ~camTorn /\ camListener[c] = 1
    BY <1>5 DEF Camera!ListenerGivesUp
  <2>4. /\ camListener'[c] = 0 /\ \A d \in Camera!Cameras : d # c => camListener'[d] = camListener[d]
        /\ camListener' \in [Camera!Cameras -> 0 .. 3]
    BY <2>1 DEF Camera!TypeOK
  <2>5. Camera!TypeOK'
    BY <1>1, <2>1, <2>2, <2>4 DEF Camera!TypeOK
  <2>6. /\ FreshInv' /\ MainInv' /\ ReaderInv' /\ HeldInv' /\ LeftInv'
        /\ Camera!ListenerHasStream' /\ Camera!DeletedHoldsOnlyLocals'
    BY <1>1, <1>2, <2>4, ListenerStays
  <2>7. Camera!FileIsWholeFrames'
    BY <1>1, <2>1, <2>3 DEF CameraInv, Camera!FileIsWholeFrames
  <2>8. PlanesInv'
    <3> SUFFICES ASSUME ~camDoubled, ~camTorn' PROVE PlanesInv'
      BY <1>1 DEF PlanesInv
    <3>1. Len(camFile) % 3 = 0 /\ \A d \in Camera!Cameras : camListener'[d] = 0
      BY <1>3, <2>3, <2>4
    <3> QED BY <2>1, <3>1 DEF PlanesInv
  <2> QED BY <2>5, <2>6, <2>7, <2>8 DEF CameraInv
<1> QED BY <1>4, <1>5 DEF Camera!Listen

\* However often the buttons are pressed, and wherever a constructor or a listener gives
\* up: a listener has its stream, what a camera holds can be released as long as it is the
\* only one and the screen is not left with it, a deleted one has closed all its members
\* point to, and with one camera at a time the file is whole frames.
THEOREM CameraIsSafe == Camera!Spec => []HoldingsSafe
<1>1. Camera!Init => Camera!TypeOK /\ CameraInv
  BY CameraInit
<1>2. Camera!TypeOK /\ CameraInv /\ [Camera!Next]_(Camera!vars) => Camera!TypeOK' /\ CameraInv'
  <2>1. Camera!TypeOK /\ CameraInv /\ Camera!Next => Camera!TypeOK' /\ CameraInv'
    BY PressCreateKeeps, PressReleaseKeeps, LeaveKeeps, BuildKeeps, BuildFailsKeeps, DestroyKeeps, FrameKeeps,
       ListenKeeps
       DEF Camera!Next, Camera!Listen
  <2>2. Camera!TypeOK /\ CameraInv /\ UNCHANGED Camera!vars => Camera!TypeOK' /\ CameraInv'
    <3> SUFFICES ASSUME Camera!TypeOK, CameraInv, UNCHANGED Camera!vars PROVE Camera!TypeOK' /\ CameraInv'
      OBVIOUS
    <3> USE DEF Camera!vars
    <3>1. Camera!TypeOK'
      BY DEF Camera!TypeOK
    <3>2. FreshInv' /\ MainInv' /\ ReaderInv'
      BY DEF CameraInv, FreshInv, MainInv, ReaderInv
    <3>3. HeldInv' /\ LeftInv' /\ PlanesInv' /\ Camera!FileIsWholeFrames'
      BY DEF CameraInv, HeldInv, LeftInv, PlanesInv, Camera!FileIsWholeFrames
    <3>4. Camera!ListenerHasStream' /\ Camera!DeletedHoldsOnlyLocals'
      BY DEF CameraInv, Camera!ListenerHasStream, Camera!DeletedHoldsOnlyLocals
    <3> QED BY <3>1, <3>2, <3>3, <3>4 DEF CameraInv
  <2> QED BY <2>1, <2>2
<1>3. Camera!TypeOK /\ CameraInv => HoldingsSafe
  <2> SUFFICES ASSUME Camera!TypeOK, CameraInv PROVE HoldingsSafe
    OBVIOUS
  <2>1. Camera!HeldIsReachable
    <3> SUFFICES ASSUME camMain = "idle", ~camDoubled, ~camLeft, NEW c \in Camera!Cameras,
                        camLive[c] \ Camera!Locals # {}
                 PROVE  camPtr = c /\ c \notin camFreed
      BY DEF Camera!HeldIsReachable
    <3> QED BY DEF CameraInv, HeldInv, Camera!DeletedHoldsOnlyLocals
  <2> QED BY <2>1 DEF CameraInv, HoldingsSafe, Camera!HoldingsSafe
<1> QED BY <1>1, <1>2, <1>3, PTL DEF Camera!Spec

-----------------------------------------------------------------------------
-----------------------------------------------------------------------------
(* The steps of the constructor and the file.                              *)

LEMMA ConstructSteps ==
  /\ Len(Recorder!Steps) = 10 /\ DOMAIN Recorder!Steps = 1 .. 10
  /\ \A i \in 1 .. 10 : Recorder!Steps[i] = "record" <=> i = 10
  /\ Recorder!Steps[1] = "engine" /\ Recorder!Steps[4] = "recorder" /\ Recorder!Steps[8] = "file"
<1>1. \A i \in 1 .. 10 : i \in {1, 2, 3, 4, 5, 6, 7, 8, 9, 10}
  OBVIOUS
<1>2. Recorder!Steps[10] = "record" /\ Recorder!Steps[1] = "engine" /\ Recorder!Steps[4] = "recorder"
      /\ Recorder!Steps[8] = "file" /\ Len(Recorder!Steps) = 10
      /\ DOMAIN Recorder!Steps = 1 .. 10
  BY DEF Recorder!Steps
<1>3. ASSUME NEW i \in 1 .. 10, i # 10 PROVE Recorder!Steps[i] # "record"
  BY <1>1, <1>3 DEF Recorder!Steps
<1> QED BY <1>2, <1>3

LEMMA ChunkAppended ==
  ASSUME NEW S, NEW q \in Seq(S), NEW e \in S
  PROVE  /\ Append(q, e) \in Seq(S)
         /\ Len(q) \in Nat /\ Len(Append(q, e)) = Len(q) + 1
         /\ \A i \in 1 .. Len(q) : Append(q, e)[i] = q[i]
         /\ Append(q, e)[Len(q) + 1] = e
OBVIOUS

\* A file of chunks in order, from 0, stays one when the next chunk is written.
LEMMA NextChunk ==
  ASSUME NEW q \in Seq(0 .. Chunks), NEW e \in 0 .. Chunks, e = Len(q),
         \A i \in 1 .. Len(q) : q[i] = i - 1
  PROVE  \A i \in 1 .. Len(Append(q, e)) : Append(q, e)[i] = i - 1
<1>1. /\ Len(q) \in Nat /\ Len(Append(q, e)) = Len(q) + 1
      /\ \A i \in 1 .. Len(q) : Append(q, e)[i] = q[i]
      /\ Append(q, e)[Len(q) + 1] = e
  BY ChunkAppended
<1>2. \A i \in 1 .. Len(q) + 1 : i \in 1 .. Len(q) \/ i = Len(q) + 1
  BY <1>1
<1> QED BY <1>1, <1>2

-----------------------------------------------------------------------------
(* The inductive invariant.                                                *)

\* How far the caller is: when the microphone is on, and what then exists.
HolderInv ==
  /\ micPc \in {"primeEnqueue", "primeWrite", "open"} => micRecording
  /\ micRecording => micPc \in {"primeEnqueue", "primeWrite", "open", "failed"}
  /\ micPc = "construct" =>
       /\ micStep > 1 => "engine" \in micLive
       /\ micStep > 4 => "recorder" \in micLive
       /\ micStep > 8 => {"file", "context"} \subseteq micLive
  /\ micPc = "primeEnqueue" \/ (micPc = "failed" /\ micRecording) => micLive = Recorder!Objects
  /\ micRecording \/ micPc = "stopped" => {"file", "context"} \subseteq micLive
  /\ micPc \in {"construct", "failed", "primeEnqueue"} =>
       /\ micQueued = 0 /\ micFilled = 0 /\ micCalled = 0 /\ micCb = "idle"
       /\ micFile = << >> /\ ~micOvertaken

\* A callback that runs was called for a chunk.
CallbackInv == micCb # "idle" => micCalled > 0

\* The callbacks that find the context deleted are the last two.
LateInv ==
  /\ micLate \subseteq {micFilled - 1, micFilled}
  /\ micLate # {} => micPc \in {"deleted", "released"}

\* Callbacks that have begun and not written yet, the constructor's own not counted.
Unwritten == IF micCb = "idle" THEN 0 ELSE 1

\* While the microphone is on each callback writes once, if it does not throw; a callback
\* that was not overtaken has the last chunk in its hands.
FileInv ==
  /\ ~micOvertaken => \A i \in 1 .. Len(micFile) : micFile[i] = i - 1
  /\ micPc = "primeWrite" /\ ~micOvertaken => micFilled = 0
  /\ micPc = "primeWrite" /\ micDead = "no" => Len(micFile) + Unwritten = micCalled
  /\ micPc = "open" /\ micDead = "no" => Len(micFile) + Unwritten = micCalled + 1
  /\ micCb # "idle" /\ ~micOvertaken => Len(micFile) = micCalled /\ micCalled = micFilled

RecorderInv == Recorder!OneBufferOutstanding /\ HolderInv /\ CallbackInv /\ LateInv /\ FileInv

-----------------------------------------------------------------------------
(* Every step keeps the types and the invariant.                           *)

Counters ==
  /\ micQueued \in Nat /\ micFilled \in Nat /\ micCalled \in Nat /\ micCalled <= micFilled
  /\ Chunks \in Nat /\ NumBuffers \in Nat \ {0} /\ micFilled <= Chunks

LEMMA CountersFact == Recorder!TypeOK => Counters
BY RecorderAssumption DEF Recorder!TypeOK, Counters

LEMMA RecorderInit == Recorder!Init => Recorder!TypeOK /\ RecorderInv
<1> SUFFICES ASSUME Recorder!Init PROVE Recorder!TypeOK /\ RecorderInv
  OBVIOUS
<1>1. Recorder!TypeOK
  <2>1. 1 \in DOMAIN Recorder!Steps
    BY ConstructSteps
  <2>2. << >> \in Seq(0 .. Chunks) /\ 0 \in 0 .. Chunks /\ 0 \in 0 .. NumBuffers
    BY RecorderAssumption
  <2>3. micFile \in Seq(0 .. Chunks) /\ micStep \in DOMAIN Recorder!Steps
    BY <2>1, <2>2 DEF Recorder!Init
  <2>4. micQueued \in 0 .. NumBuffers /\ micFilled \in 0 .. Chunks /\ micCalled \in 0 .. micFilled
    BY <2>2 DEF Recorder!Init
  <2> QED BY <2>3, <2>4 DEF Recorder!Init, Recorder!TypeOK
<1>2. Recorder!OneBufferOutstanding /\ HolderInv /\ CallbackInv /\ LateInv
  BY DEF Recorder!Init, Recorder!OneBufferOutstanding, HolderInv, CallbackInv, LateInv
<1>3. FileInv
  BY DEF Recorder!Init, FileInv, Unwritten
<1> QED BY <1>1, <1>2, <1>3 DEF RecorderInv

LEMMA ConstructKeeps ==
  Recorder!TypeOK /\ RecorderInv /\ Recorder!Construct => Recorder!TypeOK' /\ RecorderInv'
<1> SUFFICES ASSUME Recorder!TypeOK, RecorderInv, Recorder!Construct
             PROVE Recorder!TypeOK' /\ RecorderInv'
  OBVIOUS
<1>1. /\ UNCHANGED <<micQueued, micFile, micOvertaken, micDead, micFilled, micCalled, micCb,
                     micLate>>
      /\ micQueued = 0 /\ micFilled = 0 /\ micCalled = 0 /\ micCb = "idle" /\ micFile = << >>
         /\ ~micOvertaken /\ micDead = "no"
      /\ micStep \in 1 .. 10 /\ micLate = {}
  BY ConstructSteps
  DEF Recorder!Construct, Recorder!opensl, RecorderInv, HolderInv, LateInv, Recorder!TypeOK
<1>2. /\ micStep = 10 => micPc' = "primeEnqueue" /\ micStep' = 10 /\ micRecording'
      /\ micStep # 10 => micPc' = "construct" /\ micStep' = micStep + 1 /\ ~micRecording'
  BY <1>1, ConstructSteps DEF Recorder!Construct, Recorder!StartsAt
<1>3. /\ micLive' = micLive \union Recorder!Created(Recorder!Steps[micStep])
         /\ micLive \subseteq micLive'
      /\ micStep = 1 => "engine" \in micLive'
      /\ micStep = 4 => "recorder" \in micLive'
      /\ micStep = 8 => {"file", "context"} \subseteq micLive'
      /\ micLive' \subseteq Recorder!Objects /\ micRecording' \in BOOLEAN
  BY <1>1, ConstructSteps
  DEF Recorder!Construct, Recorder!Created, Recorder!TypeOK, Recorder!Objects, Recorder!StartsAt
<1>4. /\ micStep > 1 => "engine" \in micLive
      /\ micStep > 4 => "recorder" \in micLive
      /\ micStep > 8 => {"file", "context"} \subseteq micLive
  BY <1>1 DEF RecorderInv, HolderInv, Recorder!Construct
<1>5. micPc' \in {"construct", "primeEnqueue"} /\ micStep' \in 1 .. 10
  BY <1>1, <1>2
<1>6. Recorder!TypeOK'
  BY <1>1, <1>3, <1>5, ConstructSteps DEF Recorder!TypeOK
<1>7. HolderInv'
  <2>1. CASE micStep = 10
    <3>1. micLive' = Recorder!Objects
      BY <1>1, <1>3, <1>4, <2>1 DEF Recorder!Objects
    <3> QED BY <1>1, <1>2, <2>1, <3>1 DEF HolderInv, Recorder!Objects
  <2>2. CASE micStep # 10
    <3>1. /\ micStep' > 1 => "engine" \in micLive'
          /\ micStep' > 4 => "recorder" \in micLive'
          /\ micStep' > 8 => {"file", "context"} \subseteq micLive'
      BY <1>1, <1>2, <1>3, <1>4, <2>2
    <3> QED BY <1>1, <1>2, <2>2, <3>1 DEF HolderInv
  <2> QED BY <2>1, <2>2
<1>8. Recorder!OneBufferOutstanding' /\ CallbackInv' /\ LateInv'
  BY <1>1 DEF Recorder!OneBufferOutstanding, CallbackInv, LateInv
<1>9. FileInv'
  BY <1>1, <1>5 DEF FileInv, Unwritten
<1> QED BY <1>6, <1>7, <1>8, <1>9 DEF RecorderInv

LEMMA ConstructFailsKeeps ==
  Recorder!TypeOK /\ RecorderInv /\ Recorder!ConstructFails => Recorder!TypeOK' /\ RecorderInv'
BY DEF Recorder!ConstructFails, Recorder!opensl, Recorder!TypeOK, RecorderInv,
    Recorder!OneBufferOutstanding, HolderInv, CallbackInv, LateInv,
       FileInv, Unwritten

LEMMA PrimeEnqueueKeeps ==
  Recorder!TypeOK /\ RecorderInv /\ Recorder!PrimeEnqueue => Recorder!TypeOK' /\ RecorderInv'
<1> SUFFICES ASSUME Recorder!TypeOK, RecorderInv, Recorder!PrimeEnqueue
             PROVE Recorder!TypeOK' /\ RecorderInv'
  OBVIOUS
<1>1. /\ UNCHANGED <<micStep, micLive, micRecording, micFile, micOvertaken, micDead, micFilled,
                     micCalled, micCb, micLate>>
      /\ micPc = "primeEnqueue" /\ micPc' = "primeWrite" /\ micRecording /\ micQueued' = 1
      /\ micQueued = 0 /\ micFilled = 0 /\ micCalled = 0 /\ micCb = "idle" /\ micFile = << >>
         /\ ~micOvertaken /\ micDead = "no"
  BY DEF Recorder!PrimeEnqueue, Recorder!opensl, RecorderInv, HolderInv
<1>2. Recorder!TypeOK'
  BY <1>1, RecorderAssumption DEF Recorder!TypeOK
<1>3. HolderInv'
  BY <1>1 DEF RecorderInv, HolderInv
<1>4. Recorder!OneBufferOutstanding' /\ CallbackInv' /\ LateInv'
  BY <1>1 DEF RecorderInv, Recorder!OneBufferOutstanding, CallbackInv, LateInv
<1>5. FileInv'
  BY <1>1 DEF FileInv, Unwritten
<1> QED BY <1>2, <1>3, <1>4, <1>5 DEF RecorderInv

\* The constructor's own callback throws: the microphone stays on, with nothing queued.
LEMMA PrimeFailsKeeps ==
  Recorder!TypeOK /\ RecorderInv /\ Recorder!PrimeFails => Recorder!TypeOK' /\ RecorderInv'
<1> SUFFICES ASSUME Recorder!TypeOK, RecorderInv, Recorder!PrimeFails
             PROVE Recorder!TypeOK' /\ RecorderInv'
  OBVIOUS
<1>1. /\ UNCHANGED <<micStep, micLive, micRecording, micQueued, micFile, micOvertaken, micDead,
                     micFilled, micCalled, micCb, micLate>>
      /\ micPc = "primeEnqueue" /\ micPc' = "failed"
  BY DEF Recorder!PrimeFails, Recorder!opensl
<1>2. Recorder!TypeOK'
  BY <1>1 DEF Recorder!TypeOK
<1>3. HolderInv'
  BY <1>1 DEF RecorderInv, HolderInv, Recorder!Objects
<1>4. Recorder!OneBufferOutstanding' /\ CallbackInv' /\ LateInv' /\ FileInv'
  BY <1>1 DEF RecorderInv, Recorder!OneBufferOutstanding, CallbackInv, LateInv, FileInv, Unwritten
<1> QED BY <1>2, <1>3, <1>4 DEF RecorderInv

LEMMA PrimeWriteKeeps ==
  Recorder!TypeOK /\ RecorderInv /\ Recorder!PrimeWrite => Recorder!TypeOK' /\ RecorderInv'
<1> SUFFICES ASSUME Recorder!TypeOK, RecorderInv, Recorder!PrimeWrite
             PROVE Recorder!TypeOK' /\ RecorderInv'
  OBVIOUS
<1>1. /\ UNCHANGED <<micStep, micLive, micRecording, micQueued, micOvertaken, micDead, micFilled,
                     micCalled, micCb, micLate>>
      /\ micDead = "no" /\ micPc = "primeWrite" /\ micPc' = "open" /\ micFile' = Append(micFile, micFilled)
  BY DEF Recorder!PrimeWrite, Recorder!opensl
<1>2. micFile \in Seq(0 .. Chunks) /\ micFilled \in 0 .. Chunks
  BY DEF Recorder!TypeOK
<1>3. micFile' \in Seq(0 .. Chunks) /\ Len(micFile') = Len(micFile) + 1 /\ Len(micFile) \in Nat
  BY <1>1, <1>2, ChunkAppended
<1>4. Recorder!TypeOK'
  BY <1>1, <1>3 DEF Recorder!TypeOK
<1>5. HolderInv' /\ Recorder!OneBufferOutstanding' /\ CallbackInv' /\ LateInv'
  BY <1>1 DEF RecorderInv, HolderInv, Recorder!OneBufferOutstanding, CallbackInv, LateInv
<1>6. FileInv'
  <2>1. ASSUME ~micOvertaken
        PROVE micFilled = 0 /\ micCalled = 0 /\ micCb = "idle" /\ Len(micFile) = 0
    BY <1>1, <2>1, <1>3, CountersFact DEF Counters, RecorderInv, FileInv, CallbackInv, Unwritten
  <2>2. ~micOvertaken => \A i \in 1 .. Len(micFile') : micFile'[i] = i - 1
    <3> SUFFICES ASSUME ~micOvertaken PROVE \A i \in 1 .. Len(micFile') : micFile'[i] = i - 1
      OBVIOUS
    <3>1. \A i \in 1 .. Len(micFile) : micFile[i] = i - 1
      BY DEF RecorderInv, FileInv
    <3> QED BY <1>1, <1>2, <2>1, <3>1, NextChunk
  <2>3. Len(micFile') + Unwritten = micCalled + 1
    BY <1>1, <1>3, CountersFact DEF Counters, RecorderInv, FileInv, Unwritten
  <2> QED BY <1>1, <2>1, <2>2, <2>3 DEF FileInv, Unwritten
<1> QED BY <1>4, <1>5, <1>6 DEF RecorderInv

LEMMA DeleteKeeps ==
  Recorder!TypeOK /\ RecorderInv /\ (Recorder!Stop \/ Recorder!DeleteContext) =>
  Recorder!TypeOK' /\ RecorderInv'
<1> SUFFICES ASSUME Recorder!TypeOK, RecorderInv, Recorder!Stop \/ Recorder!DeleteContext
             PROVE Recorder!TypeOK' /\ RecorderInv'
  OBVIOUS
<1>1. /\ UNCHANGED <<micStep, micQueued, micFile, micOvertaken, micDead, micFilled, micCalled,
                     micCb, micLate>>
      /\ \/ micPc = "open" /\ micPc' = "stopped" /\ ~micRecording' /\ micLive' = micLive
         \/ micPc = "stopped" /\ micPc' = "deleted" /\ UNCHANGED micRecording
            /\ micLive' = micLive \ {"file", "context"}
  BY DEF Recorder!Stop, Recorder!DeleteContext, Recorder!opensl
<1>2. Recorder!TypeOK'
  BY <1>1 DEF Recorder!TypeOK, Recorder!Stop, Recorder!DeleteContext
<1>3. HolderInv'
  BY <1>1 DEF RecorderInv, HolderInv
<1>4. Recorder!OneBufferOutstanding' /\ CallbackInv' /\ LateInv'
  BY <1>1 DEF RecorderInv, Recorder!OneBufferOutstanding, CallbackInv, LateInv
<1>5. FileInv'
  BY <1>1 DEF RecorderInv, FileInv, Unwritten
<1> QED BY <1>2, <1>3, <1>4, <1>5 DEF RecorderInv

LEMMA DestroyObjectsKeeps ==
  Recorder!TypeOK /\ RecorderInv /\ Recorder!Destroy => Recorder!TypeOK' /\ RecorderInv'
<1> SUFFICES ASSUME Recorder!TypeOK, RecorderInv, Recorder!Destroy
             PROVE Recorder!TypeOK' /\ RecorderInv'
  OBVIOUS
<1>1. /\ UNCHANGED <<micStep, micRecording, micFilled, micCb, micFile, micOvertaken, micLate,
                     micDead>>
      /\ micCb = "idle" /\ micCalled' = micFilled /\ micLive' = {} /\ micQueued' = 0
      /\ micPc = "deleted" /\ micPc' = "released"
  BY DEF Recorder!Destroy
<1>2. Recorder!TypeOK'
  BY <1>1, CountersFact DEF Counters, Recorder!TypeOK
<1>3. HolderInv' /\ Recorder!OneBufferOutstanding' /\ CallbackInv' /\ LateInv'
  BY <1>1, CountersFact
  DEF Counters, RecorderInv, HolderInv, Recorder!OneBufferOutstanding, CallbackInv, LateInv
<1>4. FileInv'
  BY <1>1 DEF RecorderInv, FileInv, Unwritten
<1> QED BY <1>2, <1>3, <1>4 DEF RecorderInv

\* A chunk is recorded over the last one: it overtakes a write that still runs.
LEMMA FillKeeps ==
  Recorder!TypeOK /\ RecorderInv /\ Recorder!Fill => Recorder!TypeOK' /\ RecorderInv'
<1> SUFFICES ASSUME Recorder!TypeOK, RecorderInv, Recorder!Fill
             PROVE Recorder!TypeOK' /\ RecorderInv'
  OBVIOUS
<1> USE CountersFact DEF Counters
<1>1. /\ UNCHANGED <<micPc, micStep, micLive, micRecording, micCalled, micCb, micFile, micLate,
                     micDead>>
      /\ micRecording /\ micQueued > 0 /\ micFilled' = micFilled + 1
         /\ micQueued' = micQueued - 1 /\ micFilled < Chunks
      /\ micOvertaken' = (micOvertaken \/ micCb = "write" \/ micPc = "primeWrite")
  BY DEF Recorder!Fill
<1>2. micPc \in {"primeWrite", "open"} /\ micDead = "no"
  BY <1>1 DEF RecorderInv, HolderInv, Recorder!Fill
<1>3. micCb # "enqueue" /\ micCalled = micFilled
  <2>1. micQueued + (micFilled - micCalled) + (IF micCb = "enqueue" THEN 1 ELSE 0) <= 1
    BY DEF RecorderInv, Recorder!OneBufferOutstanding
  <2>2. micFilled - micCalled \in Nat /\ micQueued \in Nat \ {0}
    BY <1>1
  <2>3. micCb # "enqueue"
    BY <2>1, <2>2
  <2>4. micFilled - micCalled = 0
    BY <2>1, <2>2, <2>3
  <2> QED BY <2>3, <2>4
<1>4. micOvertaken' \in BOOLEAN /\ (~micOvertaken' => ~micOvertaken /\ micCb = "idle"
      /\ micPc = "open")
  <2>1. micOvertaken' \in BOOLEAN /\ (micOvertaken' <=> micOvertaken \/ micCb = "write" \/ micPc = "primeWrite")
    BY <1>1 DEF Recorder!TypeOK
  <2>2. micCb \in {"idle", "enqueue", "write"}
    BY DEF Recorder!TypeOK
  <2> QED BY <1>2, <1>3, <2>1, <2>2
<1>5. Recorder!TypeOK'
  BY <1>1, <1>4 DEF Recorder!TypeOK
<1>6. Recorder!OneBufferOutstanding' /\ CallbackInv'
  BY <1>1, <1>3 DEF RecorderInv, Recorder!OneBufferOutstanding, CallbackInv
<1>7. HolderInv'
  BY <1>1, <1>2 DEF RecorderInv, HolderInv
<1>8. LateInv'
  BY <1>1, <1>2 DEF RecorderInv, LateInv
<1>9. FileInv'
  BY <1>1, <1>2, <1>3, <1>4 DEF RecorderInv, FileInv, Unwritten
<1> QED BY <1>5, <1>6, <1>7, <1>8, <1>9 DEF RecorderInv

\* A callback that uses the context late is one of the last two.
LEMMA UseContextKeeps ==
  ASSUME Recorder!TypeOK, RecorderInv, Recorder!UseContext, micCalled' \in {micFilled - 1,
      micFilled}, micCalled' > 0,
         micCb # "idle" \/ Recorder!Due, UNCHANGED <<micPc, micFilled>>
  PROVE  LateInv' /\ micLate' \subseteq 1 .. Chunks
<1> USE CountersFact DEF Counters
<1>1. CASE "context" \in micLive
  BY <1>1 DEF Recorder!UseContext, RecorderInv, LateInv, Recorder!TypeOK
<1>2. CASE "context" \notin micLive
  <2>1. micPc \notin {"construct", "failed", "primeEnqueue"}
    BY DEF RecorderInv, HolderInv, Recorder!Due
  <2>2. micPc \in {"deleted", "released"}
    BY <1>2, <2>1 DEF RecorderInv, HolderInv, Recorder!TypeOK
  <2>3. micLate' = micLate \union {micCalled'} /\ micCalled' \in 1 .. Chunks
    BY <1>2 DEF Recorder!UseContext
  <2> QED BY <2>2, <2>3 DEF RecorderInv, LateInv, Recorder!TypeOK
<1> QED BY <1>1, <1>2

LEMMA StartsKeeps ==
  Recorder!TypeOK /\ RecorderInv /\ Recorder!CallbackStarts => Recorder!TypeOK' /\ RecorderInv'
<1> SUFFICES ASSUME Recorder!TypeOK, RecorderInv, Recorder!CallbackStarts
             PROVE Recorder!TypeOK' /\ RecorderInv'
  OBVIOUS
<1> USE CountersFact DEF Counters
<1>1. /\ UNCHANGED <<micPc, micStep, micLive, micRecording, micQueued, micFilled, micFile,
                     micOvertaken, micDead>>
      /\ micDead = "no"
      /\ micCb = "idle" /\ Recorder!Due /\ micCalled' = micCalled + 1 /\ Recorder!UseContext
      /\ micCb' = IF micRecording THEN "enqueue" ELSE "idle"
  BY DEF Recorder!CallbackStarts
<1>2. micCalled' = micFilled /\ micCalled' > 0 /\ micQueued = 0
  BY <1>1 DEF RecorderInv, Recorder!OneBufferOutstanding, Recorder!Due
<1>3. LateInv' /\ micLate' \subseteq 1 .. Chunks
  BY <1>1, <1>2, UseContextKeeps
<1>4. Recorder!TypeOK'
  BY <1>1, <1>2, <1>3 DEF Recorder!TypeOK
<1>5. micPc \notin {"construct", "failed", "primeEnqueue"}
  BY <1>1 DEF RecorderInv, HolderInv, Recorder!Due
<1>6. HolderInv'
  BY <1>1, <1>5 DEF RecorderInv, HolderInv
<1>7. Recorder!OneBufferOutstanding' /\ CallbackInv'
  <2>1. micDead' # "full" /\ micQueued' + (micFilled' - micCalled') = 0
    BY <1>1, <1>2 DEF RecorderInv, Recorder!OneBufferOutstanding
  <2> QED BY <1>2, <2>1 DEF Recorder!OneBufferOutstanding, CallbackInv
<1>8. FileInv'
  <2>1. CASE micRecording
    <3>1. micPc \in {"primeWrite", "open"} /\ (~micOvertaken => micPc = "open")
      BY <1>1, <1>2, <1>5, <2>1 DEF RecorderInv, HolderInv, FileInv
    <3>2. micCb' = "enqueue"
      BY <1>1, <2>1
    <3> QED BY <1>1, <1>2, <3>1, <3>2 DEF RecorderInv, FileInv, Unwritten
  <2>2. CASE ~micRecording
    <3>1. micPc \notin {"primeWrite", "open"} /\ micCb' = "idle"
      BY <1>1, <2>2 DEF RecorderInv, HolderInv
    <3> QED BY <1>1, <3>1 DEF RecorderInv, FileInv, Unwritten
  <2> QED BY <2>1, <2>2
<1> QED BY <1>3, <1>4, <1>6, <1>7, <1>8 DEF RecorderInv

LEMMA EnqueuesKeeps ==
  Recorder!TypeOK /\ RecorderInv /\ Recorder!CallbackEnqueues => Recorder!TypeOK' /\ RecorderInv'
<1> SUFFICES ASSUME Recorder!TypeOK, RecorderInv, Recorder!CallbackEnqueues
             PROVE Recorder!TypeOK' /\ RecorderInv'
  OBVIOUS
<1> USE CountersFact DEF Counters
<1>1. micQueued = 0 /\ micCalled = micFilled /\ micCalled > 0 /\ micCb = "enqueue" /\ micDead = "no"
  BY DEF Recorder!CallbackEnqueues, RecorderInv, Recorder!OneBufferOutstanding, CallbackInv
<1>2. /\ UNCHANGED <<micPc, micStep, micLive, micRecording, micFilled, micFile, micOvertaken,
                     micCalled, micDead>>
      /\ Recorder!UseContext /\ micQueued' = 1 /\ micCb' = "write"
  BY <1>1 DEF Recorder!CallbackEnqueues
<1>3. LateInv' /\ micLate' \subseteq 1 .. Chunks
  BY <1>1, <1>2, UseContextKeeps
<1>4. Recorder!TypeOK'
  BY <1>1, <1>2, <1>3 DEF Recorder!TypeOK
<1>5. HolderInv'
  BY <1>1, <1>2 DEF RecorderInv, HolderInv
<1>6. Recorder!OneBufferOutstanding' /\ CallbackInv'
  BY <1>1, <1>2 DEF RecorderInv, Recorder!OneBufferOutstanding, CallbackInv
<1>7. FileInv'
  BY <1>1, <1>2 DEF RecorderInv, FileInv, Unwritten
<1> QED BY <1>3, <1>4, <1>5, <1>6, <1>7 DEF RecorderInv

LEMMA WritesKeeps ==
  Recorder!TypeOK /\ RecorderInv /\ Recorder!CallbackWrites => Recorder!TypeOK' /\ RecorderInv'
<1> SUFFICES ASSUME Recorder!TypeOK, RecorderInv, Recorder!CallbackWrites
             PROVE Recorder!TypeOK' /\ RecorderInv'
  OBVIOUS
<1> USE CountersFact DEF Counters
<1>1. /\ UNCHANGED <<micPc, micStep, micLive, micRecording, micQueued, micFilled, micOvertaken,
                     micDead, micCalled>>
      /\ micDead = "no" /\ micCb = "write" /\ micCb' = "idle" /\ Recorder!UseContext
      /\ micFile' = IF "file" \in micLive THEN Append(micFile, micFilled) ELSE micFile
  BY DEF Recorder!CallbackWrites
<1>2. micCalled \in {micFilled - 1, micFilled} /\ micCalled > 0
  BY <1>1 DEF RecorderInv, Recorder!OneBufferOutstanding, CallbackInv
<1>3. LateInv' /\ micLate' \subseteq 1 .. Chunks
  BY <1>1, <1>2, UseContextKeeps
<1>4. micFile \in Seq(0 .. Chunks) /\ micFilled \in 0 .. Chunks
  BY DEF Recorder!TypeOK
<1>5. /\ "file" \in micLive => micFile' \in Seq(0 .. Chunks) /\ Len(micFile') = Len(micFile) + 1
      /\ "file" \notin micLive => micFile' = micFile
      /\ Len(micFile) \in Nat
  BY <1>1, <1>4, ChunkAppended
<1>6. Recorder!TypeOK'
  BY <1>1, <1>3, <1>5 DEF Recorder!TypeOK
<1>7. micPc \notin {"construct", "failed", "primeEnqueue"}
  BY <1>1 DEF RecorderInv, HolderInv
<1>8. HolderInv' /\ Recorder!OneBufferOutstanding' /\ CallbackInv'
  BY <1>1, <1>7 DEF RecorderInv, HolderInv, Recorder!OneBufferOutstanding, CallbackInv
<1>9. FileInv'
  <2>1. ASSUME ~micOvertaken PROVE \A i \in 1 .. Len(micFile') : micFile'[i] = i - 1
    <3>1. micFilled = Len(micFile) /\ \A i \in 1 .. Len(micFile) : micFile[i] = i - 1
      BY <1>1, <2>1 DEF RecorderInv, FileInv
    <3>2. CASE "file" \in micLive
      BY <1>1, <1>4, <3>1, <3>2, NextChunk
    <3>3. CASE "file" \notin micLive
      BY <1>5, <3>1, <3>3
    <3> QED BY <3>2, <3>3
  <2>2. micPc = "primeWrite" => Len(micFile') = micCalled /\ (~micOvertaken => micFilled = 0)
    BY <1>1, <1>5 DEF RecorderInv, FileInv, HolderInv, Unwritten
  <2>3. micPc = "open" => Len(micFile') = micCalled + 1
    BY <1>1, <1>5 DEF RecorderInv, FileInv, HolderInv, Unwritten
  <2> QED BY <1>1, <2>1, <2>2, <2>3 DEF FileInv, Unwritten
<1> QED BY <1>3, <1>6, <1>8, <1>9 DEF RecorderInv

LEMMA RefusedKeeps ==
  Recorder!TypeOK /\ RecorderInv /\ Recorder!CallbackRefused => Recorder!TypeOK' /\ RecorderInv'
<1> SUFFICES ASSUME Recorder!TypeOK, RecorderInv, Recorder!CallbackRefused
             PROVE Recorder!TypeOK' /\ RecorderInv'
  OBVIOUS
<1> USE CountersFact DEF Counters
<1>1. /\ UNCHANGED <<micPc, micStep, micLive, micRecording, micQueued, micFilled, micCb, micFile,
                     micOvertaken>>
      /\ micDead' = "refused" /\ Recorder!UseContext
      /\ \/ micCb = "idle" /\ Recorder!Due /\ micCalled' = micCalled + 1
         \/ micCb = "enqueue" /\ micCalled' = micCalled
  BY DEF Recorder!CallbackRefused
<1>2. micCalled' = micFilled /\ micCalled' > 0 /\ micQueued = 0
  BY <1>1 DEF RecorderInv, Recorder!OneBufferOutstanding, Recorder!Due, CallbackInv
<1>3. LateInv' /\ micLate' \subseteq 1 .. Chunks
  BY <1>1, <1>2, UseContextKeeps
<1>4. Recorder!TypeOK'
  BY <1>1, <1>2, <1>3 DEF Recorder!TypeOK
<1>5. micPc \notin {"construct", "failed", "primeEnqueue"}
  BY <1>1 DEF RecorderInv, HolderInv, Recorder!Due
<1>6. HolderInv'
  BY <1>1, <1>5 DEF RecorderInv, HolderInv
<1>7. Recorder!OneBufferOutstanding' /\ CallbackInv'
  BY <1>1, <1>2 DEF RecorderInv, Recorder!OneBufferOutstanding, CallbackInv
<1>8. FileInv'
  BY <1>1 DEF RecorderInv, FileInv, Unwritten
<1> QED BY <1>3, <1>4, <1>6, <1>7, <1>8 DEF RecorderInv

LEMMA RecorderStep ==
  Recorder!TypeOK /\ RecorderInv /\ [Recorder!Next]_(Recorder!vars) =>
  Recorder!TypeOK' /\ RecorderInv'
<1> SUFFICES ASSUME Recorder!TypeOK, RecorderInv, [Recorder!Next]_(Recorder!vars)
             PROVE Recorder!TypeOK' /\ RecorderInv'
  OBVIOUS
<1>1. CASE UNCHANGED Recorder!vars
  BY <1>1
  DEF Recorder!vars, Recorder!TypeOK, RecorderInv, Recorder!OneBufferOutstanding, HolderInv,
      CallbackInv, LateInv, FileInv, Unwritten
<1> QED
  BY <1>1, ConstructKeeps, ConstructFailsKeeps, PrimeEnqueueKeeps, PrimeFailsKeeps, PrimeWriteKeeps,
     DeleteKeeps, DestroyObjectsKeeps, FillKeeps, StartsKeeps, EnqueuesKeeps, WritesKeeps, RefusedKeeps
  DEF Recorder!Next

LEMMA RecorderAlways == Recorder!Spec => [](Recorder!TypeOK /\ RecorderInv)
BY RecorderInit, RecorderStep, PTL DEF Recorder!Spec

-----------------------------------------------------------------------------
(* The theorems.                                                           *)

\* The queue is never full when the callback queues its buffer, a failed creation records
\* nothing, with the microphone on only if the constructor's own callback threw, and delete
\* meets two callbacks at most.
THEOREM QueueIsSafe == Recorder!Spec => []QueueSafe
<1>1. Recorder!TypeOK /\ RecorderInv => QueueSafe
  <2> SUFFICES ASSUME Recorder!TypeOK, RecorderInv PROVE QueueSafe
    OBVIOUS
  <2>1. Recorder!OneBufferOutstanding /\ Recorder!FailedRecordsNothing
    BY DEF RecorderInv, HolderInv, Recorder!FailedRecordsNothing
  <2>2. Recorder!TwoLateCallbacks
    <3>1. micLate \subseteq {micFilled - 1, micFilled}
      BY DEF RecorderInv, LateInv
    <3>2. IsFiniteSet({micFilled}) /\ Cardinality({micFilled}) = 1
      BY FS_Singleton
    <3>3. IsFiniteSet({micFilled} \union {micFilled - 1}) /\ Cardinality({micFilled} \union {micFilled - 1}) <= 2
      BY <3>2, FS_AddElement
    <3>4. micLate \subseteq {micFilled} \union {micFilled - 1}
      BY <3>1
    <3>5. Cardinality(micLate) <= Cardinality({micFilled} \union {micFilled - 1}) /\ IsFiniteSet(micLate)
      BY <3>3, <3>4, FS_Subset
    <3>6. Cardinality(micLate) \in Nat /\ Cardinality({micFilled} \union {micFilled - 1}) \in Nat
      BY <3>3, <3>5, FS_CardinalityType
    <3>7. Cardinality(micLate) <= 2
      BY <3>3, <3>5, <3>6
    <3>8. Recorder!Cardinality(micLate) = Cardinality(micLate)
      BY DEF Recorder!Cardinality, Cardinality
    <3> QED BY <3>7, <3>8 DEF Recorder!TwoLateCallbacks
  <2> QED BY <2>1, <2>2 DEF QueueSafe, Recorder!QueueSafe
<1> QED BY <1>1, RecorderAlways, PTL

\* Every chunk reaches the file once and in order unless one was recorded over another.
THEOREM FileIsTheRecording == Recorder!Spec => []FileFaithfulUnlessOvertaken
<1>1. Recorder!TypeOK /\ RecorderInv => FileFaithfulUnlessOvertaken
  <2> SUFFICES ASSUME Recorder!TypeOK, RecorderInv PROVE FileFaithfulUnlessOvertaken
    OBVIOUS
  <2>1. micFile = [i \in 1 .. Len(micFile) |-> micFile[i]] /\ Len(micFile) \in Nat
    BY DEF Recorder!TypeOK
  <2>2. ~micOvertaken => micFile = [i \in 1 .. Len(micFile) |-> i - 1]
    BY <2>1 DEF RecorderInv, FileInv
  <2>3. micPc = "open" /\ micCb = "idle" /\ micDead = "no" => Len(micFile) = micCalled + 1
    BY <2>1 DEF RecorderInv, FileInv, Unwritten
  <2> QED BY <2>2, <2>3 DEF FileFaithfulUnlessOvertaken, Recorder!FileFaithfulUnlessOvertaken
<1> QED BY <1>1, RecorderAlways, PTL

\* No step records into a buffer that was freed.
THEOREM NothingFillsFreedMemory == Recorder!Spec => NoFillAfterFree
<1>1. ASSUME Recorder!TypeOK, RecorderInv, [Recorder!Next]_(Recorder!vars),
             micFilled' # micFilled
      PROVE  "context" \in micLive
  <2>1. Recorder!Fill
    BY <1>1
    DEF Recorder!Next, Recorder!vars, Recorder!opensl, Recorder!Construct,
        Recorder!ConstructFails, Recorder!PrimeEnqueue, Recorder!PrimeWrite, Recorder!Stop,
        Recorder!DeleteContext, Recorder!Destroy, Recorder!CallbackStarts,
        Recorder!CallbackEnqueues, Recorder!CallbackWrites, Recorder!PrimeFails,
        Recorder!CallbackRefused
  <2> QED BY <1>1, <2>1 DEF Recorder!Fill, RecorderInv, HolderInv
<1>2. Recorder!TypeOK /\ RecorderInv /\ [Recorder!Next]_(Recorder!vars) =>
        [micFilled' # micFilled => "context" \in micLive]_(Recorder!vars)
  BY <1>1
<1> QED BY <1>2, RecorderAlways, PTL
        DEF Recorder!Spec, NoFillAfterFree, Recorder!NoFillAfterFree
=============================================================================
