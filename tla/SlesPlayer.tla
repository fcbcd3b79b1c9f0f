----------------------------- MODULE SlesPlayer -----------------------------
(***************************************************************************)
(* The file players of openslLearn.cpp: the class OpenSLESPlayer behind    *)
(* Utils.getPlayer, play, pause, stop, seek, getDuration and releasePlayer *)
(* (mode "object"), and openSLESPlay, which plays a file and blocks until  *)
(* it thinks the file is over (mode "once"). The caller's thread runs      *)
(* against OpenSL ES, which prefetches and plays.                          *)
(***************************************************************************)
EXTENDS Integers

CONSTANTS
  Media,    \* the files: [length, known, readable], length in ticks
  Targets,  \* the positions a caller may seek to
  Micros,   \* microseconds of a tick (1000 in the code, of a millisecond)
  Word,     \* 2^32, the range of usleep's argument
  Calls     \* bound: calls made on the object

Objects == {"engine", "mix", "player"}
Unknown == 3   \* the ticks of the 3 seconds openSLESPlay assumes

ASSUME MediaAssumption == Media \subseteq [length : Nat, known : BOOLEAN, readable : BOOLEAN]
ASSUME TargetsAssumption == Targets \subseteq Nat
ASSUME SleepAssumption == Micros \in Nat \ {0} /\ Word \in Nat /\ Unknown * Micros < Word
ASSUME CallsAssumption == Calls \in Nat

VARIABLES
  mode, media, canSeek,  \* the caller, the file, and whether SL_IID_SEEK is there
  live,      \* OpenSL objects created and not destroyed
  fdOpen,
  state,     \* play state: "stopped", "paused", "playing"
  head,      \* position of the player
  prefetch,  \* SL_PREFETCHSTATUS_SUFFICIENTDATA
  pc,        \* "new", "idle", "play", "duration", "prefetch", "seek", "sleep", "done"
  target,    \* the position a seek in progress wants; NoTarget in a plain getDuration
  asleep,    \* ticks usleep has left
  failed,    \* the constructor threw, a step of openSLESPlay failed, or its sleep was cut short
  calls,
  rewound,   \* history: stopped, and neither played nor sought since
  blind,     \* history: a seek went on without knowing the duration
  refused,   \* history: the player refused to be paused by getDuration
  slept      \* history: the ticks openSLESPlay has slept

input == <<mode, media, canSeek>>
objects == <<live, fdOpen>>
player == <<state, head, prefetch>>
vars == <<input, objects, player, pc, target, asleep, failed, calls, rewound, blind, refused,
          slept>>

NoTarget == -1

Init ==
  /\ mode \in {"object", "once"} /\ media \in Media /\ canSeek \in BOOLEAN
  /\ live = {} /\ fdOpen = TRUE
  /\ state = "stopped" /\ head = 0 /\ prefetch = FALSE
  /\ pc = "new" /\ target = NoTarget /\ asleep = 0
  /\ failed = FALSE /\ calls = 0 /\ rewound = TRUE /\ blind = FALSE /\ refused = FALSE
  /\ slept = 0

-----------------------------------------------------------------------------
(* Creating and destroying.                                                *)

\* The constructor, or openSLESPlay up to its waiting for data, which it pauses for.
Create ==
  /\ pc = "new"
  /\ live' = Objects
  /\ IF mode = "object" THEN pc' = "idle" /\ UNCHANGED state
     ELSE pc' = "prefetch" /\ state' = "paused"
  /\ UNCHANGED <<input, fdOpen, head, prefetch, target, asleep, failed, calls, rewound, blind, refused, slept>>

\* A step fails. A constructor that throws destroys nothing and closes nothing;
\* openSLESPlay destroys what there is.
CreateFails ==
  /\ pc = "new"
  /\ pc' = "done" /\ failed' = TRUE
  /\ live' \in IF mode = "object" THEN {{}, {"engine"}, {"engine", "mix"}, Objects} ELSE {{}}
  /\ UNCHANGED <<input, fdOpen, player, target, asleep, calls, rewound, blind, refused, slept>>

Release ==
  /\ mode = "object" /\ pc = "idle"
  /\ live' = {} /\ fdOpen' = FALSE
  /\ pc' = "done"
  /\ UNCHANGED <<input, player, target, asleep, failed, calls, rewound, blind, refused, slept>>

-----------------------------------------------------------------------------
(* The calls on the object.                                                *)

Call(to) ==
  /\ mode = "object" /\ pc = "idle" /\ calls < Calls
  /\ calls' = calls + 1
  /\ pc' = to
  /\ UNCHANGED <<input, objects, asleep, failed, blind, refused, slept>>

\* SetPlayState, which may refuse.
SetPlayState(to) == state' \in {to, state}

Pause ==
  /\ Call("idle")
  /\ SetPlayState("paused")
  /\ UNCHANGED <<head, prefetch, target, rewound>>

\* Stopping rewinds and drops what was prefetched; the mutant pauses.
StopPausing ==
  /\ Call("idle")
  /\ SetPlayState("paused")
  /\ rewound' = (rewound \/ state' = "paused")
  /\ UNCHANGED <<head, prefetch, target>>
Stop ==
  /\ Call("idle")
  /\ \/ state' = "stopped" /\ head' = 0 /\ prefetch' = FALSE /\ rewound' = TRUE
     \/ UNCHANGED <<player, rewound>>
  /\ UNCHANGED target

\* play: a player that plays already is left alone, as GetPlayState has it.
Play ==
  /\ Call(IF state = "playing" THEN "idle" ELSE "play")
  /\ UNCHANGED <<player, target, rewound>>
PlaySets ==
  /\ pc = "play"
  /\ SetPlayState("playing")
  /\ rewound' = (rewound /\ state' # "playing")
  /\ pc' = "idle"
  /\ UNCHANGED <<input, objects, head, prefetch, target, asleep, failed, calls, blind, refused, slept>>

GetDuration ==
  /\ Call("duration")
  /\ target' = NoTarget
  /\ UNCHANGED <<player, rewound>>

Seek ==
  /\ Call(IF canSeek THEN "duration" ELSE "idle")
  /\ target' \in Targets
  /\ UNCHANGED <<player, rewound>>

\* getDuration: a stopped player does not prefetch, so it is paused; whether that
\* succeeded is not looked at. The mutant leaves it stopped.
DurationLeavesStopped ==
  /\ pc = "duration"
  /\ UNCHANGED state
  /\ pc' = "prefetch"
  /\ UNCHANGED <<input, objects, head, prefetch, target, asleep, failed, calls, rewound, blind, refused, slept>>
DurationPauses ==
  /\ pc = "duration"
  /\ IF state = "stopped" THEN SetPlayState("paused") ELSE UNCHANGED state
  /\ refused' = (state' = "stopped")
  /\ pc' = "prefetch"
  /\ UNCHANGED <<input, objects, head, prefetch, target, asleep, failed, calls, rewound, blind, slept>>

\* getDuration returns, and seek goes on if the position is in the file: SL_TIME_UNKNOWN
\* is the largest number, so that every position is.
Return(known) ==
  /\ pc' = IF target = NoTarget \/ (known /\ target > media.length) THEN "idle" ELSE "seek"
  /\ blind' = (blind \/ (target # NoTarget /\ ~known))
  /\ UNCHANGED <<input, objects, player, target, asleep, failed, calls, rewound, refused, slept>>

\* There is enough data; or a step fails and getDuration returns SL_TIME_UNKNOWN. The
\* failure of GetPrefetchStatus only ends the polling: GetDuration may still know.
DurationReturns == pc = "prefetch" /\ mode = "object" /\ prefetch /\ Return(media.known)
DurationFails ==
  /\ mode = "object"
  /\ \/ pc = "duration" /\ Return(FALSE)
     \/ pc = "prefetch" /\ \E known \in {media.known, FALSE} : Return(known)

SeekSets ==
  /\ pc = "seek"
  /\ \/ head' = target /\ rewound' = FALSE
     \/ UNCHANGED <<head, rewound>>
  /\ pc' = "idle"
  /\ UNCHANGED <<input, objects, state, prefetch, target, asleep, failed, calls, blind, refused, slept>>

-----------------------------------------------------------------------------
(* openSLESPlay.                                                           *)

\* duration * 1000 wraps; 3 seconds if the duration is not known.
SleepsFor == LET ticks == IF media.known THEN media.length ELSE Unknown
             IN  ((ticks * Micros) % Word) \div Micros

\* Whether the player starts is not looked at.
StartSleep ==
  /\ pc = "prefetch" /\ mode = "once"
  /\ prefetch
  /\ SetPlayState("playing")
  /\ failed' = (state' # "playing")
  /\ asleep' = SleepsFor
  /\ pc' = "sleep"
  /\ rewound' = FALSE
  /\ UNCHANGED <<input, objects, head, prefetch, target, calls, blind, refused, slept>>

PrefetchFails ==
  /\ pc = "prefetch" /\ mode = "once"
  /\ pc' = "done" /\ live' = {} /\ failed' = TRUE
  /\ UNCHANGED <<input, fdOpen, player, target, asleep, calls, rewound, blind, refused, slept>>

\* usleep returns early, which is only logged.
SleepInterrupted ==
  /\ pc = "sleep" /\ asleep > 0
  /\ asleep' = 0 /\ failed' = TRUE
  /\ UNCHANGED <<input, objects, player, pc, target, calls, rewound, blind, refused, slept>>

SleepEnds ==
  /\ pc = "sleep" /\ asleep = 0
  /\ state' = "stopped"
  /\ live' = {}
  /\ pc' = "done"
  /\ UNCHANGED <<input, fdOpen, head, prefetch, target, asleep, failed, calls, rewound, blind, refused, slept>>

-----------------------------------------------------------------------------
(* OpenSL ES.                                                              *)

Prefetches ==
  /\ live # {} /\ pc \notin {"new", "done"}
  /\ state # "stopped" /\ media.readable /\ ~prefetch
  /\ prefetch' = TRUE
  /\ UNCHANGED <<input, objects, state, head, pc, target, asleep, failed, calls, rewound, blind, refused, slept>>

\* The player plays on, at a pace of its own: it may start late, starve, or be done before
\* the sleep is. At its end a file is paused.
Tick ==
  /\ pc \notin {"new", "done"}
  /\ state = "playing" /\ prefetch
  /\ IF head < media.length THEN head' = head + 1 /\ UNCHANGED state
     ELSE state' = "paused" /\ UNCHANGED head
  /\ UNCHANGED <<input, objects, prefetch, pc, target, asleep, failed, calls, rewound, blind, refused, slept>>

\* Time passes for the sleeper.
SleepTick ==
  /\ pc = "sleep" /\ asleep > 0
  /\ asleep' = asleep - 1 /\ slept' = slept + 1
  /\ UNCHANGED <<input, objects, player, pc, target, failed, calls, rewound, blind, refused>>

InCall ==
  Create \/ PlaySets \/ DurationPauses \/ DurationReturns \/ SeekSets \/ StartSleep \/ SleepEnds
NewCall == Release \/ Pause \/ Stop \/ Play \/ GetDuration \/ Seek
OpenSL == Prefetches \/ Tick
Fault == CreateFails \/ PrefetchFails \/ DurationFails \/ SleepInterrupted

Next == InCall \/ NewCall \/ OpenSL \/ SleepTick \/ Fault

Spec == Init /\ [][Next]_vars

\* A call that can go on does, a readable file is prefetched while the player is not
\* stopped and plays while it is playing, and time passes. Nobody has to call, and nothing has to fail.
Fairness == WF_vars(InCall) /\ WF_vars(Prefetches) /\ WF_vars(Tick) /\ WF_vars(SleepTick)
FairSpec == Spec /\ Fairness

-----------------------------------------------------------------------------
(* Properties.                                                             *)

TypeOK ==
  /\ mode \in {"object", "once"} /\ media \in Media /\ canSeek \in BOOLEAN
  /\ live \subseteq Objects /\ fdOpen \in BOOLEAN
  /\ state \in {"stopped", "paused", "playing"} /\ prefetch \in BOOLEAN
  /\ head \in Nat /\ asleep \in Nat /\ target \in Targets \union {NoTarget}
  /\ pc \in {"new", "idle", "play", "duration", "prefetch", "seek", "sleep", "done"}
  /\ failed \in BOOLEAN /\ calls \in 0 .. Calls /\ rewound \in BOOLEAN /\ blind \in BOOLEAN
  /\ refused \in BOOLEAN /\ slept \in Nat

\* What was created is destroyed in the end, but for what a constructor that throws had
\* created; its descriptor stays open, and so does the one given to openSLESPlay.
EndsClean ==
  pc = "done" =>
    /\ live # {} => mode = "object" /\ failed
    /\ fdOpen = (mode = "once" \/ failed)

\* "After stop the next play starts from the beginning" (openslLearn.cpp:632): until it
\* plays or seeks again, a stopped player stands at 0, also after a getDuration or a
\* refused seek that has paused it.
StopRewinds == rewound => head = 0 /\ state # "playing"

\* Seeking stays within a file whose duration is known, unless a step that failed on the
\* way made it unknown.
HeadInFile == media.known /\ ~blind => head <= media.length

\* openSLESPlay that did not fail has waited as long as the file lasts before it stopped
\* the player, unless its duration is not known and more than three seconds, or its
\* microseconds exceed the word. How far the player got in that time it does not look at.
WaitedForTheFile ==
  mode = "once" /\ pc = "done" /\ ~failed =>
    \/ slept >= media.length
    \/ IF media.known THEN media.length * Micros >= Word ELSE media.length > Unknown

PlayerSafe == TypeOK /\ EndsClean /\ StopRewinds /\ HeadInFile /\ WaitedForTheFile

\* Every call comes back, unless the file cannot be read or the player refused
\* to be paused: then getDuration, and seek with it, polls for ever.
CallsReturn ==
  pc \notin {"idle", "done"} ~>
    \/ pc \in {"idle", "done"}
    \/ pc = "prefetch" /\ (~media.readable \/ refused)
=============================================================================
