---------------------------- MODULE MusicService ----------------------------
(***************************************************************************)
(* MusicService of HelloKtorfit, its notification and the button of        *)
(* ServiceScreen that starts it. Everything the service does runs on the   *)
(* main thread. Commands reach it through the system, some time after the  *)
(* press, and create it if it is not there; the button between "previous"  *)
(* and "next" sends one and the same command, whatever it said. The        *)
(* notification is made anew when isPlaying changes. The system may kill   *)
(* the process and then starts the service again with a null intent, which *)
(* onStartCommand does not tell from a press of the screen's button.       *)
(***************************************************************************)
EXTENDS Naturals, Sequences

CONSTANTS
  Songs,     \* how many songs the list has
  Presses,   \* bound: presses of any button
  Kills      \* bound: times the process is killed

VARIABLES
  granted,     \* POST_NOTIFICATIONS
  alive,       \* the service is created
  loaded,      \* setMediaItems was called
  index,       \* currentMediaItemIndex
  playWhenReady,
  state,       \* playbackState: "idle", "buffering", "ready", "ended"
  error,       \* a PlaybackException made it idle
  shown,       \* the notification, if any: <<[song, playing]>>
  sent,        \* commands on their way: [action, said], what the button said
  sticky,      \* the system will start the service again
  presses, kills,
  asked,       \* what the user asked for last: "play" or "pause" (history)
  restarted,   \* the last command was a null intent (history)
  crossed,     \* the last toggle came when the button no longer said so (history)
  drifted      \* the song changed, the notification did not (history)

playerVars == <<loaded, index, playWhenReady, state, error>>
systemVars == <<granted, sticky, presses, kills>>
vars == <<systemVars, alive, playerVars, shown, sent, asked, restarted, crossed, drifted>>

NoSong == 0

Audible(s, p) == s = "ready" /\ p
IsPlaying == Audible(state, playWhenReady)
Song == IF loaded THEN index ELSE NoSong

NewPlayer ==
  /\ loaded' = FALSE /\ index' = 1
  /\ playWhenReady' = FALSE /\ state' = "idle" /\ error' = FALSE

Init ==
  /\ granted \in BOOLEAN
  /\ alive = FALSE
  /\ loaded = FALSE /\ index = 1 /\ playWhenReady = FALSE
  /\ state = "idle" /\ error = FALSE
  /\ shown = << >> /\ sent = << >> /\ sticky = FALSE
  /\ presses = 0 /\ kills = 0
  /\ asked = "pause" /\ restarted = FALSE /\ crossed = FALSE /\ drifted = FALSE

-----------------------------------------------------------------------------
(* The notification.                                                       *)

Notification ==
  [song |-> IF loaded' THEN index' ELSE NoSong,
   playing |-> Audible(state', playWhenReady')]

UpdateNotification == shown' = <<Notification>> /\ drifted' = FALSE

\* onIsPlayingChanged: of the steps of the player only those that change isPlaying
\* are noticed. The mutant, OnSongChanged, listens to changes of the song instead.
OnSongChanged ==
  IF index' # index THEN UpdateNotification ELSE UNCHANGED <<shown, drifted>>
OnIsPlayingChanged ==
  IF Audible(state', playWhenReady') # IsPlaying
  THEN UpdateNotification
  ELSE /\ UNCHANGED shown
       /\ drifted' = (drifted \/ index' # index \/ loaded' # loaded)

-----------------------------------------------------------------------------
(* The buttons.                                                            *)

Send(action, said) ==
  /\ presses < Presses
  /\ presses' = presses + 1
  /\ sent' = Append(sent, [action |-> action, said |-> said])

Grant ==
  /\ ~granted
  /\ granted' = TRUE
  /\ UNCHANGED <<sticky, presses, kills, alive, playerVars, shown, sent, asked, restarted,
                 crossed, drifted>>

PressStart ==
  /\ granted
  /\ Send("start", FALSE)
  /\ asked' = "play"
  /\ UNCHANGED <<granted, sticky, kills, alive, playerVars, shown, restarted, crossed, drifted>>

PressToggle ==
  /\ shown # << >>
  /\ Send("toggle", shown[1].playing)
  /\ asked' = IF shown[1].playing THEN "pause" ELSE "play"
  /\ UNCHANGED <<granted, sticky, kills, alive, playerVars, shown, restarted, crossed, drifted>>

PressSkip ==
  /\ shown # << >>
  /\ Send("previous", FALSE) \/ Send("next", FALSE)
  /\ UNCHANGED <<granted, sticky, kills, alive, playerVars, shown, asked, restarted, crossed,
                 drifted>>

-----------------------------------------------------------------------------
(* onStartCommand. A service that is created for it has a new player.      *)

\* Mutant of PrepareAndPlay: prepare() is left out.
PlayUnprepared ==
  /\ loaded' = TRUE /\ index' = 1
  /\ state' = (IF state = "idle" THEN "idle" ELSE "buffering") /\ UNCHANGED error
  /\ playWhenReady' = TRUE
\* setMediaItems goes back to the first song and makes a player buffer that is not idle;
\* prepare does the same for an idle one and forgets its error.
PrepareAndPlay ==
  /\ loaded' = TRUE /\ index' = 1
  /\ state' = "buffering" /\ error' = FALSE
  /\ playWhenReady' = TRUE

\* Without an action: the notification is made of what was, then the list is set and
\* played from its first song.
StartPlaying ==
  /\ PrepareAndPlay
  /\ IF IsPlaying THEN UpdateNotification
     ELSE /\ shown' = <<[song |-> Song, playing |-> FALSE]>>
          /\ drifted' = (Song # index')

\* PLAY_PAUSE_ACTION: play() while the player buffers changes nothing.
Toggle ==
  /\ playWhenReady' = ~IsPlaying
  /\ UNCHANGED <<loaded, index, state, error>>
  /\ UpdateNotification

\* PREV_ACTION, NEXT_ACTION: seeking wakes up a player that is ready or ended.
SkipTo(i) ==
  IF loaded /\ i \in 1 .. Songs
  THEN /\ index' = i
       /\ state' = IF state = "idle" THEN "idle" ELSE "buffering"
       /\ UNCHANGED <<loaded, playWhenReady, error>>
       /\ OnIsPlayingChanged
  ELSE UNCHANGED <<playerVars, shown, drifted>>

Received == Head(sent)
Take == /\ sent # << >>
        /\ sent' = Tail(sent)
        /\ alive' = TRUE /\ sticky' = TRUE
        /\ UNCHANGED <<granted, presses, kills, asked>>

OnStart ==
  /\ Take /\ Received.action = "start"
  /\ StartPlaying
  /\ restarted' = FALSE /\ crossed' = FALSE

OnToggle ==
  /\ Take /\ Received.action = "toggle"
  /\ Toggle
  /\ restarted' = FALSE /\ crossed' = (Received.said # IsPlaying)

OnSkip ==
  /\ Take
  /\ \/ Received.action = "previous" /\ SkipTo(index - 1)
     \/ Received.action = "next" /\ SkipTo(index + 1)
  /\ UNCHANGED <<restarted, crossed>>

-----------------------------------------------------------------------------
(* The system.                                                             *)

\* The task is swiped away: pauseAllPlayersAndStopSelf, onDestroy.
TaskRemoved ==
  /\ alive
  /\ alive' = FALSE /\ sticky' = FALSE
  /\ NewPlayer
  /\ shown' = << >> /\ drifted' = FALSE
  /\ UNCHANGED <<granted, presses, kills, sent, asked, restarted, crossed>>

Kill ==
  /\ alive /\ kills < Kills
  /\ kills' = kills + 1
  /\ alive' = FALSE
  /\ NewPlayer
  /\ shown' = << >> /\ drifted' = FALSE
  /\ UNCHANGED <<granted, presses, sticky, sent, asked, restarted, crossed>>

\* START_STICKY: a service that was killed is started again, with a null intent.
Restart ==
  /\ ~alive /\ sticky
  /\ alive' = TRUE
  /\ StartPlaying
  /\ restarted' = TRUE
  /\ UNCHANGED <<systemVars, sent, asked, crossed>>

-----------------------------------------------------------------------------
(* ExoPlayer.                                                              *)

Player(s, i) ==
  /\ alive
  /\ state' = s /\ index' = i
  /\ UNCHANGED <<systemVars, alive, loaded, playWhenReady, sent, asked, restarted, crossed>>
  /\ OnIsPlayingChanged

Buffered == state = "buffering" /\ Player("ready", index) /\ UNCHANGED error
Rebuffers == IsPlaying /\ Player("buffering", index) /\ UNCHANGED error
\* The next song was buffered in time, or was not, or there is none.
SongEnds ==
  /\ IsPlaying
  /\ \/ index < Songs /\ \E s \in {"ready", "buffering"} : Player(s, index + 1)
     \/ index = Songs /\ Player("ended", index)
  /\ UNCHANGED error
Fails == state \in {"buffering", "ready"} /\ Player("idle", index) /\ error' = TRUE

-----------------------------------------------------------------------------

Next ==
  \/ Grant \/ PressStart \/ PressToggle \/ PressSkip
  \/ OnStart \/ OnToggle \/ OnSkip
  \/ TaskRemoved \/ Kill \/ Restart
  \/ Buffered \/ Rebuffers \/ SongEnds \/ Fails

Spec == Init /\ [][Next]_vars

\* A player that buffers has enough in the end, or its loading fails.
Fairness == WF_vars(Buffered \/ (state = "buffering" /\ Fails))

-----------------------------------------------------------------------------
(* Properties.                                                             *)

Notifications == [song : 0 .. Songs, playing : BOOLEAN]

TypeOK ==
  /\ granted \in BOOLEAN /\ alive \in BOOLEAN /\ loaded \in BOOLEAN
  /\ index \in 1 .. Songs /\ playWhenReady \in BOOLEAN
  /\ state \in {"idle", "buffering", "ready", "ended"} /\ error \in BOOLEAN
  /\ shown \in {<< >>} \union {<<n>> : n \in Notifications}
  /\ sent \in Seq([action : {"start", "toggle", "previous", "next"}, said : BOOLEAN])
  /\ sticky \in BOOLEAN /\ presses \in 0 .. Presses /\ kills \in 0 .. Kills
  /\ asked \in {"play", "pause"}
  /\ restarted \in BOOLEAN /\ crossed \in BOOLEAN /\ drifted \in BOOLEAN

\* The notification's button is always right. Its song is unless one song ran on into the
\* next without a stop, or the user skipped while nothing was playing. A service without
\* a notification, which a late "next" creates, has nothing to play.
NotificationRight ==
  /\ shown # << >> =>
       /\ alive
       /\ shown[1].playing = IsPlaying
       /\ shown[1].song = Song \/ drifted
  /\ alive /\ shown = << >> => ~loaded /\ ~playWhenReady

\* Nothing plays that the user did not ask for last, unless the system started the
\* service again, or a press of "pause" met a player that did not play by then, which it
\* told to play: it was buffering, or an earlier press had paused it, as the first of two
\* presses before the notification has followed.
PlaysAsAsked ==
  IsPlaying /\ (\A i \in 1 .. Len(sent) : sent[i].action \notin {"start", "toggle"}) =>
    asked = "play" \/ restarted \/ crossed

MusicSafe == TypeOK /\ NotificationRight /\ PlaysAsAsked

\* A list that is to play comes to be heard, also after an error and a second start,
\* unless it is paused, fails, has ended or the service goes away.
StartIsHeard ==
  alive /\ loaded /\ playWhenReady ~>
    IsPlaying \/ ~playWhenReady \/ error \/ state = "ended" \/ ~alive
=============================================================================
