--------------------------- MODULE MCAudioScreen ---------------------------
(***************************************************************************)
(* The sound of HelloKtorfit in two parts that share nothing: AudioScreen  *)
(* or MusicService, the other one standing still.                          *)
(*                                                                         *)
(* AudioScreen has two presses in all and two visits: two recordings, two  *)
(* playbacks, or one of each at the same time. MusicService has three      *)
(* songs (a first, a middle and a last one), five presses and two kills.   *)
(***************************************************************************)
EXTENDS AudioScreen

CONSTANTS Songs, Commands, Kills

ASSUME MusicAssumption == Songs \in Nat \ {0} /\ Commands \in Nat /\ Kills \in Nat

VARIABLES
  musicGranted, musicAlive, musicLoaded, musicIndex, musicPlayWhenReady, musicState, musicError,
  musicShown, musicSent, musicSticky, musicPresses, musicKills, musicAsked, musicRestarted,
  musicCrossed, musicDrifted

musicVars ==
  <<musicGranted, musicAlive, musicLoaded, musicIndex, musicPlayWhenReady, musicState, musicError,
    musicShown, musicSent, musicSticky, musicPresses, musicKills, musicAsked, musicRestarted,
    musicCrossed, musicDrifted>>

Music == INSTANCE MusicService WITH
  Presses <- Commands, granted <- musicGranted, alive <- musicAlive, loaded <- musicLoaded,
  index <- musicIndex, playWhenReady <- musicPlayWhenReady, state <- musicState,
  error <- musicError, shown <- musicShown, sent <- musicSent, sticky <- musicSticky,
  presses <- musicPresses, kills <- musicKills, asked <- musicAsked,
  restarted <- musicRestarted, crossed <- musicCrossed, drifted <- musicDrifted

\* A screen that died when "stop" was pressed without the permission, and a service that
\* was started and swiped away until no press is left.
ScreenIdle ==
  /\ InitManagers /\ InitTrack
  /\ granted = {} /\ visit = 1 /\ shown = TRUE /\ dead = TRUE
  /\ consumer = [r \in Recordings |-> "none"]
  /\ received = [r \in Recordings |-> << >>]
  /\ window = << >>
  /\ volumes = [i \in 0 .. Bars - 1 |-> Silent]
  /\ averages = << >>
MusicIdle ==
  /\ musicGranted = TRUE /\ musicAlive = FALSE
  /\ musicLoaded = FALSE /\ musicIndex = 1 /\ musicPlayWhenReady = FALSE
  /\ musicState = "idle" /\ musicError = FALSE
  /\ musicShown = << >> /\ musicSent = << >> /\ musicSticky = FALSE
  /\ musicPresses = Commands /\ musicKills = 0
  /\ musicAsked = "play" /\ musicRestarted = FALSE
  /\ musicCrossed = FALSE /\ musicDrifted = FALSE

MCInit == (Init /\ MusicIdle) \/ (ScreenIdle /\ Music!Init)

MCNext == (Next /\ UNCHANGED musicVars) \/ (Music!Next /\ UNCHANGED vars)

MCSpec == MCInit /\ [][MCNext]_<<vars, musicVars>> /\ Fairness /\ Music!Fairness

\* The notification is right, and what plays is what the user asked for last, as far as
\* MusicService!NotificationRight and MusicService!PlaysAsAsked say.
MusicSafe == Music!MusicSafe

\* A list that is to play comes to be heard unless it is paused, fails, ends or goes away.
StartIsHeard == Music!StartIsHeard
=============================================================================
