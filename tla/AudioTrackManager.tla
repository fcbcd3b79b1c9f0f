------------------------- MODULE AudioTrackManager -------------------------
(***************************************************************************)
(* AudioTrackManager of HelloKtorfit: startPlay runs on an IO thread,      *)
(* starts the AudioTrack and writes hello.pcm to it chunk by chunk. A      *)
(* write to a playing track waits for room in the track's buffer; a write  *)
(* to a paused one takes what fits and returns, and startPlay looks only   *)
(* for a negative result: what did not fit is passed over.                 *)
(***************************************************************************)
EXTENDS Naturals, Sequences

CONSTANTS
  Plays,       \* the calls of startPlay
  PcmLength,   \* chunks of hello.pcm
  Room         \* chunks the track's buffer holds

ASSUME TrackAssumption == PcmLength \in Nat /\ Room \in Nat

VARIABLES
  playState,   \* "stopped", "playing" or "paused"
  playPhase,   \* where each call is
  position,    \* chunks of the file it has read
  buffer,      \* the track's buffer: <<call, chunk>>
  heard,       \* what was played
  lost,        \* chunks a paused track had no room for
  everPaused,  \* the track was paused (history)
  cut          \* calls that a failing write ended (history)

trackVars == <<playState, playPhase, position, buffer, heard, lost, everPaused, cut>>

PlayActive == {"launched", "opening", "loading", "writing"}
PlayOver == {"ended", "noStream", "threw", "cancelled"}

InitTrack ==
  /\ playState = "stopped"
  /\ playPhase = [p \in Plays |-> "idle"] /\ position = [p \in Plays |-> 0]
  /\ buffer = << >> /\ heard = << >> /\ lost = {}
  /\ everPaused = FALSE /\ cut = {}

PlayGoto(p, to) == playPhase' = [playPhase EXCEPT ![p] = to]
streamVars == <<position, buffer, heard, lost, cut>>

-----------------------------------------------------------------------------
(* startPlay.                                                              *)

LaunchPlay(p) ==
  /\ playPhase[p] = "idle"
  /\ PlayGoto(p, "launched")
  /\ UNCHANGED <<playState, everPaused>> /\ UNCHANGED streamVars

CancelPlays ==
  /\ playPhase' = [p \in Plays |->
       IF playPhase[p] = "launched" THEN "cancelled" ELSE playPhase[p]]
  /\ UNCHANGED <<playState, everPaused>> /\ UNCHANGED streamVars

StartTrack(p) ==
  /\ playPhase[p] = "launched"
  /\ playState' = "playing"
  /\ PlayGoto(p, "opening")
  /\ UNCHANGED everPaused /\ UNCHANGED streamVars

OpenPcm(p) ==
  /\ playPhase[p] = "opening"
  /\ PlayGoto(p, "loading") \/ PlayGoto(p, "noStream")
  /\ UNCHANGED <<playState, everPaused>> /\ UNCHANGED streamVars

\* AudioTrack cannot be built, or there is no hello.pcm: the recorder writes hello1.pcm.
PlayThrows(p) ==
  /\ playPhase[p] \in {"launched", "opening", "loading"}
  /\ PlayGoto(p, "threw")
  /\ UNCHANGED <<playState, everPaused>> /\ UNCHANGED streamVars

ReadPcm(p) ==
  /\ playPhase[p] = "loading"
  /\ IF position[p] < PcmLength
     THEN position' = [position EXCEPT ![p] = @ + 1] /\ PlayGoto(p, "writing")
     ELSE PlayGoto(p, "ended") /\ UNCHANGED position
  /\ UNCHANGED <<playState, everPaused, buffer, heard, lost, cut>>

Next1(p) == <<p, position[p]>>

\* Mutants of WriteTrack: a write to a full buffer never waits; one to a paused track
\* waits as well.
WriteNeverWaits(p) ==
  /\ playPhase[p] = "writing"
  /\ IF Len(buffer) < Room
     THEN buffer' = Append(buffer, Next1(p)) /\ UNCHANGED lost
     ELSE lost' = lost \union {Next1(p)} /\ UNCHANGED buffer
  /\ PlayGoto(p, "loading")
  /\ UNCHANGED <<playState, everPaused, position, heard, cut>>
WriteWaits(p) ==
  /\ playPhase[p] = "writing"
  /\ Len(buffer) < Room
  /\ buffer' = Append(buffer, Next1(p))
  /\ PlayGoto(p, "loading")
  /\ UNCHANGED <<playState, everPaused, position, heard, lost, cut>>
WriteTrack(p) ==
  /\ playPhase[p] = "writing"
  /\ \/ Len(buffer) < Room /\ buffer' = Append(buffer, Next1(p)) /\ UNCHANGED lost
     \/ /\ Len(buffer) = Room /\ playState = "paused"
        /\ lost' = lost \union {Next1(p)} /\ UNCHANGED buffer
  /\ PlayGoto(p, "loading")
  /\ UNCHANGED <<playState, everPaused, position, heard, cut>>

\* A negative result: break.
WriteFails(p) ==
  /\ playPhase[p] = "writing"
  /\ cut' = cut \union {p}
  /\ PlayGoto(p, "ended")
  /\ UNCHANGED <<playState, everPaused, position, buffer, heard, lost>>

-----------------------------------------------------------------------------

\* pause: only of a track that plays.
PauseTrack ==
  /\ playState' = IF playState = "playing" THEN "paused" ELSE playState
  /\ everPaused' = (everPaused \/ playState = "playing")
  /\ UNCHANGED playPhase /\ UNCHANGED streamVars

\* The track plays what is in its buffer.
Sound ==
  /\ playState = "playing" /\ buffer # << >>
  /\ heard' = Append(heard, Head(buffer))
  /\ buffer' = Tail(buffer)
  /\ UNCHANGED <<playState, playPhase, position, lost, everPaused, cut>>

PlayStep(p) == StartTrack(p) \/ OpenPcm(p) \/ ReadPcm(p) \/ WriteTrack(p)

-----------------------------------------------------------------------------
(* Properties.                                                             *)

TypeOKTrack ==
  /\ playState \in {"stopped", "playing", "paused"}
  /\ playPhase \in [Plays -> {"idle"} \union PlayActive \union PlayOver]
  /\ position \in [Plays -> 0 .. PcmLength]
  /\ buffer \in Seq(Plays \X (1 .. PcmLength)) /\ Len(buffer) <= Room
  /\ heard \in Seq(Plays \X (1 .. PcmLength))
  /\ lost \subseteq Plays \X (1 .. PcmLength)
  /\ everPaused \in BOOLEAN /\ cut \subseteq Plays

\* What the calls gave to the track, in order.
Given == heard \o buffer

\* Each call is heard in the order of the file and nothing twice, whatever other call
\* writes to the same track; what is missing was written while the track was paused, so
\* without a pause the call is heard without a gap.
HeardInOrder ==
  /\ \A i, k \in 1 .. Len(Given) :
       i < k /\ Given[i][1] = Given[k][1] => Given[i][2] < Given[k][2]
  /\ ~everPaused =>
       \A i \in 1 .. Len(Given) : \A n \in 1 .. Given[i][2] - 1 :
         \E k \in 1 .. i - 1 : Given[k] = <<Given[i][1], n>>
=============================================================================
