----------------------------- MODULE MCDecoding -----------------------------
(***************************************************************************)
(* The decoding functions of AudioExtractManager that share nothing: one   *)
(* call of those of VideoDecode or one of those of SyncExtract, the other  *)
(* module standing still.                                                  *)
(*                                                                         *)
(* VideoDecode has two buffers per decoder, so that input callbacks can    *)
(* still be pending when the extractor runs dry, and tracks of up to two   *)
(* samples of independent lengths, any of them empty. SyncExtract has      *)
(* tracks of up to four samples, with an empty one and one too big for the *)
(* fixed buffer among them, and a decoder that holds one decoded buffer.   *)
(***************************************************************************)
EXTENDS VideoDecode

CONSTANTS OutBuffers, Sources

ASSUME SourcesAssumption ==
  OutBuffers \in Nat /\ \A s \in Sources : s \in Seq({"full", "empty", "big"})

VARIABLES
  syncFn, syncSource, syncHasTrack, syncPc, syncLive, syncCaught, syncPos, syncEosQueued,
  syncFree, syncPort, syncReady, syncFile

syncVars ==
  <<syncFn, syncSource, syncHasTrack, syncPc, syncLive, syncCaught, syncPos, syncEosQueued,
    syncFree, syncPort, syncReady, syncFile>>

Sync == INSTANCE SyncExtract WITH
  fn <- syncFn, source <- syncSource, hasTrack <- syncHasTrack, pc <- syncPc,
  live <- syncLive, caught <- syncCaught, pos <- syncPos, eosQueued <- syncEosQueued,
  free <- syncFree, port <- syncPort, ready <- syncReady, file <- syncFile

MCSources ==
  { << >>, <<"full">>, <<"full", "empty", "full">>, <<"full", "big">>,
    <<"full", "full", "full", "full">> }

\* Calls that have returned before they began.
VideoIdle ==
  /\ fn = "videoToYuvPcm" /\ trackCount = 0 /\ length = [d \in Decoders |-> 0]
  /\ empties = [d \in Decoders |-> {}]
  /\ pc = "returned" /\ extractor = "none"
  /\ selected = {} /\ pos = [d \in Decoders |-> 0]
  /\ started = {} /\ released = {} /\ errored = {} /\ missed = {}
  /\ lost = [d \in Decoders |-> 0]
  /\ free = [d \in Decoders |-> Buffers]
  /\ offered = [d \in Decoders |-> 0]
  /\ port = [d \in Decoders |-> << >>]
  /\ portEos = {} /\ eosPosted = {} /\ outOpen = {}
  /\ fed = [d \in Decoders |-> << >>]
  /\ crash = "none"
SyncIdle ==
  /\ syncFn = "extractAudioToPCM" /\ syncSource = << >> /\ syncHasTrack = FALSE
  /\ syncPc = "returned" /\ syncLive = {} /\ syncCaught = FALSE
  /\ syncPos = 0 /\ syncEosQueued = FALSE
  /\ syncFree = Buffers /\ syncPort = << >> /\ syncReady = << >> /\ syncFile = << >>

MCInit == (Init /\ SyncIdle) \/ (VideoIdle /\ Sync!Init)

MCNext == (Next /\ UNCHANGED syncVars) \/ (Sync!Next /\ UNCHANGED vars)

MCSpec ==
  /\ MCInit /\ [][MCNext]_<<vars, syncVars>>
  /\ Fairness
  /\ WF_syncVars(Sync!Function) /\ WF_syncVars(Sync!Decode)

\* The blocking extractors write what they should and leave behind only what
\* SyncExtract!LeaksExplained says.
ResultRight == Sync!ResultRight

\* Every call comes back: a blocking one always, a suspending one unless the process
\* died or one of its decoders went silent, of which nobody tells the caller.
CallsEnd == EndsUnlessStalled /\ Sync!Ends
=============================================================================
