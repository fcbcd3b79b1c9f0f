---------------------------- MODULE VideoDecode ----------------------------
(***************************************************************************)
(* videoToYuvPcm, videoToYuvPcm1 and h265ToYuvPcm of AudioExtractManager:  *)
(* a coroutine decodes track 0 and then, except in videoToYuvPcm1, track 1 *)
(* of a file through one MediaExtractor that both decoders read.  Track 0  *)
(* stays selected while track 1 is decoded, and decoder 0 is never         *)
(* stopped: nothing but the order of callbacks keeps it off the extractor. *)
(* extractPcm of Utils decodes the first audio track in the same way; of   *)
(* its file the model keeps the audio tracks, numbered from 0.             *)
(*                                                                         *)
(* The codec is the one of CodecPipeline.  Of its outputs the model keeps  *)
(* the end of stream, which the coroutine waits for, and that one may be   *)
(* larger than the scratch array.  A decoder's callbacks run in the order  *)
(* posted and it offers no input after taking end of stream, so its        *)
(* end-of-stream callback runs once no input callback of its own is        *)
(* pending (offered[d] = 0).                                               *)
(***************************************************************************)
EXTENDS Naturals, Sequences

CONSTANTS
  Buffers,   \* input buffers of each decoder
  MaxUnits   \* samples in the longer track

ASSUME BuffersAssumption == Buffers \in Nat \ {0}
ASSUME MaxUnitsAssumption == MaxUnits \in Nat

Functions == {"videoToYuvPcm", "videoToYuvPcm1", "h265ToYuvPcm", "extractPcm"}
Decoders == {0, 1}      \* a decoder is named by the track it is for

VARIABLES
  fn,          \* the function called
  trackCount,  \* tracks in the file, for extractPcm its audio tracks
  length,      \* samples of each track
  empties,     \* the samples of each track that have no bytes
  pc,          \* where the coroutine is
  extractor,   \* "none", "open" or "released"
  selected,    \* the tracks selected so far; there is no unselectTrack
  pos,         \* samples of each track consumed by advance()
  started,     \* the decoders that were started; none is ever stopped
  released,    \* the decoders released, by extractPcm alone
  errored,     \* the decoders that failed
  lost,        \* buffers of each decoder that a callback did not queue
  missed,      \* the decoders whose end of stream was not recognised
  free,        \* buffers each decoder has not offered
  offered,     \* input callbacks posted and not yet run
  port,        \* buffers queued to each decoder: "data" or "eos"
  portEos,     \* the decoders that took an end of stream
  eosPosted,   \* the decoders that posted their end-of-stream output
  outOpen,     \* the decoders whose output stream is open
  fed,         \* <<track, sample>> pairs given to each decoder, in order
  crash        \* why the process died, or "none"

inputVars == <<fn, trackCount, length, empties>>
codecVars == <<started, released, errored, lost, missed, free, offered, port, portEos,
               eosPosted>>
vars == <<inputVars, pc, extractor, selected, pos, codecVars, outOpen, fed, crash>>

Init ==
  /\ fn \in Functions
  /\ trackCount \in 0 .. 2
  /\ length \in [Decoders -> 0 .. MaxUnits]
  /\ empties \in [Decoders -> SUBSET (1 .. MaxUnits)]
  /\ \A d \in Decoders : empties[d] \subseteq 1 .. length[d]
  /\ pc = "begin"
  /\ extractor = "none"
  /\ selected = {}
  /\ pos = [d \in Decoders |-> 0]
  /\ started = {} /\ released = {} /\ errored = {} /\ missed = {}
  /\ lost = [d \in Decoders |-> 0]
  /\ free = [d \in Decoders |-> Buffers]
  /\ offered = [d \in Decoders |-> 0]
  /\ port = [d \in Decoders |-> << >>]
  /\ portEos = {} /\ eosPosted = {} /\ outOpen = {}
  /\ fed = [d \in Decoders |-> << >>]
  /\ crash = "none"

-----------------------------------------------------------------------------
(* The coroutine.                                                          *)

DecodeAt(d) == IF d = 0 THEN "decode0" ELSE "decode1"
AwaitAt(d) == IF d = 0 THEN "await0" ELSE "await1"

\* The device lacks a decoder the function wants: it returns.
Unsupported ==
  /\ pc = "begin" /\ fn # "extractPcm"
  /\ pc' = "returned"
  /\ UNCHANGED <<inputVars, extractor, selected, pos, codecVars, outOpen, fed, crash>>

\* The track counts the functions refuse.
TooFew == IF fn = "videoToYuvPcm" THEN trackCount < 2 ELSE trackCount < 1

\* A file with too few tracks is released, which extractPcm forgets.
Open ==
  /\ pc = "begin"
  /\ IF TooFew
       THEN /\ extractor' = IF fn = "extractPcm" THEN "open" ELSE "released"
            /\ pc' = "returned"
       ELSE extractor' = "open" /\ pc' = "decode0"
  /\ UNCHANGED <<inputVars, selected, pos, codecVars, outOpen, fed, crash>>

\* Mutant of Selecting: all tracks of the file are selected by the first decode().
SelectingAll(d) == 0 .. trackCount - 1

\* mediaExtractor.selectTrack(index)
Selecting(d) == {d}

\* decode(): getTrackFormat throws for a track the file does not have; else the
\* track is selected, the stream opened, the codec started, the caller suspended.
BeginDecode(d) ==
  /\ crash = "none"
  /\ pc = DecodeAt(d)
  /\ IF d >= trackCount
       THEN /\ pc' = "noSuchTrack"
            /\ UNCHANGED <<selected, started, outOpen>>
       ELSE /\ selected' = selected \union Selecting(d)
            /\ started' = started \union {d}
            /\ outOpen' = outOpen \union {d}
            /\ pc' = AwaitAt(d)
  /\ UNCHANGED <<inputVars, extractor, pos, released, errored, lost, missed, free,
                 offered, port, portEos, eosPosted, fed, crash>>

\* extractPcm looks for a decoder only now; with none decode() resumes its caller.
NoDecoder ==
  /\ pc = "decode0" /\ fn = "extractPcm"
  /\ pc' = "release"
  /\ UNCHANGED <<inputVars, extractor, selected, pos, codecVars, outOpen, fed, crash>>

\* Setting the codec up throws, with the track already selected unless extractPcm
\* fails to create the codec, and the output perhaps open; nothing is closed.
SetupThrows(d) ==
  /\ crash = "none"
  /\ pc = DecodeAt(d)
  /\ d < trackCount
  /\ \/ selected' = selected \union Selecting(d) /\ outOpen' \in {outOpen, outOpen \union {d}}
     \/ fn = "extractPcm" /\ UNCHANGED <<selected, outOpen>>
  /\ pc' = "setupThrew"
  /\ UNCHANGED <<inputVars, extractor, pos, codecVars, fed, crash>>

\* Cancelled while suspended: the rest of the function, release() included, is skipped.
Cancel ==
  /\ crash = "none"
  /\ pc \in {"await0", "await1"}
  /\ pc' = "cancelled"
  /\ UNCHANGED <<inputVars, extractor, selected, pos, codecVars, outOpen, fed, crash>>

Release ==
  /\ crash = "none"
  /\ pc = "release"
  /\ extractor' = "released"
  /\ pc' = "returned"
  /\ UNCHANGED <<inputVars, selected, pos, codecVars, outOpen, fed, crash>>

-----------------------------------------------------------------------------
(* The decoders (external).                                                *)

Running(d) == d \in started \ (errored \union released) /\ crash = "none"

OfferInput(d) ==
  /\ Running(d)
  /\ d \notin portEos
  /\ free[d] > 0
  /\ free' = [free EXCEPT ![d] = @ - 1]
  /\ offered' = [offered EXCEPT ![d] = @ + 1]
  /\ UNCHANGED <<inputVars, pc, extractor, selected, pos, started, released, errored, lost,
                 missed, port, portEos, eosPosted, outOpen, fed, crash>>

TakeInput(d) ==
  /\ Running(d)
  /\ d \notin portEos
  /\ port[d] # << >>
  /\ port' = [port EXCEPT ![d] = Tail(@)]
  /\ IF Head(port[d]) = "eos"
       THEN portEos' = portEos \union {d} /\ UNCHANGED free
       ELSE free' = [free EXCEPT ![d] = @ + 1] /\ UNCHANGED portEos
  /\ UNCHANGED <<inputVars, pc, extractor, selected, pos, started, released, errored, lost,
                 missed, offered, eosPosted, outOpen, fed, crash>>

PostEos(d) ==
  /\ Running(d)
  /\ d \in portEos \ eosPosted
  /\ eosPosted' = eosPosted \union {d}
  /\ UNCHANGED <<inputVars, pc, extractor, selected, pos, started, released, errored, lost,
                 missed, free, offered, port, portEos, outOpen, fed, crash>>

\* The decoder fails; onError only logs.
CodecFails(d) ==
  /\ Running(d)
  /\ errored' = errored \union {d}
  /\ UNCHANGED <<inputVars, pc, extractor, selected, pos, started, released, lost, missed,
                 free, offered, port, portEos, eosPosted, outOpen, fed, crash>>

-----------------------------------------------------------------------------
(* The callbacks of decode(), run by the looper.                           *)

\* Tracks that can supply the next sample: selected and not read to their end.
Supply == {t \in selected : pos[t] < length[t]}

\* The next sample of track t has no bytes.
AtEmpty(t) == pos[t] + 1 \in empties[t]

\* Where the coroutine goes on once decoder d is done.
After(d) ==
  IF d = 0 /\ fn \notin {"videoToYuvPcm1", "extractPcm"} THEN "decode1" ELSE "release"

\* The buffer is null: the callback returns and the buffer is gone.
OnInputNull(d) ==
  /\ crash = "none"
  /\ offered[d] > 0
  /\ offered' = [offered EXCEPT ![d] = @ - 1]
  /\ lost' = [lost EXCEPT ![d] = @ + 1]
  /\ UNCHANGED <<inputVars, pc, extractor, selected, pos, started, released, errored, missed,
                 free, port, portEos, eosPosted, outOpen, fed, crash>>

\* readSampleData returns a sample of the earliest selected track that has one
\* left; it is queued and the extractor advanced.  With none left, and also for a
\* sample of no bytes, end of stream is queued and the extractor stays.
OnInput(d) ==
  /\ crash = "none" /\ extractor # "released"
  /\ offered[d] > 0
  /\ offered' = [offered EXCEPT ![d] = @ - 1]
  /\ \/ \E t \in Supply :
          /\ ~AtEmpty(t)
          /\ fed' = [fed EXCEPT ![d] = Append(@, <<t, pos[t] + 1>>)]
          /\ port' = [port EXCEPT ![d] = Append(@, "data")]
          /\ pos' = [pos EXCEPT ![t] = @ + 1]
     \/ /\ Supply = {} \/ \E t \in Supply : AtEmpty(t)
        /\ port' = [port EXCEPT ![d] = Append(@, "eos")]
        /\ UNCHANGED <<fed, pos>>
  /\ UNCHANGED <<inputVars, pc, extractor, selected, started, released, errored, lost, missed,
                 free, portEos, eosPosted, outOpen, crash>>

\* readSampleData throws on the looper thread: the extractor has been released, or the
\* sample is larger than the decoder's buffer.
OnInputThrows(d) ==
  /\ crash = "none"
  /\ offered[d] > 0
  /\ offered' = [offered EXCEPT ![d] = @ - 1]
  /\ \/ extractor = "released" /\ crash' = "released"
     \/ extractor # "released" /\ Supply # {} /\ crash' = "oversize"
  /\ UNCHANGED <<inputVars, pc, extractor, selected, pos, started, released, errored, lost,
                 missed, free, port, portEos, eosPosted, outOpen, fed>>

\* An output larger than the scratch array throws on the looper thread.
OnOutputThrows(d) ==
  /\ crash = "none"
  /\ d \in outOpen \ missed
  /\ fed[d] # << >>
  /\ crash' = "oversize"
  /\ UNCHANGED <<inputVars, pc, extractor, selected, pos, codecVars, outOpen, fed>>

\* The end-of-stream output: close the stream and resume a caller that still waits;
\* extractPcm also releases its decoder.
OnEos(d) ==
  /\ crash = "none"
  /\ d \in (eosPosted \intersect outOpen) \ missed
  /\ offered[d] = 0
  /\ outOpen' = outOpen \ {d}
  /\ released' = IF fn = "extractPcm" THEN released \union {d} ELSE released
  /\ pc' = IF pc = AwaitAt(d) THEN After(d) ELSE pc
  /\ UNCHANGED <<inputVars, extractor, selected, pos, started, errored, lost, missed, free,
                 offered, port, portEos, eosPosted, fed, crash>>

\* The end-of-stream output is not recognised: its buffer is null, or its flags are not
\* exactly END_OF_STREAM.
OnEosMissed(d) ==
  /\ crash = "none"
  /\ d \in (eosPosted \intersect outOpen) \ missed
  /\ offered[d] = 0
  /\ missed' = missed \union {d}
  /\ UNCHANGED <<inputVars, pc, extractor, selected, pos, started, released, errored, lost,
                 free, offered, port, portEos, eosPosted, outOpen, fed, crash>>

-----------------------------------------------------------------------------
Coroutine ==
  \/ Unsupported \/ Open \/ NoDecoder \/ Release \/ Cancel
  \/ \E d \in Decoders : BeginDecode(d) \/ SetupThrows(d)

Next ==
  \/ Coroutine
  \/ \E d \in Decoders :
       \/ OfferInput(d) \/ TakeInput(d) \/ PostEos(d) \/ CodecFails(d)
       \/ OnInputNull(d) \/ OnInput(d) \/ OnInputThrows(d)
       \/ OnOutputThrows(d) \/ OnEos(d) \/ OnEosMissed(d)

\* The coroutine is scheduled whenever it is not suspended, decoders work until
\* they fail, the looper runs what is posted to it.
Fairness ==
  /\ WF_vars(Unsupported \/ Open \/ Release \/ \E d \in Decoders : BeginDecode(d))
  /\ \A d \in Decoders :
       /\ WF_vars(OfferInput(d)) /\ WF_vars(TakeInput(d)) /\ WF_vars(PostEos(d))
       /\ WF_vars(OnInputNull(d) \/ OnInput(d) \/ OnInputThrows(d))
       /\ WF_vars(OnEos(d) \/ OnEosMissed(d))

Spec == Init /\ [][Next]_vars
FairSpec == Spec /\ Fairness

-----------------------------------------------------------------------------
(* Properties.                                                             *)

TypeOK ==
  /\ fn \in Functions
  /\ trackCount \in 0 .. 2
  /\ length \in [Decoders -> 0 .. MaxUnits]
  /\ empties \in [Decoders -> SUBSET (1 .. MaxUnits)]
  /\ pc \in {"begin", "decode0", "await0", "decode1", "await1", "release",
             "returned", "noSuchTrack", "setupThrew", "cancelled"}
  /\ extractor \in {"none", "open", "released"}
  /\ selected \subseteq Decoders
  /\ pos \in [Decoders -> 0 .. MaxUnits]
  /\ started \subseteq Decoders /\ released \subseteq started /\ errored \subseteq started
  /\ lost \in [Decoders -> Nat] /\ missed \subseteq eosPosted
  /\ free \in [Decoders -> Nat]
  /\ offered \in [Decoders -> Nat]
  /\ port \in [Decoders -> Seq({"data", "eos"})]
  /\ portEos \subseteq started /\ eosPosted \subseteq portEos
  /\ outOpen \subseteq Decoders
  /\ fed \in [Decoders -> Seq(Decoders \X Nat)]
  /\ crash \in {"none", "released", "oversize"}

\* No decoder is ever fed a sample of the other track, although both tracks stay
\* selected and decoder 0 is still running while track 1 is decoded.
OwnTrackOnly == \A d \in Decoders : \A i \in DOMAIN fed[d] : fed[d][i][1] = d

\* What was taken for the end of track d before it had been read: a sample of no bytes,
\* of its own track or of the one selected before it.
CutShort(d) == \E t \in 0 .. d : AtEmpty(t)

\* A decoder whose output was closed had been given every sample of its track, in
\* order, unless an empty sample cut it short.
WholeTrackDecoded ==
  \A d \in started \ outOpen :
    /\ fed[d] = [i \in 1 .. Len(fed[d]) |-> <<d, i>>]
    /\ Len(fed[d]) = length[d] \/ CutShort(d)

\* The extractor is released only when no callback will read it again.
NoReadAfterRelease == crash # "released"

\* Only h265ToYuvPcm, whose guard admits a single track, asks for a missing one;
\* it then leaves by an exception with the extractor open.
MissingTrackOnlyH265 ==
  pc = "noSuchTrack" => fn = "h265ToYuvPcm" /\ trackCount = 1 /\ extractor = "open"

\* A call that returns has released the extractor, if it made one; extractPcm leaves it
\* open when it finds no audio track.
ReleasedUnlessNoAudio ==
  pc = "returned" /\ extractor = "open" => fn = "extractPcm" /\ trackCount = 0

\* The decoders read what is theirs while it may be read; the types with it.
ReadsSafe ==
  /\ TypeOK /\ OwnTrackOnly /\ WholeTrackDecoded
  /\ NoReadAfterRelease /\ MissingTrackOnlyH265 /\ ReleasedUnlessNoAudio

\* The ways a decoder goes silent for ever: it failed (onError only logs), every input
\* buffer was dropped by the null check, or its end of stream was not recognised.
Stalled == \E d \in Decoders : d \in errored \union missed \/ lost[d] >= Buffers

\* The call ends unless the process died or a decoder went silent: two conversions in a
\* row cannot wait for each other's callbacks.
Over == pc \in {"returned", "noSuchTrack", "setupThrew", "cancelled"}
EndsUnlessStalled == <>(Over \/ crash # "none" \/ Stalled)
=============================================================================
