---------------------------- MODULE SyncExtract ----------------------------
(***************************************************************************)
(* The blocking extractors of AudioExtractManager. extractAudioToPCM polls *)
(* the decoder for an input and an output buffer in turn, each poll timing *)
(* out after 10 ms; extractAudioFromVideo and extractAudioFromVideo1 copy  *)
(* samples; extractAudioToPCMV2 asks the decoder for output before it gave *)
(* it any input. Every exception is caught and only logged.                *)
(***************************************************************************)
EXTENDS Naturals, Sequences

CONSTANTS
  Buffers,      \* input buffers of the decoder
  OutBuffers,   \* decoded buffers it can hold until they are fetched
  Sources       \* the samples of the audio track: sequences of "full", "empty", "big"

Copiers == {"extractAudioFromVideo", "extractAudioFromVideo1"}
Functions == Copiers \union {"extractAudioToPCM", "extractAudioToPCMV2"}

VARIABLES
  fn, source, hasTrack,   \* the call, and the file it is given
  pc,          \* "begin", "search", "setup", "copy", "input", "output", "returned", "threw"
  live,        \* objects not released or closed
  caught,      \* an exception was caught
  pos,         \* samples read
  eosQueued,   \* isInputEOS
  free,        \* input buffers the decoder can hand out
  port,        \* inputs queued with the decoder: sample numbers, 0 for end of stream
  ready,       \* decoded buffers: [unit, eos]
  file         \* units written

inputs == <<fn, source, hasTrack>>
codec == <<free, port, ready>>
vars == <<inputs, pc, live, caught, pos, eosQueued, codec, file>>

Init ==
  /\ fn \in Functions /\ source \in Sources /\ hasTrack \in BOOLEAN
  /\ pc = "begin"
  /\ live = {} /\ caught = FALSE
  /\ pos = 0 /\ eosQueued = FALSE
  /\ free = Buffers /\ port = << >> /\ ready = << >>
  /\ file = << >>

-----------------------------------------------------------------------------
(* Setting up.                                                             *)

\* What is created before the try block, beyond the extractor.
Early == CASE fn = "extractAudioFromVideo" -> {"muxer"}
           [] fn = "extractAudioFromVideo1" -> {"codec"}
           [] OTHER -> {}

Begin ==
  /\ pc = "begin"
  /\ live' = {"extractor"} \union Early
  /\ pc' = "search"
  /\ UNCHANGED <<inputs, caught, pos, eosQueued, codec, file>>

\* The muxer or the codec cannot be created: the exception reaches the caller.
BeginThrows ==
  /\ pc = "begin" /\ Early # {}
  /\ live' = {"extractor"}
  /\ pc' = "threw"
  /\ UNCHANGED <<inputs, caught, pos, eosQueued, codec, file>>

\* What finally blocks and use leave behind, at the end and after an exception. V2
\* stops its codec there, which throws if the codec is not started or has failed, and
\* the release is then skipped.
LeftAtEnd == IF fn = "extractAudioFromVideo1" THEN {"codec"} ELSE {}
LeftByCatch ==
  CASE fn = "extractAudioToPCM" -> {live \ {"extractor"}}
    [] fn = "extractAudioFromVideo1" -> {{"codec"}}
    [] fn = "extractAudioToPCMV2" -> {{}, {"codec"}}
    [] OTHER -> {{}}

Finish == pc' = "returned" /\ live' = LeftAtEnd /\ UNCHANGED caught
Catch == pc' = "returned" /\ live' \in LeftByCatch /\ caught' = TRUE

\* Without an audio track the functions return; extractAudioFromVideo does not look,
\* and its muxer cannot start without a track.
Search ==
  /\ pc = "search"
  /\ IF hasTrack THEN pc' = "setup" /\ UNCHANGED <<live, caught>>
     ELSE IF fn = "extractAudioFromVideo" THEN Catch ELSE Finish
  /\ UNCHANGED <<inputs, pos, eosQueued, codec, file>>

\* The codec and the output file, or the muxer.
SetUp ==
  /\ pc = "setup"
  /\ live' = live \union (CASE fn = "extractAudioFromVideo" -> {}
                            [] fn = "extractAudioFromVideo1" -> {"stream"}
                            [] OTHER -> {"codec", "stream"})
  /\ pc' = CASE fn \in Copiers -> "copy"
             [] fn = "extractAudioToPCM" -> "input"
             [] OTHER -> "output"
  /\ UNCHANGED <<inputs, caught, pos, eosQueued, codec, file>>

\* A step of it throws, before or after the codec was created.
SetUpThrows ==
  /\ pc = "setup"
  /\ live' \in IF fn \in Copiers THEN LeftByCatch ELSE {{}, {"codec"}}
  /\ pc' = "returned" /\ caught' = TRUE
  /\ UNCHANGED <<inputs, pos, eosQueued, codec, file>>

-----------------------------------------------------------------------------
(* The copiers: while (readSampleData(buffer, 0) > 0) write, advance.      *)

Exhausted == pos = Len(source)

\* A sample larger than the 8 KiB of extractAudioFromVideo1 throws; the other copier
\* allocates KEY_MAX_INPUT_SIZE.
TooBig == source[pos + 1] = "big" /\ fn = "extractAudioFromVideo1"

CopySample ==
  /\ pc = "copy"
  /\ ~Exhausted /\ source[pos + 1] # "empty" /\ ~TooBig
  /\ file' = Append(file, pos + 1)
  /\ pos' = pos + 1
  /\ UNCHANGED <<inputs, pc, live, caught, eosQueued, codec>>

CopyEnds ==
  /\ pc = "copy"
  /\ ~Exhausted => source[pos + 1] = "empty"
  /\ Finish
  /\ UNCHANGED <<inputs, pos, eosQueued, codec, file>>

CopyTooBig ==
  /\ pc = "copy"
  /\ ~Exhausted /\ TooBig
  /\ Catch
  /\ UNCHANGED <<inputs, pos, eosQueued, codec, file>>

\* The extractor, the file or the muxer fails.
CopyThrows ==
  /\ pc = "copy"
  /\ Catch
  /\ UNCHANGED <<inputs, pos, eosQueued, codec, file>>

\* Releasing the started muxer stops it, which throws when no file could be made of
\* what it was given: the exception leaves the finally block.
ReleaseThrows ==
  /\ pc = "copy" /\ fn = "extractAudioFromVideo"
  /\ pc' = "threw" /\ live' = {"muxer"}
  /\ UNCHANGED <<inputs, caught, pos, eosQueued, codec, file>>

-----------------------------------------------------------------------------
(* extractAudioToPCM: the polling loop.                                    *)

PollInput ==
  /\ pc = "input"
  /\ pc' = "output"
  /\ IF eosQueued \/ free = 0
     THEN UNCHANGED <<pos, eosQueued, free, port>>
     ELSE /\ free' = free - 1
          /\ port' = Append(port, IF Exhausted THEN 0 ELSE pos + 1)
          /\ eosQueued' = Exhausted
          /\ pos' = IF Exhausted THEN pos ELSE pos + 1
  /\ UNCHANGED <<inputs, live, caught, ready, file>>

\* A decoded buffer, or nothing within 10 ms. V2's loop ends with the first nothing;
\* one mutant ends every loop so once the input has ended, the other waits for a
\* decoded buffer however long it takes.
PollOutputUntilInputEnds ==
  /\ pc = "output"
  /\ IF ready = << >>
     THEN /\ IF fn = "extractAudioToPCMV2" \/ eosQueued THEN Finish
             ELSE pc' = "input" /\ UNCHANGED <<live, caught>>
          /\ UNCHANGED <<ready, file>>
     ELSE /\ ready' = Tail(ready)
          /\ file' = IF Head(ready).unit = 0 THEN file ELSE Append(file, Head(ready).unit)
          /\ IF Head(ready).eos THEN Finish ELSE pc' = "input" /\ UNCHANGED <<live, caught>>
  /\ UNCHANGED <<inputs, pos, eosQueued, free, port>>
PollOutputForever ==
  /\ pc = "output"
  /\ IF ready = << >>
     THEN /\ fn = "extractAudioToPCMV2"
          /\ Finish
          /\ UNCHANGED <<ready, file>>
     ELSE /\ ready' = Tail(ready)
          /\ file' = IF Head(ready).unit = 0 THEN file ELSE Append(file, Head(ready).unit)
          /\ IF Head(ready).eos THEN Finish ELSE pc' = "input" /\ UNCHANGED <<live, caught>>
  /\ UNCHANGED <<inputs, pos, eosQueued, free, port>>
PollOutput ==
  /\ pc = "output"
  /\ IF ready = << >>
     THEN /\ IF fn = "extractAudioToPCMV2" THEN Finish
             ELSE pc' = "input" /\ UNCHANGED <<live, caught>>
          /\ UNCHANGED <<ready, file>>
     ELSE /\ ready' = Tail(ready)
          /\ file' = IF Head(ready).unit = 0 THEN file ELSE Append(file, Head(ready).unit)
          /\ IF Head(ready).eos THEN Finish ELSE pc' = "input" /\ UNCHANGED <<live, caught>>
  /\ UNCHANGED <<inputs, pos, eosQueued, free, port>>

\* The codec fails, or the file: what the loop opened is not closed.
LoopThrows ==
  /\ pc \in {"input", "output"}
  /\ Catch
  /\ UNCHANGED <<inputs, pos, eosQueued, codec, file>>

\* The decoder takes an input while it can hold its output. The end of stream comes
\* with the last decoded buffer or in an empty one of its own.
Decode ==
  /\ port # << >> /\ pc \in {"input", "output"}
  /\ port' = Tail(port)
  /\ LET n == Head(port) IN
     \/ /\ n # 0 /\ source[n] = "empty"
        /\ ready' = ready
     \/ /\ n # 0 /\ source[n] # "empty" /\ Len(ready) < OutBuffers
        /\ ready' = Append(ready, [unit |-> n, eos |-> FALSE])
     \/ /\ n = 0 /\ Len(ready) < OutBuffers
        /\ ready' = Append(ready, [unit |-> 0, eos |-> TRUE])
     \/ /\ n = 0 /\ ready # << >>
        /\ ready' = [ready EXCEPT ![Len(ready)].eos = TRUE]
  /\ free' = free + 1
  /\ UNCHANGED <<inputs, pc, live, caught, pos, eosQueued, file>>

Function ==
  Begin \/ Search \/ SetUp \/ CopySample \/ CopyEnds \/ CopyTooBig \/ PollInput \/ PollOutput
Fault == BeginThrows \/ SetUpThrows \/ CopyThrows \/ ReleaseThrows \/ LoopThrows

Next == Function \/ Fault \/ Decode

Spec == Init /\ [][Next]_vars

\* The calling thread runs, and a decoder that can decode does; nothing has to fail.
FairSpec == Spec /\ WF_vars(Function) /\ WF_vars(Decode)

-----------------------------------------------------------------------------
(* Properties.                                                             *)

TypeOK ==
  /\ fn \in Functions /\ source \in Sources /\ hasTrack \in BOOLEAN
  /\ pc \in {"begin", "search", "setup", "copy", "input", "output", "returned", "threw"}
  /\ live \subseteq {"extractor", "muxer", "codec", "stream"}
  /\ caught \in BOOLEAN /\ eosQueued \in BOOLEAN
  /\ pos \in 0 .. Len(source)
  /\ free \in 0 .. Buffers /\ free + Len(port) = Buffers
  /\ port \in Seq(0 .. Len(source))
  /\ ready \in Seq([unit : 0 .. Len(source), eos : BOOLEAN])
  /\ file \in Seq(1 .. Len(source))

\* What a call that was not interrupted must have written: the decoder passes over
\* empty samples, a copier takes one for the end, and V2 writes nothing at all.
Full(n) == source[n] # "empty"
Expected ==
  CASE ~hasTrack \/ fn = "extractAudioToPCMV2" -> {}
    [] hasTrack /\ fn = "extractAudioToPCM" -> {n \in 1 .. Len(source) : Full(n)}
    [] hasTrack /\ fn \in Copiers -> {n \in 1 .. Len(source) : \A i \in 1 .. n : Full(i)}

\* The sequence that runs through a set of numbers once and in order.
InOrder(s) == \A i, j \in DOMAIN s : i < j => s[i] < s[j]
Lists(s, S) == InOrder(s) /\ {s[i] : i \in DOMAIN s} = S

\* A call that returns without an exception on the way has written everything, the
\* buffers still queued or decoded when the input ended included, and in order.
CompleteUnlessCaught ==
  TypeOK /\ (pc = "returned" /\ ~caught => Lists(file, Expected))

\* The extractor is released by every call but one whose muxer or codec could not be
\* created; a muxer leaks only if its release throws; a codec or a file leaks after an exception in
\* extractAudioToPCM or in V2's setup, and a codec with every extractAudioFromVideo1.
LeaksExplained ==
  /\ pc = "threw" => \/ live = {"extractor"} /\ fn \in Copiers
                     \/ live = {"muxer"} /\ fn = "extractAudioFromVideo"
  /\ pc = "returned" => "extractor" \notin live /\ "muxer" \notin live
  /\ pc = "returned" /\ live # {} => caught \/ fn = "extractAudioFromVideo1"

ResultRight == CompleteUnlessCaught /\ LeaksExplained

\* Every call ends, with a single buffer on the decoder's output side too: the polls
\* time out, so that neither a full decoder nor a sample that decodes to nothing
\* makes the loop wait for what only its other half can bring.
Ends == <>(pc \in {"returned", "threw"})
=============================================================================
