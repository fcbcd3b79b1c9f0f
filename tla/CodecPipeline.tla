--------------------------- MODULE CodecPipeline ---------------------------
(***************************************************************************)
(* One call of a conversion function of AudioExtractManager (pcmToMp3,     *)
(* pcmToAac, yuvToh264, oggToPcm or flacToPcm): a coroutine suspended in   *)
(* suspendCancellableCoroutine, a MediaCodec in asynchronous mode, and     *)
(* the MediaCodec.Callback object that moves data from the source to the   *)
(* codec and from the codec to the destination file.                       *)
(*                                                                         *)
(* The codec and the looper that runs its callbacks are not in the         *)
(* repository.  The codec owns Buffers input buffers, offers each free one *)
(* to the client, and stops offering once it has taken an end-of-stream    *)
(* buffer; outputs keep the order of inputs.  Every callback of a codec is *)
(* a message on one Handler, so callbacks run one at a time and in the     *)
(* order the codec posted them: the variable handler is that queue.        *)
(***************************************************************************)
EXTENDS Naturals, Sequences

CONSTANTS
  Buffers,  \* number of input buffers the codec owns
  Sources,  \* the sources a call may be given (see SourcesAssumption)
  Faults    \* what the environment may do wrong, a subset of FaultKinds

FaultKinds == {"setup", "error", "nullInput", "nullOutput", "mixedFlags", "oversize"}

\* A source is the sequence of what successive reads of it return: a read that
\* fills the buffer or frame, a shorter one, or (a sample of) no bytes at all.
ReadSizes == {"full", "short", "empty"}

ASSUME BuffersAssumption == Buffers \in Nat \ {0}
ASSUME SourcesAssumption == Sources \subseteq Seq(ReadSizes)
ASSUME FaultsAssumption == Faults \subseteq FaultKinds

\* The functions that differ in how they treat the source or the output.
Kinds == {"pcmToMp3", "pcmToAac", "yuvToh264", "oggToPcm"}

VARIABLES
  kind,     \* the function called
  source,   \* the source it was given
  stage,    \* "called", "started", "unsupported" or "threw"
  cont,     \* the continuation: "active", "resumed", "cancelled" or "threw"
  srcOpen,  \* pcmInputStream / yuvInputStream / mediaExtractor usable
  outOpen,  \* the output stream is open
  pos,      \* reads of the source done so far
  out,      \* the units written to the destination, in order
  dropped,  \* units whose output a callback returned without writing
  free,     \* input buffers the codec holds and has not offered
  lost,     \* input buffers a callback returned without queueing
  portIn,   \* buffers queued to the codec: a unit, or 0 for end of stream
  portEos,  \* the codec has taken an end-of-stream buffer
  held,     \* units the codec has taken and not put out yet
  eosSent,  \* the codec has put out its end-of-stream flag
  errored,  \* the codec has failed
  handler,  \* callback messages posted and not yet run
  crash     \* why the process died, or "none"

callVars == <<kind, source, stage, cont>>
fileVars == <<srcOpen, outOpen, pos, out, dropped>>
codecVars == <<free, portIn, portEos, held, eosSent, errored>>
vars == <<callVars, fileVars, codecVars, lost, handler, crash>>

\* A callback message.  flags is only meaningful in an output message: whether
\* info.flags is 0, exactly BUFFER_FLAG_END_OF_STREAM, or that bit among others.
Flags == {"none", "eos", "eosMixed"}
Event == [kind : {"input", "output", "error"}, unit : Nat, flags : Flags]

InputEvent == [kind |-> "input", unit |-> 0, flags |-> "none"]
ErrorEvent == [kind |-> "error", unit |-> 0, flags |-> "none"]
OutputEvent(unit, flags) == [kind |-> "output", unit |-> unit, flags |-> flags]

Init ==
  /\ kind \in Kinds
  /\ source \in Sources
  /\ kind # "oggToPcm" => \A i \in DOMAIN source : source[i] # "empty"
  /\ stage = "called"
  /\ cont = "active"
  /\ srcOpen = FALSE /\ outOpen = FALSE
  /\ pos = 0
  /\ out = << >> /\ dropped = 0
  /\ free = Buffers
  /\ lost = 0
  /\ portIn = << >>
  /\ portEos = FALSE
  /\ held = << >>
  /\ eosSent = FALSE
  /\ errored = FALSE
  /\ handler = << >>
  /\ crash = "none"

-----------------------------------------------------------------------------
(* The body of the function, run before the caller is suspended.           *)

\* No codec of the type: the call returns at once, if nobody cancelled it.
Unsupported ==
  /\ stage = "called"
  /\ stage' = "unsupported"
  /\ cont' = IF cont = "active" THEN "resumed" ELSE cont
  /\ UNCHANGED <<kind, source, fileVars, codecVars, lost, handler, crash>>

\* Both streams are opened, the callback is installed, the codec is started.
Start ==
  /\ stage = "called"
  /\ stage' = "started"
  /\ srcOpen' = TRUE
  /\ outOpen' = TRUE
  /\ UNCHANGED <<kind, source, cont, pos, out, dropped, codecVars, lost, handler, crash>>

\* A setup call throws: creating or configuring the codec, a `!!` on a null stream,
\* the scratch array, setCallback or start.  What was opened before the call that
\* failed stays open: nothing, the source, or both ends.  The exception leaves the
\* function, and so answers a caller that has not been cancelled.
SetupThrows ==
  /\ "setup" \in Faults
  /\ stage = "called"
  /\ stage' = "threw"
  /\ cont' = IF cont = "active" THEN "threw" ELSE cont
  /\ srcOpen' \in BOOLEAN
  /\ outOpen' \in {FALSE, srcOpen'}
  /\ UNCHANGED <<kind, source, pos, out, dropped, codecVars, lost, handler, crash>>

\* The caller's job is cancelled.  There is no invokeOnCancellation: the codec
\* and the streams are left alone.
Cancel ==
  /\ cont = "active"
  /\ cont' = "cancelled"
  /\ UNCHANGED <<kind, source, stage, fileVars, codecVars, lost, handler, crash>>

-----------------------------------------------------------------------------
(* The codec (external).                                                   *)

Running == stage = "started" /\ ~errored /\ crash = "none"

\* A free input buffer is offered to the client.
OfferInput ==
  /\ Running
  /\ ~portEos
  /\ free > 0
  /\ free' = free - 1
  /\ handler' = Append(handler, InputEvent)
  /\ UNCHANGED <<callVars, fileVars, portIn, portEos, held, eosSent, errored, lost, crash>>

\* The codec takes the oldest queued buffer.  What follows an end of stream is
\* dropped and its buffers are not offered again.
TakeInput ==
  /\ Running
  /\ portIn # << >>
  /\ portIn' = Tail(portIn)
  /\ IF portEos \/ Head(portIn) = 0
       THEN /\ portEos' = TRUE
            /\ UNCHANGED <<held, free>>
       ELSE /\ held' = Append(held, Head(portIn))
            /\ free' = free + 1
            /\ UNCHANGED portEos
  /\ UNCHANGED <<callVars, fileVars, eosSent, errored, lost, handler, crash>>

EosFlags == IF "mixedFlags" \in Faults THEN {"eos", "eosMixed"} ELSE {"eos"}

\* An output buffer is posted; the last one may carry the end-of-stream flag.
PutOut ==
  /\ Running
  /\ held # << >>
  /\ \E flags \in {"none"} \union (IF portEos /\ Len(held) = 1 THEN EosFlags ELSE {}) :
       /\ handler' = Append(handler, OutputEvent(Head(held), flags))
       /\ eosSent' = (flags # "none")
  /\ held' = Tail(held)
  /\ UNCHANGED <<callVars, fileVars, free, portIn, portEos, errored, lost, crash>>

\* The end of stream is posted in an empty output buffer of its own.
PutOutEos ==
  /\ Running
  /\ portEos
  /\ held = << >>
  /\ ~eosSent
  /\ eosSent' = TRUE
  /\ \E flags \in EosFlags : handler' = Append(handler, OutputEvent(0, flags))
  /\ UNCHANGED <<callVars, fileVars, free, portIn, portEos, held, errored, lost, crash>>

\* The codec fails and will do nothing more.
CodecFails ==
  /\ "error" \in Faults
  /\ Running
  /\ errored' = TRUE
  /\ handler' = Append(handler, ErrorEvent)
  /\ UNCHANGED <<callVars, fileVars, free, portIn, portEos, held, eosSent, lost, crash>>

-----------------------------------------------------------------------------
(* The callbacks, run by the looper in the order they were posted.         *)

Dispatch(k) ==
  /\ crash = "none"
  /\ handler # << >>
  /\ Head(handler).kind = k
  /\ handler' = Tail(handler)

\* Which reads the input callback passes on as data: yuvToh264 wants a whole
\* frame (size == frameSize), the others any positive size.
IsData(k, size) == IF k = "yuvToh264" THEN size = "full" ELSE size # "empty"

\* The position after a read: a stream moves past whatever it returned, the
\* extractor only by advance(), which the end-of-stream branch does not call.
AdvanceNever(size) == pos

Advance(size) == IF kind = "oggToPcm" /\ ~IsData(kind, size) THEN pos ELSE pos + 1

\* codec.getInputBuffer(index) ?: return
OnInputNull ==
  /\ "nullInput" \in Faults
  /\ Dispatch("input")
  /\ lost' = lost + 1
  /\ UNCHANGED <<callVars, fileVars, codecVars, crash>>

\* Reading a closed stream throws on the looper thread, and so does a buffer limit
\* beyond the scratch array, or a sample beyond the codec's buffer.
OnInputThrows ==
  /\ Dispatch("input")
  /\ \/ ~srcOpen /\ crash' = "closed"
     \/ /\ srcOpen /\ "oversize" \in Faults
        /\ kind = "oggToPcm" => pos < Len(source)
        /\ crash' = "oversize"
  /\ UNCHANGED <<callVars, fileVars, codecVars, lost>>

\* Mutants of OnInput: the stream is closed as soon as it is exhausted; the
\* caller is resumed then; the exhausted case queues nothing.
OnInputClosesAtEnd ==
  /\ srcOpen
  /\ Dispatch("input")
  /\ IF pos < Len(source)
       THEN /\ portIn' = Append(portIn, IF IsData(kind, source[pos + 1]) THEN pos + 1 ELSE 0)
            /\ pos' = Advance(source[pos + 1])
            /\ srcOpen' = TRUE
       ELSE /\ portIn' = Append(portIn, 0)
            /\ pos' = pos
            /\ srcOpen' = FALSE
  /\ UNCHANGED <<callVars, outOpen, out, dropped, free, portEos, held, eosSent, errored, lost, crash>>

OnInputResumesAtEnd ==
  /\ srcOpen
  /\ Dispatch("input")
  /\ IF pos < Len(source)
       THEN /\ portIn' = Append(portIn, IF IsData(kind, source[pos + 1]) THEN pos + 1 ELSE 0)
            /\ pos' = Advance(source[pos + 1])
            /\ cont' = cont
       ELSE /\ portIn' = Append(portIn, 0)
            /\ pos' = pos
            /\ cont' = IF cont = "active" THEN "resumed" ELSE cont
  /\ UNCHANGED <<kind, source, stage, srcOpen, outOpen, out, dropped, free, portEos, held,
                 eosSent, errored, lost, crash>>

OnInputIgnoresEnd ==
  /\ srcOpen
  /\ Dispatch("input")
  /\ IF pos < Len(source)
       THEN /\ portIn' = Append(portIn, IF IsData(kind, source[pos + 1]) THEN pos + 1 ELSE 0)
            /\ pos' = Advance(source[pos + 1])
       ELSE UNCHANGED <<portIn, pos>>
  /\ UNCHANGED <<callVars, srcOpen, outOpen, out, dropped, free, portEos, held,
                 eosSent, errored, lost, crash>>

\* Read the source; queue what was read, or end of stream.
OnInput ==
  /\ srcOpen
  /\ Dispatch("input")
  /\ IF pos < Len(source)
       THEN /\ portIn' = Append(portIn, IF IsData(kind, source[pos + 1]) THEN pos + 1 ELSE 0)
            /\ pos' = Advance(source[pos + 1])
       ELSE /\ portIn' = Append(portIn, 0)
            /\ pos' = pos
  /\ UNCHANGED <<callVars, srcOpen, outOpen, out, dropped, free, portEos, held,
                 eosSent, errored, lost, crash>>

\* codec.getOutputBuffer(index) ?: return
OnOutputNull ==
  /\ "nullOutput" \in Faults
  /\ Dispatch("output")
  /\ dropped' = IF Head(handler).unit = 0 THEN dropped ELSE dropped + 1
  /\ UNCHANGED <<callVars, srcOpen, outOpen, pos, out, codecVars, lost, crash>>

\* Writing a closed stream throws on the looper thread, and so does an output
\* larger than the scratch array (pcmToAac allocates to measure).
OnOutputThrows ==
  /\ Dispatch("output")
  /\ \/ ~outOpen /\ crash' = "closed"
     \/ outOpen /\ "oversize" \in Faults /\ kind # "pcmToAac" /\ crash' = "oversize"
  /\ UNCHANGED <<callVars, fileVars, codecVars, lost>>

\* Write the output; on exactly END_OF_STREAM close everything and resume.
OnOutput ==
  /\ outOpen
  /\ Dispatch("output")
  /\ LET event == Head(handler) IN
       /\ out' = IF event.unit = 0 THEN out ELSE Append(out, event.unit)
       /\ IF event.flags = "eos"
            THEN /\ srcOpen' = FALSE
                 /\ outOpen' = FALSE
                 /\ cont' = IF cont = "active" THEN "resumed" ELSE cont
            ELSE UNCHANGED <<srcOpen, outOpen, cont>>
  /\ UNCHANGED <<kind, source, stage, pos, dropped, codecVars, lost, crash>>

\* onError only logs.
OnError ==
  /\ Dispatch("error")
  /\ UNCHANGED <<callVars, fileVars, codecVars, lost, crash>>

-----------------------------------------------------------------------------
Body == Unsupported \/ Start \/ SetupThrows
Codec == OfferInput \/ TakeInput \/ PutOut \/ PutOutEos \/ CodecFails
Callback ==
  \/ OnInputNull \/ OnInputThrows \/ OnInput
  \/ OnOutputNull \/ OnOutputThrows \/ OnOutput
  \/ OnError

Next == Body \/ Cancel \/ Codec \/ Callback

\* The body runs to its end, the codec keeps working until it fails, and the
\* looper runs what is posted to it.  Nobody has to cancel, fail or lose a buffer.
Fairness ==
  /\ WF_vars(Body)
  /\ WF_vars(OfferInput)
  /\ WF_vars(TakeInput)
  /\ WF_vars(PutOut \/ PutOutEos)
  /\ WF_vars(Callback)

Spec == Init /\ [][Next]_vars
FairSpec == Spec /\ Fairness

-----------------------------------------------------------------------------
(* Properties.                                                             *)

TypeOK ==
  /\ kind \in Kinds
  /\ source \in Sources
  /\ stage \in {"called", "started", "unsupported", "threw"}
  /\ cont \in {"active", "resumed", "cancelled", "threw"}
  /\ srcOpen \in BOOLEAN /\ outOpen \in BOOLEAN
  /\ pos \in 0 .. Len(source)
  /\ out \in Seq(Nat \ {0}) /\ dropped \in Nat
  /\ free \in Nat
  /\ lost \in Nat
  /\ portIn \in Seq(Nat)
  /\ portEos \in BOOLEAN
  /\ held \in Seq(Nat \ {0})
  /\ eosSent \in BOOLEAN
  /\ errored \in BOOLEAN
  /\ handler \in Seq(Event)
  /\ crash \in {"none", "closed", "oversize"}

\* No callback ever reads the source or writes the destination after the end of
\* stream closed them: the close in onOutputBufferAvailable is the last word of
\* the pipeline although callbacks were posted ahead of it.
NoUseAfterClose == crash # "closed"

\* Why no callback finds a closed end, as an inductive invariant: a callback that
\* carries the end-of-stream flag is the last data callback ever posted, because
\* the codec stops offering input before it puts the flag out; once that callback
\* has closed the ends, only error callbacks can be left.
EosIsLast ==
  /\ stage # "started" => handler = << >>
  /\ stage = "started" => srcOpen = outOpen
  /\ eosSent => portEos /\ held = << >>
  /\ stage = "started" /\ ~outOpen =>
       eosSent /\ \A i \in DOMAIN handler : handler[i].kind = "error"
  /\ \A i \in DOMAIN handler : handler[i].flags # "none" =>
       /\ eosSent
       /\ \A j \in DOMAIN handler : i < j => handler[j].kind = "error"
  /\ NoUseAfterClose

\* Units reach the file in the order they were read and none reaches it twice,
\* whatever the input and output callbacks' interleaving.  They only travel
\* source -> portIn -> held -> handler -> out, and each stage holds them in reading
\* order and behind the next stage's (0, an end of stream or a message without
\* data, counts for nothing).
Units(events) == [i \in DOMAIN events |-> events[i].unit]
Rising(s) == \A i, j \in DOMAIN s : i < j /\ s[i] # 0 /\ s[j] # 0 => s[i] < s[j]
Before(s, t) == \A i \in DOMAIN s, j \in DOMAIN t : s[i] # 0 /\ t[j] # 0 => s[i] < t[j]
AtMost(s, n) == \A i \in DOMAIN s : s[i] <= n

UnitsInOrder ==
  /\ Rising(out) /\ Rising(Units(handler)) /\ Rising(held) /\ Rising(portIn)
  /\ Before(out, Units(handler)) /\ Before(out, held) /\ Before(out, portIn)
  /\ Before(Units(handler), held) /\ Before(Units(handler), portIn)
  /\ Before(held, portIn)
  /\ AtMost(out, pos) /\ AtMost(Units(handler), pos)
  /\ AtMost(held, pos) /\ AtMost(portIn, pos)

\* The inductive invariant of the pipeline, for any faults.
IInv == TypeOK /\ EosIsLast /\ UnitsInOrder

\* The ways the code lets a conversion go silent for ever: the codec failed
\* (onError only logs), every input buffer was dropped by the null check, or the
\* end-of-stream output was not recognised or not seen.
Stalled ==
  \/ errored
  \/ lost >= Buffers
  \/ /\ eosSent /\ outOpen
     /\ \A i \in DOMAIN handler : handler[i].flags # "eos"

\* The call is over and its output closed.  Only a call that left its set-up by an
\* exception may be over with the output open: nothing closes what it had opened.
Settled ==
  /\ cont # "active"
  /\ stage # "called"
  /\ outOpen => stage = "threw"

\* Every call is answered and its output closed, cancelled or not, unless its set-up
\* threw, the process died or one of those three things happened.
HangsOnlyWhenStalled == <>(Settled \/ crash # "none" \/ Stalled)

\* How many units of a source a conversion must deliver: those before the first
\* read that the input handler takes for the end.
Deliverable(request) ==
  LET k == request[1]
      s == request[2]
  IN  CHOOSE n \in 0 .. Len(s) :
        /\ \A i \in 1 .. n : IsData(k, s[i])
        /\ n < Len(s) => ~IsData(k, s[n + 1])

Abstract == INSTANCE Transcode WITH
  request <- <<kind, source>>, file <- out, missing <- dropped, answer <- cont

\* The pipeline does what Transcode promises: units reach the file one by one unless
\* the codec has no buffer for them, the caller is resumed only when none is left to
\* write, and one that was resumed, cancelled or thrown at is not answered again.
Refines == Abstract!Spec
=============================================================================
