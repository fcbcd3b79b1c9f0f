--------------------------- MODULE DecodingProofs ---------------------------
(***************************************************************************)
(* Proofs about VideoDecode for every number of buffers and every length   *)
(* of the tracks, empty samples among them: two decoders on one extractor  *)
(* read their own track only, to its end or to an empty sample that was    *)
(* taken for it, and never after the extractor was released.  The          *)
(* inductive invariant says why the order of callbacks is enough: track 1  *)
(* is selected only after decoder 0 was given its end of stream and has no *)
(* callback left.                                                          *)
(*                                                                         *)
(* And about SyncExtract, for every set of tracks: a blocking extractor    *)
(* that returns has written what it should and left behind what it may.    *)
(* Its invariant follows a sample from the extractor through the decoder   *)
(* to the file, and the end of stream behind the last one.                 *)
(***************************************************************************)
EXTENDS MCDecoding, Integers, TLAPS

-----------------------------------------------------------------------------
(* Sequences that grow at the end and lose their first element.            *)

LEMMA AppendFacts ==
  ASSUME NEW S, NEW q \in Seq(S), NEW e \in S
  PROVE  /\ Append(q, e) \in Seq(S)
         /\ Len(Append(q, e)) = Len(q) + 1
         /\ DOMAIN Append(q, e) = 1 .. Len(q) + 1
         /\ DOMAIN q = 1 .. Len(q) /\ Len(q) \in Nat
         /\ \A i \in 1 .. Len(q) : Append(q, e)[i] = q[i]
         /\ Append(q, e)[Len(q) + 1] = e
OBVIOUS

LEMMA TailFacts ==
  ASSUME NEW S, NEW q \in Seq(S), q # << >>
  PROVE  /\ Tail(q) \in Seq(S)
         /\ DOMAIN Tail(q) = 1 .. Len(q) - 1
         /\ DOMAIN q = 1 .. Len(q) /\ Len(q) \in Nat \ {0}
         /\ \A i \in 1 .. Len(q) - 1 : Tail(q)[i] = q[i + 1]
         /\ Head(q) = q[1] /\ Head(q) \in S
OBVIOUS

LEMMA ElementFacts ==
  ASSUME NEW S, NEW q \in Seq(S)
  PROVE  Len(q) \in Nat /\ DOMAIN q = 1 .. Len(q) /\ \A i \in 1 .. Len(q) : q[i] \in S
OBVIOUS

-----------------------------------------------------------------------------
(* Types.                                                                  *)

USE BuffersAssumption, MaxUnitsAssumption

LEMMA TypeInit == Init => TypeOK
<1> SUFFICES ASSUME Init PROVE TypeOK
  OBVIOUS
<1>1. Buffers \in Nat /\ 0 \in 0 .. MaxUnits
  OBVIOUS
<1>2. /\ << >> \in Seq({"data", "eos"}) /\ << >> \in Seq(Decoders \X Nat)
  OBVIOUS
<1> QED BY <1>1, <1>2 DEF Init, TypeOK, Functions

LEMMA TypeStep == TypeOK /\ [Next]_vars => TypeOK'
<1> SUFFICES ASSUME TypeOK, [Next]_vars PROVE TypeOK'
  OBVIOUS
<1> USE DEF inputVars, codecVars
<1>1. CASE Unsupported BY <1>1 DEF Unsupported, TypeOK
<1>2. CASE Open BY <1>2 DEF Open, TypeOK
<1>3. CASE NoDecoder BY <1>3 DEF NoDecoder, TypeOK
<1>4. CASE Release BY <1>4 DEF Release, TypeOK
<1>5. CASE Cancel BY <1>5 DEF Cancel, TypeOK
<1>6. ASSUME NEW d \in Decoders, BeginDecode(d) PROVE TypeOK'
  BY <1>6 DEF BeginDecode, Selecting, AwaitAt, TypeOK
<1>7. ASSUME NEW d \in Decoders, SetupThrows(d) PROVE TypeOK'
  BY <1>7 DEF SetupThrows, Selecting, TypeOK
<1>8. ASSUME NEW d \in Decoders, OfferInput(d) PROVE TypeOK'
  <2>1. free[d] \in Nat /\ offered[d] \in Nat /\ free[d] - 1 \in Nat /\ offered[d] + 1 \in Nat
    <3>1. free \in [Decoders -> Nat] /\ offered \in [Decoders -> Nat] /\ free[d] > 0
      BY <1>8 DEF OfferInput, TypeOK
    <3> QED BY ONLY <3>1
  <2>2. free' \in [Decoders -> Nat] /\ offered' \in [Decoders -> Nat]
    BY <1>8, <2>1 DEF OfferInput, TypeOK
  <2> QED BY <1>8, <2>2 DEF OfferInput, TypeOK
<1>9. ASSUME NEW d \in Decoders, TakeInput(d) PROVE TypeOK'
  <2>1. port[d] \in Seq({"data", "eos"}) /\ port[d] # << >>
    BY <1>9 DEF TakeInput, TypeOK
  <2>2. Tail(port[d]) \in Seq({"data", "eos"})
    BY <2>1, TailFacts
  <2>3. port' \in [Decoders -> Seq({"data", "eos"})]
    BY <1>9, <2>2 DEF TakeInput, TypeOK
  <2>4. portEos' \subseteq started /\ portEos \subseteq portEos'
    BY <1>9 DEF TakeInput, Running, TypeOK
  <2>5. free' = free \/ free' = [free EXCEPT ![d] = free[d] + 1]
    BY <1>9 DEF TakeInput
  <2>6. free' \in [Decoders -> Nat]
    <3>1. free \in [Decoders -> Nat]
      BY DEF TypeOK
    <3>2. [free EXCEPT ![d] = free[d] + 1] \in [Decoders -> Nat]
      BY <3>1
    <3> QED BY <2>5, <3>1, <3>2
  <2>7. UNCHANGED <<inputVars, pc, extractor, selected, pos, started, released, errored,
                    lost, missed, offered, eosPosted, outOpen, fed, crash>>
    BY <1>9 DEF TakeInput
  <2> QED BY <2>3, <2>4, <2>6, <2>7 DEF TypeOK, inputVars
<1>10. ASSUME NEW d \in Decoders, PostEos(d) PROVE TypeOK'
  BY <1>10 DEF PostEos, TypeOK
<1>11. ASSUME NEW d \in Decoders, CodecFails(d) PROVE TypeOK'
  BY <1>11 DEF CodecFails, Running, TypeOK
<1>12. ASSUME NEW d \in Decoders, OnInput(d) PROVE TypeOK'
  <2>1. offered' \in [Decoders -> Nat]
    BY <1>12 DEF OnInput, TypeOK
  <2>2. port[d] \in Seq({"data", "eos"}) /\ fed[d] \in Seq(Decoders \X Nat)
    BY DEF TypeOK
  <2>3. /\ Append(port[d], "data") \in Seq({"data", "eos"})
        /\ Append(port[d], "eos") \in Seq({"data", "eos"})
    BY <2>2
  <2>4. /\ port' \in [Decoders -> Seq({"data", "eos"})]
        /\ fed' \in [Decoders -> Seq(Decoders \X Nat)]
        /\ pos' \in [Decoders -> 0 .. MaxUnits]
    <3>1. CASE UNCHANGED <<fed, pos>> /\ port' = [port EXCEPT ![d] = Append(@, "eos")]
      BY <2>3, <3>1 DEF TypeOK
    <3>2. ASSUME NEW t \in Supply,
                 fed' = [fed EXCEPT ![d] = Append(@, <<t, pos[t] + 1>>)],
                 port' = [port EXCEPT ![d] = Append(@, "data")],
                 pos' = [pos EXCEPT ![t] = @ + 1]
          PROVE  /\ port' \in [Decoders -> Seq({"data", "eos"})]
                 /\ fed' \in [Decoders -> Seq(Decoders \X Nat)]
                 /\ pos' \in [Decoders -> 0 .. MaxUnits]
      <4>1. /\ t \in Decoders /\ pos[t] \in 0 .. MaxUnits /\ length[t] \in 0 .. MaxUnits
            /\ pos[t] < length[t]
        BY DEF Supply, TypeOK
      <4>2. pos[t] + 1 \in 0 .. MaxUnits /\ pos[t] + 1 \in Nat
        BY <4>1
      <4>3. Append(fed[d], <<t, pos[t] + 1>>) \in Seq(Decoders \X Nat)
        BY <2>2, <4>1, <4>2
      <4> QED BY <2>3, <3>2, <4>1, <4>2, <4>3 DEF TypeOK
    <3> QED BY <1>12, <3>1, <3>2 DEF OnInput
  <2> QED BY <1>12, <2>1, <2>4 DEF OnInput, TypeOK
<1>13. ASSUME NEW d \in Decoders, OnEos(d) PROVE TypeOK'
  <2>1. pc' \in {"decode1", "release", pc}
    BY <1>13 DEF OnEos, After
  <2> QED BY <1>13, <2>1 DEF OnEos, TypeOK
<1>14. CASE UNCHANGED vars BY <1>14 DEF vars, TypeOK
<1>15. ASSUME NEW d \in Decoders, OnInputNull(d) PROVE TypeOK'
  BY <1>15 DEF OnInputNull, TypeOK
<1>16. ASSUME NEW d \in Decoders, OnInputThrows(d) PROVE TypeOK'
  BY <1>16 DEF OnInputThrows, TypeOK
<1>17. ASSUME NEW d \in Decoders, OnOutputThrows(d) PROVE TypeOK'
  BY <1>17 DEF OnOutputThrows, TypeOK
<1>18. ASSUME NEW d \in Decoders, OnEosMissed(d) PROVE TypeOK'
  BY <1>18 DEF OnEosMissed, TypeOK
<1> QED
  BY <1>1, <1>2, <1>3, <1>4, <1>5, <1>6, <1>7, <1>8, <1>9, <1>10, <1>11, <1>12, <1>13, <1>14,
     <1>15, <1>16, <1>17, <1>18
  DEF Next, Coroutine

\* The variables keep their types: no decoder is released, hears of an error or puts out its
\* end of stream that was not started.
THEOREM TypeCorrect == Spec => []TypeOK
BY TypeInit, TypeStep, PTL DEF Spec

-----------------------------------------------------------------------------
(* The inductive invariant.                                                *)

\* How far the coroutine is, and which decoders it has started by then.
PhaseInv ==
  /\ pc \in {"begin", "decode0"} => started = {} /\ selected = {}
  /\ pc = "await0" => started = {0} /\ selected = {0}
  /\ pc = "decode1" => started = {0} /\ selected = {0} /\ outOpen = {}
  /\ pc = "await1" => started = {0, 1}
  /\ pc = "release" => outOpen = {}
  /\ pc \in {"decode1", "await1"} => fn \in {"videoToYuvPcm", "h265ToYuvPcm"}
  /\ pc # "setupThrew" => outOpen \subseteq started

\* The extractor is released when no decoder has anything to ask of it.
ExtractorInv ==
  /\ pc = "begin" => extractor = "none"
  /\ pc \notin {"begin", "returned"} => extractor = "open" /\ ~TooFew
  /\ extractor = "released" => outOpen = {}
  /\ MissingTrackOnlyH265 /\ ReleasedUnlessNoAudio /\ NoReadAfterRelease

\* An end of stream is on its way to decoder d or has reached it.
Queued(d) == d \in portEos \/ \E i \in DOMAIN port[d] : port[d][i] = "eos"

\* Track 1 is selected only after decoder 0 is done, and a decoder that is done was
\* given its track to the end, or to what was taken for it, and has no callback left.
DecoderInv(d) ==
  /\ d \notin started => offered[d] = 0 /\ port[d] = << >> /\ pos[d] = 0
  /\ d \in started \ outOpen => d \in portEos /\ offered[d] = 0
  /\ Queued(d) => pos[d] = length[d] \/ CutShort(d)
  /\ pos[d] <= length[d]
  /\ Len(fed[d]) = pos[d]
  /\ \A i \in 1 .. pos[d] : fed[d][i] = <<d, i>>
SelectedInv ==
  /\ started \subseteq selected
  /\ 1 \in selected => 0 \in started \ outOpen
DecodersInv == \A d \in Decoders : DecoderInv(d)

VInv == PhaseInv /\ ExtractorInv /\ SelectedInv /\ DecodersInv

LEMMA VInit == Init => VInv
<1> SUFFICES ASSUME Init PROVE VInv
  OBVIOUS
<1>1. PhaseInv /\ SelectedInv
  BY DEF Init, PhaseInv, SelectedInv
<1>2. ExtractorInv
  BY DEF Init, ExtractorInv, MissingTrackOnlyH265, ReleasedUnlessNoAudio, NoReadAfterRelease
<1>3. ASSUME NEW d \in Decoders PROVE DecoderInv(d)
  <2>1. length[d] \in 0 .. MaxUnits
    BY DEF Init
  <2> QED BY <2>1 DEF Init, DecoderInv, Queued
<1> QED BY <1>1, <1>2, <1>3 DEF VInv, DecodersInv

\* A step of the coroutine does not touch what a decoder has.
LEMMA DecodersStay ==
  ASSUME DecodersInv,
         UNCHANGED <<length, empties, pos, offered, port, portEos, fed>>,
         \A d \in Decoders : d \in started' \ outOpen' => d \in started \ outOpen,
         started \subseteq started'
  PROVE  DecodersInv'
<1> SUFFICES ASSUME NEW d \in Decoders PROVE DecoderInv(d)'
  BY DEF DecodersInv
<1>1. Queued(d)' <=> Queued(d)
  BY DEF Queued
<1> QED BY <1>1 DEF DecodersInv, DecoderInv, CutShort, AtEmpty

\* A callback that returns or dies at once only takes its buffer with it.
LEMMA OfferedShrinks ==
  ASSUME TypeOK, DecodersInv, NEW d \in Decoders,
         UNCHANGED <<length, empties, pos, started, port, portEos, outOpen, fed>>,
         offered' = offered \/ (offered[d] > 0 /\ offered' = [offered EXCEPT ![d] = @ - 1])
  PROVE  DecodersInv'
<1> SUFFICES ASSUME NEW e \in Decoders PROVE DecoderInv(e)'
  BY DEF DecodersInv
<1>1. Queued(e)' <=> Queued(e)
  BY DEF Queued
<1>2. offered[e] = 0 => offered'[e] = 0
  BY DEF TypeOK
<1> QED BY <1>1, <1>2 DEF DecodersInv, DecoderInv, CutShort, AtEmpty

\* Which tracks can supply a decoder's next sample: its own, until it is exhausted; the
\* other one can at most be standing at an empty sample, and so end it.
LEMMA OwnSupply ==
  ASSUME TypeOK, VInv, NEW d \in Decoders, offered[d] > 0
  PROVE  /\ d \in started /\ d \in outOpen /\ d \in selected /\ extractor # "released"
         /\ \A t \in Supply : t = d \/ (d = 1 /\ t = 0 /\ AtEmpty(0))
<1>1. d \in started /\ d \in outOpen
  BY DEF VInv, DecodersInv, DecoderInv, TypeOK
<1>2. extractor # "released" /\ d \in selected
  BY <1>1 DEF VInv, ExtractorInv, SelectedInv
<1>3. ASSUME NEW t \in Supply, t # d PROVE d = 1 /\ t = 0 /\ AtEmpty(0)
  <2>1. t \in Decoders /\ t \in selected /\ pos[t] < length[t]
    BY <1>3 DEF Supply, TypeOK
  <2>2. 1 \in selected
    BY <1>2, <1>3, <2>1 DEF Decoders
  <2>3. 0 \in started \ outOpen
    BY <2>2 DEF VInv, SelectedInv
  <2>4. d = 1 /\ t = 0
    BY <1>1, <1>3, <2>1, <2>3 DEF Decoders
  <2>5. 0 \in portEos /\ 0 \in Decoders
    BY <2>3 DEF VInv, DecodersInv, DecoderInv, Decoders
  <2>6. pos[0] = length[0] \/ CutShort(0)
    BY <2>5 DEF VInv, DecodersInv, DecoderInv, Queued
  <2>7. pos[0] # length[0]
    BY <2>1, <2>4 DEF TypeOK
  <2> QED BY <2>4, <2>6, <2>7 DEF CutShort
<1> QED BY <1>1, <1>2, <1>3

\* What an action of a decoder leaves alone keeps the rest of the invariant.
LEMMA RestStays ==
  ASSUME PhaseInv, ExtractorInv, SelectedInv,
         UNCHANGED <<inputVars, pc, extractor, selected, started, outOpen, crash>>
  PROVE  PhaseInv' /\ ExtractorInv' /\ SelectedInv'
<1> USE DEF inputVars
<1>1. PhaseInv' BY DEF PhaseInv
<1>2. SelectedInv' BY DEF SelectedInv
<1>3. ExtractorInv'
  <2>1. TooFew' <=> TooFew BY DEF TooFew
  <2> QED BY <2>1 DEF ExtractorInv, MissingTrackOnlyH265, ReleasedUnlessNoAudio, NoReadAfterRelease
<1> QED BY <1>1, <1>2, <1>3

\* It reads the sample, or finds that its track has none left.
LEMMA InputKeeps ==
  ASSUME TypeOK, VInv, NEW d \in Decoders, OnInput(d)
  PROVE  VInv'
<1>1. /\ d \in started /\ d \in outOpen /\ d \in selected
      /\ \A t \in Supply : t = d \/ (d = 1 /\ t = 0 /\ AtEmpty(0))
  BY OwnSupply DEF OnInput
<1>2. UNCHANGED <<inputVars, pc, extractor, selected, started, outOpen, crash, portEos>>
  BY <1>1 DEF OnInput
<1>3. PhaseInv' /\ ExtractorInv' /\ SelectedInv'
  BY <1>2, RestStays DEF VInv
<1>4. offered[d] > 0 /\ offered' = [offered EXCEPT ![d] = @ - 1]
  BY DEF OnInput
<1>5. /\ d \in started /\ pos[d] \in Nat /\ length[d] \in Nat /\ pos[d] <= length[d]
      /\ Len(fed[d]) = pos[d] /\ \A i \in 1 .. pos[d] : fed[d][i] = <<d, i>>
      /\ Queued(d) => pos[d] = length[d] \/ CutShort(d)
      /\ port[d] \in Seq({"data", "eos"}) /\ fed[d] \in Seq(Decoders \X Nat)
  <2>1. DecoderInv(d)
    BY DEF VInv, DecodersInv
  <2>2. d \in started /\ pos[d] \in 0 .. MaxUnits /\ length[d] \in 0 .. MaxUnits
    BY <1>1 DEF TypeOK
  <2>3. port[d] \in Seq({"data", "eos"}) /\ fed[d] \in Seq(Decoders \X Nat)
    BY DEF TypeOK
  <2> QED BY <2>1, <2>2, <2>3 DEF DecoderInv
<1>0. ASSUME NEW e \in Decoders, CutShort(e),
             \/ UNCHANGED pos
             \/ d \in Supply /\ ~AtEmpty(d) /\ pos' = [pos EXCEPT ![d] = @ + 1]
      PROVE  CutShort(e)'
  <2>1. PICK t \in 0 .. e : AtEmpty(t)
    BY <1>0 DEF CutShort
  <2>2. t \in Decoders
    BY DEF Decoders
  <2>3. pos'[t] = pos[t]
    BY <1>0, <2>1, <2>2 DEF TypeOK
  <2>4. empties' = empties
    BY <1>2 DEF inputVars
  <2> QED BY <2>1, <2>3, <2>4 DEF CutShort, AtEmpty
<1>6. ASSUME NEW e \in Decoders, e # d,
             pos'[e] = pos[e], fed'[e] = fed[e], port'[e] = port[e],
             \/ UNCHANGED pos
             \/ d \in Supply /\ ~AtEmpty(d) /\ pos' = [pos EXCEPT ![d] = @ + 1]
      PROVE  DecoderInv(e)'
  <2>1. offered'[e] = offered[e]
    BY <1>4, <1>6 DEF TypeOK
  <2>2. Queued(e)' <=> Queued(e)
    BY <1>2, <1>6 DEF Queued
  <2>3. length'[e] = length[e]
    BY <1>2 DEF inputVars
  <2>4. CutShort(e) => CutShort(e)'
    BY <1>0, <1>6
  <2> QED BY <1>2, <1>6, <2>1, <2>2, <2>3, <2>4 DEF VInv, DecodersInv, DecoderInv
<1>7. CASE d \in Supply /\ ~AtEmpty(d) /\ fed' = [fed EXCEPT ![d] = Append(@, <<d, pos[d] + 1>>)]
           /\ port' = [port EXCEPT ![d] = Append(@, "data")]
           /\ pos' = [pos EXCEPT ![d] = @ + 1]
  <2>1. pos[d] < length[d]
    BY <1>7 DEF Supply
  <2>2. /\ pos'[d] = pos[d] + 1 /\ fed'[d] = Append(fed[d], <<d, pos[d] + 1>>)
        /\ port'[d] = Append(port[d], "data")
    BY <1>7 DEF TypeOK
  <2>3. Queued(d)' => CutShort(d)'
    <3>1. (\E i \in DOMAIN port'[d] : port'[d][i] = "eos") => Queued(d)
      <4>1. /\ DOMAIN port'[d] = 1 .. Len(port[d]) + 1 /\ Len(port[d]) \in Nat
            /\ DOMAIN port[d] = 1 .. Len(port[d])
            /\ \A i \in 1 .. Len(port[d]) : port'[d][i] = port[d][i]
            /\ port'[d][Len(port[d]) + 1] = "data"
        BY <1>5, <2>2, AppendFacts
      <4>2. \A i \in 1 .. Len(port[d]) + 1 : i \in 1 .. Len(port[d]) \/ i = Len(port[d]) + 1
        BY <4>1
      <4> QED BY <4>1, <4>2 DEF Queued
    <3>2. Queued(d)' => Queued(d)
      BY <1>2, <3>1 DEF Queued
    <3>3. Queued(d) => CutShort(d)
      BY <1>5, <2>1
    <3> QED BY <1>0, <1>7, <3>2, <3>3
  <2>4. Len(fed'[d]) = pos'[d] /\ \A i \in 1 .. pos'[d] : fed'[d][i] = <<d, i>>
    <3>1. <<d, pos[d] + 1>> \in Decoders \X Nat
      BY <1>5
    <3>2. /\ Len(fed'[d]) = Len(fed[d]) + 1
          /\ \A i \in 1 .. Len(fed[d]) : fed'[d][i] = fed[d][i]
          /\ fed'[d][Len(fed[d]) + 1] = <<d, pos[d] + 1>>
      BY <1>5, <2>2, <3>1, AppendFacts
    <3>3. \A i \in 1 .. pos[d] + 1 : i \in 1 .. pos[d] \/ i = pos[d] + 1
      BY <1>5
    <3> QED BY <1>5, <2>2, <3>2, <3>3
  <2>5. pos'[d] <= length'[d]
    BY <1>2, <1>5, <2>1, <2>2 DEF inputVars
  <2>6. DecoderInv(d)'
    BY <1>1, <1>2, <1>5, <2>3, <2>4, <2>5 DEF DecoderInv
  <2>7. ASSUME NEW e \in Decoders, e # d
        PROVE  pos'[e] = pos[e] /\ fed'[e] = fed[e] /\ port'[e] = port[e]
    BY <1>7, <2>7 DEF TypeOK
  <2>8. DecodersInv'
    BY <1>6, <1>7, <2>6, <2>7 DEF DecodersInv
  <2> QED BY <1>3, <2>8 DEF VInv
<1>8. CASE /\ Supply = {} \/ \E t \in Supply : AtEmpty(t)
           /\ port' = [port EXCEPT ![d] = Append(@, "eos")]
           /\ UNCHANGED <<fed, pos>>
  <2>1. pos[d] = length[d] \/ CutShort(d)
    <3>1. CASE Supply = {}
      BY <1>1, <1>5, <3>1 DEF Supply
    <3>2. CASE \E t \in Supply : AtEmpty(t)
      <4>1. PICK t \in Supply : AtEmpty(t)
        BY <3>2
      <4>2. t \in 0 .. d
        BY <1>1 DEF Decoders
      <4> QED BY <4>1, <4>2 DEF CutShort
    <3> QED BY <1>8, <3>1, <3>2
  <2>2. CutShort(d) => CutShort(d)'
    BY <1>0, <1>8
  <2>3. DecoderInv(d)'
    BY <1>1, <1>2, <1>5, <1>8, <2>1, <2>2 DEF DecoderInv, inputVars
  <2>4. ASSUME NEW e \in Decoders, e # d PROVE port'[e] = port[e]
    BY <1>8, <2>4 DEF TypeOK
  <2>5. DecodersInv'
    BY <1>6, <1>8, <2>3, <2>4 DEF DecodersInv
  <2> QED BY <1>3, <2>5 DEF VInv
<1>9. ASSUME NEW t \in Supply, ~AtEmpty(t) PROVE t = d
  BY <1>1, <1>9
<1> QED BY <1>7, <1>8, <1>9 DEF OnInput

LEMMA EosKeeps ==
  ASSUME TypeOK, VInv, NEW d \in Decoders, OnEos(d)
  PROVE  VInv'
<1>1. /\ d \in outOpen /\ d \in portEos /\ offered[d] = 0 /\ outOpen' = outOpen \ {d}
      /\ UNCHANGED <<inputVars, extractor, selected, pos, started, offered, port, portEos, fed, crash>>
      /\ pc' = IF pc = AwaitAt(d) THEN After(d) ELSE pc
  BY DEF OnEos, TypeOK
<1>2. DecodersInv'
  <2> SUFFICES ASSUME NEW e \in Decoders PROVE DecoderInv(e)'
    BY DEF DecodersInv
  <2>1. Queued(e)' <=> Queued(e)
    BY <1>1 DEF Queued
  <2>2. e \in started' \ outOpen' => e \in portEos /\ offered[e] = 0
    BY <1>1 DEF VInv, DecodersInv, DecoderInv
  <2> QED BY <1>1, <2>1, <2>2 DEF VInv, DecodersInv, DecoderInv, CutShort, AtEmpty, inputVars
<1>3. SelectedInv'
  BY <1>1 DEF VInv, SelectedInv
<1>4. TooFew' <=> TooFew
  BY <1>1 DEF TooFew, inputVars
<1>5. CASE pc = AwaitAt(d)
  <2>1. outOpen' = {}
    <3>1. CASE d = 0
      BY <1>1, <1>5, <3>1 DEF AwaitAt, VInv, PhaseInv, TypeOK
    <3>2. CASE d = 1
      <4>1. outOpen \subseteq {0, 1} /\ 0 \notin outOpen
        BY <1>1, <3>2 DEF TypeOK, VInv, SelectedInv, Decoders
      <4> QED BY <1>1, <3>2, <4>1
    <3> QED BY <3>1, <3>2 DEF Decoders
  <2>2. \/ pc' = "release"
        \/ pc' = "decode1" /\ d = 0 /\ fn \in {"videoToYuvPcm", "h265ToYuvPcm"}
    BY <1>1, <1>5 DEF After, TypeOK, Functions
  <2>3. PhaseInv'
    <3>1. d = 0 => started = {0} /\ selected = {0}
      BY <1>5 DEF AwaitAt, VInv, PhaseInv
    <3> QED BY <1>1, <2>1, <2>2, <3>1 DEF PhaseInv, inputVars
  <2>4. ExtractorInv'
    <3>1. extractor = "open" /\ ~TooFew /\ crash = "none"
      BY <1>5 DEF AwaitAt, VInv, ExtractorInv, OnEos
    <3> QED BY <1>1, <1>4, <2>1, <2>2, <3>1
            DEF ExtractorInv, MissingTrackOnlyH265, ReleasedUnlessNoAudio, NoReadAfterRelease
  <2> QED BY <1>2, <1>3, <2>3, <2>4 DEF VInv
<1>6. CASE pc # AwaitAt(d)
  <2>1. pc' = pc
    BY <1>1, <1>6
  <2>2. PhaseInv'
    BY <1>1, <2>1 DEF VInv, PhaseInv, inputVars
  <2>3. ExtractorInv'
    BY <1>1, <1>4, <2>1
       DEF VInv, ExtractorInv, MissingTrackOnlyH265, ReleasedUnlessNoAudio, NoReadAfterRelease, inputVars
  <2> QED BY <1>2, <1>3, <2>2, <2>3 DEF VInv
<1> QED BY <1>5, <1>6

LEMMA TakeKeeps ==
  ASSUME TypeOK, VInv, NEW d \in Decoders, TakeInput(d)
  PROVE  VInv'
<1>1. UNCHANGED <<inputVars, pc, extractor, selected, pos, started, offered, outOpen, fed, crash>>
  BY DEF TakeInput
<1>2. PhaseInv' /\ ExtractorInv' /\ SelectedInv'
  BY <1>1, RestStays DEF VInv
<1>3. /\ port[d] \in Seq({"data", "eos"}) /\ port[d] # << >>
      /\ port' = [port EXCEPT ![d] = Tail(@)]
      /\ portEos \subseteq portEos'
      /\ portEos' \subseteq portEos \union (IF Head(port[d]) = "eos" THEN {d} ELSE {})
  BY DEF TakeInput, TypeOK
<1>4. d \in started
  BY DEF TakeInput, Running
<1>5. ASSUME Queued(d)' PROVE Queued(d)
  <2>1. /\ port'[d] = Tail(port[d])
        /\ DOMAIN port'[d] = 1 .. Len(port[d]) - 1 /\ DOMAIN port[d] = 1 .. Len(port[d])
        /\ Len(port[d]) \in Nat \ {0} /\ Head(port[d]) = port[d][1]
        /\ \A i \in 1 .. Len(port[d]) - 1 : port'[d][i] = port[d][i + 1]
    BY <1>3, TailFacts DEF TypeOK
  <2>2. 1 \in DOMAIN port[d] /\ \A i \in DOMAIN port'[d] : i + 1 \in DOMAIN port[d]
    BY <2>1
  <2>3. CASE d \in portEos'
    BY <1>3, <2>1, <2>2, <2>3 DEF Queued
  <2>4. CASE \E i \in DOMAIN port'[d] : port'[d][i] = "eos"
    BY <2>1, <2>2, <2>4 DEF Queued
  <2> QED BY <1>5, <2>3, <2>4 DEF Queued
<1>6. ASSUME NEW e \in Decoders PROVE DecoderInv(e)'
  <2>1. CASE e = d
    BY <1>1, <1>3, <1>4, <1>5, <2>1 DEF VInv, DecodersInv, DecoderInv, CutShort, AtEmpty, inputVars
  <2>2. CASE e # d
    <3>1. port'[e] = port[e] /\ (e \in portEos' <=> e \in portEos)
      BY <1>3, <2>2 DEF TypeOK
    <3>2. Queued(e)' <=> Queued(e)
      BY <3>1 DEF Queued
    <3> QED BY <1>1, <3>1, <3>2 DEF VInv, DecodersInv, DecoderInv, CutShort, AtEmpty, inputVars
  <2> QED BY <2>1, <2>2
<1> QED BY <1>2, <1>6 DEF VInv, DecodersInv

LEMMA OfferKeeps ==
  ASSUME TypeOK, VInv, NEW d \in Decoders, OfferInput(d)
  PROVE  VInv'
<1>1. /\ UNCHANGED <<inputVars, pc, extractor, selected, pos, started, port, portEos, outOpen, fed, crash>>
      /\ offered' = [offered EXCEPT ![d] = @ + 1]
      /\ d \in started /\ d \notin portEos
  BY DEF OfferInput, Running
<1>2. PhaseInv' /\ ExtractorInv' /\ SelectedInv'
  BY <1>1, RestStays DEF VInv
<1>3. ASSUME NEW e \in Decoders PROVE DecoderInv(e)'
  <2>1. Queued(e)' <=> Queued(e)
    BY <1>1 DEF Queued
  <2>2. e # d => offered'[e] = offered[e]
    BY <1>1 DEF TypeOK
  <2> QED BY <1>1, <2>1, <2>2 DEF VInv, DecodersInv, DecoderInv, CutShort, AtEmpty, inputVars
<1> QED BY <1>2, <1>3 DEF VInv, DecodersInv

LEMMA BeginKeeps ==
  ASSUME TypeOK, VInv, NEW d \in Decoders, BeginDecode(d)
  PROVE  VInv'
<1>1. UNCHANGED <<inputVars, extractor, pos, offered, port, portEos, fed, crash>>
  BY DEF BeginDecode
<1>2. /\ pc = DecodeAt(d) /\ pc \in {"decode0", "decode1"}
      /\ extractor = "open" /\ ~TooFew /\ crash = "none" /\ outOpen = {}
      /\ d = 0 => started = {} /\ selected = {}
      /\ d = 1 => started = {0} /\ selected = {0} /\ fn \in {"videoToYuvPcm", "h265ToYuvPcm"}
  <2>1. /\ pc = DecodeAt(d) /\ crash = "none" /\ d \in {0, 1}
        /\ d = 0 => pc = "decode0"
        /\ d = 1 => pc = "decode1"
    BY DEF BeginDecode, DecodeAt, Decoders
  <2>2. extractor = "open" /\ ~TooFew
    BY <2>1 DEF VInv, ExtractorInv
  <2>3. d = 0 => started = {} /\ selected = {} /\ outOpen = {}
    BY <2>1 DEF VInv, PhaseInv, TypeOK
  <2>4. d = 1 => /\ started = {0} /\ selected = {0} /\ outOpen = {}
                 /\ fn \in {"videoToYuvPcm", "h265ToYuvPcm"}
    BY <2>1 DEF VInv, PhaseInv
  <2> QED BY <2>1, <2>2, <2>3, <2>4
<1>3. TooFew' <=> TooFew
  BY <1>1 DEF TooFew, inputVars
<1>4. CASE d >= trackCount
  <2>1. pc' = "noSuchTrack" /\ UNCHANGED <<selected, started, outOpen>>
    BY <1>4 DEF BeginDecode
  <2>2. fn = "h265ToYuvPcm" /\ trackCount = 1
    BY <1>2, <1>4 DEF TooFew, TypeOK, Decoders
  <2>3. PhaseInv' /\ SelectedInv'
    BY <1>1, <1>2, <2>1 DEF VInv, PhaseInv, SelectedInv
  <2>4. ExtractorInv'
    BY <1>1, <1>2, <1>3, <2>1, <2>2
       DEF ExtractorInv, MissingTrackOnlyH265, ReleasedUnlessNoAudio, NoReadAfterRelease, inputVars
  <2>5. DecodersInv'
    BY <1>1, <2>1, DecodersStay DEF VInv, inputVars
  <2> QED BY <2>3, <2>4, <2>5 DEF VInv
<1>5. CASE ~(d >= trackCount)
  <2>1. /\ selected' = selected \union {d} /\ started' = started \union {d}
        /\ outOpen' = outOpen \union {d} /\ pc' = AwaitAt(d)
    BY <1>5 DEF BeginDecode, Selecting
  <2>2. PhaseInv' /\ SelectedInv'
    BY <1>1, <1>2, <2>1 DEF PhaseInv, SelectedInv, AwaitAt, inputVars, Decoders
  <2>3. ExtractorInv'
    BY <1>1, <1>2, <1>3, <2>1
       DEF ExtractorInv, MissingTrackOnlyH265, ReleasedUnlessNoAudio, NoReadAfterRelease, AwaitAt
  <2>4. DecodersInv'
    BY <1>1, <2>1, DecodersStay DEF VInv, inputVars
  <2> QED BY <2>2, <2>3, <2>4 DEF VInv
<1> QED BY <1>4, <1>5

LEMMA ThrowKeeps ==
  ASSUME TypeOK, VInv, NEW d \in Decoders, SetupThrows(d)
  PROVE  VInv'
<1>1. /\ UNCHANGED <<inputVars, extractor, pos, codecVars, fed, crash>>
      /\ pc' = "setupThrew" /\ selected' \in {selected, selected \union {d}}
      /\ outOpen' \in {outOpen, outOpen \union {d}}
  BY DEF SetupThrows, Selecting
<1>2. /\ extractor = "open" /\ ~TooFew /\ crash = "none" /\ outOpen = {}
      /\ d = 1 => started = {0}
      /\ d = 0 => selected = {} /\ started = {}
  BY DEF SetupThrows, DecodeAt, VInv, PhaseInv, ExtractorInv, NoReadAfterRelease, TypeOK, Decoders
<1>3. TooFew' <=> TooFew
  BY <1>1 DEF TooFew, inputVars
<1>4. PhaseInv'
  BY <1>1 DEF PhaseInv
<1>5. SelectedInv'
  BY <1>1, <1>2 DEF VInv, SelectedInv, Decoders, codecVars
<1>6. ExtractorInv'
  BY <1>1, <1>2, <1>3
     DEF ExtractorInv, MissingTrackOnlyH265, ReleasedUnlessNoAudio, NoReadAfterRelease
<1>7. \A e \in Decoders : e \in started' \ outOpen' => e \in started \ outOpen
  BY <1>1, <1>2 DEF codecVars
<1>8. DecodersInv'
  BY <1>1, <1>7, DecodersStay DEF VInv, inputVars, codecVars
<1> QED BY <1>4, <1>5, <1>6, <1>8 DEF VInv

LEMMA CoroutineKeeps ==
  ASSUME TypeOK, VInv, Unsupported \/ Open \/ NoDecoder \/ Release \/ Cancel
  PROVE  VInv'
<1> USE DEF inputVars, codecVars
<1>1. UNCHANGED <<inputVars, selected, pos, codecVars, outOpen, fed, crash>>
  BY DEF Unsupported, Open, NoDecoder, Release, Cancel
<1>2. SelectedInv' /\ DecodersInv'
  BY <1>1, DecodersStay DEF VInv, SelectedInv
<1>3. TooFew' <=> TooFew
  BY <1>1 DEF TooFew
<1>4. PhaseInv'
  BY <1>1 DEF VInv, PhaseInv, TypeOK, Unsupported, Open, NoDecoder, Release, Cancel
<1>5. pc \in {"begin", "decode0", "release"} => outOpen = {}
  BY DEF VInv, PhaseInv, TypeOK
<1>6. ASSUME Unsupported PROVE ExtractorInv'
  BY <1>1, <1>3, <1>6 DEF Unsupported, VInv, ExtractorInv, MissingTrackOnlyH265,
     ReleasedUnlessNoAudio, NoReadAfterRelease
<1>7. ASSUME Open PROVE ExtractorInv'
  <2>1. TooFew /\ fn = "extractPcm" => trackCount = 0
    BY DEF TooFew, TypeOK
  <2> QED BY <1>1, <1>3, <1>5, <1>7, <2>1 DEF Open, VInv, ExtractorInv, MissingTrackOnlyH265,
             ReleasedUnlessNoAudio, NoReadAfterRelease
<1>8. ASSUME NoDecoder \/ Release \/ Cancel PROVE ExtractorInv'
  BY <1>1, <1>3, <1>5, <1>8 DEF NoDecoder, Release, Cancel, VInv, ExtractorInv,
     MissingTrackOnlyH265, ReleasedUnlessNoAudio, NoReadAfterRelease
<1>9. ExtractorInv'
  BY <1>6, <1>7, <1>8 DEF VInv
<1> QED BY <1>2, <1>4, <1>9 DEF VInv

\* The process dies in a callback, but not because the extractor had been released.
LEMMA DeathKeeps ==
  ASSUME TypeOK, VInv, NEW d \in Decoders, OnInputThrows(d) \/ OnOutputThrows(d)
  PROVE  VInv'
<1> USE DEF inputVars, codecVars
<1>1. /\ UNCHANGED <<inputVars, pc, extractor, selected, pos, started, port, portEos, outOpen, fed>>
      /\ offered' = offered \/ (offered[d] > 0 /\ offered' = [offered EXCEPT ![d] = @ - 1])
  BY DEF OnInputThrows, OnOutputThrows
<1>2. crash' = "oversize"
  BY OwnSupply DEF OnInputThrows, OnOutputThrows
<1>3. PhaseInv' /\ SelectedInv'
  BY <1>1 DEF VInv, PhaseInv, SelectedInv
<1>4. TooFew' <=> TooFew
  BY <1>1 DEF TooFew
<1>5. ExtractorInv'
  BY <1>1, <1>2, <1>4 DEF VInv, ExtractorInv, MissingTrackOnlyH265, ReleasedUnlessNoAudio,
     NoReadAfterRelease
<1>6. DecodersInv'
  BY <1>1, OfferedShrinks DEF VInv
<1> QED BY <1>3, <1>5, <1>6 DEF VInv

LEMMA NullKeeps ==
  ASSUME TypeOK, VInv, NEW d \in Decoders, OnInputNull(d)
  PROVE  VInv'
<1>1. /\ UNCHANGED <<inputVars, pc, extractor, selected, pos, started, port, portEos, outOpen,
                     fed, crash>>
      /\ offered[d] > 0 /\ offered' = [offered EXCEPT ![d] = @ - 1]
  BY DEF OnInputNull
<1>2. PhaseInv' /\ ExtractorInv' /\ SelectedInv'
  BY <1>1, RestStays DEF VInv
<1>3. DecodersInv'
  BY <1>1, OfferedShrinks DEF VInv, inputVars
<1> QED BY <1>2, <1>3 DEF VInv

LEMMA VStep == TypeOK /\ VInv /\ [Next]_vars => VInv'
<1> SUFFICES ASSUME TypeOK, VInv, [Next]_vars PROVE VInv'
  OBVIOUS
<1> USE DEF inputVars, codecVars
<1>1. ASSUME UNCHANGED <<inputVars, pc, extractor, selected, pos, started, offered, port, portEos,
                         outOpen, fed, crash>>
      PROVE  VInv'
  BY <1>1, RestStays, DecodersStay DEF VInv
<1>2. ASSUME NEW d \in Decoders, PostEos(d) \/ CodecFails(d) \/ OnEosMissed(d) PROVE VInv'
  BY <1>1, <1>2 DEF PostEos, CodecFails, OnEosMissed
<1>3. CASE UNCHANGED vars
  BY <1>1, <1>3 DEF vars
<1> QED
  BY <1>2, <1>3, CoroutineKeeps, BeginKeeps, ThrowKeeps, OfferKeeps, TakeKeeps, InputKeeps, EosKeeps,
     NullKeeps, DeathKeeps
  DEF Next, Coroutine

\* The decoders read what is theirs, all of it but for what an empty sample cuts off, and
\* only while it may be read.
THEOREM DecodersReadSafely == Spec => []ReadsSafe
<1>1. TypeOK /\ VInv => ReadsSafe
  <2> SUFFICES ASSUME TypeOK, VInv PROVE ReadsSafe
    OBVIOUS
  <2>1. ASSUME NEW d \in Decoders
        PROVE  /\ fed[d] \in Seq(Decoders \X Nat) /\ pos[d] \in Nat /\ Len(fed[d]) = pos[d]
               /\ DOMAIN fed[d] = 1 .. pos[d]
               /\ \A i \in 1 .. pos[d] : fed[d][i] = <<d, i>>
    <3>1. DecoderInv(d)
      BY DEF VInv, DecodersInv
    <3>2. fed[d] \in Seq(Decoders \X Nat) /\ pos[d] \in 0 .. MaxUnits
      BY DEF TypeOK
    <3> QED BY <3>1, <3>2 DEF DecoderInv
  <2>2. OwnTrackOnly
    <3> SUFFICES ASSUME NEW d \in Decoders, NEW i \in DOMAIN fed[d] PROVE fed[d][i][1] = d
      BY DEF OwnTrackOnly
    <3>1. i \in 1 .. pos[d] /\ fed[d][i] = <<d, i>>
      BY <2>1
    <3> QED BY ONLY <3>1
  <2>3. ASSUME NEW d \in started \ outOpen
        PROVE  /\ fed[d] = [i \in 1 .. Len(fed[d]) |-> <<d, i>>]
               /\ Len(fed[d]) = length[d] \/ CutShort(d)
    <3>1. d \in Decoders /\ d \in portEos
      BY DEF TypeOK, VInv, DecodersInv, DecoderInv
    <3>2. pos[d] = length[d] \/ CutShort(d)
      BY <3>1 DEF VInv, DecodersInv, DecoderInv, Queued
    <3>3. fed[d] = [i \in DOMAIN fed[d] |-> fed[d][i]]
      BY <2>1, <3>1
    <3> QED BY <2>1, <3>1, <3>2, <3>3
  <2>4. MissingTrackOnlyH265 /\ ReleasedUnlessNoAudio /\ NoReadAfterRelease
    BY DEF VInv, ExtractorInv
  <2> QED BY <2>2, <2>3, <2>4 DEF ReadsSafe, WholeTrackDecoded
<1> QED BY <1>1, VInit, VStep, TypeCorrect, PTL DEF Spec
-----------------------------------------------------------------------------
(***************************************************************************)
(* SyncExtract: the inductive invariant.                                   *)
(***************************************************************************)

\* Which function is where, and that nothing was read, queued or written before the loop.
StageInv ==
  /\ syncPc = "setup" => syncHasTrack
  /\ syncPc = "copy" => syncHasTrack /\ syncFn \in Sync!Copiers
  /\ syncPc \in {"input", "output"} => syncHasTrack /\ syncFn \notin Sync!Copiers
  /\ syncPc = "input" => syncFn = "extractAudioToPCM"
  /\ syncPc \in {"begin", "search", "setup"} \/ syncFn = "extractAudioToPCMV2" =>
       syncPos = 0 /\ ~syncEosQueued /\ syncPort = << >> /\ syncReady = << >> /\ syncFile = << >>

\* A muxer is extractAudioFromVideo's; begin finds nothing created.
LiveInv ==
  /\ syncFn # "extractAudioFromVideo" => "muxer" \notin syncLive
  /\ syncPc = "begin" => syncLive = {}

\* A copier has written all it has read.
CopyInv ==
  syncPc = "copy" =>
    /\ Len(syncFile) = syncPos
    /\ \A i \in 1 .. syncPos : syncFile[i] = i /\ Sync!Full(i)

\* The samples queued with the decoder are the last ones read, the end of stream after them.
EosQueuedLast == syncPort # << >> /\ syncPort[Len(syncPort)] = 0
Undecoded == IF EosQueuedLast THEN Len(syncPort) - 1 ELSE Len(syncPort)
Decoded == syncPos - Undecoded
PortInv ==
  /\ Undecoded <= syncPos
  /\ \A i \in 1 .. Undecoded : syncPort[i] = Decoded + i
  /\ syncEosQueued => syncPos = Len(syncSource)
  /\ EosQueuedLast => syncEosQueued

\* The end of stream is in one place, and behind everything else.
EosInv ==
  /\ syncEosQueued /\ ~EosQueuedLast => syncReady # << >> /\ syncReady[Len(syncReady)].eos
  /\ \A i \in DOMAIN syncReady :
       /\ syncReady[i].eos => i = Len(syncReady) /\ syncEosQueued /\ syncPort = << >>
       /\ syncReady[i].unit = 0 => syncReady[i].eos

\* What is written and what is decoded lists the samples decoded so far that are not empty.
WrittenInv ==
  /\ Sync!InOrder(syncFile)
  /\ \A i \in DOMAIN syncFile : syncFile[i] <= Decoded /\ Sync!Full(syncFile[i])
  /\ \A j \in DOMAIN syncReady : syncReady[j].unit # 0 =>
       /\ syncReady[j].unit <= Decoded /\ Sync!Full(syncReady[j].unit)
       /\ \A i \in DOMAIN syncFile : syncFile[i] < syncReady[j].unit
       /\ \A i \in DOMAIN syncReady : i < j => syncReady[i].unit < syncReady[j].unit
  /\ \A n \in 1 .. Decoded : Sync!Full(n) =>
       \/ \E i \in DOMAIN syncFile : syncFile[i] = n
       \/ \E j \in DOMAIN syncReady : syncReady[j].unit = n

PollInv == syncPc \in {"input", "output"} => PortInv /\ EosInv /\ WrittenInv

SyncInv ==
  /\ StageInv /\ LiveInv /\ CopyInv /\ PollInv
  /\ ResultRight

-----------------------------------------------------------------------------
(* The types.                                                              *)

\* What the types say of a state.
LEMMA SyncFacts ==
  ASSUME Sync!TypeOK
  PROVE  /\ syncSource \in Seq({"full", "empty", "big"}) /\ Len(syncSource) \in Nat
         /\ syncPos \in Nat /\ syncPos <= Len(syncSource)
         /\ syncPort \in Seq(0 .. Len(syncSource)) /\ syncPort \in Seq(Nat)
         /\ syncReady \in Seq([unit : 0 .. Len(syncSource), eos : BOOLEAN])
         /\ syncReady \in Seq([unit : Nat, eos : BOOLEAN])
         /\ syncFile \in Seq(1 .. Len(syncSource)) /\ syncFile \in Seq(Nat)
         /\ syncFree \in Nat /\ Len(syncPort) \in Nat /\ Len(syncReady) \in Nat
         /\ Len(syncFile) \in Nat /\ Buffers \in Nat
<1>1. syncSource \in Seq({"full", "empty", "big"}) /\ Len(syncSource) \in Nat
  BY SourcesAssumption DEF Sync!TypeOK
<1>2. syncPos \in Nat /\ syncPos <= Len(syncSource) /\ syncFree \in Nat
  BY <1>1 DEF Sync!TypeOK
<1>3. /\ syncPort \in Seq(0 .. Len(syncSource)) /\ syncFile \in Seq(1 .. Len(syncSource))
      /\ syncReady \in Seq([unit : 0 .. Len(syncSource), eos : BOOLEAN])
  BY DEF Sync!TypeOK
<1>4. ASSUME NEW S, NEW T, S \subseteq T, NEW q \in Seq(S) PROVE q \in Seq(T) /\ Len(q) \in Nat
  <2>1. q = [i \in 1 .. Len(q) |-> q[i]] /\ Len(q) \in Nat /\ \A i \in 1 .. Len(q) : q[i] \in S
    OBVIOUS
  <2>2. \A i \in 1 .. Len(q) : q[i] \in T
    BY <1>4, <2>1
  <2> QED BY <2>1, <2>2
<1>5. /\ 0 .. Len(syncSource) \subseteq Nat /\ 1 .. Len(syncSource) \subseteq Nat
      /\ [unit : 0 .. Len(syncSource), eos : BOOLEAN] \subseteq [unit : Nat, eos : BOOLEAN]
  BY <1>1
<1>6. syncPort \in Seq(Nat) /\ Len(syncPort) \in Nat
  BY <1>3, <1>4, <1>5
<1>7. syncFile \in Seq(Nat) /\ Len(syncFile) \in Nat
  BY <1>3, <1>4, <1>5
<1>8. syncReady \in Seq([unit : Nat, eos : BOOLEAN]) /\ Len(syncReady) \in Nat
  BY <1>3, <1>4, <1>5
<1>9. Buffers \in Nat
  BY BuffersAssumption
<1> QED BY <1>1, <1>2, <1>3, <1>6, <1>7, <1>8, <1>9

\* The end of a call leaves everything but the place, the objects and the exception alone.
Stays ==
  UNCHANGED <<syncFn, syncSource, syncHasTrack, syncPos, syncEosQueued, syncFree, syncPort,
              syncReady, syncFile>>

LEMMA SyncTypeInit == Sync!Init => Sync!TypeOK
<1> SUFFICES ASSUME Sync!Init PROVE Sync!TypeOK
  OBVIOUS
<1>1. /\ syncSource \in Seq({"full", "empty", "big"}) /\ Len(syncSource) \in Nat
  BY SourcesAssumption DEF Sync!Init
<1>2. /\ << >> \in Seq(0 .. Len(syncSource)) /\ << >> \in Seq(1 .. Len(syncSource))
      /\ << >> \in Seq([unit : 0 .. Len(syncSource), eos : BOOLEAN]) /\ Len(<< >>) = 0
  OBVIOUS
<1>3. syncPos \in 0 .. Len(syncSource) /\ syncFree \in 0 .. Buffers /\ syncFree + Len(syncPort) = Buffers
  BY <1>1, <1>2 DEF Sync!Init
<1>4. /\ syncPort \in Seq(0 .. Len(syncSource)) /\ syncFile \in Seq(1 .. Len(syncSource))
      /\ syncReady \in Seq([unit : 0 .. Len(syncSource), eos : BOOLEAN])
  BY <1>2 DEF Sync!Init
<1> QED BY <1>3, <1>4 DEF Sync!Init, Sync!TypeOK

LEMMA EndTypes ==
  ASSUME Sync!TypeOK, Stays, syncPc' \in {"search", "setup", "copy", "input", "output", "returned", "threw"},
         syncLive' \subseteq {"extractor", "muxer", "codec", "stream"}, syncCaught' \in BOOLEAN
  PROVE  Sync!TypeOK'
BY DEF Sync!TypeOK, Stays

-----------------------------------------------------------------------------
(* The ends of a call.                                                     *)

LEMMA NothingListed == Sync!Lists(<< >>, {})
BY DEF Sync!Lists, Sync!InOrder

LEMMA ReturnKeeps ==
  ASSUME SyncInv, Sync!TypeOK', UNCHANGED <<syncFn, syncSource, syncHasTrack>>,
         Stays \/ syncFn # "extractAudioToPCMV2",
         syncPc' \in {"returned", "threw"}, Sync!LeaksExplained',
         syncFn # "extractAudioFromVideo" => "muxer" \notin syncLive',
         syncPc' = "returned" /\ ~syncCaught' => Sync!Lists(syncFile, Sync!Expected)'
  PROVE  SyncInv'
<1>1. StageInv'
  BY DEF SyncInv, StageInv, Stays
<1>2. LiveInv' /\ CopyInv' /\ PollInv'
  BY DEF LiveInv, CopyInv, PollInv
<1>3. ResultRight'
  BY DEF ResultRight, Sync!ResultRight, Sync!CompleteUnlessCaught
<1> QED BY <1>1, <1>2, <1>3 DEF SyncInv

LEMMA CatchKeeps ==
  ASSUME Sync!TypeOK, SyncInv, Sync!Catch, Stays
  PROVE  Sync!TypeOK' /\ SyncInv'
<1>1. /\ syncPc' = "returned" /\ syncLive' \in Sync!LeftByCatch /\ syncCaught' = TRUE
  BY DEF Sync!Catch
<1>2. /\ syncLive' \subseteq {"codec", "stream", "muxer"}
      /\ "muxer" \notin syncLive'
      /\ syncFn # "extractAudioFromVideo" => "muxer" \notin syncLive'
  BY <1>1 DEF Sync!LeftByCatch, SyncInv, LiveInv, Sync!TypeOK
<1>3. Sync!TypeOK'
  BY <1>1, <1>2, EndTypes
<1>4. Sync!LeaksExplained'
  BY <1>1, <1>2 DEF Sync!LeaksExplained
<1> QED BY <1>1, <1>2, <1>3, <1>4, ReturnKeeps DEF Stays

LEMMA FinishKeeps ==
  ASSUME Sync!TypeOK', SyncInv, Sync!Finish, UNCHANGED <<syncFn, syncSource, syncHasTrack>>,
         Stays \/ syncFn # "extractAudioToPCMV2",
         Sync!Lists(syncFile, Sync!Expected)'
  PROVE  SyncInv'
<1>1. /\ syncPc' = "returned" /\ syncLive' = Sync!LeftAtEnd
      /\ syncLive' \subseteq {"codec"} /\ (syncLive' # {} => syncFn = "extractAudioFromVideo1")
  BY DEF Sync!Finish, Sync!LeftAtEnd
<1>2. Sync!LeaksExplained'
  BY <1>1 DEF Sync!LeaksExplained
<1> QED BY <1>1, <1>2, ReturnKeeps

\* The ends that find the call before its loop, or in a copier.
LEMMA SyncBeginKeeps ==
  ASSUME Sync!TypeOK, SyncInv, Sync!Begin \/ Sync!BeginThrows
  PROVE  Sync!TypeOK' /\ SyncInv'
<1>1. CASE Sync!Begin
  <2>1. /\ syncPc = "begin" /\ syncPc' = "search" /\ Stays /\ syncCaught' = syncCaught
        /\ syncLive' = {"extractor"} \union Sync!Early
    BY <1>1 DEF Sync!Begin, Stays, Sync!inputs, Sync!codec
  <2>2. /\ syncLive' \subseteq {"extractor", "muxer", "codec", "stream"}
        /\ syncFn # "extractAudioFromVideo" => "muxer" \notin syncLive'
    BY <2>1 DEF Sync!Early
  <2>3. Sync!TypeOK'
    BY <2>1, <2>2, EndTypes DEF Sync!TypeOK
  <2>4. StageInv'
    BY <2>1 DEF SyncInv, StageInv, Stays
  <2>5. LiveInv' /\ CopyInv' /\ PollInv' /\ ResultRight'
    BY <2>1, <2>2, <2>3
    DEF SyncInv, LiveInv, CopyInv, PollInv, ResultRight, Sync!ResultRight,
        Sync!CompleteUnlessCaught, Sync!LeaksExplained, Stays
  <2> QED BY <2>3, <2>4, <2>5 DEF SyncInv
<1>2. CASE Sync!BeginThrows
  <2>1. /\ syncPc' = "threw" /\ Stays /\ syncCaught' = syncCaught
        /\ syncLive' = {"extractor"} /\ Sync!Early # {}
    BY <1>2 DEF Sync!BeginThrows, Stays, Sync!inputs, Sync!codec
  <2>2. syncFn' \in Sync!Copiers
    BY <2>1 DEF Sync!Early, Sync!Copiers, Stays
  <2>3. Sync!TypeOK'
    BY <2>1, EndTypes DEF Sync!TypeOK
  <2>4. Sync!LeaksExplained'
    BY <2>1, <2>2 DEF Sync!LeaksExplained
  <2> QED BY <2>1, <2>3, <2>4, ReturnKeeps DEF Stays
<1> QED BY <1>1, <1>2

LEMMA SearchKeeps ==
  ASSUME Sync!TypeOK, SyncInv, Sync!Search
  PROVE  Sync!TypeOK' /\ SyncInv'
<1>1. syncPc = "search" /\ Stays
  BY DEF Sync!Search, Stays, Sync!inputs, Sync!codec
<1>2. CASE syncHasTrack
  <2>1. syncPc' = "setup" /\ syncLive' = syncLive /\ syncCaught' = syncCaught
    BY <1>2 DEF Sync!Search
  <2>2. Sync!TypeOK'
    BY <1>1, <2>1, EndTypes DEF Sync!TypeOK
  <2>3. StageInv' /\ LiveInv' /\ CopyInv' /\ PollInv'
    BY <1>1, <1>2, <2>1 DEF SyncInv, StageInv, LiveInv, CopyInv, PollInv, Stays
  <2>4. ResultRight'
    BY <2>1, <2>2 DEF ResultRight, Sync!ResultRight, Sync!CompleteUnlessCaught, Sync!LeaksExplained
  <2> QED BY <2>2, <2>3, <2>4 DEF SyncInv
<1>3. CASE ~syncHasTrack /\ Sync!Catch
  BY <1>1, <1>3, CatchKeeps
<1>4. CASE ~syncHasTrack /\ Sync!Finish
  <2>1. syncFile' = << >> /\ Sync!Expected' = {}
    BY <1>1, <1>4 DEF SyncInv, StageInv, Stays, Sync!Expected
  <2>2. Sync!Lists(syncFile, Sync!Expected)'
    BY <2>1, NothingListed DEF Sync!Lists, Sync!InOrder
  <2>3. Sync!TypeOK'
    BY <1>1, <1>4, EndTypes DEF Sync!Finish, Sync!LeftAtEnd, Sync!TypeOK
  <2> QED BY <1>1, <1>4, <2>2, <2>3, FinishKeeps DEF Stays
<1> QED BY <1>2, <1>3, <1>4 DEF Sync!Search

LEMMA SetUpKeeps ==
  ASSUME Sync!TypeOK, SyncInv, Sync!SetUp \/ Sync!SetUpThrows
  PROVE  Sync!TypeOK' /\ SyncInv'
<1>1. /\ syncPc = "setup" /\ Stays /\ syncHasTrack
      /\ syncPos = 0 /\ ~syncEosQueued /\ syncPort = << >> /\ syncReady = << >> /\ syncFile = << >>
  BY DEF Sync!SetUp, Sync!SetUpThrows, Stays, Sync!inputs, Sync!codec, SyncInv, StageInv
<1>2. CASE Sync!SetUp
  <2>1. /\ syncCaught' = syncCaught
        /\ syncLive \subseteq syncLive' /\ syncLive' \subseteq syncLive \union {"codec", "stream"}
    BY <1>2 DEF Sync!SetUp
  <2>2. /\ syncPc' \in {"copy", "input", "output"}
        /\ syncPc' = "copy" <=> syncFn \in Sync!Copiers
        /\ syncPc' = "input" <=> syncFn = "extractAudioToPCM"
    BY <1>2 DEF Sync!SetUp, Sync!Copiers
  <2>3. Sync!TypeOK'
    BY <1>1, <2>1, <2>2, EndTypes DEF Sync!TypeOK
  <2>4. StageInv' /\ LiveInv'
    BY <1>1, <2>1, <2>2 DEF SyncInv, StageInv, LiveInv, Stays
  <2>5. CopyInv'
    BY <1>1, <2>2 DEF CopyInv, Stays
  <2>6. PollInv'
    <3>1. ~EosQueuedLast' /\ Undecoded' = 0 /\ Decoded' = 0
      <4>1. syncPort' = << >> /\ syncPos' = 0 /\ Len(<< >>) = 0
        BY <1>1 DEF Stays
      <4>2. ~EosQueuedLast'
        BY <4>1 DEF EosQueuedLast
      <4>3. Undecoded' = 0
        BY <4>1, <4>2 DEF Undecoded
      <4> QED BY <4>1, <4>2, <4>3 DEF Decoded
    <3>2. PortInv' /\ EosInv'
      BY <1>1, <3>1 DEF PortInv, EosInv, Stays
    <3>3. WrittenInv'
      BY <1>1, <3>1 DEF WrittenInv, Sync!InOrder, Stays
    <3> QED BY <3>2, <3>3 DEF PollInv
  <2>7. ResultRight'
    BY <2>2, <2>3 DEF ResultRight, Sync!ResultRight, Sync!CompleteUnlessCaught, Sync!LeaksExplained
  <2> QED BY <2>3, <2>4, <2>5, <2>6, <2>7 DEF SyncInv
<1>3. CASE Sync!SetUpThrows
  <2>1. syncPc' = "returned" /\ syncCaught' = TRUE
    BY <1>3 DEF Sync!SetUpThrows
  <2>2. syncLive' \subseteq {"codec"}
    BY <1>3 DEF Sync!SetUpThrows, Sync!LeftByCatch, Sync!Copiers
  <2>3. Sync!TypeOK'
    BY <1>1, <2>1, <2>2, EndTypes
  <2>4. Sync!LeaksExplained'
    BY <2>1, <2>2 DEF Sync!LeaksExplained
  <2> QED BY <1>1, <2>1, <2>2, <2>3, <2>4, ReturnKeeps DEF Stays
<1> QED BY <1>2, <1>3

-----------------------------------------------------------------------------
(* The copiers.                                                            *)

\* What a copier should write is what it has written, once it stops.
LEMMA CopiedListed ==
  ASSUME Sync!TypeOK, SyncInv, syncPc = "copy",
         ~Sync!Exhausted => syncSource[syncPos + 1] = "empty"
  PROVE  Sync!Lists(syncFile, Sync!Expected)
<1>1. /\ syncFn \in Sync!Copiers /\ syncHasTrack
      /\ Len(syncFile) = syncPos /\ \A i \in 1 .. syncPos : syncFile[i] = i /\ Sync!Full(i)
  BY DEF SyncInv, StageInv, CopyInv
<1>2. /\ syncPos \in Nat /\ Len(syncSource) \in Nat /\ syncPos <= Len(syncSource)
      /\ DOMAIN syncFile = 1 .. syncPos
  BY <1>1, SyncFacts
<1>3. Sync!Expected = {n \in 1 .. Len(syncSource) : \A i \in 1 .. n : Sync!Full(i)}
  BY <1>1 DEF Sync!Expected, Sync!Copiers
<1>4. ASSUME NEW n \in 1 .. Len(syncSource), \A i \in 1 .. n : Sync!Full(i) PROVE n \in 1 .. syncPos
  <2> SUFFICES ASSUME n > syncPos PROVE FALSE
    BY <1>2
  <2>1. ~Sync!Exhausted /\ syncPos + 1 \in 1 .. n
    BY <1>2 DEF Sync!Exhausted
  <2> QED BY <1>4, <2>1 DEF Sync!Full
<1>5. Sync!Expected = 1 .. syncPos
  BY <1>1, <1>2, <1>3, <1>4
<1>6. {syncFile[i] : i \in DOMAIN syncFile} = 1 .. syncPos
  BY <1>1, <1>2
<1>7. Sync!InOrder(syncFile)
  BY <1>1, <1>2 DEF Sync!InOrder
<1> QED BY <1>5, <1>6, <1>7 DEF Sync!Lists

LEMMA CopySampleKeeps ==
  ASSUME Sync!TypeOK, SyncInv, Sync!CopySample
  PROVE  Sync!TypeOK' /\ SyncInv'
<1>1. /\ syncPc = "copy" /\ ~Sync!Exhausted /\ syncSource[syncPos + 1] # "empty"
      /\ syncFile' = Append(syncFile, syncPos + 1) /\ syncPos' = syncPos + 1
      /\ UNCHANGED <<syncFn, syncSource, syncHasTrack, syncPc, syncLive, syncCaught, syncEosQueued,
                     syncFree, syncPort, syncReady>>
  BY DEF Sync!CopySample, Sync!inputs, Sync!codec
<1>2. syncFn \in Sync!Copiers /\ Len(syncFile) = syncPos /\ \A i \in 1 .. syncPos : syncFile[i] = i /\ Sync!Full(i)
  BY <1>1 DEF SyncInv, StageInv, CopyInv
<1>3. syncPos \in Nat /\ syncPos + 1 \in 1 .. Len(syncSource) /\ syncFile \in Seq(1 .. Len(syncSource))
  BY <1>1, SyncFacts DEF Sync!Exhausted
<1>4. /\ syncFile' \in Seq(1 .. Len(syncSource)) /\ Len(syncFile') = syncPos + 1
      /\ \A i \in 1 .. syncPos : syncFile'[i] = syncFile[i]
      /\ syncFile'[syncPos + 1] = syncPos + 1
  BY <1>1, <1>2, <1>3, AppendFacts
<1>5. Sync!TypeOK'
  BY <1>1, <1>3, <1>4 DEF Sync!TypeOK
<1>6. StageInv' /\ LiveInv'
  BY <1>1, <1>2 DEF SyncInv, StageInv, LiveInv, Sync!Copiers
<1>7. CopyInv'
  <2>1. \A i \in 1 .. syncPos + 1 : i \in 1 .. syncPos \/ i = syncPos + 1
    BY <1>3
  <2>2. \A i \in 1 .. syncPos + 1 : syncFile'[i] = i
    BY <1>2, <1>4, <2>1
  <2>3. \A i \in 1 .. syncPos + 1 : syncSource[i] # "empty"
    BY <1>1, <1>2, <2>1 DEF Sync!Full
  <2> QED BY <1>1, <1>4, <2>2, <2>3 DEF CopyInv, Sync!Full
<1>8. PollInv' /\ ResultRight'
  BY <1>1, <1>5
  DEF PollInv, ResultRight, Sync!ResultRight, Sync!CompleteUnlessCaught, Sync!LeaksExplained
<1> QED BY <1>5, <1>6, <1>7, <1>8 DEF SyncInv

LEMMA CopyEndsKeep ==
  ASSUME Sync!TypeOK, SyncInv,
         Sync!CopyEnds \/ Sync!CopyTooBig \/ Sync!CopyThrows \/ Sync!ReleaseThrows \/ Sync!LoopThrows
  PROVE  Sync!TypeOK' /\ SyncInv'
<1>1. Stays
  BY DEF Sync!CopyEnds, Sync!CopyTooBig, Sync!CopyThrows, Sync!ReleaseThrows, Sync!LoopThrows, Stays,
         Sync!inputs, Sync!codec
<1>2. CASE Sync!CopyTooBig \/ Sync!CopyThrows \/ Sync!LoopThrows
  BY <1>1, <1>2, CatchKeeps DEF Sync!CopyTooBig, Sync!CopyThrows, Sync!LoopThrows
<1>3. CASE Sync!CopyEnds
  <2>1. Sync!Lists(syncFile, Sync!Expected)
    BY <1>3, CopiedListed DEF Sync!CopyEnds
  <2>2. Sync!Lists(syncFile, Sync!Expected)'
    BY <1>1, <2>1 DEF Stays, Sync!Lists, Sync!InOrder, Sync!Expected, Sync!Full
  <2>3. Sync!TypeOK'
    BY <1>1, <1>3, EndTypes DEF Sync!CopyEnds, Sync!Finish, Sync!LeftAtEnd, Sync!TypeOK
  <2> QED BY <1>1, <1>3, <2>2, <2>3, FinishKeeps DEF Stays, Sync!CopyEnds
<1>4. CASE Sync!ReleaseThrows
  <2>1. syncFn = "extractAudioFromVideo" /\ syncPc' = "threw" /\ syncLive' = {"muxer"} /\ syncCaught' = syncCaught
    BY <1>4 DEF Sync!ReleaseThrows
  <2>2. Sync!TypeOK'
    BY <1>1, <2>1, EndTypes DEF Sync!TypeOK
  <2>3. Sync!LeaksExplained'
    BY <1>1, <2>1 DEF Sync!LeaksExplained, Stays
  <2> QED BY <1>1, <2>1, <2>2, <2>3, ReturnKeeps DEF Stays
<1> QED BY <1>2, <1>3, <1>4

-----------------------------------------------------------------------------
(* The polling loop.                                                       *)

\* What the invariant says in the loop.
LEMMA LoopFacts ==
  ASSUME Sync!TypeOK, SyncInv, syncPc \in {"input", "output"}
  PROVE  /\ PortInv /\ EosInv /\ WrittenInv /\ syncHasTrack
         /\ syncFn \notin Sync!Copiers
         /\ Undecoded \in Nat /\ Decoded \in Nat /\ Decoded <= syncPos
         /\ Undecoded = (IF EosQueuedLast THEN Len(syncPort) - 1 ELSE Len(syncPort))
<1>1. PortInv /\ EosInv /\ WrittenInv /\ syncHasTrack /\ syncFn \notin Sync!Copiers
  BY DEF SyncInv, PollInv, StageInv
<1>2. syncPort \in Seq(Nat) /\ Len(syncPort) \in Nat /\ syncPos \in Nat
  BY SyncFacts
<1>3. syncPort # << >> => Len(syncPort) > 0
  BY <1>2
<1>4. Undecoded \in Nat
  BY <1>2, <1>3 DEF Undecoded, EosQueuedLast
<1>5. Decoded \in Nat /\ Decoded <= syncPos
  BY <1>1, <1>2, <1>4 DEF PortInv, Decoded
<1> QED BY <1>1, <1>4, <1>5 DEF Undecoded

\* Nothing between the extractor and the file moves.
LEMMA PollStays ==
  ASSUME PortInv, EosInv, WrittenInv,
         UNCHANGED <<syncSource, syncPos, syncEosQueued, syncPort, syncReady, syncFile>>
  PROVE  PortInv' /\ EosInv' /\ WrittenInv'
<1>1. (EosQueuedLast' <=> EosQueuedLast) /\ Undecoded' = Undecoded /\ Decoded' = Decoded
  BY DEF EosQueuedLast, Undecoded, Decoded
<1>2. PortInv' /\ EosInv'
  BY <1>1 DEF PortInv, EosInv
<1>3. WrittenInv'
  BY <1>1 DEF WrittenInv, Sync!InOrder, Sync!Full
<1> QED BY <1>2, <1>3

\* What is written and decoded stays so while the same samples are decoded.
LEMMA WrittenStays ==
  ASSUME WrittenInv, Decoded' = Decoded, UNCHANGED <<syncSource, syncReady, syncFile>>
  PROVE  WrittenInv'
BY DEF WrittenInv, Sync!InOrder, Sync!Full

LEMMA PollInputKeeps ==
  ASSUME Sync!TypeOK, SyncInv, Sync!PollInput
  PROVE  Sync!TypeOK' /\ SyncInv'
<1>1. /\ syncPc = "input" /\ syncPc' = "output"
      /\ UNCHANGED <<syncFn, syncSource, syncHasTrack, syncLive, syncCaught, syncReady, syncFile>>
  BY DEF Sync!PollInput, Sync!inputs
<1>2. /\ PortInv /\ EosInv /\ WrittenInv /\ syncHasTrack
      /\ Undecoded \in Nat /\ Decoded \in Nat /\ Decoded <= syncPos
      /\ Undecoded = (IF EosQueuedLast THEN Len(syncPort) - 1 ELSE Len(syncPort))
  BY <1>1, LoopFacts
<1>3. syncFn = "extractAudioToPCM"
  BY <1>1 DEF SyncInv, StageInv
<1>4. StageInv' /\ LiveInv' /\ CopyInv'
  BY <1>1, <1>2, <1>3 DEF SyncInv, StageInv, LiveInv, CopyInv, Sync!Copiers
<1>5. Sync!TypeOK' => ResultRight'
  BY <1>1 DEF ResultRight, Sync!ResultRight, Sync!CompleteUnlessCaught, Sync!LeaksExplained
<1>6. CASE syncEosQueued \/ syncFree = 0
  <2>1. UNCHANGED <<syncPos, syncEosQueued, syncFree, syncPort>>
    BY <1>6 DEF Sync!PollInput
  <2>2. PollInv'
    BY <1>1, <1>2, <2>1, PollStays DEF PollInv
  <2>3. Sync!TypeOK'
    BY <1>1, <2>1 DEF Sync!TypeOK
  <2> QED BY <1>4, <1>5, <2>2, <2>3 DEF SyncInv
<1>7. CASE ~syncEosQueued /\ syncFree # 0
  <2> DEFINE e == IF Sync!Exhausted THEN 0 ELSE syncPos + 1
  <2>1. /\ syncFree' = syncFree - 1 /\ syncPort' = Append(syncPort, e)
        /\ syncEosQueued' = Sync!Exhausted
        /\ syncPos' = IF Sync!Exhausted THEN syncPos ELSE syncPos + 1
    BY <1>7 DEF Sync!PollInput
  <2>2. /\ syncPos \in Nat /\ Len(syncSource) \in Nat /\ syncPos <= Len(syncSource)
        /\ syncPort \in Seq(0 .. Len(syncSource)) /\ syncFree \in Nat /\ Len(syncPort) \in Nat
        /\ Buffers \in Nat
    BY SyncFacts
  <2>3. e \in 0 .. Len(syncSource) /\ (e = 0 <=> Sync!Exhausted)
    BY <2>2 DEF Sync!Exhausted
  <2>4. /\ syncPort' \in Seq(0 .. Len(syncSource)) /\ Len(syncPort') = Len(syncPort) + 1
        /\ \A i \in 1 .. Len(syncPort) : syncPort'[i] = syncPort[i]
        /\ syncPort'[Len(syncPort) + 1] = e
    BY <2>1, <2>2, <2>3, AppendFacts
  <2> HIDE DEF e
  <2>5. /\ syncPos' \in 0 .. Len(syncSource) /\ syncEosQueued' \in BOOLEAN
        /\ syncFree' \in 0 .. Buffers /\ syncFree' + Len(syncPort') = Buffers
    <3>1. syncFree + Len(syncPort) = Buffers /\ syncFree > 0
      BY <1>7, <2>2 DEF Sync!TypeOK
    <3>2. syncPos' \in 0 .. Len(syncSource) /\ syncEosQueued' \in BOOLEAN
      BY <2>1, <2>2 DEF Sync!Exhausted
    <3> QED BY <2>1, <2>2, <2>4, <3>1, <3>2
  <2>6. Sync!TypeOK'
    BY <1>1, <2>4, <2>5 DEF Sync!TypeOK
  <2>7. ~EosQueuedLast /\ Undecoded = Len(syncPort) /\ syncPort' # << >>
    BY <1>2, <1>7, <2>2, <2>4 DEF PortInv
  <2>8. EosQueuedLast' <=> Sync!Exhausted
    BY <2>3, <2>4, <2>7 DEF EosQueuedLast
  <2>9. Decoded' = Decoded /\ Undecoded' \in Nat
        /\ Undecoded' = (IF Sync!Exhausted THEN Len(syncPort) ELSE Len(syncPort) + 1)
    <3>1. Undecoded' = (IF Sync!Exhausted THEN Len(syncPort) ELSE Len(syncPort) + 1)
      BY <2>2, <2>4, <2>8 DEF Undecoded
    <3> QED BY <2>1, <2>2, <2>7, <3>1 DEF Decoded
  <2>10. PortInv'
    <3>1. \A i \in 1 .. Undecoded' : syncPort'[i] = Decoded + i
      <4> SUFFICES ASSUME NEW i \in 1 .. Undecoded' PROVE syncPort'[i] = Decoded + i
        OBVIOUS
      <4>1. CASE i \in 1 .. Len(syncPort)
        BY <1>2, <2>4, <2>7, <4>1 DEF PortInv
      <4>2. CASE i = Len(syncPort) + 1
        BY <2>2, <2>4, <2>7, <2>9, <4>2 DEF Decoded, e
      <4> QED BY <2>2, <2>9, <4>1, <4>2
    <3>2. Undecoded' <= syncPos'
      BY <1>2, <2>1, <2>2, <2>7, <2>9 DEF PortInv
    <3>3. syncEosQueued' => syncPos' = Len(syncSource')
      BY <1>1, <2>1 DEF Sync!Exhausted
    <3>4. EosQueuedLast' => syncEosQueued'
      BY <2>1, <2>8
    <3> QED BY <2>9, <3>1, <3>2, <3>3, <3>4 DEF PortInv
  <2>11. EosInv'
    BY <1>1, <1>2, <1>7, <2>1, <2>8 DEF EosInv
  <2>12. WrittenInv'
    BY <1>1, <1>2, <2>9, WrittenStays
  <2> QED BY <1>4, <1>5, <2>6, <2>10, <2>11, <2>12 DEF SyncInv, PollInv
<1> QED BY <1>6, <1>7

\* The decoder's next input: the sample after those decoded, or the end of stream alone.
LEMMA NextInput ==
  ASSUME Sync!TypeOK, SyncInv, syncPc \in {"input", "output"}, syncPort # << >>
  PROVE  /\ Head(syncPort) = syncPort[1] /\ Len(syncPort) \in Nat \ {0}
         /\ Head(syncPort) # 0 =>
              /\ Head(syncPort) = Decoded + 1 /\ Head(syncPort) \in 1 .. Len(syncSource)
              /\ Undecoded \in Nat \ {0}
         /\ Head(syncPort) = 0 =>
              Len(syncPort) = 1 /\ EosQueuedLast /\ Undecoded = 0 /\ syncEosQueued
         /\ \A i \in DOMAIN syncReady : ~syncReady[i].eos
         /\ syncEosQueued <=> EosQueuedLast
<1>1. /\ PortInv /\ EosInv
      /\ Undecoded \in Nat /\ Decoded \in Nat
      /\ Undecoded = (IF EosQueuedLast THEN Len(syncPort) - 1 ELSE Len(syncPort))
  BY LoopFacts
<1>2. syncPort \in Seq(0 .. Len(syncSource)) /\ Len(syncSource) \in Nat
  BY SyncFacts
<1>3. Head(syncPort) = syncPort[1] /\ Len(syncPort) \in Nat \ {0} /\ syncPort[1] \in 0 .. Len(syncSource)
  BY <1>2, TailFacts
<1>4. Undecoded # 0 => syncPort[1] = Decoded + 1
  <2>1. \A i \in 1 .. Undecoded : syncPort[i] = Decoded + i
    BY <1>1 DEF PortInv
  <2>2. Undecoded \in Nat
    BY <1>1
  <2> QED BY <2>1, <2>2
<1>5. Undecoded = 0 => Len(syncPort) = 1 /\ EosQueuedLast /\ syncPort[1] = 0
  <2> SUFFICES ASSUME Undecoded = 0 PROVE Len(syncPort) = 1 /\ EosQueuedLast /\ syncPort[1] = 0
    OBVIOUS
  <2>1. EosQueuedLast /\ Len(syncPort) = 1
    BY <1>1, <1>3
  <2> QED BY <2>1 DEF EosQueuedLast
<1>6. /\ \A i \in DOMAIN syncReady : ~syncReady[i].eos
      /\ syncEosQueued <=> EosQueuedLast
  <2>1. \A i \in DOMAIN syncReady : ~syncReady[i].eos
    BY <1>1 DEF EosInv
  <2>2. syncReady # << >> => Len(syncReady) \in DOMAIN syncReady
    <3>1. syncReady \in Seq([unit : Nat, eos : BOOLEAN])
      BY SyncFacts
    <3> QED BY <3>1
  <2> QED BY <1>1, <2>1, <2>2 DEF EosInv, PortInv
<1>7. EosQueuedLast => syncEosQueued
  BY <1>1 DEF PortInv
<1> QED BY <1>1, <1>3, <1>4, <1>5, <1>6, <1>7

\* What the decoder leaves of its input.
LEMMA InputTaken ==
  ASSUME Sync!TypeOK, SyncInv, syncPc \in {"input", "output"}, syncPort # << >>,
         syncPort' = Tail(syncPort), UNCHANGED <<syncSource, syncPos, syncEosQueued>>
  PROVE  /\ PortInv'
         /\ Head(syncPort) # 0 => Decoded' = Decoded + 1 /\ (EosQueuedLast' <=> EosQueuedLast)
         /\ Head(syncPort) = 0 => Decoded' = Decoded /\ ~EosQueuedLast' /\ syncPort' = << >>
<1>1. /\ PortInv
      /\ Undecoded \in Nat /\ Decoded \in Nat /\ Decoded = syncPos - Undecoded
      /\ Undecoded = (IF EosQueuedLast THEN Len(syncPort) - 1 ELSE Len(syncPort))
  BY LoopFacts DEF Decoded
<1>2. syncPort \in Seq(0 .. Len(syncSource)) /\ syncPos \in Nat
  BY SyncFacts
<1>3. /\ syncPort' \in Seq(0 .. Len(syncSource)) /\ Len(syncPort) \in Nat \ {0}
      /\ Len(syncPort') = Len(syncPort) - 1
      /\ \A i \in 1 .. Len(syncPort) - 1 : syncPort'[i] = syncPort[i + 1]
  BY <1>2, TailFacts
<1>4. /\ Head(syncPort) = syncPort[1]
      /\ Head(syncPort) # 0 => Head(syncPort) = Decoded + 1 /\ Undecoded \in Nat \ {0}
      /\ Head(syncPort) = 0 =>
              Len(syncPort) = 1 /\ EosQueuedLast /\ Undecoded = 0 /\ syncEosQueued
  BY NextInput
<1>5. CASE Head(syncPort) = 0
  <2>1. Len(syncPort') = 0 /\ syncPort' = << >>
    BY <1>3, <1>4, <1>5
  <2>2. ~EosQueuedLast'
    BY <2>1 DEF EosQueuedLast
  <2>3. Undecoded' = 0
    BY <2>1, <2>2 DEF Undecoded
  <2>4. Decoded' = Decoded
    BY <1>1, <1>2, <1>4, <1>5, <2>3 DEF Decoded
  <2>5. PortInv'
    BY <1>1, <1>2, <2>2, <2>3, <2>4 DEF PortInv
  <2> QED BY <1>5, <2>1, <2>2, <2>4, <2>5
<1>6. CASE Head(syncPort) # 0
  <2>1. EosQueuedLast' <=> EosQueuedLast
    <3>1. CASE Len(syncPort) = 1
      <4>1. syncPort' = << >>
        BY <1>3, <3>1
      <4> QED BY <1>4, <1>6, <3>1, <4>1 DEF EosQueuedLast
    <3>2. CASE Len(syncPort) > 1
      <4>1. syncPort' # << >> /\ syncPort # << >> /\ syncPort'[Len(syncPort')] = syncPort[Len(syncPort)]
        <5>1. Len(syncPort) - 1 \in 1 .. Len(syncPort) - 1 /\ (Len(syncPort) - 1) + 1 = Len(syncPort)
          BY <1>3, <3>2
        <5>2. syncPort'[Len(syncPort) - 1] = syncPort[Len(syncPort)]
          BY <1>3, <5>1
        <5>3. syncPort' # << >> /\ syncPort # << >> /\ Len(syncPort') = Len(syncPort) - 1
          <6>1. Len(syncPort') # 0 /\ Len(syncPort) # 0 /\ Len(syncPort') = Len(syncPort) - 1
            <7>1. Len(syncPort) \in Nat /\ Len(syncPort') = Len(syncPort) - 1
              BY <1>3
            <7> QED BY <3>2, <7>1
          <6>2. Len(<< >>) = 0
            OBVIOUS
          <6> QED BY <6>1, <6>2
        <5> QED BY <5>2, <5>3
      <4> QED BY <4>1 DEF EosQueuedLast
    <3> QED BY <1>3, <3>1, <3>2
  <2>2. Undecoded' = Undecoded - 1
    BY <1>1, <1>3, <2>1 DEF Undecoded
  <2>3. Decoded' = Decoded + 1
    BY <1>1, <1>2, <2>2 DEF Decoded
  <2>4. \A i \in 1 .. Undecoded' : syncPort'[i] = Decoded' + i
    <3> SUFFICES ASSUME NEW i \in 1 .. Undecoded - 1 PROVE syncPort'[i] = Decoded + 1 + i
      BY <2>2, <2>3
    <3>1. i + 1 \in 1 .. Undecoded /\ i \in 1 .. Len(syncPort) - 1 /\ i \in Nat /\ Decoded \in Nat
      <4>1. Undecoded \in Nat /\ Len(syncPort) \in Nat /\ Decoded \in Nat
        BY <1>1, <1>3
      <4>2. Undecoded <= Len(syncPort)
        BY <1>1, <4>1
      <4> QED BY <4>1, <4>2
    <3>2. syncPort[i + 1] = Decoded + (i + 1)
      BY <1>1, <3>1 DEF PortInv
    <3>3. syncPort'[i] = syncPort[i + 1]
      BY <1>3, <3>1
    <3> QED BY <3>1, <3>2, <3>3
  <2>5. Undecoded' <= syncPos'
    BY <1>1, <1>2, <1>4, <1>6, <2>2 DEF PortInv
  <2>6. PortInv'
    BY <1>1, <2>1, <2>4, <2>5 DEF PortInv
  <2> QED BY <1>6, <2>1, <2>3, <2>6
<1> QED BY <1>5, <1>6

LEMMA DecodeTypes ==
  ASSUME Sync!TypeOK, Sync!Decode,
         syncReady' \in Seq([unit : 0 .. Len(syncSource), eos : BOOLEAN])
  PROVE  Sync!TypeOK'
<1>1. /\ syncPort # << >> /\ syncPort' = Tail(syncPort) /\ syncFree' = syncFree + 1
      /\ UNCHANGED <<syncFn, syncSource, syncHasTrack, syncPc, syncLive, syncCaught, syncPos,
                     syncEosQueued, syncFile>>
  BY DEF Sync!Decode, Sync!inputs
<1>2. /\ syncPort \in Seq(0 .. Len(syncSource)) /\ syncFree \in Nat /\ Buffers \in Nat
  BY SyncFacts
<1>3. /\ syncPort' \in Seq(0 .. Len(syncSource)) /\ Len(syncPort) \in Nat \ {0}
      /\ Len(syncPort') = Len(syncPort) - 1
  BY <1>1, <1>2, TailFacts
<1>4. syncFree' \in 0 .. Buffers /\ syncFree' + Len(syncPort') = Buffers
  <2>1. syncFree + Len(syncPort) = Buffers
    BY DEF Sync!TypeOK
  <2>2. /\ syncFree \in Nat /\ Buffers \in Nat /\ Len(syncPort) \in Nat /\ Len(syncPort) >= 1
        /\ syncFree' = syncFree + 1 /\ Len(syncPort') = Len(syncPort) - 1
    BY <1>1, <1>2, <1>3
  <2> QED BY <2>1, <2>2
<1> QED BY <1>1, <1>3, <1>4 DEF Sync!TypeOK

LEMMA DecodeKeeps ==
  ASSUME Sync!TypeOK, SyncInv, Sync!Decode
  PROVE  Sync!TypeOK' /\ SyncInv'
<1> DEFINE n == Head(syncPort)
<1>1. /\ syncPc \in {"input", "output"} /\ syncPort # << >> /\ syncPort' = Tail(syncPort)
      /\ UNCHANGED <<syncFn, syncSource, syncHasTrack, syncPc, syncLive, syncCaught, syncPos,
                     syncEosQueued, syncFile>>
      /\ \/ n # 0 /\ syncSource[n] = "empty" /\ syncReady' = syncReady
         \/ n # 0 /\ syncSource[n] # "empty"
            /\ syncReady' = Append(syncReady, [unit |-> n, eos |-> FALSE])
         \/ n = 0 /\ syncReady' = Append(syncReady, [unit |-> 0, eos |-> TRUE])
         \/ n = 0 /\ syncReady # << >>
            /\ syncReady' = [syncReady EXCEPT ![Len(syncReady)].eos = TRUE]
  BY DEF Sync!Decode, Sync!inputs
<1>2. /\ EosInv /\ WrittenInv /\ syncHasTrack /\ Decoded \in Nat /\ syncFn \notin Sync!Copiers
  BY <1>1, LoopFacts
<1>3. /\ n # 0 => n = Decoded + 1 /\ n \in 1 .. Len(syncSource)
      /\ n = 0 => syncEosQueued
      /\ \A i \in DOMAIN syncReady : ~syncReady[i].eos
      /\ syncEosQueued <=> EosQueuedLast
  BY <1>1, NextInput
<1>4. /\ PortInv'
      /\ n # 0 => Decoded' = Decoded + 1 /\ (EosQueuedLast' <=> EosQueuedLast)
      /\ n = 0 => Decoded' = Decoded /\ ~EosQueuedLast' /\ syncPort' = << >>
  BY <1>1, InputTaken
<1> HIDE DEF n
<1>5. syncFn # "extractAudioToPCMV2"
  BY <1>1 DEF SyncInv, StageInv
<1>6. StageInv' /\ LiveInv' /\ CopyInv'
  BY <1>1, <1>2, <1>5 DEF SyncInv, StageInv, LiveInv, CopyInv
<1>7. Sync!TypeOK' => ResultRight'
  BY <1>1 DEF ResultRight, Sync!ResultRight, Sync!CompleteUnlessCaught, Sync!LeaksExplained
<1>8. /\ syncReady \in Seq([unit : 0 .. Len(syncSource), eos : BOOLEAN])
      /\ Len(syncReady) \in Nat /\ DOMAIN syncReady = 1 .. Len(syncReady)
      /\ \A i \in DOMAIN syncReady :
           syncReady[i] \in [unit : 0 .. Len(syncSource), eos : BOOLEAN] /\ syncReady[i].unit \in Nat
      /\ Len(syncSource) \in Nat
  <2>1. syncReady \in Seq([unit : 0 .. Len(syncSource), eos : BOOLEAN]) /\ Len(syncSource) \in Nat
    BY SyncFacts
  <2>2. \A i \in 1 .. Len(syncReady) : syncReady[i] \in [unit : 0 .. Len(syncSource), eos : BOOLEAN]
    BY <2>1, ElementFacts
  <2>3. \A i \in 1 .. Len(syncReady) : syncReady[i].unit \in Nat
    BY <2>1, <2>2
  <2>4. Len(syncReady) \in Nat /\ DOMAIN syncReady = 1 .. Len(syncReady)
    BY <2>1, ElementFacts
  <2> QED BY <2>1, <2>2, <2>3, <2>4
<1>9. \A i \in DOMAIN syncReady : syncReady[i].unit # 0 /\ syncReady[i].unit <= Decoded
  BY <1>2, <1>3 DEF EosInv, WrittenInv
<1>10. CASE n # 0 /\ syncSource[n] = "empty" /\ syncReady' = syncReady
  <2>1. WrittenInv'
    <3>1. \A k \in 1 .. Decoded + 1 : k \in 1 .. Decoded \/ k = n
      BY <1>2, <1>3, <1>10
    <3>2. \A k \in 1 .. Decoded + 1 : syncSource[k] # "empty" =>
            \/ \E i \in DOMAIN syncFile : syncFile[i] = k
            \/ \E j \in DOMAIN syncReady : syncReady[j].unit = k
      BY <1>2, <1>10, <3>1 DEF WrittenInv, Sync!Full
    <3>3. \A i \in DOMAIN syncFile : syncFile[i] \in Nat /\ syncFile[i] <= Decoded
      <4>1. syncFile \in Seq(Nat)
        BY SyncFacts
      <4> QED BY <1>2, <4>1 DEF WrittenInv
    <3>4. \A i \in DOMAIN syncFile : syncFile[i] <= Decoded + 1
      BY <1>2, <3>3
    <3>5. \A j \in DOMAIN syncReady : syncReady[j].unit <= Decoded + 1
      BY <1>2, <1>8, <1>9
    <3> QED BY <1>1, <1>2, <1>4, <1>10, <3>2, <3>4, <3>5 DEF WrittenInv, Sync!InOrder, Sync!Full
  <2>2. EosInv'
    BY <1>1, <1>2, <1>3, <1>4, <1>10 DEF EosInv
  <2>3. Sync!TypeOK'
    BY <1>8, <1>10, DecodeTypes
  <2> QED BY <1>4, <1>6, <1>7, <2>1, <2>2, <2>3 DEF SyncInv, PollInv
<1> DEFINE last == Len(syncReady) + 1
<1>11. CASE n # 0 /\ syncSource[n] # "empty"
            /\ syncReady' = Append(syncReady, [unit |-> n, eos |-> FALSE])
  <2>1. [unit |-> n, eos |-> FALSE] \in [unit : 0 .. Len(syncSource), eos : BOOLEAN]
    BY <1>3, <1>8, <1>11
  <2>2. /\ syncReady' \in Seq([unit : 0 .. Len(syncSource), eos : BOOLEAN])
        /\ DOMAIN syncReady' = 1 .. last
        /\ \A i \in 1 .. Len(syncReady) : syncReady'[i] = syncReady[i]
        /\ syncReady'[last] = [unit |-> n, eos |-> FALSE]
    BY <1>8, <1>11, <2>1, AppendFacts
  <2>3. Sync!TypeOK'
    BY <2>2, DecodeTypes
  <2>4. \A i \in 1 .. last : i \in 1 .. Len(syncReady) \/ i = last
    BY <1>8
  <2>5. \A i \in DOMAIN syncReady' : ~syncReady'[i].eos /\ syncReady'[i].unit # 0
    BY <1>3, <1>8, <1>9, <1>11, <2>2, <2>4
  <2>6. EosInv'
    BY <1>1, <1>3, <1>4, <1>11, <2>5 DEF EosInv
  <2>7. WrittenInv'
    <3>1. /\ Sync!InOrder(syncFile)
          /\ \A i \in DOMAIN syncFile : syncFile[i] \in Nat /\ syncFile[i] <= Decoded /\ syncSource[syncFile[i]] # "empty"
      <4>1. syncFile \in Seq(Nat)
        BY SyncFacts
      <4> QED BY <1>2, <4>1 DEF WrittenInv, Sync!Full
    <3>2. \A i \in DOMAIN syncFile : syncFile[i] < n /\ syncFile[i] <= Decoded + 1
      BY <1>2, <1>3, <1>11, <3>1
    <3>3. \A j \in DOMAIN syncReady : syncReady[j].unit < n /\ syncReady[j].unit <= Decoded + 1
      BY <1>2, <1>3, <1>8, <1>9, <1>11
    <3>4. ASSUME NEW j \in 1 .. last
          PROVE  /\ syncReady'[j].unit <= Decoded + 1 /\ syncSource[syncReady'[j].unit] # "empty"
                 /\ \A i \in DOMAIN syncFile : syncFile[i] < syncReady'[j].unit
                 /\ \A i \in 1 .. last : i < j => syncReady'[i].unit < syncReady'[j].unit
      <4>1. CASE j \in 1 .. Len(syncReady)
        <5>1. syncReady'[j] = syncReady[j] /\ syncReady[j].unit # 0
          BY <1>8, <1>9, <2>2, <4>1
        <5>2. \A i \in 1 .. last : i < j => i \in 1 .. Len(syncReady) /\ syncReady'[i] = syncReady[i]
          BY <1>8, <2>2, <4>1
        <5> QED BY <1>2, <1>8, <3>3, <4>1, <5>1, <5>2 DEF WrittenInv, Sync!Full
      <4>2. CASE j = last
        <5>1. syncReady'[j].unit = n
          BY <2>2, <4>2
        <5>2. \A i \in 1 .. last : i < j => i \in 1 .. Len(syncReady) /\ syncReady'[i] = syncReady[i]
          BY <1>8, <2>2, <4>2
        <5>3. \A i \in 1 .. last : i < j => syncReady'[i].unit < n
          BY <1>8, <3>3, <5>2
        <5>4. n <= Decoded + 1 /\ syncSource[n] # "empty"
          BY <1>2, <1>3, <1>11
        <5> QED BY <3>2, <5>1, <5>3, <5>4
      <4> QED BY <2>4, <4>1, <4>2
    <3>5. ASSUME NEW k \in 1 .. Decoded + 1, syncSource[k] # "empty"
          PROVE  \/ \E i \in DOMAIN syncFile : syncFile[i] = k
                 \/ \E j \in 1 .. last : syncReady'[j].unit = k
      <4>1. CASE k = n
        <5>1. syncReady'[last].unit = k /\ last \in 1 .. last
          BY <1>8, <2>2, <4>1
        <5> QED BY <5>1
      <4>2. CASE k \in 1 .. Decoded
        <5>1. \A j \in DOMAIN syncReady : j \in 1 .. last /\ syncReady'[j] = syncReady[j]
          BY <1>8, <2>2
        <5> QED BY <1>2, <3>5, <4>2, <5>1 DEF WrittenInv, Sync!Full
      <4> QED BY <1>2, <1>3, <1>11, <4>1, <4>2
    <3>6. Decoded' = Decoded + 1 /\ DOMAIN syncReady' = 1 .. last
      BY <1>4, <1>11, <2>2
    <3> QED BY <1>1, <3>1, <3>2, <3>4, <3>5, <3>6 DEF WrittenInv, Sync!InOrder, Sync!Full
  <2> QED BY <1>4, <1>6, <1>7, <2>3, <2>6, <2>7 DEF SyncInv, PollInv
<1>12. CASE n = 0 /\ syncReady' = Append(syncReady, [unit |-> 0, eos |-> TRUE])
  <2>1. [unit |-> 0, eos |-> TRUE] \in [unit : 0 .. Len(syncSource), eos : BOOLEAN]
    BY <1>8
  <2>2. /\ syncReady' \in Seq([unit : 0 .. Len(syncSource), eos : BOOLEAN])
        /\ Len(syncReady') = last /\ DOMAIN syncReady' = 1 .. last
        /\ \A i \in 1 .. Len(syncReady) : syncReady'[i] = syncReady[i]
        /\ syncReady'[last] = [unit |-> 0, eos |-> TRUE]
    BY <1>8, <1>12, <2>1, AppendFacts
  <2>3. Sync!TypeOK'
    BY <2>2, DecodeTypes
  <2>4. \A i \in 1 .. last : i \in 1 .. Len(syncReady) \/ i = last
    BY <1>8
  <2>5. EosInv'
    <3>1. \A i \in 1 .. Len(syncReady) : ~syncReady'[i].eos /\ syncReady'[i].unit # 0
      BY <1>3, <1>8, <1>9, <2>2
    <3>2. syncReady' # << >>
      BY <1>8, <2>2
    <3> QED BY <1>1, <1>3, <1>4, <1>12, <2>2, <2>4, <3>1, <3>2 DEF EosInv
  <2>6. WrittenInv'
    <3>1. ASSUME NEW j \in 1 .. last, syncReady'[j].unit # 0
          PROVE  /\ j \in 1 .. Len(syncReady) /\ syncReady'[j] = syncReady[j]
                 /\ \A i \in 1 .. last : i < j => i \in 1 .. Len(syncReady) /\ syncReady'[i] = syncReady[i]
      BY <1>8, <2>2, <2>4, <3>1
    <3>2. \A j \in 1 .. last : syncReady'[j].unit # 0 =>
            /\ syncReady'[j].unit <= Decoded /\ syncSource[syncReady'[j].unit] # "empty"
            /\ \A i \in DOMAIN syncFile : syncFile[i] < syncReady'[j].unit
            /\ \A i \in 1 .. last : i < j => syncReady'[i].unit < syncReady'[j].unit
      <4> SUFFICES ASSUME NEW j \in 1 .. last, syncReady'[j].unit # 0
                   PROVE  /\ syncReady'[j].unit <= Decoded /\ syncSource[syncReady'[j].unit] # "empty"
                          /\ \A i \in DOMAIN syncFile : syncFile[i] < syncReady'[j].unit
                          /\ \A i \in 1 .. last : i < j => syncReady'[i].unit < syncReady'[j].unit
        OBVIOUS
      <4>1. /\ j \in DOMAIN syncReady /\ syncReady'[j] = syncReady[j] /\ syncReady[j].unit # 0
            /\ \A i \in 1 .. last : i < j => i \in DOMAIN syncReady /\ syncReady'[i] = syncReady[i]
        BY <1>8, <3>1
      <4>2. /\ syncReady[j].unit <= Decoded /\ syncSource[syncReady[j].unit] # "empty"
            /\ \A i \in DOMAIN syncFile : syncFile[i] < syncReady[j].unit
            /\ \A i \in DOMAIN syncReady : i < j => syncReady[i].unit < syncReady[j].unit
        BY <1>2, <4>1 DEF WrittenInv, Sync!Full
      <4>3. \A i \in 1 .. last : i < j => syncReady'[i].unit < syncReady'[j].unit
        BY <4>1, <4>2
      <4> QED BY <4>1, <4>2, <4>3
    <3>3. \A j \in DOMAIN syncReady : j \in 1 .. last /\ syncReady'[j] = syncReady[j]
      BY <1>8, <2>2
    <3>4. Decoded' = Decoded /\ DOMAIN syncReady' = 1 .. last
      BY <1>4, <1>12, <2>2
    <3> QED BY <1>1, <1>2, <3>2, <3>3, <3>4 DEF WrittenInv, Sync!InOrder, Sync!Full
  <2> QED BY <1>4, <1>6, <1>7, <2>3, <2>5, <2>6 DEF SyncInv, PollInv
<1>13. CASE n = 0 /\ syncReady # << >>
            /\ syncReady' = [syncReady EXCEPT ![Len(syncReady)].eos = TRUE]
  <2>1. Len(syncReady) \in 1 .. Len(syncReady)
    BY <1>8, <1>13
  <2>2. /\ DOMAIN syncReady' = 1 .. Len(syncReady)
        /\ \A i \in 1 .. Len(syncReady) : i # Len(syncReady) => syncReady'[i] = syncReady[i]
        /\ syncReady'[Len(syncReady)] = [syncReady[Len(syncReady)] EXCEPT !.eos = TRUE]
    BY <1>8, <1>13, <2>1
  <2>3. /\ syncReady'[Len(syncReady)].eos
        /\ syncReady'[Len(syncReady)].unit = syncReady[Len(syncReady)].unit
        /\ syncReady'[Len(syncReady)] \in [unit : 0 .. Len(syncSource), eos : BOOLEAN]
    BY <1>8, <2>1, <2>2
  <2>4. \A i \in 1 .. Len(syncReady) : syncReady'[i].unit = syncReady[i].unit
    BY <2>2, <2>3
  <2>5. \A i \in 1 .. Len(syncReady) : syncReady'[i] \in [unit : 0 .. Len(syncSource), eos : BOOLEAN]
    BY <1>8, <2>2, <2>3
  <2>6. /\ syncReady' \in Seq([unit : 0 .. Len(syncSource), eos : BOOLEAN])
        /\ Len(syncReady') = Len(syncReady)
    <3>1. syncReady' = [i \in 1 .. Len(syncReady) |-> syncReady'[i]]
      BY <1>8, <1>13, <2>2
    <3> QED BY <1>8, <2>5, <3>1
  <2>7. Sync!TypeOK'
    BY <2>6, DecodeTypes
  <2>8. EosInv'
    <3>1. \A i \in 1 .. Len(syncReady) : i # Len(syncReady) => ~syncReady'[i].eos
      BY <1>3, <1>8, <2>2
    <3>2. \A i \in 1 .. Len(syncReady) : syncReady'[i].unit # 0
      BY <1>8, <1>9, <2>4
    <3>3. syncReady' # << >>
      BY <2>1, <2>2
    <3> QED BY <1>1, <1>3, <1>4, <1>13, <2>2, <2>3, <2>6, <3>1, <3>2, <3>3 DEF EosInv
  <2>9. WrittenInv'
    <3>1. Decoded' = Decoded /\ DOMAIN syncReady' = DOMAIN syncReady
      BY <1>4, <1>8, <1>13, <2>2
    <3>2. \A i \in DOMAIN syncReady : syncReady'[i].unit = syncReady[i].unit
      BY <1>8, <2>4
    <3>3. \A k \in 1 .. Decoded : syncSource[k] # "empty" =>
            \/ \E i \in DOMAIN syncFile : syncFile[i] = k
            \/ \E j \in DOMAIN syncReady : syncReady'[j].unit = k
      BY <1>2, <3>2 DEF WrittenInv, Sync!Full
    <3>4. \A j \in DOMAIN syncReady : syncReady'[j].unit # 0 =>
            /\ syncReady'[j].unit <= Decoded /\ syncSource[syncReady'[j].unit] # "empty"
            /\ \A i \in DOMAIN syncFile : syncFile[i] < syncReady'[j].unit
            /\ \A i \in DOMAIN syncReady : i < j => syncReady'[i].unit < syncReady'[j].unit
      BY <1>2, <3>2 DEF WrittenInv, Sync!Full
    <3> QED BY <1>1, <1>2, <3>1, <3>3, <3>4 DEF WrittenInv, Sync!InOrder, Sync!Full
  <2> QED BY <1>4, <1>6, <1>7, <2>7, <2>8, <2>9 DEF SyncInv, PollInv
<1> QED BY <1>1, <1>10, <1>11, <1>12, <1>13

\* The loop takes a decoded buffer: what it held is written.
LEMMA BufferWritten ==
  ASSUME Sync!TypeOK, SyncInv, syncPc \in {"input", "output"}, syncReady # << >>,
         syncReady' = Tail(syncReady),
         syncFile' = (IF Head(syncReady).unit = 0 THEN syncFile
                      ELSE Append(syncFile, Head(syncReady).unit)),
         UNCHANGED <<syncSource, syncPos, syncEosQueued, syncPort>>
  PROVE  /\ syncFile' \in Seq(1 .. Len(syncSource))
         /\ syncReady' \in Seq([unit : 0 .. Len(syncSource), eos : BOOLEAN])
         /\ PortInv' /\ WrittenInv' /\ (~Head(syncReady).eos => EosInv')
         /\ Head(syncReady).eos =>
              syncReady' = << >> /\ Decoded' = Len(syncSource)
<1> DEFINE h == Head(syncReady)
           len == Len(syncReady)
<1>1. /\ PortInv /\ EosInv /\ WrittenInv
      /\ Undecoded \in Nat /\ Decoded \in Nat /\ Decoded <= syncPos
      /\ Undecoded = (IF EosQueuedLast THEN Len(syncPort) - 1 ELSE Len(syncPort))
  BY LoopFacts
<1>2. /\ (EosQueuedLast' <=> EosQueuedLast) /\ Undecoded' = Undecoded /\ Decoded' = Decoded
  BY DEF EosQueuedLast, Undecoded, Decoded
<1>3. PortInv'
  BY <1>1, <1>2 DEF PortInv
<1>4. /\ syncReady \in Seq([unit : 0 .. Len(syncSource), eos : BOOLEAN])
      /\ syncFile \in Seq(1 .. Len(syncSource)) /\ Len(syncSource) \in Nat /\ syncPos \in Nat
  BY SyncFacts
<1>5. /\ syncReady' \in Seq([unit : 0 .. Len(syncSource), eos : BOOLEAN])
      /\ DOMAIN syncReady' = 1 .. len - 1 /\ Len(syncReady') = len - 1
      /\ DOMAIN syncReady = 1 .. len /\ len \in Nat \ {0}
      /\ \A i \in 1 .. len - 1 : syncReady'[i] = syncReady[i + 1]
      /\ h = syncReady[1] /\ h \in [unit : 0 .. Len(syncSource), eos : BOOLEAN]
  <2>1. Len(Tail(syncReady)) = len - 1
    BY <1>4
  <2> QED BY <1>4, <2>1, TailFacts
<1>6. h.unit \in 0 .. Len(syncSource) /\ h.unit \in Nat
  BY <1>4, <1>5
<1>7. /\ DOMAIN syncFile = 1 .. Len(syncFile) /\ Len(syncFile) \in Nat
      /\ \A i \in 1 .. Len(syncFile) : syncFile[i] \in 1 .. Len(syncSource)
  BY <1>4, ElementFacts
<1>8. \A i \in 1 .. len : syncReady[i].unit \in Nat
  <2>1. \A i \in 1 .. len : syncReady[i] \in [unit : 0 .. Len(syncSource), eos : BOOLEAN]
    BY <1>4, ElementFacts
  <2> QED BY <1>4, <2>1
<1>9. h.unit = 0 => h.eos /\ len = 1
  BY <1>1, <1>5 DEF EosInv
<1>10. h.eos => len = 1 /\ syncEosQueued /\ syncPort = << >>
  <2>1. 1 \in DOMAIN syncReady /\ h = syncReady[1]
    BY <1>5
  <2>2. \A i \in DOMAIN syncReady : syncReady[i].eos =>
          i = Len(syncReady) /\ syncEosQueued /\ syncPort = << >>
    BY <1>1 DEF EosInv
  <2> QED BY <2>1, <2>2
<1> DEFINE last == Len(syncFile) + 1
<1>11. h.unit # 0 =>
         /\ syncFile' \in Seq(1 .. Len(syncSource)) /\ DOMAIN syncFile' = 1 .. last
         /\ \A i \in 1 .. Len(syncFile) : syncFile'[i] = syncFile[i]
         /\ syncFile'[last] = h.unit
  BY <1>4, <1>6, AppendFacts
<1>12. h.unit = 0 => syncFile' = syncFile
  OBVIOUS
<1>13. syncFile' \in Seq(1 .. Len(syncSource))
  BY <1>4, <1>11, <1>12
<1> HIDE DEF h, len
<1>14. ~h.eos => EosInv'
  <2> SUFFICES ASSUME ~h.eos PROVE EosInv'
    OBVIOUS
  <2>1. \A i \in 1 .. len - 1 : i + 1 \in 1 .. len
    BY <1>5
  <2>2. ASSUME NEW i \in 1 .. len - 1
        PROVE  /\ syncReady'[i].eos => i = len - 1 /\ syncEosQueued /\ syncPort = << >>
               /\ syncReady'[i].unit = 0 => syncReady'[i].eos
    <3>1. syncReady'[i] = syncReady[i + 1] /\ i + 1 \in DOMAIN syncReady
      BY <1>5, <2>1
    <3>2. i + 1 = len => i = len - 1
      BY <1>5
    <3> QED BY <1>1, <3>1, <3>2 DEF EosInv, len
  <2>3. syncEosQueued /\ ~EosQueuedLast => syncReady' # << >> /\ syncReady'[Len(syncReady')].eos
    <3> SUFFICES ASSUME syncEosQueued, ~EosQueuedLast
                 PROVE  syncReady' # << >> /\ syncReady'[Len(syncReady')].eos
      OBVIOUS
    <3>1. syncReady[len].eos
      BY <1>1 DEF EosInv, len
    <3>2. len - 1 \in 1 .. len - 1 /\ (len - 1) + 1 = len
      BY <1>5, <3>1
    <3>3. syncReady'[len - 1].eos
      BY <1>5, <3>1, <3>2
    <3>4. syncReady' # << >>
      <4>1. Len(syncReady') = len - 1 /\ len \in Nat
        BY <1>5
      <4>2. Len(syncReady') # 0
        <5>1. len - 1 # 0
          BY <3>2
        <5> QED BY <4>1, <5>1
      <4>3. Len(<< >>) = 0
        OBVIOUS
      <4> QED BY <4>2, <4>3
    <3> QED BY <1>5, <3>3, <3>4
  <2> QED BY <1>2, <1>5, <2>2, <2>3 DEF EosInv
<1>15. WrittenInv'
  <2>1. /\ \A i, j \in 1 .. Len(syncFile) : i < j => syncFile[i] < syncFile[j]
        /\ \A i \in 1 .. Len(syncFile) : syncFile[i] <= Decoded /\ syncSource[syncFile[i]] # "empty"
        /\ \A j \in 1 .. len : syncReady[j].unit # 0 =>
             /\ syncReady[j].unit <= Decoded /\ syncSource[syncReady[j].unit] # "empty"
             /\ \A i \in 1 .. Len(syncFile) : syncFile[i] < syncReady[j].unit
             /\ \A i \in 1 .. len : i < j => syncReady[i].unit < syncReady[j].unit
        /\ \A n \in 1 .. Decoded : syncSource[n] # "empty" =>
             \/ \E i \in 1 .. Len(syncFile) : syncFile[i] = n
             \/ \E j \in 1 .. len : syncReady[j].unit = n
    BY <1>1, <1>5, <1>7 DEF WrittenInv, Sync!InOrder, Sync!Full
  <2>2. CASE h.unit = 0
    <3>1. DOMAIN syncReady' = {} /\ syncFile' = syncFile /\ \A j \in 1 .. len : j = 1
      BY <1>5, <1>9, <1>12, <2>2
    <3>2. \A n \in 1 .. Decoded : syncSource[n] # "empty" => \E i \in 1 .. Len(syncFile) : syncFile[i] = n
      <4> SUFFICES ASSUME NEW n \in 1 .. Decoded, syncSource[n] # "empty",
                          NEW j \in 1 .. len, syncReady[j].unit = n
                   PROVE  FALSE
        BY <2>1
      <4>1. n = 0
        BY <1>5, <2>2, <3>1
      <4> QED BY <1>1, <4>1
    <3> QED BY <1>2, <1>7, <2>1, <3>1, <3>2 DEF WrittenInv, Sync!InOrder, Sync!Full
  <2>3. CASE h.unit # 0
    <3>1. /\ DOMAIN syncFile' = 1 .. last /\ syncFile'[last] = h.unit
          /\ \A i \in 1 .. Len(syncFile) : syncFile'[i] = syncFile[i]
          /\ \A i \in 1 .. last : i \in 1 .. Len(syncFile) \/ i = last
      BY <1>7, <1>11, <2>3
    <3>2. /\ h.unit <= Decoded /\ syncSource[h.unit] # "empty"
          /\ \A i \in 1 .. Len(syncFile) : syncFile[i] < h.unit
      BY <1>5, <2>1, <2>3
    <3>3. \A i, j \in 1 .. last : i < j => syncFile'[i] < syncFile'[j]
      <4> SUFFICES ASSUME NEW i \in 1 .. last, NEW j \in 1 .. last, i < j
                   PROVE  syncFile'[i] < syncFile'[j]
        OBVIOUS
      <4>1. i \in 1 .. Len(syncFile)
        BY <1>7
      <4>2. CASE j \in 1 .. Len(syncFile)
        BY <2>1, <3>1, <4>1, <4>2
      <4>3. CASE j = last
        BY <3>1, <3>2, <4>1, <4>3
      <4> QED BY <3>1, <4>2, <4>3
    <3>4. \A i \in 1 .. last : syncFile'[i] <= Decoded /\ syncSource[syncFile'[i]] # "empty"
      BY <2>1, <3>1, <3>2
    <3>5. ASSUME NEW j \in 1 .. len - 1, syncReady'[j].unit # 0
          PROVE  /\ syncReady'[j].unit <= Decoded /\ syncSource[syncReady'[j].unit] # "empty"
                 /\ \A i \in 1 .. last : syncFile'[i] < syncReady'[j].unit
                 /\ \A i \in 1 .. len - 1 : i < j => syncReady'[i].unit < syncReady'[j].unit
      <4>1. j + 1 \in 1 .. len /\ syncReady'[j] = syncReady[j + 1] /\ 1 < j + 1 /\ 1 \in 1 .. len
        BY <1>5
      <4>2. h.unit < syncReady'[j].unit
        BY <1>5, <2>1, <3>5, <4>1
      <4>3. \A i \in 1 .. last : syncFile'[i] < syncReady'[j].unit
        <5>1. \A i \in 1 .. Len(syncFile) : syncFile[i] < syncReady'[j].unit
          BY <2>1, <3>5, <4>1
        <5> QED BY <3>1, <4>2, <5>1
      <4>4. \A i \in 1 .. len - 1 : i < j => syncReady'[i].unit < syncReady'[j].unit
        <5> SUFFICES ASSUME NEW i \in 1 .. len - 1, i < j
                     PROVE  syncReady'[i].unit < syncReady'[j].unit
          OBVIOUS
        <5>1. i + 1 \in 1 .. len /\ syncReady'[i] = syncReady[i + 1] /\ i + 1 < j + 1
          BY <1>5
        <5> QED BY <2>1, <3>5, <4>1, <5>1
      <4> QED BY <2>1, <3>5, <4>1, <4>3, <4>4
    <3>6. ASSUME NEW n \in 1 .. Decoded, syncSource[n] # "empty"
          PROVE  \/ \E i \in 1 .. last : syncFile'[i] = n
                 \/ \E j \in 1 .. len - 1 : syncReady'[j].unit = n
      <4>1. CASE \E i \in 1 .. Len(syncFile) : syncFile[i] = n
        <5>1. PICK i \in 1 .. Len(syncFile) : syncFile[i] = n
          BY <4>1
        <5>2. i \in 1 .. last /\ syncFile'[i] = n
          BY <1>7, <3>1, <5>1
        <5> QED BY <5>2
      <4>2. CASE \E j \in 1 .. len : syncReady[j].unit = n
        <5>1. PICK j \in 1 .. len : syncReady[j].unit = n
          BY <4>2
        <5>2. CASE j = 1
          <6>1. last \in 1 .. last /\ syncFile'[last] = n
            BY <1>5, <1>7, <3>1, <5>1, <5>2
          <6> QED BY <6>1
        <5>3. CASE j # 1
          <6>1. j - 1 \in 1 .. len - 1 /\ (j - 1) + 1 = j
            BY <1>5, <5>3
          <6>2. syncReady'[j - 1].unit = n
            BY <1>5, <5>1, <6>1
          <6> QED BY <6>1, <6>2
        <5> QED BY <5>2, <5>3
      <4> QED BY <2>1, <3>6, <4>1, <4>2
    <3> HIDE DEF last
    <3>7. DOMAIN syncFile' = 1 .. last /\ DOMAIN syncReady' = 1 .. len - 1
      BY <1>5, <3>1
    <3>8. Sync!InOrder(syncFile)'
      BY <3>3, <3>7 DEF Sync!InOrder
    <3>9. \A i \in DOMAIN syncFile' : syncFile'[i] <= Decoded' /\ syncSource'[syncFile'[i]] # "empty"
      BY <1>2, <3>4, <3>7
    <3>10. \A j \in DOMAIN syncReady' : syncReady'[j].unit # 0 =>
             /\ syncReady'[j].unit <= Decoded' /\ syncSource'[syncReady'[j].unit] # "empty"
             /\ \A i \in DOMAIN syncFile' : syncFile'[i] < syncReady'[j].unit
             /\ \A i \in DOMAIN syncReady' : i < j => syncReady'[i].unit < syncReady'[j].unit
      BY <1>2, <3>5, <3>7
    <3>11. \A n \in 1 .. Decoded' : syncSource'[n] # "empty" =>
             \/ \E i \in DOMAIN syncFile' : syncFile'[i] = n
             \/ \E j \in DOMAIN syncReady' : syncReady'[j].unit = n
      BY <1>2, <3>6, <3>7
    <3> QED BY <3>8, <3>9, <3>10, <3>11 DEF WrittenInv, Sync!Full
  <2> QED BY <2>2, <2>3
<1>16. h.eos => syncReady' = << >> /\ Decoded' = Len(syncSource)
  <2> SUFFICES ASSUME h.eos PROVE syncReady' = << >> /\ Decoded' = Len(syncSource)
    OBVIOUS
  <2>1. syncReady' = << >>
    BY <1>5, <1>10
  <2>2. ~EosQueuedLast /\ Len(syncPort) = 0
    BY <1>10 DEF EosQueuedLast
  <2>3. Undecoded = 0 /\ syncPos = Len(syncSource)
    BY <1>1, <1>10, <2>2 DEF PortInv
  <2> QED BY <1>2, <1>4, <2>1, <2>3 DEF Decoded
<1> QED BY <1>3, <1>5, <1>13, <1>14, <1>15, <1>16 DEF h

LEMMA PollOutputKeeps ==
  ASSUME Sync!TypeOK, SyncInv, Sync!PollOutput
  PROVE  Sync!TypeOK' /\ SyncInv'
<1>1. /\ syncPc = "output"
      /\ UNCHANGED <<syncFn, syncSource, syncHasTrack, syncPos, syncEosQueued, syncFree, syncPort>>
  BY DEF Sync!PollOutput, Sync!inputs
<1>2. /\ PortInv /\ EosInv /\ WrittenInv /\ syncHasTrack /\ syncFn \notin Sync!Copiers
  BY <1>1, LoopFacts
<1>3. /\ syncFn \in {"extractAudioToPCM", "extractAudioToPCMV2"}
      /\ syncFn = "extractAudioToPCMV2" => syncReady = << >> /\ syncFile = << >>
  BY <1>1, <1>2 DEF Sync!TypeOK, Sync!Functions, SyncInv, StageInv
<1>4. ASSUME Sync!TypeOK', syncPc' = "input", UNCHANGED <<syncLive, syncCaught>>,
             syncFn = "extractAudioToPCM", PortInv', EosInv', WrittenInv'
      PROVE  SyncInv'
  <2>1. StageInv' /\ LiveInv' /\ CopyInv' /\ PollInv'
    BY <1>1, <1>2, <1>4 DEF SyncInv, StageInv, LiveInv, CopyInv, PollInv
  <2>2. ResultRight'
    BY <1>4 DEF ResultRight, Sync!ResultRight, Sync!CompleteUnlessCaught, Sync!LeaksExplained
  <2> QED BY <2>1, <2>2 DEF SyncInv
<1>5. CASE syncReady = << >> /\ syncFn = "extractAudioToPCMV2"
  <2>1. Sync!Finish /\ Stays
    BY <1>1, <1>5 DEF Sync!PollOutput, Stays
  <2>2. syncFile' = << >> /\ Sync!Expected' = {}
    <3>1. syncFile' = syncFile /\ syncFile = << >>
      BY <1>3, <1>5, <2>1 DEF Stays
    <3>2. Sync!Expected' = {}
      BY <1>1, <1>5 DEF Sync!Expected, Sync!Copiers
    <3> QED BY <3>1, <3>2
  <2>3. Sync!Lists(syncFile, Sync!Expected)'
    BY <2>2, NothingListed DEF Sync!Lists, Sync!InOrder
  <2>4. Sync!TypeOK'
    BY <2>1, EndTypes DEF Sync!Finish, Sync!LeftAtEnd, Sync!TypeOK
  <2> QED BY <1>1, <2>1, <2>3, <2>4, FinishKeeps
<1>6. CASE syncReady = << >> /\ syncFn # "extractAudioToPCMV2"
  <2>1. syncPc' = "input" /\ Stays /\ UNCHANGED <<syncLive, syncCaught>>
    BY <1>1, <1>6 DEF Sync!PollOutput, Stays
  <2>2. Sync!TypeOK'
    BY <2>1, EndTypes DEF Sync!TypeOK
  <2>3. PortInv' /\ EosInv' /\ WrittenInv'
    BY <1>2, <2>1, PollStays DEF Stays
  <2> QED BY <1>3, <1>4, <1>6, <2>1, <2>2, <2>3
<1>7. CASE syncReady # << >>
  <2>1. /\ syncReady' = Tail(syncReady)
        /\ syncFile' = (IF Head(syncReady).unit = 0 THEN syncFile
                        ELSE Append(syncFile, Head(syncReady).unit))
        /\ IF Head(syncReady).eos THEN Sync!Finish
           ELSE syncPc' = "input" /\ UNCHANGED <<syncLive, syncCaught>>
    BY <1>7 DEF Sync!PollOutput
  <2>2. /\ syncFile' \in Seq(1 .. Len(syncSource))
        /\ syncReady' \in Seq([unit : 0 .. Len(syncSource), eos : BOOLEAN])
        /\ PortInv' /\ WrittenInv' /\ (~Head(syncReady).eos => EosInv')
        /\ Head(syncReady).eos => syncReady' = << >> /\ Decoded' = Len(syncSource)
    BY <1>1, <1>7, <2>1, BufferWritten
  <2>3. Sync!TypeOK'
    BY <1>1, <2>1, <2>2 DEF Sync!TypeOK, Sync!Finish, Sync!LeftAtEnd
  <2>4. syncFn = "extractAudioToPCM"
    BY <1>3, <1>7
  <2>5. CASE ~Head(syncReady).eos
    BY <1>4, <2>1, <2>2, <2>3, <2>4, <2>5
  <2>6. CASE Head(syncReady).eos
    <3>1. Sync!Expected' = {n \in 1 .. Len(syncSource) : syncSource[n] # "empty"}
      BY <1>1, <1>2, <2>4 DEF Sync!Expected, Sync!Full
    <3>2. /\ \A i \in DOMAIN syncFile' : syncSource[syncFile'[i]] # "empty"
          /\ \A n \in 1 .. Len(syncSource) : syncSource[n] # "empty" =>
               \E i \in DOMAIN syncFile' : syncFile'[i] = n
          /\ \A i, j \in DOMAIN syncFile' : i < j => syncFile'[i] < syncFile'[j]
      <4>1. DOMAIN syncReady' = {} /\ Decoded' = Len(syncSource)
        BY <2>2, <2>6
      <4> QED BY <1>1, <2>2, <4>1 DEF WrittenInv, Sync!InOrder, Sync!Full
    <3>3. \A i \in DOMAIN syncFile' : syncFile'[i] \in 1 .. Len(syncSource)
      BY <2>2, ElementFacts
    <3>4. {syncFile'[i] : i \in DOMAIN syncFile'} = Sync!Expected'
      BY <3>1, <3>2, <3>3
    <3>5. Sync!Lists(syncFile, Sync!Expected)'
      BY <3>2, <3>4 DEF Sync!Lists, Sync!InOrder
    <3> QED BY <1>1, <2>1, <2>3, <2>4, <2>6, <3>5, FinishKeeps
  <2> QED BY <2>5, <2>6
<1> QED BY <1>5, <1>6, <1>7

-----------------------------------------------------------------------------
(* The theorem.                                                            *)

LEMMA SyncInit == Sync!Init => Sync!TypeOK /\ SyncInv
<1> SUFFICES ASSUME Sync!Init PROVE Sync!TypeOK /\ SyncInv
  OBVIOUS
<1>1. Sync!TypeOK
  BY SyncTypeInit
<1>2. StageInv /\ LiveInv /\ CopyInv /\ PollInv
  BY DEF Sync!Init, StageInv, LiveInv, CopyInv, PollInv
<1>3. ResultRight
  BY <1>1
  DEF Sync!Init, ResultRight, Sync!ResultRight, Sync!CompleteUnlessCaught, Sync!LeaksExplained
<1> QED BY <1>1, <1>2, <1>3 DEF SyncInv

LEMMA SyncStep == Sync!TypeOK /\ SyncInv /\ [Sync!Next]_(Sync!vars) => Sync!TypeOK' /\ SyncInv'
<1> SUFFICES ASSUME Sync!TypeOK, SyncInv, [Sync!Next]_(Sync!vars)
             PROVE  Sync!TypeOK' /\ SyncInv'
  OBVIOUS
<1>1. CASE UNCHANGED Sync!vars
  <2>1. Stays /\ UNCHANGED <<syncPc, syncLive, syncCaught>>
    BY <1>1 DEF Sync!vars, Sync!inputs, Sync!codec, Stays
  <2>2. Sync!TypeOK'
    BY <2>1 DEF Sync!TypeOK, Stays
  <2>3. StageInv' /\ LiveInv' /\ CopyInv'
    BY <2>1 DEF SyncInv, StageInv, LiveInv, CopyInv, Stays, Sync!Full
  <2>4. PollInv'
    BY <2>1, PollStays DEF SyncInv, PollInv, Stays
  <2>5. Sync!Lists(syncFile, Sync!Expected) => Sync!Lists(syncFile, Sync!Expected)'
    BY <2>1 DEF Stays, Sync!Lists, Sync!InOrder, Sync!Expected, Sync!Full
  <2>6. ResultRight'
    BY <2>1, <2>2, <2>5
    DEF SyncInv, ResultRight, Sync!ResultRight, Sync!CompleteUnlessCaught, Sync!LeaksExplained, Stays
  <2> QED BY <2>2, <2>3, <2>4, <2>6 DEF SyncInv
<1>2. CASE Sync!Function
  BY <1>2, SyncBeginKeeps, SearchKeeps, SetUpKeeps, CopySampleKeeps, CopyEndsKeep, PollInputKeeps,
     PollOutputKeeps
  DEF Sync!Function
<1>3. CASE Sync!Fault
  BY <1>3, SyncBeginKeeps, SetUpKeeps, CopyEndsKeep DEF Sync!Fault
<1>4. CASE Sync!Decode
  BY <1>4, DecodeKeeps
<1> QED BY <1>1, <1>2, <1>3, <1>4 DEF Sync!Next

\* A blocking extractor that returns without an exception on the way has written every
\* sample it should, once and in order, and what it leaves behind is explained.
THEOREM ExtractionRight == Sync!Spec => []ResultRight
<1>1. Sync!Init => Sync!TypeOK /\ SyncInv
  BY SyncInit
<1>2. Sync!TypeOK /\ SyncInv /\ [Sync!Next]_(Sync!vars) => Sync!TypeOK' /\ SyncInv'
  BY SyncStep
<1>3. SyncInv => ResultRight
  BY DEF SyncInv
<1> QED BY <1>1, <1>2, <1>3, PTL DEF Sync!Spec
=============================================================================
