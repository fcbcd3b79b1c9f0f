------------------------ MODULE CodecPipelineProofs ------------------------
(***************************************************************************)
(* Proofs about CodecPipeline for every number of buffers, every set of    *)
(* sources and every set of faults: types, the safety of the buffers and   *)
(* of the callback's queue, and that the pipeline implements Transcode:    *)
(* whatever the two loops and the codec's callbacks do, the file written   *)
(* grows as a conversion's may and ends as one's may (FlowInv).            *)
(***************************************************************************)
EXTENDS CodecPipeline, WellFoundedInduction, TLAPS

(* The variables keep their types: in particular a read never moves the    *)
(* source past its end and only real units are handed on.                  *)
THEOREM TypeCorrect == Spec => []TypeOK
<1>1. Init => TypeOK
  <2> SUFFICES ASSUME Init PROVE TypeOK
    OBVIOUS
  <2>1. source \in Seq(ReadSizes) BY SourcesAssumption DEF Init
  <2>2. pos \in 0 .. Len(source) BY <2>1 DEF Init
  <2>3. out \in Seq(Nat \ {0}) /\ held \in Seq(Nat \ {0}) /\ handler \in Seq(Event)
        /\ portIn \in Seq(Nat)
    BY DEF Init
  <2> QED BY <2>2, <2>3, BuffersAssumption DEF Init, TypeOK
<1>2. TypeOK /\ [Next]_vars => TypeOK'
  <2> SUFFICES ASSUME TypeOK, [Next]_vars PROVE TypeOK'
    OBVIOUS
  <2> USE DEF TypeOK, callVars, fileVars, codecVars
  <2>0. source \in Seq(ReadSizes)
    BY SourcesAssumption
  <2>1. CASE Unsupported BY <2>1 DEF Unsupported
  <2>2. CASE Start BY <2>2 DEF Start
  <2>3. CASE SetupThrows BY <2>3 DEF SetupThrows
  <2>4. CASE Cancel BY <2>4 DEF Cancel
  <2>5. CASE OfferInput
    <3>1. InputEvent \in Event BY DEF InputEvent, Event, Flags
    <3>2. handler' \in Seq(Event) BY <2>5, <3>1 DEF OfferInput
    <3> QED BY <2>5, <3>2 DEF OfferInput
  <2>6. CASE TakeInput
    <3>1. portIn' \in Seq(Nat) /\ Head(portIn) \in Nat
      <4>1. portIn # << >> /\ portIn' = Tail(portIn) BY <2>6 DEF TakeInput
      <4>2. portIn \in Seq(Nat) OBVIOUS
      <4> QED BY ONLY <4>1, <4>2
    <3>2. CASE portEos \/ Head(portIn) = 0
      <4>1. portEos' = TRUE /\ UNCHANGED <<held, free>> BY <2>6, <3>2 DEF TakeInput
      <4> QED BY <2>6, <3>1, <4>1 DEF TakeInput
    <3>3. CASE ~(portEos \/ Head(portIn) = 0)
      <4>1. held' \in Seq(Nat \ {0})
        <5>1. Head(portIn) \in Nat \ {0} BY <3>1, <3>3
        <5>2. held' = Append(held, Head(portIn)) BY <2>6, <3>3 DEF TakeInput
        <5> QED BY <5>1, <5>2
      <4>2. free' \in Nat BY <2>6, <3>3 DEF TakeInput
      <4> QED BY <2>6, <3>1, <3>3, <4>1, <4>2 DEF TakeInput
    <3> QED BY <3>2, <3>3
  <2>7. CASE PutOut
    <3>1. held' \in Seq(Nat \ {0}) /\ Head(held) \in Nat BY <2>7 DEF PutOut
    <3>2. PICK flags \in {"none"} \union (IF portEos /\ Len(held) = 1 THEN EosFlags ELSE {}) :
            /\ handler' = Append(handler, OutputEvent(Head(held), flags))
            /\ eosSent' = (flags # "none")
      BY <2>7 DEF PutOut
    <3>3. flags \in Flags BY DEF EosFlags, Flags
    <3>4. handler' \in Seq(Event) BY <3>1, <3>2, <3>3 DEF OutputEvent, Event
    <3> QED BY <2>7, <3>1, <3>2, <3>4 DEF PutOut
  <2>8. CASE PutOutEos
    <3>1. PICK flags \in EosFlags : handler' = Append(handler, OutputEvent(0, flags))
      BY <2>8 DEF PutOutEos
    <3>2. flags \in Flags BY DEF EosFlags, Flags
    <3>3. handler' \in Seq(Event) BY <3>1, <3>2 DEF OutputEvent, Event
    <3> QED BY <2>8, <3>3 DEF PutOutEos
  <2>9. CASE CodecFails
    <3>1. handler' \in Seq(Event) BY <2>9 DEF CodecFails, ErrorEvent, Event, Flags
    <3> QED BY <2>9, <3>1 DEF CodecFails
  <2>10. CASE OnInputNull BY <2>10 DEF OnInputNull, Dispatch
  <2>11. CASE OnInputThrows BY <2>11 DEF OnInputThrows, Dispatch
  <2>12. CASE OnInput
    <3>1. handler' \in Seq(Event) BY <2>12 DEF OnInput, Dispatch
    <3>2. PICK unit \in Nat : portIn' = Append(portIn, unit)
      <4>1. CASE pos < Len(source) /\ IsData(kind, source[pos + 1])
        BY <2>12, <4>1 DEF OnInput
      <4>2. CASE ~(pos < Len(source) /\ IsData(kind, source[pos + 1]))
        BY <2>12, <4>2 DEF OnInput
      <4> QED BY <4>1, <4>2
    <3>3. pos' \in 0 .. Len(source) BY <2>0, <2>12 DEF OnInput, Advance
    <3>4. portIn' \in Seq(Nat) BY <3>2
    <3> QED BY <2>12, <3>1, <3>3, <3>4 DEF OnInput
  <2>13. CASE OnOutputNull
    <3>1. handler' \in Seq(Event) BY <2>13 DEF OnOutputNull, Dispatch
    <3>2. dropped' \in Nat BY <2>13 DEF OnOutputNull
    <3> QED BY <2>13, <3>1, <3>2 DEF OnOutputNull
  <2>14. CASE OnOutputThrows BY <2>14 DEF OnOutputThrows, Dispatch
  <2>15. CASE OnOutput
    <3>1. handler' \in Seq(Event) /\ Head(handler) \in Event
      BY <2>15 DEF OnOutput, Dispatch
    <3>2. out' \in Seq(Nat \ {0}) BY <2>15, <3>1 DEF OnOutput, Event
    <3>3. srcOpen' \in BOOLEAN /\ outOpen' \in BOOLEAN BY <2>15 DEF OnOutput
    <3>4. cont' \in {cont, "resumed"} BY <2>15 DEF OnOutput
    <3> QED BY <2>15, <3>1, <3>2, <3>3, <3>4 DEF OnOutput
  <2>16. CASE OnError BY <2>16 DEF OnError, Dispatch
  <2>17. CASE UNCHANGED vars BY <2>17 DEF vars
  <2> QED
    BY <2>1, <2>2, <2>3, <2>4, <2>5, <2>6, <2>7, <2>8, <2>9, <2>10, <2>11, <2>12,
       <2>13, <2>14, <2>15, <2>16, <2>17 DEF Next, Body, Codec, Callback
<1> QED BY <1>1, <1>2, PTL DEF Spec

-----------------------------------------------------------------------------
(* Posting an event and running the first one, as facts about a queue.     *)

LEMMA PostFacts ==
  ASSUME NEW q \in Seq(Event), NEW e \in Event
  PROVE  /\ Append(q, e) \in Seq(Event)
         /\ DOMAIN Append(q, e) = 1 .. Len(q) + 1
         /\ DOMAIN q = 1 .. Len(q)
         /\ Len(q) \in Nat
         /\ \A i \in 1 .. Len(q) : Append(q, e)[i] = q[i]
         /\ Append(q, e)[Len(q) + 1] = e
OBVIOUS

LEMMA RunFacts ==
  ASSUME NEW q \in Seq(Event), q # << >>
  PROVE  /\ Tail(q) \in Seq(Event)
         /\ DOMAIN Tail(q) = 1 .. Len(q) - 1
         /\ DOMAIN q = 1 .. Len(q)
         /\ Len(q) \in Nat \ {0}
         /\ \A i \in 1 .. Len(q) - 1 : Tail(q)[i] = q[i + 1]
         /\ Head(q) = q[1]
OBVIOUS

(* Taking a message off the queue keeps what EosIsLast says of the queue.  *)
LEMMA DispatchKeeps ==
  ASSUME TypeOK, EosIsLast, NEW k, Dispatch(k), eosSent' = eosSent,
         stage' = stage, srcOpen' = srcOpen, outOpen' = outOpen,
         portEos' = portEos, held' = held, crash' # "closed"
  PROVE  EosIsLast'
<1>1. handler \in Seq(Event) /\ handler # << >> /\ handler' = Tail(handler)
  BY DEF TypeOK, Dispatch
<1>2. stage = "started" BY <1>1 DEF EosIsLast
<1>3. ASSUME NEW i \in DOMAIN handler'
      PROVE  /\ i \in 1 .. Len(handler) - 1
             /\ i + 1 \in DOMAIN handler
             /\ handler'[i] = handler[i + 1]
  BY <1>1, <1>3, RunFacts
<1>4. \A i \in DOMAIN handler' : handler'[i].flags # "none" =>
        eosSent' /\ \A j \in DOMAIN handler' : i < j => handler'[j].kind = "error"
  BY <1>3 DEF EosIsLast
<1>5. ~outOpen => \A i \in DOMAIN handler' : handler'[i].kind = "error"
  BY <1>2, <1>3 DEF EosIsLast
<1> QED BY <1>2, <1>4, <1>5 DEF EosIsLast, NoUseAfterClose

(* The same for posting a message while no end of stream has been posted.  *)
LEMMA PostKeeps ==
  ASSUME TypeOK, EosIsLast, NEW e \in Event, handler' = Append(handler, e),
         stage = "started", stage' = stage, srcOpen' = srcOpen, outOpen' = outOpen,
         crash' = crash, portEos' = portEos,
         eosSent => e.kind = "error" /\ e.flags = "none" /\ held' = held,
         eosSent \/ e.flags # "none" => eosSent',
         eosSent' => eosSent \/ e.flags # "none",
         e.flags # "none" => portEos /\ held' = << >>
  PROVE  EosIsLast'
<1>1. handler \in Seq(Event) BY DEF TypeOK
<1>2. DOMAIN handler' = 1 .. Len(handler) + 1 /\ DOMAIN handler = 1 .. Len(handler)
      /\ Len(handler) \in Nat
  BY <1>1, PostFacts
<1>3. \A i \in DOMAIN handler : handler'[i] = handler[i]
  BY <1>1, PostFacts
<1>4. handler'[Len(handler) + 1] = e
  BY <1>1, PostFacts
<1>5. ASSUME NEW i \in DOMAIN handler', handler'[i].flags # "none"
      PROVE  eosSent' /\ \A j \in DOMAIN handler' : i < j => handler'[j].kind = "error"
  <2>1. CASE i = Len(handler) + 1 BY <1>2, <1>4, <1>5, <2>1
  <2>2. CASE i \in DOMAIN handler BY <1>2, <1>3, <1>4, <1>5, <2>2 DEF EosIsLast
  <2> QED BY <1>2, <1>5, <2>1, <2>2
<1>6. ~outOpen' => eosSent' /\ \A i \in DOMAIN handler' : handler'[i].kind = "error"
  BY <1>2, <1>3, <1>4 DEF EosIsLast
<1> QED BY <1>5, <1>6 DEF EosIsLast, NoUseAfterClose

(* Inductiveness of EosIsLast.                                             *)
LEMMA EosIsLastStep == TypeOK /\ EosIsLast /\ [Next]_vars => EosIsLast'
<1> SUFFICES ASSUME TypeOK, EosIsLast, [Next]_vars PROVE EosIsLast'
  OBVIOUS
<1> USE DEF callVars, fileVars, codecVars
<1>1. CASE Unsupported
  BY <1>1 DEF Unsupported, EosIsLast, NoUseAfterClose
<1>2. CASE Start
  BY <1>2 DEF Start, EosIsLast, NoUseAfterClose
<1>3. CASE SetupThrows
  BY <1>3 DEF SetupThrows, EosIsLast, NoUseAfterClose
<1>4. CASE Cancel
  BY <1>4 DEF Cancel, EosIsLast, NoUseAfterClose
<1>5. CASE OfferInput
  <2>1. InputEvent \in Event /\ InputEvent.flags = "none" BY DEF InputEvent, Event, Flags
  <2>2. ~eosSent BY <1>5 DEF OfferInput, EosIsLast
  <2> QED BY <1>5, <2>1, <2>2, PostKeeps DEF OfferInput, Running, TypeOK
<1>6. CASE TakeInput
  BY <1>6 DEF TakeInput, EosIsLast, NoUseAfterClose
<1>7. CASE PutOut
  <2>1. PICK flags \in {"none"} \union (IF portEos /\ Len(held) = 1 THEN EosFlags ELSE {}) :
          /\ handler' = Append(handler, OutputEvent(Head(held), flags))
          /\ eosSent' = (flags # "none")
    BY <1>7 DEF PutOut
  <2>2. held \in Seq(Nat \ {0}) /\ held # << >> /\ held' = Tail(held) /\ Head(held) \in Nat
    BY <1>7 DEF PutOut, TypeOK
  <2>3. flags \in Flags BY DEF EosFlags, Flags
  <2> DEFINE e == OutputEvent(Head(held), flags)
  <2>4. e \in Event /\ e.flags = flags /\ e.kind = "output"
    BY <2>2, <2>3 DEF OutputEvent, Event
  <2>5. ~eosSent BY <2>2 DEF EosIsLast
  <2>6. flags # "none" => portEos /\ held' = << >>
    BY <2>2
  <2> HIDE DEF e
  <2>7. handler' = Append(handler, e) BY <2>1 DEF e
  <2> QED BY <1>7, <2>1, <2>4, <2>5, <2>6, <2>7, PostKeeps DEF PutOut, Running, TypeOK
<1>8. CASE PutOutEos
  <2>1. PICK flags \in EosFlags : handler' = Append(handler, OutputEvent(0, flags))
    BY <1>8 DEF PutOutEos
  <2>2. flags \in Flags /\ flags # "none" BY DEF EosFlags, Flags
  <2> DEFINE e == OutputEvent(0, flags)
  <2>3. e \in Event /\ e.flags = flags BY <2>2 DEF OutputEvent, Event
  <2> HIDE DEF e
  <2>4. handler' = Append(handler, e) BY <2>1 DEF e
  <2> QED BY <1>8, <2>2, <2>3, <2>4, PostKeeps DEF PutOutEos, Running
<1>9. CASE CodecFails
  <2>1. ErrorEvent \in Event /\ ErrorEvent.flags = "none" /\ ErrorEvent.kind = "error"
    BY DEF ErrorEvent, Event, Flags
  <2> QED BY <1>9, <2>1, PostKeeps DEF CodecFails, Running, TypeOK
<1>10. CASE OnInputNull
  BY <1>10, DispatchKeeps DEF OnInputNull, EosIsLast, NoUseAfterClose
<1>11. CASE OnInputThrows
  <2>1. srcOpen
    <3>1. handler # << >> /\ Head(handler).kind = "input" BY <1>11 DEF OnInputThrows, Dispatch
    <3>2. Head(handler) = handler[1] /\ 1 \in DOMAIN handler
      BY <3>1, RunFacts DEF TypeOK
    <3> QED BY <3>1, <3>2 DEF EosIsLast
  <2> QED BY <1>11, <2>1, DispatchKeeps DEF OnInputThrows
<1>12. CASE OnInput
  BY <1>12, DispatchKeeps DEF OnInput, EosIsLast, NoUseAfterClose
<1>13. CASE OnOutputNull
  BY <1>13, DispatchKeeps DEF OnOutputNull, EosIsLast, NoUseAfterClose
<1>14. CASE OnOutputThrows
  <2>1. outOpen
    <3>1. handler # << >> /\ Head(handler).kind = "output" BY <1>14 DEF OnOutputThrows, Dispatch
    <3>2. Head(handler) = handler[1] /\ 1 \in DOMAIN handler
      BY <3>1, RunFacts DEF TypeOK
    <3> QED BY <3>1, <3>2 DEF EosIsLast
  <2> QED BY <1>14, <2>1, DispatchKeeps DEF OnOutputThrows
<1>15. CASE OnOutput
  <2>1. CASE Head(handler).flags # "eos"
    BY <1>15, <2>1, DispatchKeeps DEF OnOutput, EosIsLast, NoUseAfterClose
  <2>2. CASE Head(handler).flags = "eos"
    <3>1. handler \in Seq(Event) /\ handler # << >> /\ handler' = Tail(handler)
      BY <1>15 DEF OnOutput, Dispatch, TypeOK
    <3>2. Head(handler) = handler[1] /\ 1 \in DOMAIN handler BY <3>1, RunFacts
    <3>3. eosSent /\ \A j \in DOMAIN handler : 1 < j => handler[j].kind = "error"
      BY <2>2, <3>2 DEF EosIsLast
    <3>4. ASSUME NEW i \in DOMAIN handler'
          PROVE  i + 1 \in DOMAIN handler /\ 1 < i + 1 /\ handler'[i] = handler[i + 1]
      BY <3>1, <3>4, RunFacts
    <3>5. \A i \in DOMAIN handler' : handler'[i].kind = "error" BY <3>3, <3>4
    <3>6. stage = "started" BY <3>1 DEF EosIsLast
    <3>7. \A i \in DOMAIN handler' : handler'[i].flags # "none" => 
            eosSent' /\ \A j \in DOMAIN handler' : i < j => handler'[j].kind = "error"
      BY <1>15, <3>3, <3>5 DEF OnOutput
    <3> QED BY <1>15, <2>2, <3>3, <3>5, <3>6, <3>7 DEF OnOutput, EosIsLast, NoUseAfterClose
  <2> QED BY <2>1, <2>2
<1>16. CASE OnError
  BY <1>16, DispatchKeeps DEF OnError, EosIsLast, NoUseAfterClose
<1>17. CASE UNCHANGED vars
  BY <1>17 DEF vars, EosIsLast, NoUseAfterClose
<1> QED
  BY <1>1, <1>2, <1>3, <1>4, <1>5, <1>6, <1>7, <1>8, <1>9, <1>10, <1>11, <1>12,
     <1>13, <1>14, <1>15, <1>16, <1>17 DEF Next, Body, Codec, Callback

(* No callback reads the source or writes the file after the end of stream *)
(* closed them, whatever the codec, the sources and the faults.            *)
THEOREM NeverUsedAfterClose == Spec => []NoUseAfterClose
<1>1. Init => EosIsLast
  BY DEF Init, EosIsLast, NoUseAfterClose
<1>2. EosIsLast => NoUseAfterClose
  BY DEF EosIsLast
<1> QED BY <1>1, <1>2, EosIsLastStep, TypeCorrect, PTL DEF Spec

-----------------------------------------------------------------------------
(* The order of units.  The lemmas say what moving the first element of a  *)
(* queue does to the order of the queues; 0 stands for no unit.            *)

LEMMA UnitsFacts ==
  ASSUME NEW q \in Seq(Event)
  PROVE  /\ Units(q) \in Seq(Nat)
         /\ \A e \in Event : Units(Append(q, e)) = Append(Units(q), e.unit)
         /\ q # << >> => /\ Units(q) # << >>
                         /\ Units(Tail(q)) = Tail(Units(q))
                         /\ Head(q).unit = Head(Units(q))
<1>1. Units(q) \in Seq(Nat) /\ Len(Units(q)) = Len(q)
  <2>1. DOMAIN q = 1 .. Len(q) /\ Len(q) \in Nat
    OBVIOUS
  <2>2. ASSUME NEW i \in 1 .. Len(q) PROVE q[i].unit \in Nat
    <3>1. q[i] \in Event OBVIOUS
    <3> QED BY <3>1 DEF Event
  <2>3. Units(q) = [i \in 1 .. Len(q) |-> q[i].unit]
    BY <2>1 DEF Units
  <2> QED BY <2>1, <2>2, <2>3
<1>2. ASSUME NEW e \in Event PROVE Units(Append(q, e)) = Append(Units(q), e.unit)
  <2>1. Append(q, e) \in Seq(Event) /\ Append(Units(q), e.unit) \in Seq(Nat)
    BY <1>1 DEF Event
  <2>2. DOMAIN Units(Append(q, e)) = DOMAIN Append(Units(q), e.unit)
    BY <1>1 DEF Units
  <2>3. \A i \in 1 .. Len(q) + 1 : Append(q, e)[i].unit = Append(Units(q), e.unit)[i]
    BY <1>1 DEF Units
  <2> QED BY <1>1, <2>1, <2>2, <2>3 DEF Units
<1>3. ASSUME q # << >>
      PROVE  /\ Units(q) # << >>
             /\ Units(Tail(q)) = Tail(Units(q))
             /\ Head(q).unit = Head(Units(q))
  <2>1. Units(q) # << >> /\ Head(q).unit = Head(Units(q)) BY <1>1, <1>3 DEF Units
  <2>2. DOMAIN Units(Tail(q)) = 1 .. Len(q) - 1 /\ DOMAIN Tail(Units(q)) = 1 .. Len(q) - 1
    BY <1>1, <1>3 DEF Units
  <2>3. \A i \in 1 .. Len(q) - 1 : Units(Tail(q))[i] = Tail(Units(q))[i]
    BY <1>1, <1>3 DEF Units
  <2> QED BY <1>1, <1>3, <2>1, <2>2, <2>3 DEF Units
<1> QED BY <1>1, <1>2, <1>3

\* Adding a unit above everything, or no unit, to a queue.
LEMMA AddFacts ==
  ASSUME NEW s \in Seq(Nat), NEW x \in Nat
  PROVE  /\ Rising(s) /\ Before(s, <<x>>) => Rising(Append(s, x))
         /\ \A t \in Seq(Nat) : Before(t, s) /\ Before(t, <<x>>) => Before(t, Append(s, x))
         /\ \A t \in Seq(Nat) : Before(s, t) /\ Before(<<x>>, t) => Before(Append(s, x), t)
         /\ \A n \in Nat : AtMost(s, n) /\ x <= n => AtMost(Append(s, x), n)
<1> DEFINE a == Append(s, x)
<1>1. /\ Len(s) \in Nat /\ DOMAIN s = 1 .. Len(s) /\ DOMAIN a = 1 .. Len(s) + 1
      /\ DOMAIN <<x>> = {1} /\ <<x>>[1] = x /\ a[Len(s) + 1] = x
      /\ \A i \in 1 .. Len(s) : a[i] = s[i]
  OBVIOUS
<1> HIDE DEF a
<1>2. ASSUME NEW i \in DOMAIN a
      PROVE  \/ i \in DOMAIN s /\ a[i] = s[i]
             \/ i = Len(s) + 1 /\ a[i] = x
  BY <1>1
<1>3. Rising(s) /\ Before(s, <<x>>) => Rising(a)
  <2> SUFFICES ASSUME Rising(s), Before(s, <<x>>), NEW i \in DOMAIN a, NEW j \in DOMAIN a,
                      i < j, a[i] # 0, a[j] # 0
               PROVE  a[i] < a[j]
    BY DEF Rising
  <2>1. i \in DOMAIN s /\ a[i] = s[i] BY <1>1, <1>2
  <2>2. CASE j \in DOMAIN s /\ a[j] = s[j] BY <2>1, <2>2 DEF Rising
  <2>3. CASE a[j] = x BY <1>1, <2>1, <2>3 DEF Before
  <2> QED BY <1>2, <2>2, <2>3
<1>4. ASSUME NEW t \in Seq(Nat), Before(t, s), Before(t, <<x>>) PROVE Before(t, a)
  <2> SUFFICES ASSUME NEW i \in DOMAIN t, NEW j \in DOMAIN a, t[i] # 0, a[j] # 0
               PROVE  t[i] < a[j]
    BY DEF Before
  <2>1. CASE j \in DOMAIN s /\ a[j] = s[j] BY <1>4, <2>1 DEF Before
  <2>2. CASE a[j] = x BY <1>1, <1>4, <2>2 DEF Before
  <2> QED BY <1>2, <2>1, <2>2
<1>5. ASSUME NEW t \in Seq(Nat), Before(s, t), Before(<<x>>, t) PROVE Before(a, t)
  <2> SUFFICES ASSUME NEW i \in DOMAIN a, NEW j \in DOMAIN t, a[i] # 0, t[j] # 0
               PROVE  a[i] < t[j]
    BY DEF Before
  <2>1. CASE i \in DOMAIN s /\ a[i] = s[i] BY <1>5, <2>1 DEF Before
  <2>2. CASE a[i] = x BY <1>1, <1>5, <2>2 DEF Before
  <2> QED BY <1>2, <2>1, <2>2
<1>6. ASSUME NEW n \in Nat, AtMost(s, n), x <= n PROVE AtMost(a, n)
  BY <1>2, <1>6 DEF AtMost
<1> QED BY <1>3, <1>4, <1>5, <1>6 DEF a

\* Dropping the first element of a queue.
LEMMA DropFacts ==
  ASSUME NEW s \in Seq(Nat), s # << >>
  PROVE  /\ Tail(s) \in Seq(Nat) /\ Head(s) \in Nat
         /\ Rising(s) => Rising(Tail(s)) /\ Before(<<Head(s)>>, Tail(s))
         /\ \A t \in Seq(Nat) : Before(t, s) => Before(t, Tail(s)) /\ Before(t, <<Head(s)>>)
         /\ \A t \in Seq(Nat) : Before(s, t) => Before(Tail(s), t) /\ Before(<<Head(s)>>, t)
         /\ \A n \in Nat : AtMost(s, n) => AtMost(Tail(s), n) /\ Head(s) <= n
<1> DEFINE r == Tail(s)
           x == Head(s)
<1>1. /\ r \in Seq(Nat) /\ x \in Nat /\ x = s[1]
      /\ Len(s) \in Nat \ {0} /\ DOMAIN s = 1 .. Len(s) /\ DOMAIN r = 1 .. Len(s) - 1
      /\ DOMAIN <<x>> = {1} /\ <<x>>[1] = x
      /\ \A i \in 1 .. Len(s) - 1 : r[i] = s[i + 1]
  OBVIOUS
<1> HIDE DEF r, x
<1>2. ASSUME NEW i \in DOMAIN r
      PROVE  i \in Nat /\ 1 < i + 1 /\ i + 1 \in DOMAIN s /\ r[i] = s[i + 1]
  <2>1. i \in 1 .. Len(s) - 1
    BY <1>1
  <2>2. i \in Nat /\ 1 < i + 1 /\ i + 1 \in 1 .. Len(s)
    <3>1. Len(s) \in Nat
      BY <1>1
    <3> QED BY ONLY <2>1, <3>1
  <2> QED BY <1>1, <2>1, <2>2
<1>3. 1 \in DOMAIN s BY <1>1
<1>4. ASSUME Rising(s) PROVE Rising(r) /\ Before(<<x>>, r)
  <2>1. ASSUME NEW i \in DOMAIN r, NEW j \in DOMAIN r, i < j, r[i] # 0, r[j] # 0
        PROVE  r[i] < r[j]
    <3>1. i + 1 < j + 1 BY <1>2, <2>1
    <3> QED BY <1>2, <1>4, <2>1, <3>1 DEF Rising
  <2>2. ASSUME NEW j \in DOMAIN r, x # 0, r[j] # 0 PROVE x < r[j]
    BY <1>1, <1>2, <1>3, <1>4, <2>2 DEF Rising
  <2> QED BY <1>1, <2>1, <2>2 DEF Rising, Before
<1>5. ASSUME NEW t \in Seq(Nat), Before(t, s) PROVE Before(t, r) /\ Before(t, <<x>>)
  BY <1>1, <1>2, <1>3, <1>5 DEF Before
<1>6. ASSUME NEW t \in Seq(Nat), Before(s, t) PROVE Before(r, t) /\ Before(<<x>>, t)
  BY <1>1, <1>2, <1>3, <1>6 DEF Before
<1>7. ASSUME NEW n \in Nat, AtMost(s, n) PROVE AtMost(r, n) /\ x <= n
  BY <1>1, <1>2, <1>3, <1>7 DEF AtMost
<1> QED BY <1>1, <1>4, <1>5, <1>6, <1>7 DEF r, x

\* The queues as sequences of numbers.
LEMMA QueueTypes ==
  ASSUME TypeOK
  PROVE  /\ out \in Seq(Nat) /\ held \in Seq(Nat) /\ portIn \in Seq(Nat)
         /\ handler \in Seq(Event) /\ Units(handler) \in Seq(Nat)
         /\ pos \in Nat
<1>1. source \in Seq(ReadSizes) BY SourcesAssumption DEF TypeOK
<1>2. handler \in Seq(Event) BY DEF TypeOK
<1> QED BY <1>1, <1>2, UnitsFacts DEF TypeOK

LEMMA DispatchOrdered ==
  ASSUME TypeOK, UnitsInOrder, NEW k, Dispatch(k),
         out' = out, held' = held, portIn' = portIn, pos' = pos
  PROVE  UnitsInOrder'
<1> DEFINE h == Units(handler)
<1>1. handler # << >> /\ handler' = Tail(handler) BY DEF Dispatch
<1>2. h \in Seq(Nat) /\ h # << >> /\ Units(handler') = Tail(h)
  BY <1>1, UnitsFacts, QueueTypes
<1>3. /\ Rising(Tail(h)) /\ Before(out, Tail(h)) /\ Before(Tail(h), held)
      /\ Before(Tail(h), portIn) /\ AtMost(Tail(h), pos)
  <2>1. /\ Rising(h) /\ Before(out, h) /\ Before(h, held) /\ Before(h, portIn)
        /\ AtMost(h, pos)
    BY DEF UnitsInOrder
  <2> HIDE DEF h
  <2> QED BY <1>2, <2>1, DropFacts, QueueTypes
<1> HIDE DEF h
<1> QED BY <1>2, <1>3 DEF UnitsInOrder

LEMMA PostOrdered ==
  ASSUME TypeOK, UnitsInOrder, NEW e \in Event, handler' = Append(handler, e),
         e.unit = 0, out' = out, held' = held, portIn' = portIn, pos' = pos
  PROVE  UnitsInOrder'
<1> DEFINE h == Units(handler)
<1>1. h \in Seq(Nat) /\ Units(handler') = Append(h, 0)
  BY UnitsFacts, QueueTypes
<1>2. /\ Rising(h) /\ Before(out, h) /\ Before(h, held) /\ Before(h, portIn)
      /\ AtMost(h, pos)
  BY DEF UnitsInOrder
<1> HIDE DEF h
<1>3. \A t \in Seq(Nat) : Before(t, <<0>>) /\ Before(<<0>>, t)
  BY DEF Before
<1>4. /\ Rising(Append(h, 0)) /\ Before(out, Append(h, 0)) /\ Before(Append(h, 0), held)
      /\ Before(Append(h, 0), portIn) /\ AtMost(Append(h, 0), pos)
  <2>1. Before(h, <<0>>) /\ Before(out, <<0>>) /\ Before(<<0>>, held) /\ Before(<<0>>, portIn)
    BY <1>1, <1>3, QueueTypes
  <2>2. pos \in Nat /\ 0 <= pos
    BY QueueTypes
  <2>3. /\ Rising(h) /\ Before(h, <<0>>) => Rising(Append(h, 0))
        /\ \A t \in Seq(Nat) : Before(t, h) /\ Before(t, <<0>>) => Before(t, Append(h, 0))
        /\ \A t \in Seq(Nat) : Before(h, t) /\ Before(<<0>>, t) => Before(Append(h, 0), t)
        /\ \A n \in Nat : AtMost(h, n) /\ 0 <= n => AtMost(Append(h, 0), n)
    BY ONLY <1>1, 0 \in Nat, AddFacts
  <2>4. out \in Seq(Nat) /\ held \in Seq(Nat) /\ portIn \in Seq(Nat)
    BY QueueTypes
  <2>5. Rising(Append(h, 0)) /\ AtMost(Append(h, 0), pos)
    BY ONLY <1>2, <2>1, <2>2, <2>3
  <2>6. Before(out, Append(h, 0)) /\ Before(Append(h, 0), held) /\ Before(Append(h, 0), portIn)
    BY ONLY <1>2, <2>1, <2>3, <2>4
  <2> QED BY <2>5, <2>6
<1> QED BY <1>1, <1>4 DEF UnitsInOrder

(* Inductiveness of UnitsInOrder.                                          *)
LEMMA UnitsInOrderStep == TypeOK /\ UnitsInOrder /\ [Next]_vars => UnitsInOrder'
<1> SUFFICES ASSUME TypeOK, UnitsInOrder, [Next]_vars PROVE UnitsInOrder'
  OBVIOUS
<1> USE DEF callVars, fileVars, codecVars
<1>0. /\ out \in Seq(Nat) /\ held \in Seq(Nat) /\ portIn \in Seq(Nat)
      /\ handler \in Seq(Event) /\ Units(handler) \in Seq(Nat) /\ pos \in Nat
  BY QueueTypes
<1>1. ASSUME UNCHANGED <<out, handler, held, portIn, pos>> PROVE UnitsInOrder'
  BY <1>1 DEF UnitsInOrder
<1>2. CASE OfferInput
  <2>1. InputEvent \in Event /\ InputEvent.unit = 0 BY DEF InputEvent, Event, Flags
  <2> QED BY <1>2, <2>1, PostOrdered DEF OfferInput
<1>3. CASE TakeInput
  <2>1. portIn # << >> /\ portIn' = Tail(portIn) BY <1>3 DEF TakeInput
  <2>2. /\ Rising(portIn') /\ Before(out, portIn') /\ Before(Units(handler), portIn')
        /\ Before(held, portIn') /\ AtMost(portIn', pos)
    BY <1>0, <2>1, DropFacts DEF UnitsInOrder
  <2>3. CASE portEos \/ Head(portIn) = 0
    BY <1>3, <2>2, <2>3 DEF TakeInput, UnitsInOrder
  <2>4. CASE ~(portEos \/ Head(portIn) = 0)
    <3>1. held' = Append(held, Head(portIn)) BY <1>3, <2>4 DEF TakeInput
    <3>2. /\ Head(portIn) \in Nat /\ Head(portIn) <= pos
          /\ Before(out, <<Head(portIn)>>) /\ Before(Units(handler), <<Head(portIn)>>)
          /\ Before(held, <<Head(portIn)>>) /\ Before(<<Head(portIn)>>, portIn')
      BY <1>0, <2>1, DropFacts DEF UnitsInOrder
    <3>3. /\ Rising(held') /\ Before(out, held') /\ Before(Units(handler), held')
          /\ AtMost(held', pos)
      BY <1>0, <3>1, <3>2, AddFacts DEF UnitsInOrder
    <3>4. Before(held', portIn')
      <4>1. portIn' \in Seq(Nat) BY <1>0, <2>1
      <4> QED BY <1>0, <2>2, <3>1, <3>2, <4>1, AddFacts
    <3> QED BY <1>3, <2>2, <3>3, <3>4 DEF TakeInput, UnitsInOrder
  <2> QED BY <2>3, <2>4
<1>4. CASE PutOut
  <2> DEFINE h == Units(handler)
             x == Head(held)
  <2>1. held # << >> /\ held' = Tail(held) BY <1>4 DEF PutOut
  <2>2. PICK flags \in Flags : handler' = Append(handler, OutputEvent(x, flags))
    BY <1>4 DEF PutOut, EosFlags, Flags
  <2>3. /\ x \in Nat /\ x <= pos /\ Tail(held) \in Seq(Nat) /\ Rising(held')
        /\ Before(out, held') /\ Before(h, held') /\ Before(held', portIn)
        /\ AtMost(held', pos)
        /\ Before(out, <<x>>) /\ Before(h, <<x>>) /\ Before(<<x>>, held')
        /\ Before(<<x>>, portIn)
    BY <1>0, <2>1, DropFacts DEF UnitsInOrder
  <2>4. OutputEvent(x, flags) \in Event /\ OutputEvent(x, flags).unit = x
    BY <2>3 DEF OutputEvent, Event
  <2>5. Units(handler') = Append(h, x)
    BY <1>0, <2>2, <2>4, UnitsFacts
  <2>6. /\ Rising(h) /\ Before(out, h) /\ Before(h, portIn) /\ AtMost(h, pos)
    BY DEF UnitsInOrder
  <2> HIDE DEF h, x
  <2>7. h \in Seq(Nat) BY <1>0 DEF h
  <2>8. /\ Rising(Append(h, x)) /\ Before(out, Append(h, x))
        /\ Before(Append(h, x), portIn) /\ AtMost(Append(h, x), pos)
    BY <1>0, <2>3, <2>6, <2>7, AddFacts
  <2>9. Before(Append(h, x), held')
    BY <2>1, <2>3, <2>7, AddFacts
  <2> QED BY <1>4, <2>3, <2>5, <2>8, <2>9 DEF PutOut, UnitsInOrder
<1>5. CASE PutOutEos
  <2>1. PICK flags \in Flags : handler' = Append(handler, OutputEvent(0, flags))
    BY <1>5 DEF PutOutEos, EosFlags, Flags
  <2>2. OutputEvent(0, flags) \in Event /\ OutputEvent(0, flags).unit = 0
    BY DEF OutputEvent, Event
  <2> QED BY <1>5, <2>1, <2>2, PostOrdered DEF PutOutEos
<1>6. CASE CodecFails
  <2>1. ErrorEvent \in Event /\ ErrorEvent.unit = 0 BY DEF ErrorEvent, Event, Flags
  <2> QED BY <1>6, <2>1, PostOrdered DEF CodecFails
<1>7. CASE OnInputNull BY <1>7, DispatchOrdered DEF OnInputNull
<1>8. CASE OnInputThrows BY <1>8, DispatchOrdered DEF OnInputThrows
<1>9. CASE OnInput
  <2> DEFINE h == Units(handler')
  <2>1. handler # << >> /\ handler' = Tail(handler) BY <1>9 DEF OnInput, Dispatch
  <2>2. Units(handler) # << >> /\ h = Tail(Units(handler)) BY <1>0, <2>1, UnitsFacts
  <2>3. /\ h \in Seq(Nat) /\ Rising(h) /\ Before(out, h) /\ Before(h, held)
        /\ Before(h, portIn) /\ AtMost(h, pos)
    BY <1>0, <2>2, DropFacts DEF UnitsInOrder
  <2>4. PICK x \in Nat : /\ portIn' = Append(portIn, x)
                         /\ \/ x = 0 /\ pos' \in {pos, pos + 1}
                            \/ x = pos + 1 /\ pos' = pos + 1
    <3>1. CASE pos < Len(source) /\ IsData(kind, source[pos + 1])
      BY <1>0, <1>9, <3>1 DEF OnInput, Advance
    <3>2. CASE pos < Len(source) /\ ~IsData(kind, source[pos + 1])
      BY <1>0, <1>9, <3>2 DEF OnInput, Advance
    <3>3. CASE ~(pos < Len(source))
      BY <1>0, <1>9, <3>3 DEF OnInput
    <3> QED BY <3>1, <3>2, <3>3
  <2> HIDE DEF h
  <2>5. \A t \in Seq(Nat) : AtMost(t, pos) => Before(t, <<x>>) /\ AtMost(t, pos')
    <3>1. pos \in Nat /\ pos' \in Nat /\ pos <= pos' /\ (x = 0 \/ pos < x)
      BY <1>0, <2>4
    <3> QED BY <3>1 DEF AtMost, Before
  <2>6. /\ Rising(portIn') /\ Before(out, portIn') /\ Before(h, portIn')
        /\ Before(held, portIn')
    BY <1>0, <2>3, <2>4, <2>5, AddFacts DEF UnitsInOrder
  <2>7. AtMost(portIn', pos')
    <3>1. pos' \in Nat /\ x <= pos' BY <1>0, <2>4
    <3>2. AtMost(portIn, pos') BY <1>0, <2>5 DEF UnitsInOrder
    <3> QED BY <1>0, <2>4, <3>1, <3>2, AddFacts
  <2>8. AtMost(out, pos') /\ AtMost(held, pos') /\ AtMost(h, pos')
    BY <1>0, <2>3, <2>5 DEF UnitsInOrder
  <2>9. out' = out /\ held' = held BY <1>9 DEF OnInput
  <2> QED BY <2>3, <2>6, <2>7, <2>8, <2>9 DEF UnitsInOrder, h
<1>10. CASE OnOutputNull BY <1>10, DispatchOrdered DEF OnOutputNull
<1>11. CASE OnOutputThrows BY <1>11, DispatchOrdered DEF OnOutputThrows
<1>12. CASE OnOutput
  <2>1. CASE Head(handler).unit = 0
    BY <1>12, <2>1, DispatchOrdered DEF OnOutput
  <2>2. CASE Head(handler).unit # 0
    <3> DEFINE h == Units(handler)
               x == Head(h)
    <3>1. handler # << >> /\ handler' = Tail(handler) BY <1>12 DEF OnOutput, Dispatch
    <3>2. h # << >> /\ Units(handler') = Tail(h) /\ x = Head(handler).unit
      BY <1>0, <3>1, UnitsFacts
    <3>3. out' = Append(out, x) BY <1>12, <2>2, <3>2 DEF OnOutput
    <3>4. /\ Rising(h) /\ Before(out, h) /\ Before(h, held) /\ Before(h, portIn)
          /\ AtMost(h, pos) /\ h \in Seq(Nat)
      BY <1>0 DEF UnitsInOrder
    <3> HIDE DEF h
    <3>5. /\ x \in Nat /\ x <= pos /\ Tail(h) \in Seq(Nat) /\ Rising(Tail(h))
          /\ Before(out, Tail(h)) /\ Before(Tail(h), held) /\ Before(Tail(h), portIn)
          /\ AtMost(Tail(h), pos) /\ Before(out, <<x>>) /\ Before(<<x>>, Tail(h))
          /\ Before(<<x>>, held) /\ Before(<<x>>, portIn)
      BY <1>0, <3>2, <3>4, DropFacts
    <3> HIDE DEF x
    <3>6. /\ Rising(out') /\ Before(out', Tail(h)) /\ Before(out', held)
          /\ Before(out', portIn) /\ AtMost(out', pos)
      BY <1>0, <3>3, <3>5, AddFacts DEF UnitsInOrder
    <3>7. held' = held /\ portIn' = portIn /\ pos' = pos BY <1>12 DEF OnOutput
    <3> QED BY <3>2, <3>5, <3>6, <3>7 DEF UnitsInOrder
  <2> QED BY <2>1, <2>2
<1>13. CASE OnError BY <1>13, DispatchOrdered DEF OnError
<1>14. CASE Body \/ Cancel
  BY <1>1, <1>14 DEF Body, Cancel, Unsupported, Start, SetupThrows
<1>15. CASE UNCHANGED vars
  BY <1>1, <1>15 DEF vars
<1> QED
  BY <1>2, <1>3, <1>4, <1>5, <1>6, <1>7, <1>8, <1>9, <1>10, <1>11, <1>12, <1>13,
     <1>14, <1>15 DEF Next, Body, Codec, Callback

(* The inductive invariant the run checks, whole.                          *)
THEOREM Invariance == Spec => []IInv
<1>1. Init => EosIsLast /\ UnitsInOrder
  BY DEF Init, EosIsLast, NoUseAfterClose, UnitsInOrder, Rising, Before, AtMost, Units
<1>2. TypeOK /\ EosIsLast /\ UnitsInOrder => IInv
  BY DEF IInv
<1> QED BY <1>1, <1>2, EosIsLastStep, UnitsInOrderStep, TypeCorrect, PTL DEF Spec

-----------------------------------------------------------------------------
(* The refinement of Transcode.                                            *)

\* Every nonempty set of natural numbers has a least element.
LEMMA Least ==
  ASSUME NEW T \in SUBSET Nat, T # {}
  PROVE  \E n \in T : \A m \in T : n <= m
<1> DEFINE R == {p \in Nat \X Nat : p[1] < p[2]}
<1>1. IsWellFoundedOn(R, Nat)
  BY NatLessThanWellFounded DEF OpToRel
<1>2. PICK n \in T : \A m \in T : <<m, n>> \notin R
  BY <1>1, WFMin
<1>3. \A m \in T : ~(m < n)
  BY <1>2
<1> QED BY <1>3

\* n reads of s are data, and no further one is.
Ends(k, s, n) ==
  /\ \A i \in 1 .. n : IsData(k, s[i])
  /\ n < Len(s) => ~IsData(k, s[n + 1])

\* Deliverable is the one such n.
LEMMA DeliverableEnds ==
  ASSUME NEW k, NEW s \in Seq(ReadSizes)
  PROVE  /\ Deliverable(<<k, s>>) \in 0 .. Len(s)
         /\ Ends(k, s, Deliverable(<<k, s>>))
         /\ \A n \in 0 .. Len(s) : Ends(k, s, n) => n = Deliverable(<<k, s>>)
<1>1. Len(s) \in Nat
  OBVIOUS
<1>2. \E n \in 0 .. Len(s) : Ends(k, s, n)
  <2> DEFINE T == {n \in 0 .. Len(s) : n < Len(s) => ~IsData(k, s[n + 1])}
  <2>1. T \in SUBSET Nat /\ Len(s) \in T
    BY <1>1
  <2>2. PICK n \in T : \A m \in T : n <= m
    <3> HIDE DEF T
    <3> QED BY ONLY <2>1, Least
  <2>3. ASSUME NEW i \in 1 .. n PROVE IsData(k, s[i])
    <3>1. n \in 0 .. Len(s)
      OBVIOUS
    <3>2. i - 1 \in 0 .. Len(s) /\ i - 1 < n /\ (i - 1) + 1 = i
      BY <1>1, <3>1
    <3>3. i - 1 \notin T
      <4> HIDE DEF T
      <4> QED BY ONLY <2>2, <3>1, <3>2, <1>1
    <3> QED BY <3>2, <3>3
  <2> QED BY <2>2, <2>3 DEF Ends
<1>3. ASSUME NEW n \in 0 .. Len(s), NEW m \in 0 .. Len(s), Ends(k, s, n), Ends(k, s, m), n < m
      PROVE  FALSE
  <2>1. n < Len(s) /\ n + 1 \in 1 .. m
    BY <1>1, <1>3
  <2> QED BY <1>3, <2>1 DEF Ends
<1>4. \A n, m \in 0 .. Len(s) : Ends(k, s, n) /\ Ends(k, s, m) => n = m
  BY <1>1, <1>3
<1>5. Deliverable(<<k, s>>) = CHOOSE n \in 0 .. Len(s) : Ends(k, s, n)
  BY DEF Deliverable, Ends
<1> QED BY <1>2, <1>4, <1>5

\* So what was read before any end of stream can still be delivered.
LEMMA ReadAtMostDeliverable ==
  ASSUME NEW k, NEW s \in Seq(ReadSizes), NEW n \in 0 .. Len(s),
         \A i \in 1 .. n : IsData(k, s[i])
  PROVE  /\ n <= Deliverable(<<k, s>>)
         /\ n < Len(s) /\ ~IsData(k, s[n + 1]) => n = Deliverable(<<k, s>>)
         /\ n = Len(s) => n = Deliverable(<<k, s>>)
<1> DEFINE d == Deliverable(<<k, s>>)
<1>1. d \in 0 .. Len(s) /\ Ends(k, s, d) /\ Len(s) \in Nat
  BY DeliverableEnds
<1>2. \A m \in 0 .. Len(s) : Ends(k, s, m) => m = d
  BY DeliverableEnds
<1> HIDE DEF d
<1>3. n <= d
  <2> SUFFICES ASSUME d < n PROVE FALSE
    BY <1>1
  <2>1. d < Len(s) /\ d + 1 \in 1 .. n
    BY <1>1
  <2> QED BY <1>1, <2>1 DEF Ends
<1>4. n < Len(s) /\ ~IsData(k, s[n + 1]) => Ends(k, s, n)
  BY DEF Ends
<1> QED BY <1>1, <1>2, <1>3, <1>4 DEF d

(* Where the units are.  A unit queued to the codec is usable if no end of *)
(* stream was queued before it; the others the codec drops.                *)
In(s, u) == \E i \in DOMAIN s : s[i] = u
Ahead(s, u) == \E i \in DOMAIN s : s[i] = u /\ \A j \in 1 .. i : s[j] # 0
Usable(u) == ~portEos /\ Ahead(portIn, u)
Flowing(u) == In(Units(handler), u) \/ In(held, u) \/ Usable(u)

EosQueued == portEos \/ In(portIn, 0)
Done == Len(out) + dropped
Last == IF EosQueued THEN Deliverable(<<kind, source>>) ELSE pos

\* The units on their way are exactly those after the last one put out and up to the
\* last one that will be: what was read so far, or, once an end of stream was queued,
\* all there is to deliver.
FlowIs == \A u \in Nat \ {0} : Flowing(u) <=> Done < u /\ u <= Last

FlowInv ==
  /\ stage # "started" => Done = 0
  /\ ~EosQueued => \A i \in 1 .. pos : IsData(kind, source[i])
  /\ Done <= Last
  /\ crash = "none" => FlowIs
  /\ \A i \in DOMAIN handler : handler[i].kind # "output" => handler[i].unit = 0

LEMMA InAppend ==
  ASSUME NEW s \in Seq(Nat), NEW x \in Nat, NEW u
  PROVE  In(Append(s, x), u) <=> In(s, u) \/ u = x
<1> DEFINE a == Append(s, x)
<1>1. /\ Len(s) \in Nat /\ DOMAIN s = 1 .. Len(s) /\ DOMAIN a = 1 .. Len(s) + 1
      /\ a[Len(s) + 1] = x /\ \A i \in 1 .. Len(s) : a[i] = s[i]
  OBVIOUS
<1> HIDE DEF a
<1>2. ASSUME NEW i \in DOMAIN a PROVE (i \in DOMAIN s /\ a[i] = s[i]) \/ a[i] = x
  BY <1>1
<1>3. Len(s) + 1 \in DOMAIN a /\ \A i \in DOMAIN s : i \in DOMAIN a /\ a[i] = s[i]
  BY <1>1
<1> QED BY <1>1, <1>2, <1>3 DEF In, a

LEMMA InTail ==
  ASSUME NEW s \in Seq(Nat), s # << >>, NEW u
  PROVE  In(s, u) <=> u = Head(s) \/ In(Tail(s), u)
<1> DEFINE r == Tail(s)
           x == Head(s)
<1>1. /\ x = s[1] /\ Len(s) \in Nat \ {0}
      /\ DOMAIN s = 1 .. Len(s) /\ DOMAIN r = 1 .. Len(s) - 1
      /\ \A i \in 1 .. Len(s) - 1 : r[i] = s[i + 1]
  OBVIOUS
<1> HIDE DEF r, x
<1>2. ASSUME NEW i \in DOMAIN s PROVE s[i] = x \/ (i - 1 \in DOMAIN r /\ r[i - 1] = s[i])
  <2>1. CASE i = 1 BY <1>1, <2>1
  <2>2. CASE i # 1
    <3>1. i - 1 \in 1 .. Len(s) - 1 /\ (i - 1) + 1 = i BY <1>1, <2>2
    <3> QED BY <1>1, <3>1
  <2> QED BY <2>1, <2>2
<1>3. ASSUME NEW i \in DOMAIN r PROVE i + 1 \in DOMAIN s /\ s[i + 1] = r[i]
  BY <1>1
<1>4. 1 \in DOMAIN s BY <1>1
<1> QED BY <1>1, <1>2, <1>3, <1>4 DEF In, r, x

LEMMA AheadAppend ==
  ASSUME NEW s \in Seq(Nat), NEW x \in Nat, NEW u \in Nat \ {0}
  PROVE  Ahead(Append(s, x), u) <=> Ahead(s, u) \/ (u = x /\ ~In(s, 0))
<1> DEFINE a == Append(s, x)
<1>1. /\ Len(s) \in Nat /\ DOMAIN s = 1 .. Len(s) /\ DOMAIN a = 1 .. Len(s) + 1
      /\ a[Len(s) + 1] = x /\ \A i \in 1 .. Len(s) : a[i] = s[i]
  OBVIOUS
<1> HIDE DEF a
<1>2. ASSUME NEW i \in DOMAIN s
      PROVE  /\ i \in DOMAIN a /\ a[i] = s[i]
             /\ (\A j \in 1 .. i : a[j] # 0) <=> (\A j \in 1 .. i : s[j] # 0)
  <2>1. \A j \in 1 .. i : j \in 1 .. Len(s) BY <1>1
  <2>2. \A j \in 1 .. i : a[j] = s[j] BY <1>1, <2>1
  <2> QED BY <1>1, <2>2
<1>3. ASSUME NEW i \in DOMAIN a, i \notin DOMAIN s PROVE i = Len(s) + 1
  <2>1. Len(s) \in Nat /\ i \in 1 .. Len(s) + 1 /\ i \notin 1 .. Len(s)
    BY <1>1, <1>3
  <2> QED BY ONLY <2>1
<1>4. ASSUME \A j \in 1 .. Len(s) + 1 : a[j] # 0 PROVE ~In(s, 0)
  BY <1>1, <1>4 DEF In
<1>5. ASSUME ~In(s, 0), u = x
      PROVE  Len(s) + 1 \in DOMAIN a /\ \A j \in 1 .. Len(s) + 1 : a[j] # 0
  <2>1. ASSUME NEW j \in 1 .. Len(s) + 1 PROVE a[j] # 0
    <3>1. CASE j = Len(s) + 1 BY <1>1, <1>5, <3>1
    <3>2. CASE j \in 1 .. Len(s) BY <1>1, <1>5, <3>2 DEF In
    <3> QED BY <1>1, <3>1, <3>2
  <2> QED BY <1>1, <2>1
<1>6. Ahead(a, u) => Ahead(s, u) \/ (u = x /\ ~In(s, 0))
  BY <1>1, <1>2, <1>3, <1>4 DEF Ahead
<1>7. Ahead(s, u) \/ (u = x /\ ~In(s, 0)) => Ahead(a, u)
  BY <1>1, <1>2, <1>5 DEF Ahead
<1> QED BY <1>6, <1>7 DEF a

LEMMA AheadTail ==
  ASSUME NEW s \in Seq(Nat), s # << >>, NEW u
  PROVE  Ahead(s, u) <=> Head(s) # 0 /\ (u = Head(s) \/ Ahead(Tail(s), u))
<1> DEFINE r == Tail(s)
           x == Head(s)
<1>1. /\ x = s[1] /\ Len(s) \in Nat \ {0}
      /\ DOMAIN s = 1 .. Len(s) /\ DOMAIN r = 1 .. Len(s) - 1
      /\ \A i \in 1 .. Len(s) - 1 : r[i] = s[i + 1]
  OBVIOUS
<1> HIDE DEF r, x
<1>2. ASSUME NEW i \in DOMAIN r, x # 0, \A j \in 1 .. i : r[j] # 0
      PROVE  \A j \in 1 .. i + 1 : s[j] # 0
  <2> SUFFICES ASSUME NEW j \in 1 .. i + 1 PROVE s[j] # 0
    OBVIOUS
  <2>1. CASE j = 1 BY <1>1, <1>2, <2>1
  <2>2. CASE j # 1
    <3>1. j - 1 \in 1 .. i /\ j - 1 \in 1 .. Len(s) - 1 /\ (j - 1) + 1 = j
      BY <1>1, <2>2
    <3> QED BY <1>1, <1>2, <3>1
  <2> QED BY <2>1, <2>2
<1>3. ASSUME NEW i \in DOMAIN s, i # 1, \A j \in 1 .. i : s[j] # 0
      PROVE  i - 1 \in DOMAIN r /\ r[i - 1] = s[i] /\ \A j \in 1 .. i - 1 : r[j] # 0
  <2>1. i - 1 \in 1 .. Len(s) - 1 /\ (i - 1) + 1 = i BY <1>1, <1>3
  <2>2. ASSUME NEW j \in 1 .. i - 1 PROVE r[j] # 0
    <3>1. j + 1 \in 1 .. i /\ j \in 1 .. Len(s) - 1 BY <1>1, <2>2
    <3> QED BY <1>1, <1>3, <3>1
  <2> QED BY <1>1, <2>1, <2>2
<1>4. ASSUME NEW i \in DOMAIN r PROVE i + 1 \in DOMAIN s /\ s[i + 1] = r[i]
  BY <1>1
<1>5. Ahead(s, u) => x # 0 /\ (u = x \/ Ahead(r, u))
  <2> SUFFICES ASSUME NEW i \in DOMAIN s, s[i] = u, \A j \in 1 .. i : s[j] # 0
               PROVE  x # 0 /\ (u = x \/ Ahead(r, u))
    BY DEF Ahead
  <2>1. 1 \in 1 .. i BY <1>1
  <2>2. x # 0 BY <1>1, <2>1
  <2>3. CASE i = 1 BY <1>1, <2>2, <2>3
  <2>4. CASE i # 1 BY <1>3, <2>2, <2>4 DEF Ahead
  <2> QED BY <2>3, <2>4
<1>6. x # 0 /\ u = x => Ahead(s, u)
  <2>1. 1 \in DOMAIN s /\ \A j \in 1 .. 1 : j = 1 BY <1>1
  <2> QED BY <1>1, <2>1 DEF Ahead
<1>7. x # 0 /\ Ahead(r, u) => Ahead(s, u)
  BY <1>2, <1>4 DEF Ahead
<1> QED BY <1>5, <1>6, <1>7 DEF r, x

LEMMA DoneType == TypeOK => Done \in Nat
<1> SUFFICES ASSUME TypeOK PROVE Done \in Nat
  OBVIOUS
<1>1. Len(out) \in Nat /\ dropped \in Nat BY DEF TypeOK
<1> QED BY <1>1 DEF Done

\* Last never exceeds what there is to deliver.
LEMMA LastAtMost ==
  ASSUME TypeOK, FlowInv
  PROVE  /\ Deliverable(<<kind, source>>) \in Nat /\ Last \in Nat
         /\ Last <= Deliverable(<<kind, source>>)
<1>1. source \in Seq(ReadSizes) /\ pos \in 0 .. Len(source)
  BY SourcesAssumption DEF TypeOK
<1>2. Deliverable(<<kind, source>>) \in 0 .. Len(source) /\ Len(source) \in Nat
  BY <1>1, DeliverableEnds
<1>3. CASE EosQueued
  BY <1>2, <1>3 DEF Last
<1>4. CASE ~EosQueued
  <2>1. pos <= Deliverable(<<kind, source>>)
    BY <1>1, <1>4, ReadAtMostDeliverable DEF FlowInv
  <2> QED BY <1>1, <1>2, <1>4, <2>1 DEF Last
<1> QED BY <1>3, <1>4

LEMMA InBefore ==
  ASSUME NEW x, NEW t, Before(<<x>>, t), NEW v, In(t, v), x # 0, v # 0
  PROVE  x < v
<1>1. 1 \in DOMAIN <<x>> /\ <<x>>[1] = x
  OBVIOUS
<1> QED BY <1>1 DEF Before, In

\* The unit of the first message, if it has one, is the one after the last one put out,
\* and the rest of the units on their way come after it.
LEMMA FirstUnit ==
  ASSUME TypeOK, UnitsInOrder, FlowIs, handler # << >>, Head(handler).unit # 0
  PROVE  /\ Head(handler).unit = Done + 1
         /\ Done + 1 <= Last
         /\ \A v \in Nat \ {0} :
              In(Tail(Units(handler)), v) \/ In(held, v) \/ Usable(v)
                <=> Done + 1 < v /\ v <= Last
<1> DEFINE h == Units(handler)
           u == Head(h)
<1>1. h \in Seq(Nat) /\ h # << >> /\ u = Head(handler).unit
  BY QueueTypes, UnitsFacts
<1>2. /\ Rising(h) /\ Before(h, held) /\ Before(h, portIn)
      /\ held \in Seq(Nat) /\ portIn \in Seq(Nat)
  BY QueueTypes DEF UnitsInOrder
<1>3. \A v : In(h, v) <=> v = u \/ In(Tail(h), v)
  <2> HIDE DEF h
  <2> QED BY <1>1, InTail
<1>4. u \in Nat /\ Before(<<u>>, Tail(h)) /\ Before(<<u>>, held) /\ Before(<<u>>, portIn)
  <2> HIDE DEF h
  <2> QED BY <1>1, <1>2, DropFacts
<1>5. \A v : Usable(v) => In(portIn, v)
  BY DEF Usable, Ahead, In
<1> HIDE DEF u
<1>6. u \in Nat \ {0}
  BY <1>1, <1>4
<1>7. \A v \in Nat \ {0} : In(Tail(h), v) \/ In(held, v) \/ Usable(v) => u < v
  BY ONLY <1>4, <1>5, <1>6, InBefore
<1>8. \A v \in Nat \ {0} : v = u \/ (In(Tail(h), v) \/ In(held, v) \/ Usable(v))
                            <=> Done < v /\ v <= Last
  BY <1>3 DEF FlowIs, Flowing
<1>9. Done \in Nat
  BY DoneType
<1>10. Done < u /\ u <= Last
  BY <1>6, <1>8
<1> DEFINE Rest(v) == In(Tail(h), v) \/ In(held, v) \/ Usable(v)
<1>11. \A v \in Nat \ {0} : Rest(v) => u < v
  BY <1>7
<1>12. \A v \in Nat \ {0} : v = u \/ Rest(v) <=> Done < v /\ v <= Last
  BY <1>8
<1>13. Last \in Int
  <2>1. source \in Seq(ReadSizes) BY SourcesAssumption DEF TypeOK
  <2>2. Deliverable(<<kind, source>>) \in 0 .. Len(source) BY <2>1, DeliverableEnds
  <2> QED BY <2>1, <2>2 DEF Last, TypeOK
<1> HIDE DEF Rest, h
<1>14. u = Done + 1
  <2>1. Done + 1 \in Nat \ {0} /\ Done < Done + 1 /\ Done + 1 <= Last
    BY ONLY <1>6, <1>9, <1>10, <1>13
  <2>2. Done + 1 = u \/ u < Done + 1
    BY ONLY <1>11, <1>12, <2>1
  <2> QED BY ONLY <1>6, <1>9, <1>10, <2>2
<1>15. \A v \in Nat \ {0} : Rest(v) <=> Done + 1 < v /\ v <= Last
  BY ONLY <1>9, <1>11, <1>12, <1>13, <1>14
<1> QED BY <1>1, <1>10, <1>14, <1>15 DEF Rest, h

\* A message that carries no unit, posted or run, changes nothing of this.
LEMMA PostFlow ==
  ASSUME TypeOK, NEW e \in Event, handler' = Append(handler, e), e.unit = 0,
         NEW u \in Nat \ {0}
  PROVE  In(Units(handler'), u) <=> In(Units(handler), u)
<1>1. Units(handler') = Append(Units(handler), 0) /\ Units(handler) \in Seq(Nat)
  BY QueueTypes, UnitsFacts
<1> QED BY <1>1, InAppend

LEMMA RunFlow ==
  ASSUME TypeOK, handler # << >>, handler' = Tail(handler), Head(handler).unit = 0,
         NEW u \in Nat \ {0}
  PROVE  In(Units(handler'), u) <=> In(Units(handler), u)
<1> DEFINE h == Units(handler)
<1>1. Units(handler') = Tail(h) /\ h \in Seq(Nat) /\ h # << >> /\ Head(h) = 0
  BY QueueTypes, UnitsFacts
<1> HIDE DEF h
<1>2. In(h, u) <=> u = Head(h) \/ In(Tail(h), u)
  BY <1>1, InTail
<1> QED BY <1>1, <1>2 DEF h

\* What keeps FlowInv when no unit is put out and the reads stay where they are.
LEMMA SameFlow ==
  ASSUME TypeOK, FlowInv, out' = out, dropped' = dropped, pos' = pos,
         kind' = kind, source' = source, EosQueued' = EosQueued,
         stage' = "started" \/ stage' = stage \/ stage = "called",
         crash' = "none" => crash = "none",
         crash' = "none" => \A u \in Nat \ {0} : Flowing(u)' <=> Flowing(u),
         \A i \in DOMAIN handler' : handler'[i].kind # "output" => handler'[i].unit = 0
  PROVE  FlowInv'
<1>1. Done' = Done /\ Last' = Last
  BY DEF Done, Last
<1>2. crash' = "none" => FlowIs'
  BY <1>1 DEF FlowInv, FlowIs
<1> QED BY <1>1, <1>2 DEF FlowInv

\* The messages but outputs still carry no unit.
LEMMA PostBare ==
  ASSUME TypeOK, FlowInv, NEW e \in Event, handler' = Append(handler, e),
         e.kind # "output" => e.unit = 0
  PROVE  \A i \in DOMAIN handler' : handler'[i].kind # "output" => handler'[i].unit = 0
<1>1. handler \in Seq(Event)
  BY DEF TypeOK
<1>2. /\ DOMAIN handler' = 1 .. Len(handler) + 1 /\ DOMAIN handler = 1 .. Len(handler)
      /\ Len(handler) \in Nat /\ handler'[Len(handler) + 1] = e
      /\ \A i \in 1 .. Len(handler) : handler'[i] = handler[i]
  BY <1>1, PostFacts
<1> SUFFICES ASSUME NEW i \in DOMAIN handler', handler'[i].kind # "output"
             PROVE  handler'[i].unit = 0
  OBVIOUS
<1>3. CASE i \in 1 .. Len(handler)
  BY <1>2, <1>3 DEF FlowInv
<1>4. CASE i \notin 1 .. Len(handler)
  <2>1. Len(handler) \in Nat /\ i \in 1 .. Len(handler) + 1
    BY <1>2
  <2>2. i = Len(handler) + 1
    BY ONLY <1>4, <2>1
  <2> QED BY <1>2, <2>2
<1> QED BY <1>3, <1>4

LEMMA RunBare ==
  ASSUME TypeOK, FlowInv, handler # << >>, handler' = Tail(handler)
  PROVE  /\ \A i \in DOMAIN handler' : handler'[i].kind # "output" => handler'[i].unit = 0
         /\ Head(handler).kind # "output" => Head(handler).unit = 0
         /\ stage = "started" \/ ~EosIsLast
<1>1. handler \in Seq(Event)
  BY DEF TypeOK
<1>2. /\ DOMAIN handler' = 1 .. Len(handler) - 1 /\ DOMAIN handler = 1 .. Len(handler)
      /\ Len(handler) \in Nat \ {0} /\ Head(handler) = handler[1]
      /\ \A i \in 1 .. Len(handler) - 1 : handler'[i] = handler[i + 1]
  BY <1>1, RunFacts
<1>3. \A i \in DOMAIN handler' : i + 1 \in DOMAIN handler /\ handler'[i] = handler[i + 1]
  BY <1>2
<1>4. 1 \in DOMAIN handler
  BY <1>2
<1> QED BY <1>2, <1>3, <1>4 DEF FlowInv, EosIsLast

\* A unit is put out, to the file or to nowhere.
LEMMA PutsOne ==
  ASSUME TypeOK, UnitsInOrder, FlowInv, crash = "none", crash' = "none", stage = "started",
         handler # << >>, handler' = Tail(handler), Head(handler).unit # 0,
         Done' = Done + 1, stage' = stage, pos' = pos, kind' = kind, source' = source,
         portEos' = portEos, portIn' = portIn, held' = held
  PROVE  FlowInv'
<1> DEFINE h == Units(handler)
<1>1. FlowIs /\ Done \in Nat /\ Last \in Nat
  BY DoneType, LastAtMost DEF FlowInv
<1>2. /\ Done + 1 <= Last
      /\ \A v \in Nat \ {0} :
           In(Tail(h), v) \/ In(held, v) \/ Usable(v) <=> Done + 1 < v /\ v <= Last
  BY <1>1, FirstUnit
<1>3. Units(handler') = Tail(h)
  BY QueueTypes, UnitsFacts
<1>4. EosQueued' = EosQueued /\ Last' = Last
  <2>1. EosQueued' = EosQueued BY DEF EosQueued
  <2> QED BY <2>1 DEF Last
<1> HIDE DEF h
<1>5. \A v : Flowing(v)' <=> In(Tail(h), v) \/ In(held, v) \/ Usable(v)
  BY <1>3 DEF Flowing, Usable
<1>6. FlowIs'
  BY <1>2, <1>4, <1>5 DEF FlowIs
<1> QED BY <1>1, <1>2, <1>4, <1>6, RunBare DEF FlowInv, EosQueued

\* The codec takes what was queued first: a unit it then holds, or what ends its input.
LEMMA TakeFlow ==
  ASSUME TypeOK, FlowInv, TakeInput
  PROVE  FlowInv'
<1> USE DEF callVars, fileVars, codecVars
<1>1. /\ portIn \in Seq(Nat) /\ held \in Seq(Nat)
      /\ portIn # << >> /\ portIn' = Tail(portIn)
  BY QueueTypes DEF TakeInput
<1>2. /\ \A u : In(portIn, u) <=> u = Head(portIn) \/ In(portIn', u)
      /\ \A u : Ahead(portIn, u) <=> Head(portIn) # 0 /\ (u = Head(portIn) \/ Ahead(portIn', u))
  BY <1>1, InTail, AheadTail
<1>3. /\ UNCHANGED <<out, dropped, pos, kind, source, stage, crash, handler>>
      /\ \A i \in DOMAIN handler : handler[i].kind # "output" => handler[i].unit = 0
  BY DEF TakeInput, FlowInv
<1>4. CASE portEos \/ Head(portIn) = 0
  <2>1. portEos' = TRUE /\ held' = held
    BY <1>4 DEF TakeInput
  <2>2. EosQueued /\ EosQueued'
    BY <1>2, <1>4, <2>1 DEF EosQueued
  <2>3. EosQueued' = EosQueued
    BY <2>2 DEF EosQueued
  <2>4. \A u : ~Usable(u) /\ ~Usable(u)'
    BY <1>2, <1>4, <2>1 DEF Usable
  <2>5. \A u \in Nat \ {0} : Flowing(u)' <=> Flowing(u)
    BY <1>3, <2>1, <2>4 DEF Flowing
  <2> QED BY <1>3, <2>3, <2>5, SameFlow
<1>5. CASE ~portEos /\ Head(portIn) # 0
  <2>1. portEos' = portEos /\ held' = Append(held, Head(portIn)) /\ Head(portIn) \in Nat
    BY <1>1, <1>5 DEF TakeInput
  <2>2. EosQueued' <=> EosQueued
    BY <1>2, <1>5, <2>1 DEF EosQueued
  <2>3. EosQueued' = EosQueued
    BY <2>2 DEF EosQueued
  <2>4. \A u : In(held', u) <=> In(held, u) \/ u = Head(portIn)
    BY <1>1, <2>1, InAppend
  <2>5. \A u : Usable(u) <=> u = Head(portIn) \/ Usable(u)'
    BY <1>2, <1>5, <2>1 DEF Usable
  <2>6. \A u \in Nat \ {0} : Flowing(u)' <=> Flowing(u)
    BY <1>3, <2>4, <2>5 DEF Flowing
  <2> QED BY <1>3, <2>3, <2>6, SameFlow
<1> QED BY <1>4, <1>5

\* An output: the first unit held goes into a message.
LEMMA PutOutFlow ==
  ASSUME TypeOK, FlowInv, PutOut
  PROVE  FlowInv'
<1> USE DEF callVars, fileVars, codecVars
<1> DEFINE x == Head(held)
<1>1. held \in Seq(Nat) /\ held # << >> /\ held' = Tail(held) /\ x \in Nat
  BY QueueTypes DEF PutOut
<1>2. PICK flags \in Flags : handler' = Append(handler, OutputEvent(x, flags))
  BY DEF PutOut, EosFlags, Flags
<1>3. /\ OutputEvent(x, flags) \in Event /\ OutputEvent(x, flags).unit = x
      /\ OutputEvent(x, flags).kind = "output"
  BY <1>1 DEF OutputEvent, Event
<1>4. \A u : In(held, u) <=> u = x \/ In(held', u)
  BY <1>1, InTail
<1>5. \A u : In(Units(handler'), u) <=> In(Units(handler), u) \/ u = x
  <2>1. Units(handler') = Append(Units(handler), x) /\ Units(handler) \in Seq(Nat)
    BY <1>2, <1>3, QueueTypes, UnitsFacts
  <2> HIDE DEF x
  <2> QED BY <1>1, <2>1, InAppend
<1> HIDE DEF x
<1>6. \A i \in DOMAIN handler' : handler'[i].kind # "output" => handler'[i].unit = 0
  BY <1>2, <1>3, PostBare
<1>7. /\ UNCHANGED <<out, dropped, pos, kind, source, stage, crash, portEos, portIn>>
  BY DEF PutOut
<1>8. EosQueued' = EosQueued /\ \A u : Usable(u)' <=> Usable(u)
  BY <1>7 DEF EosQueued, Usable
<1>9. \A u \in Nat \ {0} : Flowing(u)' <=> Flowing(u)
  BY <1>4, <1>5, <1>8 DEF Flowing
<1> QED BY <1>6, <1>7, <1>8, <1>9, SameFlow

\* A read: a unit is queued, or an end of stream that fixes what is to be delivered.
LEMMA InputFlow ==
  ASSUME TypeOK, EosIsLast, FlowInv, OnInput
  PROVE  FlowInv'
<1> USE DEF callVars, fileVars, codecVars
<1>1. /\ portIn \in Seq(Nat) /\ handler # << >> /\ handler' = Tail(handler)
      /\ crash = "none" /\ Head(handler).kind = "input" /\ pos \in Nat
  BY QueueTypes DEF OnInput, Dispatch
<1>2. /\ Head(handler).unit = 0 /\ stage = "started"
      /\ \A i \in DOMAIN handler' : handler'[i].kind # "output" => handler'[i].unit = 0
  BY <1>1, RunBare
<1>3. \A u \in Nat \ {0} : In(Units(handler'), u) <=> In(Units(handler), u)
  BY <1>1, <1>2, RunFlow
<1>4. UNCHANGED <<out, dropped, kind, source, stage, crash, portEos, held>>
  BY DEF OnInput
<1> DEFINE d == Deliverable(<<kind, source>>)
<1>5. source \in Seq(ReadSizes) /\ pos \in 0 .. Len(source) /\ Len(source) \in Nat
  BY SourcesAssumption DEF TypeOK
<1>6. PICK x \in Nat :
        /\ portIn' = Append(portIn, x)
        /\ \/ /\ x = 0
              /\ pos < Len(source) => ~IsData(kind, source[pos + 1])
           \/ x = pos + 1 /\ pos' = pos + 1 /\ pos < Len(source) /\ IsData(kind, source[pos + 1])
  <2>1. CASE pos < Len(source) /\ IsData(kind, source[pos + 1])
    BY <1>1, <2>1 DEF OnInput, Advance
  <2>2. CASE pos < Len(source) /\ ~IsData(kind, source[pos + 1])
    BY <1>1, <2>2 DEF OnInput, Advance
  <2>3. CASE ~(pos < Len(source))
    BY <1>1, <2>3 DEF OnInput
  <2> QED BY <2>1, <2>2, <2>3
<1>7. \A u : In(portIn', u) <=> In(portIn, u) \/ u = x
  BY <1>1, <1>6, InAppend
<1>8. \A u \in Nat \ {0} : Ahead(portIn', u) <=> Ahead(portIn, u) \/ (u = x /\ ~In(portIn, 0))
  BY <1>1, <1>6, AheadAppend
<1>9. Done' = Done /\ Done \in Nat /\ Last \in Nat /\ Done <= Last /\ FlowIs /\ d' = d
  BY <1>1, <1>4, DoneType, LastAtMost DEF Done, FlowInv
<1>10. CASE EosQueued
  <2>1. EosQueued' /\ Last' = Last
    <3>1. EosQueued'
      BY <1>4, <1>7, <1>10 DEF EosQueued
    <3> QED BY <1>4, <1>10, <3>1 DEF Last
  <2>2. \A u \in Nat \ {0} : Usable(u)' <=> Usable(u)
    BY <1>4, <1>8, <1>10 DEF Usable, EosQueued
  <2>3. \A u \in Nat \ {0} : Flowing(u)' <=> Flowing(u)
    BY <1>3, <1>4, <2>2 DEF Flowing
  <2>4. FlowIs'
    BY <1>9, <2>1, <2>3 DEF FlowIs
  <2> QED BY <1>2, <1>4, <1>9, <2>1, <2>4 DEF FlowInv
<1>11. CASE ~EosQueued /\ x # 0
  <2>1. ~EosQueued' /\ Last' = pos + 1 /\ Last = pos /\ x = pos + 1 /\ pos' = pos + 1
    <3>1. ~EosQueued'
      BY <1>4, <1>7, <1>11 DEF EosQueued
    <3> QED BY <1>6, <1>11, <3>1 DEF Last
  <2>2. \A u \in Nat \ {0} : Usable(u)' <=> Usable(u) \/ u = pos + 1
    BY <1>4, <1>8, <1>11, <2>1 DEF Usable, EosQueued
  <2>3. \A u \in Nat \ {0} : Flowing(u)' <=> Flowing(u) \/ u = pos + 1
    BY <1>3, <1>4, <2>2 DEF Flowing
  <2>4. \A u \in Nat \ {0} : Flowing(u)' <=> Done < u /\ u <= pos + 1
    <3>1. \A u \in Nat \ {0} : Flowing(u) <=> Done < u /\ u <= pos
      BY <1>9, <2>1 DEF FlowIs
    <3>2. Done <= pos
      BY <1>9, <2>1
    <3> QED BY <1>1, <1>9, <2>3, <3>1, <3>2
  <2>5. FlowIs' /\ Done' <= Last'
    BY <1>1, <1>9, <2>1, <2>4 DEF FlowIs
  <2>6. \A i \in 1 .. pos' : IsData(kind', source'[i])
    <3>1. \A i \in 1 .. pos : IsData(kind, source[i])
      BY <1>11 DEF FlowInv
    <3>2. IsData(kind, source[pos + 1])
      BY <1>6, <1>11
    <3>3. \A i \in 1 .. pos + 1 : i \in 1 .. pos \/ i = pos + 1
      BY <1>1
    <3> QED BY <1>4, <2>1, <3>1, <3>2, <3>3
  <2> QED BY <1>2, <1>4, <2>5, <2>6 DEF FlowInv
<1>12. CASE ~EosQueued /\ x = 0
  <2>1. pos = d
    <3>1. \A i \in 1 .. pos : IsData(kind, source[i])
      BY <1>12 DEF FlowInv
    <3>2. CASE pos < Len(source)
      <4>1. ~IsData(kind, source[pos + 1])
        BY <1>1, <1>6, <1>12, <3>2
      <4> QED BY <1>5, <3>1, <3>2, <4>1, ReadAtMostDeliverable
    <3>3. CASE ~(pos < Len(source))
      <4>1. pos = Len(source)
        BY <1>5, <3>3
      <4> QED BY <1>5, <3>1, <4>1, ReadAtMostDeliverable
    <3> QED BY <3>2, <3>3
  <2> HIDE DEF d
  <2>2. EosQueued' /\ Last' = Last
    <3>1. EosQueued'
      BY <1>4, <1>7, <1>12 DEF EosQueued
    <3>2. Last = pos
      BY <1>12 DEF Last
    <3>3. Last' = d'
      BY <3>1 DEF Last, d
    <3> QED BY <1>9, <2>1, <3>1, <3>2, <3>3
  <2>3. \A u \in Nat \ {0} : Usable(u)' <=> Usable(u)
    BY <1>4, <1>8, <1>12 DEF Usable
  <2>4. \A u \in Nat \ {0} : Flowing(u)' <=> Flowing(u)
    BY <1>3, <1>4, <2>3 DEF Flowing
  <2>5. FlowIs'
    BY <1>9, <2>2, <2>4 DEF FlowIs
  <2> QED BY <1>2, <1>4, <1>9, <2>2, <2>5 DEF FlowInv
<1> QED BY <1>10, <1>11, <1>12

(* Inductiveness of FlowInv.                                               *)
LEMMA FlowStep == TypeOK /\ EosIsLast /\ UnitsInOrder /\ FlowInv /\ [Next]_vars => FlowInv'
<1> SUFFICES ASSUME TypeOK, EosIsLast, UnitsInOrder, FlowInv, [Next]_vars PROVE FlowInv'
  OBVIOUS
<1> USE DEF callVars, fileVars, codecVars
<1>0. \A i \in DOMAIN handler : handler[i].kind # "output" => handler[i].unit = 0
  BY DEF FlowInv
<1>1. ASSUME UNCHANGED <<kind, source, crash, pos, out, dropped, portEos, portIn, held>>,
             stage' = "started" \/ stage' = stage \/ stage = "called",
             \A u \in Nat \ {0} : In(Units(handler'), u) <=> In(Units(handler), u),
             \A i \in DOMAIN handler' : handler'[i].kind # "output" => handler'[i].unit = 0
      PROVE  FlowInv'
  <2>1. EosQueued' = EosQueued /\ \A u : Usable(u)' <=> Usable(u)
    BY <1>1 DEF EosQueued, Usable
  <2>2. \A u \in Nat \ {0} : Flowing(u)' <=> Flowing(u)
    BY <1>1, <2>1 DEF Flowing
  <2> QED BY <1>1, <2>1, <2>2, SameFlow
<1>2. ASSUME NEW e \in Event, handler' = Append(handler, e), e.unit = 0,
             UNCHANGED <<kind, source, stage, crash, pos, out, dropped, portEos, portIn, held>>
      PROVE  FlowInv'
  BY <1>1, <1>2, PostFlow, PostBare
<1>3. CASE OfferInput
  <2>1. InputEvent \in Event /\ InputEvent.unit = 0 BY DEF InputEvent, Event, Flags
  <2> QED BY <1>2, <1>3, <2>1 DEF OfferInput
<1>4. CASE PutOutEos
  <2>1. PICK flags \in Flags : handler' = Append(handler, OutputEvent(0, flags))
    BY <1>4 DEF PutOutEos, EosFlags, Flags
  <2>2. OutputEvent(0, flags) \in Event /\ OutputEvent(0, flags).unit = 0
    BY DEF OutputEvent, Event
  <2> QED BY <1>2, <1>4, <2>1, <2>2 DEF PutOutEos
<1>5. CASE CodecFails
  <2>1. ErrorEvent \in Event /\ ErrorEvent.unit = 0 BY DEF ErrorEvent, Event, Flags
  <2> QED BY <1>2, <1>5, <2>1 DEF CodecFails
<1>6. CASE TakeInput BY <1>6, TakeFlow
<1>7. CASE PutOut BY <1>7, PutOutFlow
<1>8. CASE OnInput BY <1>8, InputFlow
<1>9. ASSUME NEW k, Dispatch(k), Head(handler).unit = 0,
             UNCHANGED <<kind, source, stage, crash, pos, out, dropped, portEos, portIn, held>>
      PROVE  FlowInv'
  <2>1. handler # << >> /\ handler' = Tail(handler)
    BY <1>9 DEF Dispatch
  <2> QED BY <1>1, <1>9, <2>1, RunFlow, RunBare
<1>10. ASSUME NEW k, Dispatch(k), k # "output" PROVE Head(handler).unit = 0
  BY <1>10, RunBare DEF Dispatch
<1>11. CASE OnInputNull BY <1>9, <1>10, <1>11 DEF OnInputNull
<1>12. CASE OnError BY <1>9, <1>10, <1>12 DEF OnError
<1>13. CASE OnInputThrows \/ OnOutputThrows
  <2>1. handler # << >> /\ handler' = Tail(handler) /\ crash' # "none"
    BY <1>13 DEF OnInputThrows, OnOutputThrows, Dispatch
  <2>2. UNCHANGED <<kind, source, stage, pos, out, dropped, portEos, portIn, held>>
    BY <1>13 DEF OnInputThrows, OnOutputThrows
  <2>3. EosQueued' = EosQueued
    BY <2>2 DEF EosQueued
  <2> QED BY <2>1, <2>2, <2>3, RunBare, SameFlow
<1>14. CASE OnOutputNull \/ OnOutput
  <2>1. Dispatch("output")
    BY <1>14 DEF OnOutputNull, OnOutput
  <2>2. handler # << >> /\ handler' = Tail(handler) /\ crash = "none" /\ stage = "started"
    BY <2>1, RunBare DEF Dispatch
  <2>3. UNCHANGED <<kind, source, stage, crash, pos, portEos, portIn, held>>
    BY <1>14 DEF OnOutputNull, OnOutput
  <2>4. CASE Head(handler).unit = 0
    BY <1>9, <1>14, <2>1, <2>3, <2>4 DEF OnOutputNull, OnOutput
  <2>5. CASE Head(handler).unit # 0
    <3>1. \/ dropped' = dropped + 1 /\ out' = out
          \/ dropped' = dropped /\ out' = Append(out, Head(handler).unit)
      BY <1>14, <2>5 DEF OnOutputNull, OnOutput
    <3>2. Done' = Done + 1
      <4>1. out \in Seq(Nat) /\ Len(out) \in Nat /\ dropped \in Nat /\ Head(handler).unit \in Nat
        <5>1. Head(handler) \in Event
          BY <2>2 DEF TypeOK
        <5> QED BY <5>1, QueueTypes DEF TypeOK, Event
      <4>2. Len(Append(out, Head(handler).unit)) = Len(out) + 1
        BY <4>1
      <4>3. \/ Len(out') = Len(out) /\ dropped' = dropped + 1
            \/ Len(out') = Len(out) + 1 /\ dropped' = dropped
        BY <3>1, <4>2
      <4>4. Len(out') + dropped' = (Len(out) + dropped) + 1
        BY ONLY <4>1, <4>3
      <4> QED BY <4>4 DEF Done
    <3> QED BY <2>2, <2>3, <2>5, <3>2, PutsOne
  <2> QED BY <2>4, <2>5
<1>15. CASE Body \/ Cancel
  <2>1. /\ UNCHANGED <<kind, source, crash, pos, out, dropped, portEos, portIn, held, handler>>
        /\ stage' = stage \/ stage = "called"
    BY <1>15 DEF Body, Unsupported, Start, SetupThrows, Cancel
  <2> QED BY <1>0, <1>1, <2>1
<1>16. CASE UNCHANGED vars
  BY <1>0, <1>1, <1>16 DEF vars
<1> QED
  BY <1>3, <1>4, <1>5, <1>6, <1>7, <1>8, <1>11, <1>12, <1>13, <1>14, <1>15, <1>16
  DEF Next, Codec, Callback

LEMMA FlowInit == Init => FlowInv
<1> SUFFICES ASSUME Init PROVE FlowInv
  OBVIOUS
<1>1. out = << >> /\ dropped = 0 /\ pos = 0 /\ portIn = << >> /\ held = << >>
      /\ handler = << >> /\ portEos = FALSE
  BY DEF Init
<1>2. Done = 0
  BY <1>1 DEF Done
<1>3. ~EosQueued /\ Last = 0
  <2>1. ~In(portIn, 0) BY <1>1 DEF In
  <2>2. ~EosQueued BY <1>1, <2>1 DEF EosQueued
  <2> QED BY <1>1, <2>2 DEF Last
<1>4. \A u : ~Flowing(u)
  BY <1>1 DEF Flowing, In, Usable, Ahead, Units
<1>5. FlowIs
  BY <1>2, <1>3, <1>4 DEF FlowIs
<1> QED BY <1>1, <1>2, <1>3, <1>5 DEF FlowInv

\* What the end-of-stream message says: the codec has put out all there is to deliver,
\* but for the unit the message itself carries.
LEMMA EosCompletes ==
  ASSUME TypeOK, EosIsLast, UnitsInOrder, FlowInv, crash = "none",
         handler # << >>, Head(handler).flags # "none"
  PROVE  LET d == Deliverable(<<kind, source>>)
         IN  /\ Head(handler).unit = 0 => Done = d
             /\ Head(handler).unit # 0 => Done + 1 = d
<1> DEFINE d == Deliverable(<<kind, source>>)
           h == Units(handler)
           u == Head(h)
<1>1. handler \in Seq(Event) /\ Head(handler) = handler[1] /\ 1 \in DOMAIN handler
  BY RunFacts DEF TypeOK
<1>2. /\ eosSent /\ portEos /\ held = << >>
      /\ \A j \in DOMAIN handler : 1 < j => handler[j].kind = "error"
  BY <1>1 DEF EosIsLast
<1>3. EosQueued /\ Last = d
  BY <1>2 DEF EosQueued, Last
<1>4. h \in Seq(Nat) /\ h # << >> /\ u = Head(handler).unit
  BY <1>1, UnitsFacts
<1>5. ASSUME NEW v \in Nat \ {0}, In(h, v) PROVE v = u
  <2>1. PICK i \in DOMAIN handler : handler[i].unit = v
    BY <1>5 DEF In, Units
  <2>2. i = 1 \/ 1 < i
    BY <1>1, RunFacts
  <2>3. CASE i = 1
    BY <1>1, <1>4, <2>1, <2>3
  <2>4. CASE 1 < i
    BY <1>2, <1>5, <2>1, <2>4 DEF FlowInv
  <2> QED BY <2>2, <2>3, <2>4
<1>6. \A v \in Nat \ {0} : Done < v /\ v <= d => v = u
  <2> SUFFICES ASSUME NEW v \in Nat \ {0}, Done < v, v <= d PROVE v = u
    OBVIOUS
  <2>1. In(h, v) \/ In(held, v) \/ Usable(v)
    BY <1>3 DEF FlowInv, FlowIs, Flowing
  <2>2. ~In(held, v) /\ ~Usable(v)
    BY <1>2 DEF In, Usable
  <2> QED BY <1>5, <2>1, <2>2
<1>7. Done \in Nat /\ d \in Nat /\ Done <= d
  BY <1>3, DoneType, LastAtMost DEF FlowInv
<1>8. u # 0 => u = Done + 1 /\ Done + 1 <= d
  BY <1>3, <1>4, FirstUnit DEF FlowInv
<1>9. u \in Nat
  BY <1>4
<1> HIDE DEF d, h, u
<1>10. u = 0 => Done = d
  <2> SUFFICES ASSUME u = 0, Done < d PROVE FALSE
    BY <1>7
  <2>1. Done + 1 \in Nat \ {0} /\ Done < Done + 1 /\ Done + 1 <= d
    BY <1>7
  <2> QED BY <1>6, <2>1
<1>11. u # 0 => Done + 1 = d
  <2> SUFFICES ASSUME u = Done + 1, Done + 1 < d PROVE FALSE
    BY <1>7, <1>8
  <2>1. Done + 2 \in Nat \ {0} /\ Done < Done + 2 /\ Done + 2 <= d /\ Done + 2 # u
    BY <1>7
  <2> QED BY <1>6, <2>1
<1> QED BY <1>4, <1>10, <1>11 DEF d

\* An output run: the next unit reaches the file, and with the last one the caller.
LEMMA OutputRefines ==
  ASSUME TypeOK, EosIsLast, UnitsInOrder, FlowInv, OnOutput
  PROVE  [Abstract!Next]_(Abstract!vars)
<1> DEFINE d == Deliverable(<<kind, source>>)
           u == Head(handler).unit
<1>1. /\ handler # << >> /\ handler' = Tail(handler) /\ crash = "none"
      /\ UNCHANGED <<kind, source, dropped>>
      /\ out' = IF u = 0 THEN out ELSE Append(out, u)
  BY DEF OnOutput, Dispatch
<1>2. \/ cont' = cont
      \/ cont = "active" /\ cont' = "resumed" /\ Head(handler).flags = "eos"
  BY DEF OnOutput
<1>3. Head(handler).flags = "eos" => (u = 0 => Done = d) /\ (u # 0 => Done + 1 = d)
  BY <1>1, EosCompletes
<1>4. u # 0 => u = Done + 1 /\ Done + 1 <= Last
  BY <1>1, FirstUnit DEF FlowInv
<1>5. Done \in Nat /\ Last \in Nat /\ d \in Nat /\ Last <= d
  BY DoneType, LastAtMost
<1>6. u # 0 => Done < d
  BY <1>4, <1>5
<1>7. <<kind, source>>' = <<kind, source>>
  BY <1>1
<1> HIDE DEF d, u
<1>8. CASE u = 0
  BY <1>1, <1>2, <1>3, <1>7, <1>8 DEF Abstract!Next, Abstract!Return, Abstract!Done, Abstract!vars, Done, d
<1>9. CASE u # 0
  <2>1. out' = Append(out, Done + 1)
    BY <1>1, <1>4, <1>9
  <2> QED BY <1>1, <1>2, <1>3, <1>6, <1>7, <1>9, <2>1
          DEF Abstract!Next, Abstract!Deliver, Abstract!Done, Done, d
<1> QED BY <1>8, <1>9

(* The pipeline implements Transcode: a unit reaches the file only in its  *)
(* turn, the caller is resumed only when nothing is left to deliver (or    *)
(* nothing was begun), and is never answered twice.                        *)
THEOREM PipelineImplementsTranscode == Spec => Refines
<1>1. Init => Abstract!Init
  BY DEF Init, Abstract!Init
<1>2. TypeOK /\ EosIsLast /\ UnitsInOrder /\ FlowInv /\ [Next]_vars
        => [Abstract!Next]_(Abstract!vars)
  <2> SUFFICES ASSUME TypeOK, EosIsLast, UnitsInOrder, FlowInv, [Next]_vars
               PROVE  [Abstract!Next]_(Abstract!vars)
    OBVIOUS
  <2> USE DEF callVars, fileVars, codecVars
  <2>1. stage = "called" => Len(out) + dropped = 0
    BY DEF FlowInv, Done
  <2>2. CASE OnOutput
    BY <2>2, OutputRefines
  <2>3. CASE OnOutputNull
    <3>1. handler # << >> /\ crash = "none"
      BY <2>3 DEF OnOutputNull, Dispatch
    <3>2. CASE Head(handler).unit = 0
      BY <2>3, <3>2 DEF OnOutputNull, Abstract!vars
    <3>3. CASE Head(handler).unit # 0
      <4>1. Done + 1 <= Last
        BY <3>1, <3>3, FirstUnit DEF FlowInv
      <4>2. Done < Deliverable(<<kind, source>>)
        BY <4>1, DoneType, LastAtMost
      <4> QED BY <2>3, <3>3, <4>2
              DEF OnOutputNull, Abstract!Next, Abstract!Miss, Abstract!Done, Done
    <3> QED BY <3>2, <3>3
  <2>4. CASE Unsupported
    BY <2>1, <2>4 DEF Unsupported, Abstract!Next, Abstract!ReturnUnsupported, Abstract!Done, Abstract!vars
  <2>5. CASE SetupThrows
    BY <2>1, <2>5 DEF SetupThrows, Abstract!Next, Abstract!Throw, Abstract!Done, Abstract!vars
  <2>6. CASE Cancel
    BY <2>6 DEF Cancel, Abstract!Next, Abstract!Abandon
  <2>7. CASE Start \/ Codec \/ OnInputNull \/ OnInputThrows \/ OnInput \/ OnOutputThrows \/ OnError
    <3>1. UNCHANGED <<kind, source, out, dropped, cont>>
      BY <2>7 DEF Start, Codec, OfferInput, TakeInput, PutOut, PutOutEos, CodecFails,
                  OnInputNull, OnInputThrows, OnInput, OnOutputThrows, OnError
    <3> QED BY <3>1 DEF Abstract!vars
  <2>8. CASE UNCHANGED vars
    BY <2>8 DEF vars, Abstract!vars
  <2> QED BY <2>2, <2>3, <2>4, <2>5, <2>6, <2>7, <2>8 DEF Next, Body, Callback
<1>3. Spec => [](TypeOK /\ EosIsLast /\ UnitsInOrder /\ FlowInv)
  <2>1. Init => EosIsLast /\ UnitsInOrder
    BY DEF Init, EosIsLast, NoUseAfterClose, UnitsInOrder, Rising, Before, AtMost, Units
  <2> QED BY <2>1, FlowInit, FlowStep, EosIsLastStep, UnitsInOrderStep, TypeCorrect, PTL DEF Spec
<1> QED BY <1>1, <1>2, <1>3, PTL DEF Spec, Refines, Abstract!Spec
=============================================================================
