-------------------------- MODULE AudioScreenProofs --------------------------
(***************************************************************************)
(* Theorems about AudioScreen, for any number of recordings, playbacks,    *)
(* visits, chunks and bars: a microphone that is on is read, a file nobody *)
(* opened over another is one recording, the bars show the last averages   *)
(* although the loop moves them in place, and a file is heard in order.    *)
(* And about MusicService, for any number of songs, presses and kills:     *)
(* its notification is right and it plays what was asked for last.         *)
(***************************************************************************)
EXTENDS MCAudioScreen, SequenceTheorems, WellFoundedInduction, TLAPS

USE ManagersAssumption, RecordingsAssumption, ChunksAssumption, TrackAssumption, WindowAssumption

-----------------------------------------------------------------------------
(* The inductive invariant.                                                *)

\* A call that was made has a manager, and a chunk it holds is the last one its microphone
\* gave.
CallsInv ==
  \A r \in Recordings :
    /\ phase[r] = "idle" => held[r] = 0
    /\ phase[r] # "idle" => manager[r] \in Managers /\ held[r] <= taken[manager[r]]
    /\ phase[r] = "holding" => held[r] > 0

\* The one call that writes a file not opened over another stands at its end, and the
\* chunks in it are the last ones its microphone gave.
Kept(r) == IF phase[r] = "holding" THEN held[r] - 1 ELSE taken[manager[r]]
WriterInv ==
  ~overlapped =>
    /\ \A r, q \in Writing : r = q
    /\ \A r \in Writing :
         /\ offset[r] = Len(file)
         /\ phase[r] = "holding" => held[r] = taken[manager[r]]
         /\ \A i \in 1 .. Len(file) : file[i] = <<manager[r], Kept(r) - Len(file) + i>>

\* What a call gave to the track is what it has read before; without a pause, all of it.
GivenInv ==
  /\ ~everPaused => playState # "paused"
  /\ \A p \in Plays :
       /\ playPhase[p] \in {"idle", "launched", "opening"} => position[p] = 0
       /\ playPhase[p] = "writing" => position[p] > 0
  /\ \A i \in 1 .. Len(Given) :
       /\ Given[i][2] <= position[Given[i][1]]
       /\ playPhase[Given[i][1]] = "writing" => Given[i][2] < position[Given[i][1]]
  /\ ~everPaused =>
       \A p \in Plays : \A n \in 1 .. position[p] :
         \/ playPhase[p] = "writing" /\ n = position[p]
         \/ playPhase[p] = "ended"
         \/ \E k \in 1 .. Len(Given) : Given[k] = <<p, n>>

\* A volume is one of a recording, measured before the chunk the call holds.
VolumeInv(v) ==
  /\ v \in Recordings \X Nat
  /\ v[2] <= held[v[1]]
  /\ phase[v[1]] = "holding" => v[2] < held[v[1]]
  /\ consumer[v[1]] = "received" => v[2] < received[v[1]][2]

\* The volumes not shown yet are in order, after those shown, and before the one received.
VolumesInv ==
  /\ \A r \in Recordings : consumer[r] = "received" =>
       /\ received[r] \in Recordings \X Nat /\ received[r][1] = r
       /\ received[r][2] <= held[r]
       /\ phase[r] = "holding" => received[r][2] < held[r]
  /\ \A a \in DOMAIN window : VolumeInv(window[a])
  /\ \A i \in DOMAIN averages : \A a \in DOMAIN averages[i] :
       /\ VolumeInv(averages[i][a])
       /\ \A b \in DOMAIN window :
            averages[i][a][1] = window[b][1] => averages[i][a][2] < window[b][2]
  /\ \A a, b \in DOMAIN window : a < b /\ window[a][1] = window[b][1] => window[a][2] < window[b][2]

-----------------------------------------------------------------------------
(* Sequences.                                                              *)

LEMMA AppendFacts ==
  ASSUME NEW S, NEW s \in Seq(S), NEW e \in S
  PROVE  /\ Append(s, e) \in Seq(S) /\ Len(s) \in Nat /\ Len(Append(s, e)) = Len(s) + 1
         /\ DOMAIN s = 1 .. Len(s) /\ DOMAIN Append(s, e) = 1 .. Len(s) + 1
         /\ \A i \in 1 .. Len(s) : Append(s, e)[i] = s[i] /\ s[i] \in S
         /\ Append(s, e)[Len(s) + 1] = e
         /\ \A i \in 1 .. Len(s) + 1 : i \in 1 .. Len(s) \/ i = Len(s) + 1
BY AppendProperties, LenProperties

\* A chunk written is the last of those given, and playing one changes nothing.
LEMMA GivenFacts ==
  ASSUME NEW S, NEW h \in Seq(S), NEW b \in Seq(S)
  PROVE  /\ h \o b \in Seq(S)
         /\ \A e \in S : h \o Append(b, e) = Append(h \o b, e)
         /\ b # << >> => Append(h, Head(b)) \o Tail(b) = h \o b
<1>1. h \o b \in Seq(S)
  BY ConcatProperties
<1>2. ASSUME NEW e \in S PROVE h \o Append(b, e) = Append(h \o b, e)
  <2>1. <<e>> \in Seq(S)
    OBVIOUS
  <2>2. Append(b, e) = b \o <<e>> /\ Append(h \o b, e) = (h \o b) \o <<e>>
    BY <1>1, AppendIsConcat
  <2> QED BY <2>1, <2>2, ConcatAssociative
<1>3. ASSUME b # << >> PROVE Append(h, Head(b)) \o Tail(b) = h \o b
  <2>1. Head(b) \in S /\ Tail(b) \in Seq(S) /\ <<Head(b)>> \in Seq(S)
    BY <1>3, HeadTailProperties
  <2>2. Append(h, Head(b)) = h \o <<Head(b)>>
    BY <2>1, AppendIsConcat
  <2>3. b = <<Head(b)>> \o Tail(b)
    <3>1. Len(b) \in Nat /\ Len(b) >= 1 /\ b \in Seq(S)
      BY <1>3, EmptySeq
    <3>2. SubSeq(b, 1, Len(b)) = <<b[1]>> \o SubSeq(b, 1 + 1, Len(b))
      BY <3>1, SubSeqRecursiveFirst
    <3>3. SubSeq(b, 1, Len(b)) = b /\ Tail(b) = SubSeq(b, 2, Len(b)) /\ 1 + 1 = 2
      BY <1>3, SubSeqFull, TailIsSubSeq
    <3>4. Head(b) = b[1]
      BY <1>3
    <3> QED BY <3>2, <3>3, <3>4
  <2> QED BY <2>1, <2>2, <2>3, ConcatAssociative
<1> QED BY <1>1, <1>2, <1>3

-----------------------------------------------------------------------------
(* The player (AudioTrackManager).                                         *)

TrackInv == TypeOKTrack /\ GivenInv /\ HeardInOrder

Chunks == Plays \X (1 .. PcmLength)

LEMMA GivenType ==
  ASSUME TypeOKTrack
  PROVE  /\ heard \in Seq(Chunks) /\ buffer \in Seq(Chunks) /\ Given \in Seq(Chunks) /\ Len(Given) \in Nat
         /\ \A i \in 1 .. Len(Given) :
              /\ Given[i] \in Chunks /\ Given[i][1] \in Plays /\ Given[i][2] \in 1 .. PcmLength
              /\ position[Given[i][1]] \in 0 .. PcmLength
<1>1. heard \in Seq(Chunks) /\ buffer \in Seq(Chunks)
  BY DEF TypeOKTrack, Chunks
<1>2. Given \in Seq(Chunks)
  BY <1>1, GivenFacts DEF Given
<1>3. Len(Given) \in Nat /\ \A i \in 1 .. Len(Given) : Given[i] \in Chunks
  BY <1>2, LenProperties, ElementOfSeq
<1> QED BY <1>1, <1>2, <1>3 DEF Chunks, TypeOKTrack

LEMMA TrackInit == InitTrack => TrackInv
<1> SUFFICES ASSUME InitTrack PROVE TrackInv
  OBVIOUS
<1>1. << >> \in Seq(Chunks) /\ Len(<< >>) = 0
  BY EmptySeq
<1>2. TypeOKTrack
  <2>1. 0 \in 0 .. PcmLength /\ 0 <= Room
    OBVIOUS
  <2>2. /\ playState \in {"stopped", "playing", "paused"}
        /\ playPhase \in [Plays -> {"idle"} \union PlayActive \union PlayOver]
        /\ position \in [Plays -> 0 .. PcmLength]
    BY <2>1 DEF InitTrack
  <2>3. /\ buffer \in Seq(Plays \X (1 .. PcmLength)) /\ Len(buffer) <= Room
        /\ heard \in Seq(Plays \X (1 .. PcmLength))
    BY <1>1, <2>1 DEF InitTrack, Chunks
  <2>4. lost \subseteq Plays \X (1 .. PcmLength) /\ everPaused \in BOOLEAN /\ cut \subseteq Plays
    BY DEF InitTrack
  <2> QED BY <2>2, <2>3, <2>4 DEF TypeOKTrack
<1>3. Given = << >> /\ \A i \in 1 .. Len(Given) : FALSE
  <2>1. << >> \o << >> = << >>
    BY <1>1, ConcatEmptySeq
  <2> QED BY <1>1, <2>1 DEF InitTrack, Given
<1>4. GivenInv
  BY <1>3 DEF InitTrack, GivenInv
<1>5. HeardInOrder
  BY <1>3 DEF HeardInOrder
<1> QED BY <1>2, <1>4, <1>5 DEF TrackInv

\* What gives the track nothing leaves what was given in order.
LEMMA GivenStays ==
  ASSUME TrackInv, Given' = Given, everPaused \in BOOLEAN, everPaused' = everPaused \/ everPaused' = TRUE
  PROVE  HeardInOrder'
<1>1. ~everPaused' => ~everPaused
  OBVIOUS
<1> QED BY <1>1 DEF TrackInv, HeardInOrder

\* The steps of a call that neither read the file nor write to the track.
LEMMA PhaseKeeps ==
  ASSUME TrackInv, NEW p \in Plays,
         \/ LaunchPlay(p) \/ StartTrack(p) \/ OpenPcm(p) \/ PlayThrows(p) \/ WriteFails(p)
         \/ ReadPcm(p) /\ UNCHANGED position
  PROVE  TrackInv'
<1> USE DEF streamVars
<1>1. /\ UNCHANGED <<position, buffer, heard, lost, everPaused>>
      /\ Given' = Given
      /\ cut' \in {cut, cut \union {p}}
      /\ playState' \in {playState, "playing"}
  BY DEF LaunchPlay, StartTrack, OpenPcm, PlayThrows, WriteFails, ReadPcm, PlayGoto, Given
<1>2. \E to \in {"launched", "opening", "loading", "noStream", "threw", "ended"} :
        /\ playPhase' = [playPhase EXCEPT ![p] = to]
        /\ \/ to = "launched" /\ playPhase[p] = "idle"
           \/ to = "opening" /\ playPhase[p] = "launched"
           \/ to = "loading" /\ playPhase[p] = "opening"
           \/ to = "noStream" /\ playPhase[p] = "opening"
           \/ to = "threw" /\ playPhase[p] \in {"launched", "opening", "loading"}
           \/ to = "ended"
  BY DEF LaunchPlay, StartTrack, OpenPcm, PlayThrows, WriteFails, ReadPcm, PlayGoto, TrackInv, TypeOKTrack
<1>3. PICK to \in {"launched", "opening", "loading", "noStream", "threw", "ended"} :
        /\ playPhase' = [playPhase EXCEPT ![p] = to]
        /\ \/ to = "launched" /\ playPhase[p] = "idle"
           \/ to = "opening" /\ playPhase[p] = "launched"
           \/ to = "loading" /\ playPhase[p] = "opening"
           \/ to = "noStream" /\ playPhase[p] = "opening"
           \/ to = "threw" /\ playPhase[p] \in {"launched", "opening", "loading"}
           \/ to = "ended"
  BY <1>2
<1>4. /\ playPhase'[p] = to /\ \A q \in Plays : q # p => playPhase'[q] = playPhase[q]
      /\ playPhase' \in [Plays -> {"idle"} \union PlayActive \union PlayOver]
  BY <1>3 DEF TrackInv, TypeOKTrack, PlayActive, PlayOver
<1>5. TypeOKTrack'
  BY <1>1, <1>4 DEF TrackInv, TypeOKTrack
<1>6. GivenInv'
  <2>1. ~everPaused' => playState' # "paused"
    BY <1>1 DEF TrackInv, GivenInv
  <2>2. ASSUME NEW q \in Plays
        PROVE  /\ playPhase'[q] \in {"idle", "launched", "opening"} => position'[q] = 0
               /\ playPhase'[q] = "writing" => position'[q] > 0
    BY <1>1, <1>3, <1>4 DEF TrackInv, GivenInv
  <2>3. ASSUME NEW i \in 1 .. Len(Given')
        PROVE  /\ Given'[i][2] <= position'[Given'[i][1]]
               /\ playPhase'[Given'[i][1]] = "writing" => Given'[i][2] < position'[Given'[i][1]]
    BY <1>1, <1>3, <1>4, GivenType DEF TrackInv, GivenInv
  <2>4. ASSUME ~everPaused', NEW q \in Plays, NEW n \in 1 .. position'[q]
        PROVE  \/ playPhase'[q] = "writing" /\ n = position'[q]
               \/ playPhase'[q] = "ended"
               \/ \E k \in 1 .. Len(Given') : Given'[k] = <<q, n>>
    <3>1. CASE q # p
      BY <1>1, <1>4, <2>4, <3>1 DEF TrackInv, GivenInv
    <3>2. CASE q = p /\ to # "ended"
      <4>1. playPhase[p] \notin {"writing", "ended"}
        BY <1>3, <3>2
      <4> QED BY <1>1, <2>4, <3>2, <4>1 DEF TrackInv, GivenInv
    <3>3. CASE q = p /\ to = "ended"
      BY <1>4, <3>3
    <3> QED BY <3>1, <3>2, <3>3
  <2> QED BY <2>1, <2>2, <2>3, <2>4 DEF GivenInv
<1>7. HeardInOrder'
  BY <1>1, GivenStays DEF TrackInv, TypeOKTrack
<1> QED BY <1>5, <1>6, <1>7 DEF TrackInv

LEMMA CancelKeeps == TrackInv /\ CancelPlays => TrackInv'
<1> SUFFICES ASSUME TrackInv, CancelPlays PROVE TrackInv'
  OBVIOUS
<1> USE DEF streamVars
<1>1. /\ UNCHANGED <<playState, position, buffer, heard, lost, everPaused, cut>>
      /\ Given' = Given
  BY DEF CancelPlays, Given
<1>2. /\ playPhase' \in [Plays -> {"idle"} \union PlayActive \union PlayOver]
      /\ \A q \in Plays : playPhase'[q] = playPhase[q] \/ (playPhase[q] = "launched" /\ playPhase'[q] = "cancelled")
  <2>1. playPhase' = [q \in Plays |-> IF playPhase[q] = "launched" THEN "cancelled" ELSE playPhase[q]]
    BY DEF CancelPlays
  <2>2. "cancelled" \in {"idle"} \union PlayActive \union PlayOver
    BY DEF PlayOver
  <2>3. \A q \in Plays : playPhase[q] \in {"idle"} \union PlayActive \union PlayOver
    BY DEF TrackInv, TypeOKTrack
  <2>4. playPhase' \in [Plays -> {"idle"} \union PlayActive \union PlayOver]
    BY <2>1, <2>2, <2>3
  <2>5. \A q \in Plays : playPhase'[q] = playPhase[q] \/ (playPhase[q] = "launched" /\ playPhase'[q] = "cancelled")
    <3>1. ASSUME NEW q \in Plays
          PROVE  playPhase'[q] = IF playPhase[q] = "launched" THEN "cancelled" ELSE playPhase[q]
      BY <2>1, Zenon
    <3> QED BY <3>1
  <2> QED BY <2>4, <2>5
<1>3. TypeOKTrack'
  BY <1>1, <1>2 DEF TrackInv, TypeOKTrack
<1>4. GivenInv'
  <2>1. \A i \in 1 .. Len(Given) : Given[i][1] \in Plays
    BY GivenType DEF TrackInv
  <2>2. ASSUME NEW q \in Plays, playPhase'[q] = "writing" PROVE playPhase[q] = "writing"
    BY <1>2, <2>2
  <2>3. ASSUME NEW q \in Plays, playPhase[q] \in {"writing", "ended"} PROVE playPhase'[q] = playPhase[q]
    BY <1>2, <2>3
  <2>4. ASSUME NEW q \in Plays, playPhase'[q] \in {"idle", "launched", "opening"}
        PROVE  playPhase[q] = playPhase'[q]
    BY <1>2, <2>4
  <2> QED BY <1>1, <2>1, <2>2, <2>3, <2>4 DEF TrackInv, GivenInv
<1>5. HeardInOrder'
  BY <1>1, GivenStays DEF TrackInv, TypeOKTrack
<1> QED BY <1>3, <1>4, <1>5 DEF TrackInv

\* The next chunk is read from the file.
LEMMA ReadPcmKeeps ==
  ASSUME TrackInv, NEW p \in Plays, ReadPcm(p), position[p] < PcmLength
  PROVE  TrackInv'
<1>1. /\ UNCHANGED <<playState, buffer, heard, lost, everPaused, cut>>
      /\ Given' = Given /\ playPhase[p] = "loading"
      /\ position' = [position EXCEPT ![p] = @ + 1]
      /\ playPhase' = [playPhase EXCEPT ![p] = "writing"]
  BY DEF ReadPcm, PlayGoto, Given
<1>2. /\ playPhase'[p] = "writing" /\ \A q \in Plays : q # p => playPhase'[q] = playPhase[q]
      /\ playPhase' \in [Plays -> {"idle"} \union PlayActive \union PlayOver]
  BY <1>1 DEF TrackInv, TypeOKTrack, PlayActive
<1>3. /\ position[p] \in Nat
      /\ position'[p] = position[p] + 1 /\ \A q \in Plays : q # p => position'[q] = position[q]
      /\ position' \in [Plays -> 0 .. PcmLength]
  BY <1>1 DEF TrackInv, TypeOKTrack
<1>4. TypeOKTrack'
  BY <1>1, <1>2, <1>3 DEF TrackInv, TypeOKTrack
<1>5. GivenInv'
  <2>1. ~everPaused' => playState' # "paused"
    BY <1>1 DEF TrackInv, GivenInv
  <2>2. ASSUME NEW q \in Plays
        PROVE  /\ playPhase'[q] \in {"idle", "launched", "opening"} => position'[q] = 0
               /\ playPhase'[q] = "writing" => position'[q] > 0
    BY <1>2, <1>3 DEF TrackInv, GivenInv
  <2>3. ASSUME NEW i \in 1 .. Len(Given')
        PROVE  /\ Given'[i][2] <= position'[Given'[i][1]]
               /\ playPhase'[Given'[i][1]] = "writing" => Given'[i][2] < position'[Given'[i][1]]
    <3>1. /\ Given[i][1] \in Plays /\ Given[i][2] \in Nat /\ Given[i][2] <= position[Given[i][1]]
          /\ playPhase[Given[i][1]] = "writing" => Given[i][2] < position[Given[i][1]]
      BY <1>1, <2>3, GivenType DEF TrackInv, GivenInv
    <3> QED BY <1>1, <1>2, <1>3, <3>1
  <2>4. ASSUME ~everPaused', NEW q \in Plays, NEW n \in 1 .. position'[q]
        PROVE  \/ playPhase'[q] = "writing" /\ n = position'[q]
               \/ playPhase'[q] = "ended"
               \/ \E k \in 1 .. Len(Given') : Given'[k] = <<q, n>>
    <3>1. CASE q # p
      <4>1. n \in 1 .. position[q] /\ ~everPaused
        BY <1>1, <1>3, <2>4, <3>1
      <4>2. \/ playPhase[q] = "writing" /\ n = position[q]
            \/ playPhase[q] = "ended"
            \/ \E k \in 1 .. Len(Given) : Given[k] = <<q, n>>
        BY <4>1 DEF TrackInv, GivenInv
      <4> QED BY <1>1, <1>2, <1>3, <3>1, <4>2
    <3>2. CASE q = p /\ n = position[p] + 1
      BY <1>2, <1>3, <3>2
    <3>3. CASE q = p /\ n # position[p] + 1
      <4>1. n \in 1 .. position[p]
        BY <1>3, <3>3
      <4> QED BY <1>1, <2>4, <3>3, <4>1 DEF TrackInv, GivenInv
    <3> QED BY <3>1, <3>2, <3>3
  <2> QED BY <2>1, <2>2, <2>3, <2>4 DEF GivenInv
<1>6. HeardInOrder'
  BY <1>1, GivenStays DEF TrackInv, TypeOKTrack
<1> QED BY <1>4, <1>5, <1>6 DEF TrackInv

\* A chunk is written: the track takes it, or a paused one passes it over.
LEMMA WriteTrackKeeps ==
  ASSUME TrackInv, NEW p \in Plays, WriteTrack(p)
  PROVE  TrackInv'
<1> DEFINE chunk == <<p, position[p]>>
<1>1. /\ UNCHANGED <<playState, position, heard, everPaused, cut>>
      /\ playPhase[p] = "writing" /\ playPhase' = [playPhase EXCEPT ![p] = "loading"]
  BY DEF WriteTrack, PlayGoto
<1>2. /\ playPhase'[p] = "loading" /\ \A q \in Plays : q # p => playPhase'[q] = playPhase[q]
      /\ playPhase' \in [Plays -> {"idle"} \union PlayActive \union PlayOver]
  BY <1>1 DEF TrackInv, TypeOKTrack, PlayActive
<1>3. position[p] \in 1 .. PcmLength /\ chunk \in Chunks
  BY <1>1 DEF TrackInv, TypeOKTrack, GivenInv, Chunks
<1>4. /\ heard \in Seq(Chunks) /\ buffer \in Seq(Chunks) /\ Given \in Seq(Chunks) /\ Len(Given) \in Nat
      /\ \A i \in 1 .. Len(Given) :
           /\ Given[i][1] \in Plays /\ Given[i][2] \in Nat /\ Given[i][2] <= position[Given[i][1]]
           /\ playPhase[Given[i][1]] = "writing" => Given[i][2] < position[Given[i][1]]
  BY GivenType DEF TrackInv, GivenInv
<1>5. ~everPaused' => playState' # "paused"
  BY <1>1 DEF TrackInv, GivenInv
<1>6. ASSUME NEW q \in Plays
      PROVE  /\ playPhase'[q] \in {"idle", "launched", "opening"} => position'[q] = 0
             /\ playPhase'[q] = "writing" => position'[q] > 0
  BY <1>1, <1>2 DEF TrackInv, GivenInv
<1>7. CASE Len(buffer) < Room /\ buffer' = Append(buffer, chunk) /\ UNCHANGED lost
  <2>1. /\ buffer' \in Seq(Chunks) /\ Len(buffer') <= Room
    BY <1>3, <1>4, <1>7, AppendFacts
  <2>2. TypeOKTrack'
    BY <1>1, <1>2, <1>7, <2>1 DEF TrackInv, TypeOKTrack, Chunks
  <2>3. Given' = Append(Given, chunk)
    <3>1. heard \o Append(buffer, chunk) = Append(heard \o buffer, chunk)
      BY <1>3, <1>4, GivenFacts
    <3> QED BY <1>1, <1>7, <3>1 DEF Given
  <2>4. /\ Len(Given') = Len(Given) + 1 /\ Given'[Len(Given) + 1] = chunk
        /\ \A i \in 1 .. Len(Given) : Given'[i] = Given[i]
        /\ \A i \in 1 .. Len(Given) + 1 : i \in 1 .. Len(Given) \/ i = Len(Given) + 1
    BY <1>3, <1>4, <2>3, AppendFacts
  <2>5. GivenInv'
    <3>1. ASSUME NEW i \in 1 .. Len(Given')
          PROVE  /\ Given'[i][2] <= position'[Given'[i][1]]
                 /\ playPhase'[Given'[i][1]] = "writing" => Given'[i][2] < position'[Given'[i][1]]
      <4>1. CASE i \in 1 .. Len(Given)
        BY <1>1, <1>2, <1>4, <2>4, <4>1
      <4>2. CASE i = Len(Given) + 1
        BY <1>1, <1>2, <1>3, <2>4, <4>2
      <4> QED BY <2>4, <4>1, <4>2
    <3>2. ASSUME ~everPaused', NEW q \in Plays, NEW n \in 1 .. position'[q]
          PROVE  \/ playPhase'[q] = "writing" /\ n = position'[q]
                 \/ playPhase'[q] = "ended"
                 \/ \E k \in 1 .. Len(Given') : Given'[k] = <<q, n>>
      <4>1. \/ playPhase[q] = "writing" /\ n = position[q]
            \/ playPhase[q] = "ended"
            \/ \E k \in 1 .. Len(Given) : Given[k] = <<q, n>>
        BY <1>1, <3>2 DEF TrackInv, GivenInv
      <4>2. CASE q = p /\ n = position[p]
        <5>1. Len(Given) + 1 \in 1 .. Len(Given')
          BY <1>4, <2>4
        <5> QED BY <2>4, <4>2, <5>1
      <4>3. CASE \E k \in 1 .. Len(Given) : Given[k] = <<q, n>>
        <5>1. PICK k \in 1 .. Len(Given) : Given[k] = <<q, n>>
          BY <4>3
        <5>2. k \in 1 .. Len(Given') /\ Given'[k] = <<q, n>>
          BY <1>4, <2>4, <5>1
        <5> QED BY <5>2
      <4>4. CASE q # p /\ ((playPhase[q] = "writing" /\ n = position[q]) \/ playPhase[q] = "ended")
        BY <1>1, <1>2, <4>4
      <4> QED BY <1>1, <4>1, <4>2, <4>3, <4>4
    <3> QED BY <1>5, <1>6, <3>1, <3>2 DEF GivenInv
  <2>6. HeardInOrder'
    <3>1. ASSUME NEW i \in 1 .. Len(Given'), NEW k \in 1 .. Len(Given'), i < k, Given'[i][1] = Given'[k][1]
          PROVE  Given'[i][2] < Given'[k][2]
      <4>1. i \in 1 .. Len(Given)
        BY <1>4, <2>4, <3>1
      <4>2. CASE k \in 1 .. Len(Given)
        BY <2>4, <3>1, <4>1, <4>2 DEF TrackInv, HeardInOrder
      <4>3. CASE k = Len(Given) + 1
        BY <1>1, <1>4, <2>4, <3>1, <4>1, <4>3
      <4> QED BY <2>4, <4>2, <4>3
    <3>2. ASSUME ~everPaused', NEW i \in 1 .. Len(Given'), NEW n \in 1 .. Given'[i][2] - 1
          PROVE  \E k \in 1 .. i - 1 : Given'[k] = <<Given'[i][1], n>>
      <4>1. CASE i \in 1 .. Len(Given)
        <5>1. n \in 1 .. Given[i][2] - 1
          BY <2>4, <3>2, <4>1
        <5>2. PICK k \in 1 .. i - 1 : Given[k] = <<Given[i][1], n>>
          BY <1>1, <3>2, <4>1, <5>1 DEF TrackInv, HeardInOrder
        <5>3. k \in 1 .. Len(Given)
          BY <1>4, <4>1
        <5> QED BY <2>4, <4>1, <5>2, <5>3
      <4>2. CASE i = Len(Given) + 1
        <5>1. n \in 1 .. position[p] /\ n # position[p]
          BY <1>3, <2>4, <3>2, <4>2
        <5>2. PICK k \in 1 .. Len(Given) : Given[k] = <<p, n>>
          BY <1>1, <3>2, <5>1 DEF TrackInv, GivenInv
        <5>3. k \in 1 .. i - 1 /\ Given'[k] = <<p, n>>
          BY <1>4, <2>4, <4>2, <5>2
        <5> QED BY <2>4, <4>2, <5>3
      <4> QED BY <2>4, <4>1, <4>2
    <3> QED BY <3>1, <3>2 DEF HeardInOrder
  <2> QED BY <2>2, <2>5, <2>6 DEF TrackInv
<1>8. CASE playState = "paused" /\ lost' = lost \union {chunk} /\ UNCHANGED buffer
  <2>1. TypeOKTrack'
    BY <1>1, <1>2, <1>3, <1>8 DEF TrackInv, TypeOKTrack, Chunks
  <2>2. Given' = Given /\ everPaused /\ everPaused'
    BY <1>1, <1>8 DEF Given, TrackInv, GivenInv
  <2>3. GivenInv'
    <3>1. ASSUME NEW i \in 1 .. Len(Given')
          PROVE  /\ Given'[i][2] <= position'[Given'[i][1]]
                 /\ playPhase'[Given'[i][1]] = "writing" => Given'[i][2] < position'[Given'[i][1]]
      BY <1>1, <1>2, <1>4, <2>2
    <3> QED BY <1>6, <2>2, <3>1 DEF GivenInv
  <2>4. HeardInOrder'
    BY <1>1, <2>2, GivenStays DEF TrackInv, TypeOKTrack
  <2> QED BY <2>1, <2>3, <2>4 DEF TrackInv
<1> QED BY <1>7, <1>8 DEF WriteTrack, Next1

\* Pausing, and the track playing what it has.
LEMMA TrackKeeps ==
  ASSUME TrackInv, PauseTrack \/ Sound \/ UNCHANGED trackVars
  PROVE  TrackInv'
<1> USE DEF streamVars, trackVars
<1>1. /\ UNCHANGED <<playPhase, position, lost, cut>>
      /\ playState' \in {playState, "paused"}
      /\ everPaused' \in BOOLEAN
      /\ ~everPaused' => ~everPaused /\ playState' = playState
  <2>1. CASE PauseTrack
    <3>1. /\ UNCHANGED <<playPhase, position, lost, cut>>
          /\ playState' = IF playState = "playing" THEN "paused" ELSE playState
      BY <2>1 DEF PauseTrack
    <3>2. everPaused' \in BOOLEAN /\ (~everPaused' => ~everPaused /\ playState # "playing")
      BY <2>1 DEF PauseTrack
    <3> QED BY <3>1, <3>2
  <2>2. CASE Sound \/ UNCHANGED trackVars
    BY <2>2 DEF Sound, TrackInv, TypeOKTrack
  <2> QED BY <2>1, <2>2
<1>2. heard \in Seq(Chunks) /\ buffer \in Seq(Chunks)
  BY GivenType DEF TrackInv
<1>3. /\ Given' = Given /\ heard' \in Seq(Chunks) /\ buffer' \in Seq(Chunks) /\ Len(buffer') <= Room
  <2>1. CASE Sound
    <3>1. heard' = Append(heard, Head(buffer)) /\ buffer' = Tail(buffer) /\ buffer # << >>
      BY <2>1 DEF Sound
    <3>2. Head(buffer) \in Chunks /\ Tail(buffer) \in Seq(Chunks) /\ Len(Tail(buffer)) = Len(buffer) - 1
          /\ Len(buffer) \in Nat
      BY <1>2, <3>1, HeadTailProperties, LenProperties
    <3>3. heard' \in Seq(Chunks)
      BY <1>2, <3>1, <3>2, AppendFacts
    <3>4. Len(buffer') <= Room
      <4>1. Len(buffer) <= Room /\ Room \in Nat
        BY DEF TrackInv, TypeOKTrack
      <4>2. Len(buffer') = Len(buffer) - 1
        BY <3>1, <3>2
      <4> QED BY <3>2, <4>1, <4>2
    <3> QED BY <1>2, <3>1, <3>2, <3>3, <3>4, GivenFacts DEF Given
  <2>2. CASE UNCHANGED <<heard, buffer>>
    BY <1>2, <2>2 DEF Given, TrackInv, TypeOKTrack
  <2> QED BY <2>1, <2>2 DEF PauseTrack
<1>4. TypeOKTrack'
  BY <1>1, <1>3 DEF TrackInv, TypeOKTrack, Chunks
<1>5. GivenInv'
  <2>1. ~everPaused' => playState' # "paused"
    BY <1>1 DEF TrackInv, GivenInv
  <2> QED BY <1>1, <1>3, <2>1 DEF TrackInv, GivenInv
<1>6. HeardInOrder'
  BY <1>1, <1>3 DEF TrackInv, HeardInOrder
<1> QED BY <1>4, <1>5, <1>6 DEF TrackInv

-----------------------------------------------------------------------------
(* The recorders (AudioRecordManager).                                     *)

ManagersInv ==
  TypeOKManagers /\ CallsInv /\ MicrophoneIsRead /\ WriterInv /\ FileIsOneRecording

Phases == {"idle"} \union Active \union Over
\* The phases of a call that reads its microphone, or of one that gave up on it.
Reads == (Active \ {"launched"}) \union {"noStream", "readFailed", "threw"}

LEMMA CallFacts ==
  ASSUME TypeOKManagers, CallsInv, NEW r \in Recordings
  PROVE  /\ phase[r] \in Phases /\ held[r] \in Nat /\ offset[r] \in Nat
         /\ phase[r] # "idle" => manager[r] \in Managers /\ taken[manager[r]] \in Nat
         /\ Len(file) \in Nat
<1>1. phase[r] \in Phases /\ offset[r] \in Nat
  BY DEF TypeOKManagers, Phases
<1>2. held[r] \in Nat
  BY DEF TypeOKManagers
<1>3. phase[r] # "idle" => manager[r] \in Managers
  BY DEF CallsInv
<1>4. \A m \in Managers : taken[m] \in Nat
  BY DEF TypeOKManagers
<1>5. Len(file) \in Nat
  BY LenProperties DEF TypeOKManagers
<1> QED BY <1>1, <1>2, <1>3, <1>4, <1>5

LEMMA ManagersInit == InitManagers => ManagersInv
<1> SUFFICES ASSUME InitManagers PROVE ManagersInv
  OBVIOUS
<1>1. file = << >> /\ Len(file) = 0 /\ \A i \in 1 .. Len(file) : FALSE
  BY DEF InitManagers
<1>2. TypeOKManagers
  <2>1. 0 \in 0 .. MaxChunks /\ 0 \in Nat
    OBVIOUS
  <2>2. /\ recording \subseteq Managers /\ taken \in [Managers -> 0 .. MaxChunks]
        /\ held \in [Recordings -> 0 .. MaxChunks] /\ offset \in [Recordings -> Nat]
        /\ overlapped \in BOOLEAN
    BY <2>1 DEF InitManagers
  <2>3. phase \in [Recordings -> {"idle"} \union Active \union Over]
    BY DEF InitManagers
  <2>4. manager \in [Recordings -> Managers \union {0}]
    BY DEF InitManagers
  <2>5. file \in Seq((Managers \X (1 .. MaxChunks)) \union {Hole})
    BY DEF InitManagers
  <2> QED BY <2>2, <2>3, <2>4, <2>5 DEF TypeOKManagers
<1>3. CallsInv
  BY DEF InitManagers, CallsInv
<1>4. MicrophoneIsRead /\ WriterInv /\ FileIsOneRecording
  BY <1>1 DEF InitManagers, MicrophoneIsRead, WriterInv, Writing, FileIsOneRecording
<1> QED BY <1>2, <1>3, <1>4 DEF ManagersInv

\* A microphone stays read while the calls that read it go on, or it is turned off.
LEMMA MicrophoneStays ==
  ASSUME MicrophoneIsRead,
         \A m \in recording' : m \in recording
           \/ \E r \in Recordings : manager'[r] = m /\ phase'[r] \in Reads,
         \A r \in Recordings : phase[r] \in Reads =>
           /\ manager'[r] = manager[r]
           /\ phase'[r] \in Reads \/ manager[r] \notin recording'
  PROVE  MicrophoneIsRead'
<1> SUFFICES ASSUME NEW m \in recording'
             PROVE  \E r \in Recordings : manager'[r] = m /\ phase'[r] \in Reads
  BY DEF MicrophoneIsRead, CallsOf, Reads
<1>1. CASE m \in recording
  <2>1. PICK r \in Recordings : manager[r] = m /\ phase[r] \in Reads
    BY <1>1 DEF MicrophoneIsRead, CallsOf, Reads
  <2> QED BY <2>1
<1> QED BY <1>1

\* The steps of a call that touch neither what was read nor the file.
LEMMA QuietKeeps ==
  ASSUME ManagersInv, UNCHANGED <<taken, held, offset, file, overlapped>>,
         recording' \subseteq Managers,
         phase' \in [Recordings -> Phases], manager' \in [Recordings -> Managers \union {0}],
         \A r \in Recordings :
           /\ phase'[r] = phase[r] \/ phase'[r] \notin {"idle", "reading", "holding"}
           /\ phase[r] # "idle" => manager'[r] = manager[r]
           /\ phase[r] = "idle" /\ phase'[r] # "idle" => manager'[r] \in Managers,
         MicrophoneIsRead'
  PROVE  ManagersInv'
<1>1. TypeOKManagers'
  BY DEF ManagersInv, TypeOKManagers, Phases
<1>2. CallsInv'
  <2> SUFFICES ASSUME NEW r \in Recordings
               PROVE  /\ phase'[r] = "idle" => held'[r] = 0
                      /\ phase'[r] # "idle" => manager'[r] \in Managers /\ held'[r] <= taken'[manager'[r]]
                      /\ phase'[r] = "holding" => held'[r] > 0
    BY DEF CallsInv
  <2>1. CASE phase[r] = "idle"
    <3>1. held'[r] = 0 /\ \A m \in Managers : taken'[m] \in Nat
      BY <2>1 DEF ManagersInv, CallsInv, TypeOKManagers
    <3>2. phase'[r] # "holding"
      BY <2>1
    <3>3. phase'[r] # "idle" => manager'[r] \in Managers
      BY <2>1
    <3>4. held'[r] = 0 /\ \A m \in Managers : taken'[m] \in Nat
      BY <3>1
    <3>5. ASSUME phase'[r] # "idle" PROVE held'[r] <= taken'[manager'[r]]
      <4>1. taken'[manager'[r]] \in Nat
        BY <3>3, <3>4, <3>5
      <4> QED BY <3>4, <4>1
    <3> QED BY <3>2, <3>3, <3>4, <3>5
  <2>2. CASE phase[r] # "idle"
    <3>1. phase'[r] # "idle" /\ manager'[r] = manager[r] /\ (phase'[r] = "holding" => phase[r] = "holding")
      BY <2>2
    <3> QED BY <2>2, <3>1 DEF ManagersInv, CallsInv
  <2> QED BY <2>1, <2>2
<1>3. WriterInv'
  <2>1. ASSUME NEW r \in Writing'
        PROVE  r \in Writing /\ phase'[r] = phase[r] /\ manager'[r] = manager[r]
    BY <2>1 DEF Writing
  <2>2. ASSUME NEW r \in Writing' PROVE Kept(r)' = Kept(r)
    BY <2>1, <2>2 DEF Kept
  <2> QED BY <2>1, <2>2 DEF ManagersInv, WriterInv
<1>4. FileIsOneRecording'
  BY DEF ManagersInv, FileIsOneRecording
<1> QED BY <1>1, <1>2, <1>3, <1>4 DEF ManagersInv

LEMMA LaunchKeeps ==
  ASSUME ManagersInv, NEW r \in Recordings, NEW m \in Managers, Launch(r, m)
  PROVE  ManagersInv'
<1>1. /\ UNCHANGED <<recording, taken, held, offset, file, overlapped>> /\ phase[r] = "idle"
      /\ phase' = [phase EXCEPT ![r] = "launched"] /\ manager' = [manager EXCEPT ![r] = m]
  BY DEF Launch, Goto
<1>2. phase \in [Recordings -> Phases] /\ manager \in [Recordings -> Managers \union {0}]
      /\ recording \subseteq Managers /\ "launched" \in Phases
  BY DEF ManagersInv, TypeOKManagers, Phases, Active
<1>3. phase' \in [Recordings -> Phases] /\ manager' \in [Recordings -> Managers \union {0}]
  BY <1>1, <1>2
<1>4. /\ phase'[r] = "launched" /\ manager'[r] = m
      /\ \A q \in Recordings : q # r => phase'[q] = phase[q] /\ manager'[q] = manager[q]
  BY <1>1, <1>2
<1>5. "idle" \notin Reads
  BY DEF Reads, Active
<1>6. MicrophoneIsRead'
  BY <1>1, <1>4, <1>5, MicrophoneStays DEF ManagersInv
<1> QED BY <1>1, <1>2, <1>3, <1>4, <1>6, QuietKeeps

LEMMA CancelOfKeeps ==
  ASSUME ManagersInv, NEW m, CancelOf(m)
  PROVE  ManagersInv'
<1>1. /\ UNCHANGED <<recording, taken, manager, held, offset, file, overlapped>>
      /\ phase' = [r \in Recordings |->
           IF phase[r] = "launched" /\ manager[r] = m THEN "cancelled" ELSE phase[r]]
  BY DEF CancelOf
<1>2. phase \in [Recordings -> Phases] /\ manager \in [Recordings -> Managers \union {0}]
      /\ recording \subseteq Managers /\ "cancelled" \in Phases
  BY DEF ManagersInv, TypeOKManagers, Phases, Over
<1>3. ASSUME NEW r \in Recordings
      PROVE  phase'[r] = phase[r] \/ (phase[r] = "launched" /\ phase'[r] = "cancelled")
  <2>1. phase'[r] = IF phase[r] = "launched" /\ manager[r] = m THEN "cancelled" ELSE phase[r]
    BY <1>1, Zenon
  <2> QED BY <2>1
<1>4. phase' \in [Recordings -> Phases]
  BY <1>1, <1>2
<1>5. "launched" \notin Reads
  BY DEF Reads, Active
<1>6. MicrophoneIsRead'
  BY <1>1, <1>3, <1>5, MicrophoneStays DEF ManagersInv
<1> QED BY <1>1, <1>2, <1>3, <1>4, <1>6, QuietKeeps

LEMMA StopKeeps ==
  ASSUME ManagersInv, NEW m, StopRecord(m)
  PROVE  ManagersInv'
<1>1. /\ UNCHANGED <<taken, phase, manager, held, offset, file, overlapped>>
      /\ recording' = recording \ {m}
  BY DEF StopRecord
<1>2. phase \in [Recordings -> Phases] /\ manager \in [Recordings -> Managers \union {0}]
      /\ recording' \subseteq Managers
  BY <1>1 DEF ManagersInv, TypeOKManagers, Phases
<1>3. MicrophoneIsRead'
  BY <1>1, MicrophoneStays DEF ManagersInv
<1> QED BY <1>1, <1>2, <1>3, QuietKeeps

LEMMA StartKeeps ==
  ASSUME ManagersInv, NEW r \in Recordings, StartRecording(r)
  PROVE  ManagersInv'
<1>1. /\ UNCHANGED <<taken, manager, held, offset, file, overlapped>> /\ phase[r] = "launched"
      /\ phase' = [phase EXCEPT ![r] = "opening"] /\ recording' = recording \union {manager[r]}
  BY DEF StartRecording, Goto
<1>2. /\ phase \in [Recordings -> Phases] /\ manager \in [Recordings -> Managers \union {0}]
      /\ "opening" \in Phases /\ "opening" \in Reads /\ "launched" \notin Reads
      /\ recording \subseteq Managers
  BY DEF ManagersInv, TypeOKManagers, Phases, Active, Reads
<1>3. manager[r] \in Managers
  BY <1>1, CallFacts DEF ManagersInv
<1>4. /\ phase' \in [Recordings -> Phases] /\ recording' \subseteq Managers
      /\ phase'[r] = "opening" /\ \A q \in Recordings : q # r => phase'[q] = phase[q]
  BY <1>1, <1>2, <1>3
<1>5. MicrophoneIsRead'
  BY <1>1, <1>2, <1>4, MicrophoneStays DEF ManagersInv
<1> QED BY <1>1, <1>2, <1>4, <1>5, QuietKeeps

\* The ways a call ends, whatever of its microphone it was reading.
LEMMA EndKeeps ==
  ASSUME ManagersInv, NEW r \in Recordings,
         \/ NoStream(r) \/ ReadFails(r) \/ Throws(r) 
         \/ Read(r) /\ manager[r] \notin recording
  PROVE  ManagersInv'
<1>1. UNCHANGED <<recording, taken, manager, held, offset, file, overlapped>>
  BY DEF NoStream, ReadFails, Throws, Read
<1>2. PICK to \in {"noStream", "readFailed", "threw", "ended"} :
        /\ phase' = [phase EXCEPT ![r] = to]
        /\ to = "ended" => manager[r] \notin recording
        /\ phase[r] # "idle"
  BY DEF NoStream, ReadFails, Throws, Read, Goto
<1>3. /\ phase \in [Recordings -> Phases] /\ manager \in [Recordings -> Managers \union {0}]
      /\ to \in Phases /\ to \notin {"idle", "reading", "holding"} /\ (to # "ended" => to \in Reads)
      /\ recording \subseteq Managers
  BY DEF ManagersInv, TypeOKManagers, Phases, Over, Reads
<1>4. /\ phase' \in [Recordings -> Phases]
      /\ phase'[r] = to /\ \A q \in Recordings : q # r => phase'[q] = phase[q]
  BY <1>2, <1>3
<1>5. MicrophoneIsRead'
  BY <1>1, <1>2, <1>3, <1>4, MicrophoneStays DEF ManagersInv
<1> QED BY <1>1, <1>2, <1>3, <1>4, <1>5, QuietKeeps

\* The file is truncated; if nobody else writes it, the call is its one writer from here on.
LEMMA OpenKeeps ==
  ASSUME ManagersInv, NEW r \in Recordings, OpenFile(r)
  PROVE  ManagersInv'
<1>1. /\ UNCHANGED <<recording, taken, manager, held>> /\ phase[r] = "opening"
      /\ phase' = [phase EXCEPT ![r] = "reading"] /\ offset' = [offset EXCEPT ![r] = 0]
      /\ file' = << >> /\ Len(file') = 0 /\ overlapped' = (Writing # {})
  BY DEF OpenFile, Goto
<1>2. /\ phase \in [Recordings -> Phases] /\ offset \in [Recordings -> Nat]
      /\ "reading" \in Phases /\ "reading" \in Reads
  BY DEF ManagersInv, TypeOKManagers, Phases, Active, Reads
<1>3. /\ phase' \in [Recordings -> Phases] /\ offset' \in [Recordings -> Nat] /\ offset'[r] = 0
      /\ phase'[r] = "reading" /\ \A q \in Recordings : q # r => phase'[q] = phase[q]
  BY <1>1, <1>2
<1>4. TypeOKManagers'
  <2>1. overlapped' \in BOOLEAN
    BY <1>1
  <2>2. file' \in Seq((Managers \X (1 .. MaxChunks)) \union {Hole})
    BY <1>1
  <2> QED BY <1>1, <1>3, <2>1, <2>2 DEF ManagersInv, TypeOKManagers, Phases
<1>5. CallsInv'
  BY <1>1, <1>3 DEF ManagersInv, CallsInv
<1>6. MicrophoneIsRead'
  BY <1>1, <1>2, <1>3, MicrophoneStays DEF ManagersInv
<1>7. WriterInv'
  <2> SUFFICES ASSUME ~overlapped'
               PROVE  /\ \A p, q \in Writing' : p = q
                      /\ \A q \in Writing' :
                           /\ offset'[q] = Len(file')
                           /\ phase'[q] = "holding" => held'[q] = taken'[manager'[q]]
                           /\ \A i \in 1 .. Len(file') :
                                file'[i] = <<manager'[q], Kept(q)' - Len(file') + i>>
    BY DEF WriterInv
  <2>1. Writing = {}
    BY <1>1
  <2>2. \A q \in Writing' : q = r
    BY <1>3, <2>1 DEF Writing
  <2> QED BY <1>1, <1>3, <2>2
<1>8. FileIsOneRecording'
  BY <1>1 DEF FileIsOneRecording
<1> QED BY <1>4, <1>5, <1>6, <1>7, <1>8 DEF ManagersInv

\* The microphone gives the next chunk.
LEMMA ReadKeeps ==
  ASSUME ManagersInv, NEW r \in Recordings, Read(r), manager[r] \in recording
  PROVE  ManagersInv'
<1> DEFINE m == manager[r]
<1>1. /\ UNCHANGED <<recording, manager, offset, file, overlapped>> /\ phase[r] = "reading"
      /\ taken[m] < MaxChunks
      /\ taken' = [taken EXCEPT ![m] = @ + 1] /\ held' = [held EXCEPT ![r] = taken'[m]]
      /\ phase' = [phase EXCEPT ![r] = "holding"]
  BY DEF Read, Goto
<1>2. /\ phase \in [Recordings -> Phases] /\ held \in [Recordings -> 0 .. MaxChunks]
      /\ taken \in [Managers -> 0 .. MaxChunks]
      /\ "holding" \in Phases /\ "holding" \in Reads
  BY DEF ManagersInv, TypeOKManagers, Phases, Active, Reads
<1>3. m \in Managers
  BY <1>1, CallFacts DEF ManagersInv
<1> HIDE DEF m
<1>4. /\ taken[m] \in Nat /\ taken[m] + 1 \in 0 .. MaxChunks /\ taken'[m] = taken[m] + 1
      /\ \A k \in Managers : k # m => taken'[k] = taken[k]
      /\ \A k \in Managers : taken[k] \in Nat /\ taken'[k] \in Nat /\ taken[k] <= taken'[k]
      /\ taken' \in [Managers -> 0 .. MaxChunks]
  <2>1. taken[m] \in Nat /\ taken[m] + 1 \in 0 .. MaxChunks /\ taken'[m] = taken[m] + 1
    BY <1>1, <1>2, <1>3
  <2>2. \A k \in Managers : k # m => taken'[k] = taken[k]
    BY <1>1, <1>2, <1>3
  <2>3. taken' \in [Managers -> 0 .. MaxChunks]
    BY <1>1, <1>2, <1>3, <2>1
  <2>4. \A k \in Managers : taken[k] \in Nat /\ taken'[k] \in Nat
    BY <1>2, <2>3
  <2>5. \A k \in Managers : taken[k] <= taken'[k]
    BY <2>1, <2>2, <2>4
  <2> QED BY <2>1, <2>2, <2>3, <2>4, <2>5
<1>5. /\ phase' \in [Recordings -> Phases] /\ phase'[r] = "holding"
      /\ held' \in [Recordings -> 0 .. MaxChunks] /\ held'[r] = taken[m] + 1
      /\ \A q \in Recordings : q # r => phase'[q] = phase[q] /\ held'[q] = held[q]
  BY <1>1, <1>2, <1>4
<1>6. TypeOKManagers'
  BY <1>1, <1>4, <1>5 DEF ManagersInv, TypeOKManagers, Phases
<1>7. CallsInv'
  <2> SUFFICES ASSUME NEW q \in Recordings
               PROVE  /\ phase'[q] = "idle" => held'[q] = 0
                      /\ phase'[q] # "idle" => manager'[q] \in Managers /\ held'[q] <= taken'[manager'[q]]
                      /\ phase'[q] = "holding" => held'[q] > 0
    BY DEF CallsInv
  <2>1. CASE q = r
    BY <1>1, <1>3, <1>4, <1>5, <2>1 DEF m
  <2>2. CASE q # r
    <3>1. /\ phase[q] = "idle" => held[q] = 0
          /\ phase[q] # "idle" => manager[q] \in Managers /\ held[q] <= taken[manager[q]]
          /\ phase[q] = "holding" => held[q] > 0
      BY DEF ManagersInv, CallsInv
    <3>2. ASSUME phase[q] # "idle" PROVE held[q] <= taken'[manager[q]]
      <4>1. held[q] \in Nat /\ held[q] <= taken[manager[q]]
        BY <1>2, <3>1, <3>2
      <4>2. /\ taken[manager[q]] \in Nat /\ taken'[manager[q]] \in Nat
            /\ taken[manager[q]] <= taken'[manager[q]]
        BY <1>4, <3>1, <3>2
      <4> QED BY <4>1, <4>2
    <3> QED BY <1>1, <1>5, <2>2, <3>1, <3>2
  <2> QED BY <2>1, <2>2
<1>8. MicrophoneIsRead'
  BY <1>1, <1>2, <1>5, MicrophoneStays DEF ManagersInv
<1>9. WriterInv'
  <2> SUFFICES ASSUME ~overlapped'
               PROVE  /\ \A p, q \in Writing' : p = q
                      /\ \A q \in Writing' :
                           /\ offset'[q] = Len(file')
                           /\ phase'[q] = "holding" => held'[q] = taken'[manager'[q]]
                           /\ \A i \in 1 .. Len(file') :
                                file'[i] = <<manager'[q], Kept(q)' - Len(file') + i>>
    BY DEF WriterInv
  <2>1. r \in Writing /\ \A q \in Writing' : q \in Writing
    BY <1>1, <1>5 DEF Writing
  <2>2. \A q \in Writing' : q = r
    BY <1>1, <2>1 DEF ManagersInv, WriterInv
  <2>3. /\ offset[r] = Len(file)
        /\ \A i \in 1 .. Len(file) : file[i] = <<manager[r], Kept(r) - Len(file) + i>>
    BY <1>1, <2>1 DEF ManagersInv, WriterInv
  <2>4. Kept(r) = taken[m] /\ Kept(r)' = taken[m]
    BY <1>1, <1>4, <1>5 DEF Kept, m
  <2>5. held'[r] = taken'[manager'[r]]
    BY <1>1, <1>4, <1>5 DEF m
  <2> QED BY <1>1, <2>2, <2>3, <2>4, <2>5
<1>10. FileIsOneRecording'
  BY <1>1 DEF ManagersInv, FileIsOneRecording
<1> QED BY <1>6, <1>7, <1>8, <1>9, <1>10 DEF ManagersInv

\* A chunk written at a position of a file, or beyond its end.
LEMMA PutFacts ==
  ASSUME NEW S, NEW f \in Seq(S), NEW at \in Nat \ {0}, NEW c \in S, Hole \in S
  PROVE  /\ Put(f, at, c) \in Seq(S)
         /\ at = Len(f) + 1 =>
              /\ Len(Put(f, at, c)) = Len(f) + 1
              /\ Put(f, at, c)[at] = c
              /\ \A i \in 1 .. Len(f) : Put(f, at, c)[i] = f[i]
<1> DEFINE n == IF at > Len(f) THEN at ELSE Len(f)
           g == Put(f, at, c)
<1>1. Len(f) \in Nat /\ n \in Nat /\ \A i \in 1 .. Len(f) : f[i] \in S
  BY LenProperties, ElementOfSeq
<1>2. g = [i \in 1 .. n |->
             CASE i = at -> c [] i # at /\ i <= Len(f) -> f[i] [] OTHER -> Hole]
  BY DEF Put
<1> HIDE DEF g, n
<1>3. DOMAIN g = 1 .. n
  BY <1>2
<1>4. ASSUME NEW i \in 1 .. n
      PROVE  /\ i = at => g[i] = c
             /\ i # at /\ i <= Len(f) => g[i] = f[i]
             /\ i # at /\ ~(i <= Len(f)) => g[i] = Hole
  BY <1>2
<1>5. \A i \in 1 .. n : g[i] \in S
  <2> SUFFICES ASSUME NEW i \in 1 .. n PROVE g[i] \in S
    OBVIOUS
  <2>1. i <= Len(f) => i \in 1 .. Len(f)
    BY <1>1
  <2> QED BY <1>1, <1>4, <2>1
<1>6. g \in [1 .. n -> S]
  BY <1>2, <1>3, <1>5
<1>7. g \in Seq(S) /\ Len(g) = n
  BY <1>1, <1>6
<1>8. ASSUME at = Len(f) + 1
      PROVE  /\ Len(g) = Len(f) + 1
             /\ g[at] = c /\ \A i \in 1 .. Len(f) : g[i] = f[i]
  <2>1. n = Len(f) + 1
    BY <1>1, <1>8 DEF n
  <2>2. at \in 1 .. n /\ \A i \in 1 .. Len(f) : i \in 1 .. n /\ i # at /\ i <= Len(f)
    BY <1>1, <1>8, <2>1
  <2>3. g[at] = c
    BY <1>4, <2>2
  <2>4. \A i \in 1 .. Len(f) : g[i] = f[i]
    BY <1>4, <2>2
  <2> QED BY <1>7, <2>1, <2>3, <2>4
<1> QED BY <1>7, <1>8 DEF g

\* A chunk is written: at the end, if nobody else writes the file.
LEMMA WriteKeeps ==
  ASSUME ManagersInv, NEW r \in Recordings, Write(r)
  PROVE  ManagersInv'
<1> DEFINE chunk == <<manager[r], held[r]>>
           S == (Managers \X (1 .. MaxChunks)) \union {Hole}
<1>1. /\ UNCHANGED <<recording, taken, manager, held, overlapped>> /\ phase[r] = "holding"
      /\ file' = Put(file, offset[r] + 1, chunk)
      /\ offset' = [offset EXCEPT ![r] = @ + 1]
      /\ phase' = [phase EXCEPT ![r] = "reading"]
  BY DEF Write, Goto
<1>2. /\ phase \in [Recordings -> Phases] /\ offset \in [Recordings -> Nat]
      /\ held \in [Recordings -> 0 .. MaxChunks]
      /\ "reading" \in Phases /\ "reading" \in Reads /\ file \in Seq(S) /\ Hole \in S
  BY DEF ManagersInv, TypeOKManagers, Phases, Active, Reads
<1>3. /\ phase' \in [Recordings -> Phases] /\ offset' \in [Recordings -> Nat]
      /\ offset[r] \in Nat /\ offset'[r] = offset[r] + 1 /\ phase'[r] = "reading"
      /\ \A q \in Recordings : q # r => phase'[q] = phase[q] /\ offset'[q] = offset[q]
  BY <1>1, <1>2
<1>4. chunk \in S /\ manager[r] \in Managers /\ held[r] \in 1 .. MaxChunks /\ Len(file) \in Nat
  <2>1. manager[r] \in Managers /\ held[r] > 0 /\ held[r] \in 0 .. MaxChunks /\ Len(file) \in Nat
    BY <1>1, <1>2, CallFacts DEF ManagersInv, CallsInv
  <2> QED BY <2>1
<1>5. offset[r] + 1 \in Nat \ {0}
  BY <1>3
<1> HIDE DEF chunk, S
<1>6. /\ file' \in Seq(S)
      /\ offset[r] + 1 = Len(file) + 1 =>
           /\ Len(file') = Len(file) + 1
           /\ file'[offset[r] + 1] = chunk
           /\ \A i \in 1 .. Len(file) : file'[i] = file[i]
  <2> DEFINE at == offset[r] + 1
  <2>1. at \in Nat \ {0} /\ file \in Seq(S) /\ chunk \in S /\ Hole \in S
    BY <1>2, <1>4, <1>5
  <2> HIDE DEF at, chunk, S
  <2>2. /\ Put(file, at, chunk) \in Seq(S)
        /\ at = Len(file) + 1 =>
             /\ Len(Put(file, at, chunk)) = Len(file) + 1
             /\ Put(file, at, chunk)[at] = chunk
             /\ \A i \in 1 .. Len(file) : Put(file, at, chunk)[i] = file[i]
    <3>1. Put(file, at, chunk) \in Seq(S)
      BY <2>1, PutFacts
    <3>2. ASSUME at = Len(file) + 1
          PROVE  Len(Put(file, at, chunk)) = Len(file) + 1
      BY <2>1, <3>2, PutFacts
    <3>3. ASSUME at = Len(file) + 1
          PROVE  Put(file, at, chunk)[at] = chunk
      BY <2>1, <3>3, PutFacts
    <3>4. ASSUME at = Len(file) + 1
          PROVE  \A i \in 1 .. Len(file) : Put(file, at, chunk)[i] = file[i]
      BY <2>1, <3>4, PutFacts
    <3> QED BY <3>1, <3>2, <3>3, <3>4
  <2> QED BY <1>1, <2>2 DEF at
<1>7. TypeOKManagers'
  BY <1>1, <1>3, <1>6 DEF ManagersInv, TypeOKManagers, Phases, S
<1>8. CallsInv'
  BY <1>1, <1>3 DEF ManagersInv, CallsInv
<1>9. MicrophoneIsRead'
  BY <1>1, <1>2, <1>3, MicrophoneStays DEF ManagersInv
<1>10. ASSUME ~overlapped
       PROVE  /\ \A q \in Writing' : q = r
              /\ offset'[r] = Len(file') /\ Len(file') = Len(file) + 1
              /\ Kept(r)' = held[r]
              /\ \A i \in 1 .. Len(file') : file'[i] = <<manager[r], held[r] - Len(file') + i>>
              /\ \A i \in 1 .. Len(file') : file'[i] # Hole
  <2>1. r \in Writing /\ \A q \in Writing' : q \in Writing
    BY <1>1, <1>3 DEF Writing
  <2>2. /\ offset[r] = Len(file) /\ held[r] = taken[manager[r]]
        /\ \A q \in Writing : q = r
        /\ \A i \in 1 .. Len(file) : file[i] = <<manager[r], held[r] - 1 - Len(file) + i>>
    BY <1>1, <1>10, <2>1 DEF ManagersInv, WriterInv, Kept
  <2>3. /\ Len(file') = Len(file) + 1 /\ file'[Len(file) + 1] = chunk
        /\ \A i \in 1 .. Len(file) : file'[i] = file[i]
    <3>1. offset[r] + 1 = Len(file) + 1
      BY <2>2
    <3> QED BY <1>6, <3>1
  <2>4. offset'[r] = Len(file')
    BY <1>3, <2>2, <2>3
  <2>5. Kept(r)' = held[r]
    BY <1>1, <1>3, <2>2 DEF Kept
  <2>6. ASSUME NEW i \in 1 .. Len(file')
        PROVE  file'[i] = <<manager[r], held[r] - Len(file') + i>> /\ file'[i] # Hole
    <3>1. CASE i \in 1 .. Len(file)
      <4>1. file'[i] = <<manager[r], held[r] - 1 - Len(file) + i>>
        BY <2>2, <2>3, <3>1
      <4>2. held[r] - 1 - Len(file) + i = held[r] - Len(file') + i
        BY <1>4, <2>3, <3>1
      <4>3. file[i] # Hole
        BY <1>10, <3>1 DEF ManagersInv, FileIsOneRecording
      <4>4. file'[i] = file[i]
        BY <2>3, <3>1
      <4> QED BY <4>1, <4>2, <4>3, <4>4
    <3>2. CASE i = Len(file) + 1
      <4>1. held[r] - Len(file') + i = held[r]
        BY <1>4, <2>3, <3>2
      <4>2. chunk # Hole
        BY <1>4 DEF chunk, Hole
      <4> QED BY <2>3, <3>2, <4>1, <4>2 DEF chunk
    <3> QED BY <1>4, <2>3, <3>1, <3>2
  <2> QED BY <2>1, <2>2, <2>3, <2>4, <2>5, <2>6
<1>11. WriterInv'
  BY <1>1, <1>3, <1>10 DEF WriterInv
<1>12. FileIsOneRecording'
  <2> SUFFICES ASSUME ~overlapped, NEW i \in 1 .. Len(file')
               PROVE  file'[i] = <<file'[1][1], file'[1][2] + i - 1>> /\ file'[i] # Hole
    BY <1>1 DEF FileIsOneRecording
  <2>1. 1 \in 1 .. Len(file') /\ Len(file') \in Nat
    BY <1>4, <1>10
  <2>2. file'[1] = <<manager[r], held[r] - Len(file') + 1>>
    BY <1>10, <2>1
  <2>3. file'[i] = <<manager[r], held[r] - Len(file') + i>> /\ file'[i] # Hole
    BY <1>10
  <2>4. (held[r] - Len(file') + 1) + i - 1 = held[r] - Len(file') + i
    BY <1>4, <2>1
  <2> QED BY <2>2, <2>3, <2>4
<1> QED BY <1>7, <1>8, <1>9, <1>11, <1>12 DEF ManagersInv

-----------------------------------------------------------------------------
(* The loop that moves the bars.                                           *)

LEMMA MiddleIsHalf == Middle \in Nat /\ Bars = 2 * Middle /\ Middle >= 1
BY BarsAssumption DEF Middle

LEMMA Least ==
  ASSUME NEW B \in SUBSET Nat, B # {}
  PROVE  \E n \in B : \A m \in B : n <= m
<1>1. IsWellFoundedOn(OpToRel(<, Nat), Nat)
  BY NatLessThanWellFounded
<1>2. PICK n \in B : \A m \in B : ~(<<m, n>> \in OpToRel(<, Nat))
  BY <1>1, WFMin
<1>3. \A m \in B : ~(m < n)
  BY <1>2 DEF OpToRel
<1> QED BY <1>3

\* A turn of the loop, on the bars where no earlier one has been.
LEMMA TurnFacts ==
  ASSUME NEW u, DOMAIN u = 0 .. Bars - 1, NEW i \in 1 .. Middle
  PROVE  /\ MoveAt(u, i) = [j \in 0 .. Bars - 1 |-> MoveAt(u, i)[j]]
         /\ \A j \in 0 .. Bars - 1 :
              MoveAt(u, i)[j] = IF j = Bars - i THEN (IF i = Middle THEN u[i] ELSE u[Bars - 1 - i])
                                ELSE IF j = i - 1 THEN u[i] ELSE u[j]
<1> DEFINE w == [u EXCEPT ![i - 1] = u[i]]
<1>1. /\ i - 1 \in 0 .. Bars - 1 /\ Bars - i \in 0 .. Bars - 1 /\ Bars - 1 - i \in 0 .. Bars - 1
      /\ Bars - 1 - i = i - 1 <=> i = Middle
  BY MiddleIsHalf
<1>2. DOMAIN w = 0 .. Bars - 1 /\ \A j \in 0 .. Bars - 1 : w[j] = IF j = i - 1 THEN u[i] ELSE u[j]
  OBVIOUS
<1>3. MoveAt(u, i) = [w EXCEPT ![Bars - i] = w[Bars - 1 - i]]
  BY DEF MoveAt
<1> HIDE DEF w
<1>4. w[Bars - 1 - i] = IF i = Middle THEN u[i] ELSE u[Bars - 1 - i]
  BY <1>1, <1>2
<1>5. /\ MoveAt(u, i) = [j \in 0 .. Bars - 1 |-> MoveAt(u, i)[j]]
      /\ \A j \in 0 .. Bars - 1 :
           MoveAt(u, i)[j] = IF j = Bars - i THEN w[Bars - 1 - i] ELSE w[j]
  BY <1>2, <1>3
<1> QED BY <1>2, <1>4, <1>5

\* After all turns a bar shows what its neighbour towards the middle showed.
LEMMA MovedOutwards ==
  ASSUME NEW S, volumes \in [0 .. Bars - 1 -> S]
  PROVE  /\ Moved \in [0 .. Bars - 1 -> S]
         /\ \A j \in 0 .. Bars - 1 :
              /\ j < Middle => Moved[j] = volumes[j + 1]
              /\ j > Middle => Moved[j] = volumes[j - 1]
<1> DEFINE Is(g) == g = [i \in 0 .. Middle |-> IF i = 0 THEN volumes ELSE MoveAt(g[i - 1], i)]
           Bar(i, j) == IF j < i THEN volumes[j + 1]
                        ELSE IF j >= Bars - i /\ j > Middle THEN volumes[j - 1] ELSE volumes[j]
           G == [i \in 0 .. Middle |-> [j \in 0 .. Bars - 1 |-> Bar(i, j)]]
           F == CHOOSE g : Is(g)
<1>1. Moved = F[Middle]
  BY DEF Moved
<1>2. ASSUME NEW i \in 0 .. Middle
      PROVE  /\ DOMAIN G[i] = 0 .. Bars - 1
             /\ \A j \in 0 .. Bars - 1 : G[i][j] = Bar(i, j)
  OBVIOUS
<1>3. \A j \in 0 .. Bars - 1 : Bar(0, j) = volumes[j]
  BY MiddleIsHalf
<1>4. G[0] = volumes
  <2>1. 0 \in 0 .. Middle
    BY MiddleIsHalf
  <2>2. G[0] = [j \in 0 .. Bars - 1 |-> volumes[j]]
    BY <1>3, <2>1
  <2> QED BY <2>2
<1>5. ASSUME NEW i \in 1 .. Middle PROVE G[i] = MoveAt(G[i - 1], i)
  <2>1. i - 1 \in 0 .. Middle /\ i \in 0 .. Middle /\ Middle \in Nat /\ Bars = 2 * Middle
    BY MiddleIsHalf
  <2>2. DOMAIN G[i - 1] = 0 .. Bars - 1 /\ \A j \in 0 .. Bars - 1 : G[i - 1][j] = Bar(i - 1, j)
    BY <1>2, <2>1
  <2>3. i \in 0 .. Bars - 1 /\ Bars - 1 - i \in 0 .. Bars - 1
    BY <2>1
  <2>4. Bar(i - 1, i) = volumes[i] /\ (i # Middle => Bar(i - 1, Bars - 1 - i) = volumes[Bars - 1 - i])
    BY <2>1
  <2>5. \A j \in 0 .. Bars - 1 :
          MoveAt(G[i - 1], i)[j] =
            IF j = Bars - i THEN (IF i = Middle THEN G[i - 1][i] ELSE G[i - 1][Bars - 1 - i])
            ELSE IF j = i - 1 THEN G[i - 1][i] ELSE G[i - 1][j]
    <3> HIDE DEF G
    <3> QED BY <2>2, TurnFacts
  <2>6. MoveAt(G[i - 1], i) = [j \in 0 .. Bars - 1 |-> MoveAt(G[i - 1], i)[j]]
    <3> HIDE DEF G
    <3> QED BY <2>2, TurnFacts
  <2> HIDE DEF G
  <2>7. ASSUME NEW j \in 0 .. Bars - 1 PROVE MoveAt(G[i - 1], i)[j] = Bar(i, j)
    <3>1. CASE j = Bars - i /\ i = Middle
      <4>1. MoveAt(G[i - 1], i)[j] = volumes[i] /\ j = i
        BY <2>1, <2>2, <2>3, <2>4, <2>5, <3>1
      <4> QED BY <2>1, <4>1, <3>1
    <3>2. CASE j = Bars - i /\ i # Middle
      <4>1. MoveAt(G[i - 1], i)[j] = volumes[Bars - 1 - i] /\ Bars - 1 - i = j - 1
        BY <2>1, <2>2, <2>3, <2>4, <2>5, <3>2
      <4>2. ~(j < i) /\ j >= Bars - i /\ j > Middle
        BY <2>1, <3>2
      <4> QED BY <4>1, <4>2
    <3>3. CASE j # Bars - i /\ j = i - 1
      <4>1. MoveAt(G[i - 1], i)[j] = volumes[i] /\ i = j + 1 /\ j < i
        <5>1. MoveAt(G[i - 1], i)[j] = G[i - 1][i]
          BY <2>1, <2>5, <3>3
        <5>2. G[i - 1][i] = volumes[i]
          BY <2>2, <2>3, <2>4
        <5> QED BY <2>1, <3>3, <5>1, <5>2
      <4> QED BY <4>1
    <3>4. CASE j # Bars - i /\ j # i - 1
      <4>1. MoveAt(G[i - 1], i)[j] = Bar(i - 1, j)
        BY <2>2, <2>5, <3>4
      <4>2. (j < i <=> j < i - 1) /\ (j >= Bars - i <=> j >= Bars - (i - 1))
        BY <2>1, <3>4
      <4> QED BY <4>1, <4>2
    <3> QED BY <3>1, <3>2, <3>3, <3>4
  <2>8. DOMAIN G[i] = 0 .. Bars - 1 /\ \A j \in 0 .. Bars - 1 : G[i][j] = Bar(i, j)
    BY <1>2, <2>1
  <2>9. G[i] = [j \in 0 .. Bars - 1 |-> Bar(i, j)]
    BY <2>1 DEF G
  <2> QED BY <2>7, <2>9, <2>6
<1> HIDE DEF G, Bar
<1>6. Is(G)
  <2>1. G = [i \in 0 .. Middle |-> G[i]]
    BY DEF G
  <2>2. ASSUME NEW i \in 0 .. Middle
        PROVE  G[i] = IF i = 0 THEN volumes ELSE MoveAt(G[i - 1], i)
    <3>1. i # 0 => i \in 1 .. Middle
      BY MiddleIsHalf
    <3> QED BY <1>4, <1>5, <3>1
  <2> QED BY <2>1, <2>2
<1>7. Is(F)
  BY <1>6
<1> HIDE DEF F
<1>8. ASSUME NEW i \in 0 .. Middle
      PROVE  F[i] = IF i = 0 THEN volumes ELSE MoveAt(F[i - 1], i)
  BY <1>7
<1>9. F[Middle] = G[Middle]
  <2> DEFINE B == {i \in 0 .. Middle : F[i] # G[i]}
  <2>1. SUFFICES ASSUME B # {} PROVE FALSE
    BY MiddleIsHalf
  <2>2. B \in SUBSET Nat
    BY MiddleIsHalf
  <2>3. PICK n \in B : \A m \in B : n <= m
    <3> HIDE DEF B
    <3> QED BY <2>1, <2>2, Least
  <2>4. n # 0
    BY <1>4, <1>8, <2>3
  <2>5. n \in 1 .. Middle /\ n - 1 \in 0 .. Middle /\ ~(n <= n - 1)
    BY <2>3, <2>4, MiddleIsHalf
  <2>6. F[n - 1] = G[n - 1]
    BY <2>3, <2>5
  <2>7. F[n] = MoveAt(F[n - 1], n)
    BY <1>8, <2>4, <2>5
  <2> QED BY <1>5, <2>3, <2>5, <2>6, <2>7
<1>10. G[Middle] = [j \in 0 .. Bars - 1 |-> Bar(Middle, j)]
  BY MiddleIsHalf DEF G
<1>11. ASSUME NEW j \in 0 .. Bars - 1
       PROVE  /\ Bar(Middle, j) \in S
              /\ j < Middle => Bar(Middle, j) = volumes[j + 1]
              /\ j > Middle => Bar(Middle, j) = volumes[j - 1]
  <2>1. /\ j < Middle => j + 1 \in 0 .. Bars - 1
        /\ j > Middle => j - 1 \in 0 .. Bars - 1 /\ j >= Bars - Middle /\ ~(j < Middle)
    BY MiddleIsHalf
  <2> QED BY <2>1 DEF Bar
<1> QED BY <1>1, <1>9, <1>10, <1>11

-----------------------------------------------------------------------------
(* The bars (AudioScreen).                                                 *)

Sums == Seq(Seq(Nat))

BarType ==
  /\ consumer \in [Recordings -> {"none", "launched", "waiting", "received", "cancelled"}]
  /\ received \in [Recordings -> Seq(Nat)]
  /\ window \in Sums /\ Len(window) < Window
  /\ volumes \in [0 .. Bars - 1 -> Sums]
  /\ averages \in Seq(Sums)
SettingType ==
  granted \subseteq Permissions /\ visit \in Managers /\ shown \in BOOLEAN /\ dead \in BOOLEAN

BarsInv == BarType /\ VolumesInv /\ BarsShowHistory /\ VolumesInOrder
ScreenInv == ManagersInv /\ TrackInv /\ SettingType /\ BarsInv

\* What a later volume of a recording is greater than.
LEMMA VolumeStays ==
  ASSUME NEW v, VolumeInv(v), TypeOKManagers,
         \A r \in Recordings :
           /\ held'[r] \in Nat /\ held[r] <= held'[r]
           /\ phase'[r] = "holding" => held[r] < held'[r] \/ (phase[r] = "holding" /\ held[r] = held'[r])
           /\ consumer'[r] = "received" =>
                \/ consumer[r] = "received" /\ received'[r] = received[r]
                \/ phase[r] = "holding" /\ received'[r][2] = held[r]
  PROVE  VolumeInv(v)'
<1> DEFINE r == v[1]
<1>1. /\ v \in Recordings \X Nat /\ r \in Recordings /\ v[2] \in Nat /\ v[2] <= held[r]
      /\ phase[r] = "holding" => v[2] < held[r]
      /\ consumer[r] = "received" => v[2] < received[r][2]
  BY DEF VolumeInv
<1> HIDE DEF r
<1>2. held[r] \in Nat /\ held'[r] \in Nat /\ held[r] <= held'[r]
  BY <1>1 DEF TypeOKManagers
<1>3. v[2] <= held'[r]
  BY <1>1, <1>2
<1>4. phase'[r] = "holding" => v[2] < held'[r]
  BY <1>1, <1>2
<1>5. consumer'[r] = "received" => v[2] < received'[r][2]
  BY <1>1
<1> QED BY <1>1, <1>3, <1>4, <1>5 DEF VolumeInv, r

\* Every step of a call but the one that offers a volume, and every button.
LEMMA BarsStay ==
  ASSUME BarsInv, TypeOKManagers, BarType', UNCHANGED <<window, volumes, averages>>,
         \A r \in Recordings :
           /\ held'[r] \in Nat /\ held[r] <= held'[r]
           /\ phase'[r] = "holding" => held[r] < held'[r] \/ (phase[r] = "holding" /\ held[r] = held'[r])
           /\ consumer'[r] = "received" =>
                \/ consumer[r] = "received" /\ received'[r] = received[r]
                \/ phase[r] = "holding" /\ phase'[r] # "holding" /\ received'[r] = <<r, held[r]>>
  PROVE  BarsInv'
<1>1. ASSUME NEW r \in Recordings, consumer'[r] = "received"
      PROVE  /\ received'[r] \in Recordings \X Nat /\ received'[r][1] = r
             /\ received'[r][2] <= held'[r]
             /\ phase'[r] = "holding" => received'[r][2] < held'[r]
  <2>1. held[r] \in Nat /\ held'[r] \in Nat /\ held[r] <= held'[r]
    <3>1. held[r] \in 0 .. MaxChunks
      BY DEF TypeOKManagers
    <3>2. held[r] \in Nat
      BY <3>1
    <3>3. held'[r] \in Nat /\ held[r] <= held'[r]
      OBVIOUS
    <3> QED BY <3>2, <3>3
  <2>2. CASE phase[r] = "holding" /\ phase'[r] # "holding" /\ received'[r] = <<r, held[r]>>
    BY <2>1, <2>2
  <2>3. CASE consumer[r] = "received" /\ received'[r] = received[r]
    <3>1. /\ received[r] \in Recordings \X Nat /\ received[r][1] = r /\ received[r][2] <= held[r]
          /\ phase[r] = "holding" => received[r][2] < held[r]
      BY <2>3 DEF BarsInv, VolumesInv
    <3>2. received[r][2] \in Nat
      BY <3>1
    <3> QED BY <2>1, <2>3, <3>1, <3>2
  <2> QED BY <1>1, <2>2, <2>3
<1>2. ASSUME NEW v, VolumeInv(v) PROVE VolumeInv(v)'
  <2>1. \A r \in Recordings : consumer'[r] = "received" =>
          \/ consumer[r] = "received" /\ received'[r] = received[r]
          \/ phase[r] = "holding" /\ received'[r][2] = held[r]
    OBVIOUS
  <2> QED BY <1>2, <2>1, VolumeStays
<1>3. VolumesInv'
  <2>1. \A a \in DOMAIN window : VolumeInv(window[a])'
    BY <1>2 DEF BarsInv, VolumesInv
  <2>2. \A i \in DOMAIN averages : \A a \in DOMAIN averages[i] : VolumeInv(averages[i][a])'
    BY <1>2 DEF BarsInv, VolumesInv
  <2> QED BY <1>1, <2>1, <2>2 DEF BarsInv, VolumesInv
<1>4. BarsShowHistory' /\ VolumesInOrder'
  BY DEF BarsInv, BarsShowHistory, VolumesInOrder
<1> QED BY <1>3, <1>4 DEF BarsInv

\* A volume is taken from the channel: it joins the sum, or its window is shown.
LEMMA ShowKeeps ==
  ASSUME BarsInv, ManagersInv, NEW r \in Recordings, Show(r)
  PROVE  BarsInv'
<1>volume. PICK x : x = received[r]
  OBVIOUS
<1>sum. PICK sum : sum = Append(window, x)
  OBVIOUS
<1>1. /\ consumer[r] = "received" /\ UNCHANGED managerVars
      /\ consumer' = [consumer EXCEPT ![r] = "waiting"]
      /\ received' = [received EXCEPT ![r] = << >>]
      /\ \/ /\ Len(sum) >= Window /\ window' = << >>
            /\ volumes' = [Moved EXCEPT ![Middle] = sum] /\ averages' = Append(averages, sum)
         \/ Len(sum) < Window /\ window' = sum /\ UNCHANGED <<volumes, averages>>
  <2>1. Len(sum) \in Nat /\ Window \in Nat
    BY <1>volume, <1>sum, LenProperties DEF BarsInv, BarType, Sums
  <2> QED BY <1>volume, <1>sum, <2>1 DEF Show
<1>2. UNCHANGED <<held, phase>>
  BY <1>1 DEF managerVars
<1>3. /\ window \in Sums /\ averages \in Seq(Sums) /\ volumes \in [0 .. Bars - 1 -> Sums]
      /\ Len(window) < Window /\ x \in Seq(Nat) /\ Window \in Nat \ {0}
  BY <1>volume, WindowAssumption DEF BarsInv, BarType
<1>4. /\ x \in Recordings \X Nat /\ x[1] = r /\ x[2] <= held[r] /\ x[2] \in Nat
      /\ phase[r] = "holding" => x[2] < held[r]
  <2>1. /\ x \in Recordings \X Nat /\ x[1] = r /\ x[2] <= held[r]
        /\ phase[r] = "holding" => x[2] < held[r]
    BY <1>1, <1>volume DEF BarsInv, VolumesInv
  <2> QED BY <2>1
<1>5. /\ sum \in Sums /\ Len(window) \in Nat /\ Len(sum) = Len(window) + 1
      /\ DOMAIN window = 1 .. Len(window) /\ DOMAIN sum = 1 .. Len(window) + 1
      /\ \A a \in 1 .. Len(window) : sum[a] = window[a]
      /\ sum[Len(window) + 1] = x
      /\ \A a \in 1 .. Len(window) + 1 : a \in 1 .. Len(window) \/ a = Len(window) + 1
  BY <1>3, <1>sum, AppendFacts DEF Sums
<1>6. /\ consumer' \in [Recordings -> {"none", "launched", "waiting", "received", "cancelled"}]
      /\ received' \in [Recordings -> Seq(Nat)]
      /\ consumer'[r] = "waiting"
      /\ \A q \in Recordings : q # r => consumer'[q] = consumer[q] /\ received'[q] = received[q]
  <2>1. << >> \in Seq(Nat)
    OBVIOUS
  <2> QED BY <1>1, <2>1 DEF BarsInv, BarType
\* Of the volumes added up so far.
<1>7. ASSUME NEW v, VolumeInv(v)
      PROVE  VolumeInv(v)' /\ (v[1] = r => v[2] < x[2])
  <2>1. /\ v \in Recordings \X Nat /\ v[2] <= held[v[1]]
        /\ phase[v[1]] = "holding" => v[2] < held[v[1]]
        /\ consumer[v[1]] = "received" => v[2] < received[v[1]][2]
    BY <1>7 DEF VolumeInv
  <2>2. v[1] = r => v[2] < x[2]
    BY <1>1, <1>volume, <2>1
  <2>3. v[1] \in Recordings /\ (consumer'[v[1]] = "received" => v[1] # r)
    BY <1>6, <2>1
  <2>4. consumer'[v[1]] = "received" => v[2] < received'[v[1]][2]
    BY <1>6, <2>1, <2>3
  <2> QED BY <1>2, <2>1, <2>2, <2>4 DEF VolumeInv
<1>8. VolumeInv(x)'
  BY <1>2, <1>4, <1>6 DEF VolumeInv
<1>9. \A a \in DOMAIN sum : VolumeInv(sum[a])'
  <2> SUFFICES ASSUME NEW a \in DOMAIN sum PROVE VolumeInv(sum[a])'
    OBVIOUS
  <2>1. CASE a \in 1 .. Len(window)
    <3>1. VolumeInv(window[a])
      BY <1>5, <2>1 DEF BarsInv, VolumesInv
    <3> QED BY <1>5, <1>7, <2>1, <3>1
  <2>2. CASE a = Len(window) + 1
    BY <1>5, <1>8, <2>2
  <2> QED BY <1>5, <2>1, <2>2
<1>10. ASSUME NEW i \in DOMAIN averages, NEW a \in DOMAIN averages[i]
       PROVE  /\ \A v : v = averages[i][a] => VolumeInv(v)'
              /\ \A b \in DOMAIN sum : averages[i][a][1] = sum[b][1] => averages[i][a][2] < sum[b][2]
  <2>1. /\ VolumeInv(averages[i][a])
        /\ \A b \in DOMAIN window : averages[i][a][1] = window[b][1] => averages[i][a][2] < window[b][2]
    BY DEF BarsInv, VolumesInv
  <2>2. (\A v : v = averages[i][a] => VolumeInv(v)') /\ (averages[i][a][1] = r => averages[i][a][2] < x[2])
    BY <1>7, <2>1
  <2>3. ASSUME NEW b \in DOMAIN sum, averages[i][a][1] = sum[b][1]
        PROVE  averages[i][a][2] < sum[b][2]
    <3>1. CASE b \in 1 .. Len(window)
      BY <1>5, <2>1, <2>3, <3>1
    <3>2. CASE b = Len(window) + 1
      BY <1>4, <1>5, <2>2, <2>3, <3>2
    <3> QED BY <1>5, <3>1, <3>2
  <2> QED BY <2>1, <2>2, <2>3
<1>11. \A a, b \in DOMAIN sum : a < b /\ sum[a][1] = sum[b][1] => sum[a][2] < sum[b][2]
  <2> SUFFICES ASSUME NEW a \in DOMAIN sum, NEW b \in DOMAIN sum, a < b, sum[a][1] = sum[b][1]
               PROVE  sum[a][2] < sum[b][2]
    OBVIOUS
  <2>1. a \in 1 .. Len(window)
    BY <1>5
  <2>2. VolumeInv(window[a])
    BY <1>5, <2>1 DEF BarsInv, VolumesInv
  <2>3. CASE b \in 1 .. Len(window)
    BY <1>5, <2>1, <2>3 DEF BarsInv, VolumesInv
  <2>4. CASE b = Len(window) + 1
    BY <1>4, <1>5, <1>7, <2>1, <2>2, <2>4
  <2> QED BY <1>5, <2>3, <2>4
<1>12. \A q \in Recordings : consumer'[q] = "received" =>
         /\ received'[q] \in Recordings \X Nat /\ received'[q][1] = q
         /\ received'[q][2] <= held'[q]
         /\ phase'[q] = "holding" => received'[q][2] < held'[q]
  <2> SUFFICES ASSUME NEW q \in Recordings, consumer'[q] = "received"
               PROVE  /\ received'[q] \in Recordings \X Nat /\ received'[q][1] = q
                      /\ received'[q][2] <= held'[q]
                      /\ phase'[q] = "holding" => received'[q][2] < held'[q]
    OBVIOUS
  <2>1. q # r /\ consumer[q] = "received" /\ received'[q] = received[q]
    BY <1>6
  <2> QED BY <1>2, <2>1 DEF BarsInv, VolumesInv
\* The window goes on.
<1>13. CASE Len(sum) < Window /\ window' = sum /\ UNCHANGED <<volumes, averages>>
  <2>1. BarType'
    BY <1>3, <1>5, <1>6, <1>13 DEF BarType
  <2>2. VolumesInv'
    <3>1. \A a \in DOMAIN window' : VolumeInv(window[a])'
      BY <1>9, <1>13 DEF VolumeInv
    <3>2. \A i \in DOMAIN averages' : \A a \in DOMAIN averages'[i] : VolumeInv(averages[i][a])'
      BY <1>10, <1>13 DEF VolumeInv
    <3>3. \A i \in DOMAIN averages' : \A a \in DOMAIN averages'[i] :
            \A b \in DOMAIN window' :
              averages'[i][a][1] = window'[b][1] => averages'[i][a][2] < window'[b][2]
      BY <1>10, <1>13
    <3>4. \A a, b \in DOMAIN window' :
            a < b /\ window'[a][1] = window'[b][1] => window'[a][2] < window'[b][2]
      BY <1>11, <1>13
    <3> QED BY <1>12, <3>1, <3>3, <3>4, <3>2 DEF VolumesInv
  <2>3. BarsShowHistory' /\ VolumesInOrder'
    BY <1>13 DEF BarsInv, BarsShowHistory, VolumesInOrder
  <2> QED BY <2>1, <2>2, <2>3 DEF BarsInv
\* The window is full.
<1>14. CASE /\ Len(sum) >= Window /\ window' = << >>
            /\ volumes' = [Moved EXCEPT ![Middle] = sum] /\ averages' = Append(averages, sum)
  <2>1. /\ averages' \in Seq(Sums) /\ Len(averages) \in Nat /\ Len(averages') = Len(averages) + 1
        /\ DOMAIN averages = 1 .. Len(averages) /\ DOMAIN averages' = 1 .. Len(averages) + 1
        /\ \A i \in 1 .. Len(averages) : averages'[i] = averages[i]
        /\ averages'[Len(averages) + 1] = sum
        /\ \A i \in 1 .. Len(averages) + 1 : i \in 1 .. Len(averages) \/ i = Len(averages) + 1
    BY <1>3, <1>5, <1>14, AppendFacts
  <2>2. Middle \in 0 .. Bars - 1 /\ Middle \in Nat /\ Bars = 2 * Middle
    BY MiddleIsHalf
  <2>3. /\ Moved \in [0 .. Bars - 1 -> Sums]
        /\ \A j \in 0 .. Bars - 1 :
             /\ j < Middle => Moved[j] = volumes[j + 1]
             /\ j > Middle => Moved[j] = volumes[j - 1]
    BY <1>3, MovedOutwards
  <2>4. /\ volumes' \in [0 .. Bars - 1 -> Sums] /\ volumes'[Middle] = sum
        /\ \A j \in 0 .. Bars - 1 :
             /\ j < Middle => volumes'[j] = volumes[j + 1]
             /\ j > Middle => volumes'[j] = volumes[j - 1]
    BY <1>5, <1>14, <2>2, <2>3
  <2>5. BarType'
    <3>1. window' \in Sums /\ Len(window') < Window
      BY <1>3, <1>14 DEF Sums
    <3> QED BY <1>6, <2>1, <2>4, <3>1 DEF BarType
  <2>6. VolumesInv'
    <3>1. DOMAIN window' = {}
      BY <1>14
    <3>2. ASSUME NEW i \in DOMAIN averages', NEW a \in DOMAIN averages'[i]
          PROVE  VolumeInv(averages[i][a])'
      <4>1. CASE i \in 1 .. Len(averages)
        <5>1. i \in DOMAIN averages /\ averages'[i] = averages[i]
          BY <2>1, <4>1
        <5> QED BY <1>10, <3>2, <5>1 DEF VolumeInv
      <4>2. CASE i = Len(averages) + 1
        BY <1>9, <2>1, <3>2, <4>2 DEF VolumeInv
      <4> QED BY <2>1, <3>2, <4>1, <4>2
    <3> QED BY <1>12, <3>1, <3>2 DEF VolumesInv
  <2>7. VolumesInOrder'
    <3> SUFFICES ASSUME NEW i \in DOMAIN averages', NEW k \in DOMAIN averages',
                        NEW a \in DOMAIN averages'[i], NEW b \in DOMAIN averages'[k],
                        i < k \/ (i = k /\ a < b), averages'[i][a][1] = averages'[k][b][1]
                 PROVE  averages'[i][a][2] < averages'[k][b][2]
      BY DEF VolumesInOrder
    <3>1. CASE i \in 1 .. Len(averages) /\ k \in 1 .. Len(averages)
      BY <2>1, <3>1 DEF BarsInv, VolumesInOrder
    <3>2. CASE i \in 1 .. Len(averages) /\ k = Len(averages) + 1
      BY <1>10, <2>1, <3>2
    <3>3. CASE i = Len(averages) + 1
      <4>1. k = Len(averages) + 1 /\ a < b
        BY <2>1, <3>3
      <4> QED BY <1>11, <2>1, <3>3, <4>1
    <3> QED BY <2>1, <3>1, <3>2, <3>3
  <2>8. BarsShowHistory'
    <3> DEFINE ago(n) == IF n < Len(averages) THEN averages[Len(averages) - n] ELSE Silent
               agoNow(n) == IF n < Len(averages') THEN averages'[Len(averages') - n] ELSE Silent
    <3>1. /\ \A n \in 0 .. Middle : volumes[Middle - n] = ago(n)
          /\ \A n \in 0 .. Middle - 1 : volumes[Middle + n] = ago(n)
      BY DEF BarsInv, BarsShowHistory
    <3>2. agoNow(0) = sum
      BY <2>1
    <3>3. ASSUME NEW n \in 1 .. Middle PROVE agoNow(n) = ago(n - 1)
      <4>1. CASE n < Len(averages')
        <5>1. Len(averages') - n = Len(averages) - (n - 1) /\ Len(averages') - n \in 1 .. Len(averages)
          BY <2>1, <2>2, <4>1
        <5>2. n - 1 < Len(averages)
          BY <2>1, <2>2, <4>1
        <5> QED BY <2>1, <4>1, <5>1, <5>2
      <4>2. CASE ~(n < Len(averages'))
        BY <2>1, <2>2, <4>2
      <4> QED BY <4>1, <4>2
    <3> HIDE DEF ago, agoNow
    <3>4. ASSUME NEW n \in 0 .. Middle PROVE volumes'[Middle - n] = agoNow(n)
      <4>1. CASE n = 0
        BY <2>2, <2>4, <3>2, <4>1
      <4>2. CASE n # 0
        <5>1. /\ n \in 1 .. Middle /\ n - 1 \in 0 .. Middle /\ Middle - n \in 0 .. Bars - 1
              /\ Middle - n < Middle /\ Middle - n + 1 = Middle - (n - 1)
          BY <2>2, <4>2
        <5> QED BY <2>4, <3>1, <3>3, <5>1
      <4> QED BY <4>1, <4>2
    <3>5. ASSUME NEW n \in 0 .. Middle - 1 PROVE volumes'[Middle + n] = agoNow(n)
      <4>1. CASE n = 0
        BY <2>2, <2>4, <3>2, <4>1
      <4>2. CASE n # 0
        <5>1. /\ n \in 1 .. Middle /\ n - 1 \in 0 .. Middle - 1 /\ Middle + n \in 0 .. Bars - 1
              /\ Middle + n > Middle /\ Middle + n - 1 = Middle + (n - 1)
          BY <2>2, <4>2
        <5>2. volumes'[Middle + n] = volumes[Middle + (n - 1)]
          <6> DEFINE j == Middle + n
          <6>1. j \in 0 .. Bars - 1 /\ j > Middle /\ j - 1 = Middle + (n - 1)
            BY <2>2, <5>1
          <6> HIDE DEF j
          <6>2. volumes'[j] = volumes[j - 1]
            BY <2>4, <6>1
          <6> QED BY <6>1, <6>2 DEF j
        <5> QED BY <3>1, <3>3, <5>1, <5>2
      <4> QED BY <4>1, <4>2
    <3> QED BY <3>4, <3>5 DEF BarsShowHistory, agoNow
  <2> QED BY <2>5, <2>6, <2>7, <2>8 DEF BarsInv
<1> QED BY <1>1, <1>13, <1>14

\* What the steps of the managers do to what the volumes are measured against.
LEMMA HeldFacts ==
  ASSUME ManagersInv, NEW r \in Recordings
  PROVE  \A q \in Recordings :
           /\ held[q] \in Nat
           /\ Launch(r, visit) \/ CancelOf(visit) \/ StopRecord(visit) \/ StartRecording(r)
                \/ OpenFile(r) \/ NoStream(r) \/ ReadFails(r) \/ Write(r) \/ Throws(r)
                \/ UNCHANGED managerVars
              => held'[q] = held[q] /\ (phase'[q] = "holding" => phase[q] = "holding")
<1>1. phase \in [Recordings -> Phases] /\ held \in [Recordings -> 0 .. MaxChunks]
  BY DEF ManagersInv, TypeOKManagers, Phases
<1> SUFFICES ASSUME NEW q \in Recordings
             PROVE  /\ held[q] \in Nat
                    /\ Launch(r, visit) \/ CancelOf(visit) \/ StopRecord(visit) \/ StartRecording(r)
                         \/ OpenFile(r) \/ NoStream(r) \/ ReadFails(r) \/ Write(r) \/ Throws(r)
                         \/ UNCHANGED managerVars
                       => held'[q] = held[q] /\ (phase'[q] = "holding" => phase[q] = "holding")
  OBVIOUS
<1>2. held[q] \in Nat
  BY <1>1
<1>3. ASSUME CancelOf(visit)
      PROVE  held'[q] = held[q] /\ (phase'[q] = "holding" => phase[q] = "holding")
  <2>1. held' = held /\ phase'[q] \in {"cancelled", phase[q]}
    BY <1>3 DEF CancelOf
  <2> QED BY <2>1
<1>4. ASSUME StopRecord(visit) \/ UNCHANGED managerVars
      PROVE  held'[q] = held[q] /\ (phase'[q] = "holding" => phase[q] = "holding")
  BY <1>4 DEF StopRecord, managerVars
<1>5. ASSUME \/ Launch(r, visit) \/ StartRecording(r) \/ OpenFile(r) \/ NoStream(r) \/ ReadFails(r)
             \/ Write(r) \/ Throws(r)
      PROVE  held'[q] = held[q] /\ (phase'[q] = "holding" => phase[q] = "holding")
  <2>1. /\ held' = held
        /\ \E to \in {"launched", "opening", "reading", "noStream", "readFailed", "threw"} :
             phase' = [phase EXCEPT ![r] = to]
    BY <1>5 DEF Launch, StartRecording, OpenFile, NoStream, ReadFails, Write, Throws, Goto
  <2> QED BY <1>1, <2>1
<1> QED BY <1>2, <1>3, <1>4, <1>5

LEMMA ManagersStay == ManagersInv /\ UNCHANGED managerVars => ManagersInv'
<1> SUFFICES ASSUME ManagersInv, UNCHANGED managerVars PROVE ManagersInv'
  OBVIOUS
<1>1. UNCHANGED <<recording, taken, phase, manager, held, offset, file, overlapped>>
  BY DEF managerVars
<1>2. TypeOKManagers'
  BY <1>1 DEF ManagersInv, TypeOKManagers
<1>3. CallsInv' /\ MicrophoneIsRead' /\ FileIsOneRecording'
  BY <1>1 DEF ManagersInv, CallsInv, MicrophoneIsRead, CallsOf, FileIsOneRecording
<1>4. WriterInv'
  <2>1. Writing' = Writing /\ \A r \in Writing : Kept(r)' = Kept(r)
    BY <1>1 DEF Writing, Kept
  <2> QED BY <1>1, <2>1 DEF ManagersInv, WriterInv
<1> QED BY <1>2, <1>3, <1>4 DEF ManagersInv

\* A step that no bar and no consumer takes part in.
LEMMA BarsKept ==
  ASSUME BarsInv, ManagersInv, UNCHANGED barVars,
         \A q \in Recordings :
           /\ held'[q] \in Nat /\ held[q] <= held'[q]
           /\ phase'[q] = "holding" => held[q] < held'[q] \/ (phase[q] = "holding" /\ held[q] = held'[q])
  PROVE  BarsInv'
<1>1. UNCHANGED <<consumer, received, window, volumes, averages>>
  BY DEF barVars
<1>2. BarType'
  BY <1>1 DEF BarsInv, BarType
<1>3. TypeOKManagers
  BY DEF ManagersInv
<1> QED BY <1>1, <1>2, <1>3, BarsStay

LEMMA ScreenInit == Init => ScreenInv
<1> SUFFICES ASSUME Init PROVE ScreenInv
  OBVIOUS
<1>1. ManagersInv /\ TrackInv
  BY ManagersInit, TrackInit DEF Init
<1>2. SettingType
  BY DEF Init, SettingType
<1>3. window = << >> /\ averages = << >> /\ Len(averages) = 0 /\ DOMAIN window = {} /\ DOMAIN averages = {}
  BY DEF Init
<1>4. << >> \in Seq(Nat) /\ Silent \in Sums /\ << >> \in Sums /\ << >> \in Seq(Sums) /\ 0 < Window
  BY DEF Silent, Sums
<1>5. BarType
  BY <1>3, <1>4 DEF Init, BarType
<1>6. VolumesInv /\ VolumesInOrder
  BY <1>3 DEF Init, VolumesInv, VolumesInOrder
<1>7. BarsShowHistory
  <2>1. \A n \in Nat : ~(n < Len(averages))
    BY <1>3
  <2>2. \A i \in 0 .. Bars - 1 : volumes[i] = Silent
    BY DEF Init
  <2>3. /\ \A n \in 0 .. Middle : Middle - n \in 0 .. Bars - 1 /\ n \in Nat
        /\ \A n \in 0 .. Middle - 1 : Middle + n \in 0 .. Bars - 1 /\ n \in Nat
    BY MiddleIsHalf
  <2> QED BY <2>1, <2>2, <2>3 DEF BarsShowHistory
<1> QED BY <1>1, <1>2, <1>5, <1>6, <1>7 DEF ScreenInv, BarsInv

\* The button "record".
LEMMA PressRecordKeeps ==
  ASSUME ScreenInv, NEW r \in Recordings, PressRecord(r)
  PROVE  ScreenInv'
<1>1. /\ Launch(r, visit) /\ UNCHANGED <<screenVars, trackVars, received, window, volumes, averages>>
      /\ consumer' = [consumer EXCEPT ![r] = "launched"]
  BY DEF PressRecord
<1>2. ManagersInv'
  BY <1>1, LaunchKeeps DEF ScreenInv, SettingType
<1>3. TrackInv' /\ SettingType'
  BY <1>1, TrackKeeps DEF ScreenInv, SettingType, screenVars
<1>4. BarType'
  BY <1>1 DEF ScreenInv, BarsInv, BarType
<1>5. \A q \in Recordings : consumer'[q] = "received" => consumer[q] = "received" /\ received'[q] = received[q]
  BY <1>1 DEF ScreenInv, BarsInv, BarType
<1>6. BarsInv'
  BY <1>1, <1>4, <1>5, HeldFacts, BarsStay DEF ScreenInv, ManagersInv
<1> QED BY <1>2, <1>3, <1>6 DEF ScreenInv

\* Leaving the screen.
LEMMA LeaveKeeps == ScreenInv /\ Leave => ScreenInv'
<1> SUFFICES ASSUME ScreenInv, Leave PROVE ScreenInv'
  OBVIOUS
<1>1. /\ CancelOf(visit) /\ CancelPlays /\ shown' = FALSE
      /\ UNCHANGED <<granted, visit, dead, window, volumes, averages>>
      /\ consumer' = [r \in Recordings |-> IF consumer[r] = "none" THEN "none" ELSE "cancelled"]
      /\ received' = [r \in Recordings |-> << >>]
  BY DEF Leave
<1>2. ManagersInv' /\ TrackInv'
  BY <1>1, CancelOfKeeps, CancelKeeps DEF ScreenInv
<1>3. SettingType'
  BY <1>1 DEF ScreenInv, SettingType
<1>4. \A q \in Recordings : consumer'[q] \in {"none", "cancelled"}
  BY <1>1
<1>5. BarType'
  <2>1. consumer' \in [Recordings -> {"none", "launched", "waiting", "received", "cancelled"}]
    BY <1>1
  <2>2. received' \in [Recordings -> Seq(Nat)]
    BY <1>1
  <2> QED BY <1>1, <2>1, <2>2 DEF ScreenInv, BarsInv, BarType
<1>6. \A q \in Recordings : /\ held[q] \in Nat /\ held'[q] = held[q]
                            /\ phase'[q] = "holding" => phase[q] = "holding"
  BY <1>1, HeldFacts DEF ScreenInv
<1>7. BarsInv'
  BY <1>1, <1>4, <1>5, <1>6, BarsStay DEF ScreenInv, ManagersInv
<1> QED BY <1>2, <1>3, <1>7 DEF ScreenInv

\* The next visit: empty bars, and no average yet.
LEMMA ReturnKeeps == ScreenInv /\ Return => ScreenInv'
<1> SUFFICES ASSUME ScreenInv, Return PROVE ScreenInv'
  OBVIOUS
<1>1. /\ visit' = visit + 1 /\ visit + 1 \in Managers /\ shown' = TRUE
      /\ volumes' = [i \in 0 .. Bars - 1 |-> Silent] /\ averages' = << >>
      /\ UNCHANGED <<granted, dead, consumer, received, window>>
      /\ UNCHANGED managerVars /\ UNCHANGED trackVars
  BY DEF Return
<1>2. TrackInv' /\ SettingType'
  BY <1>1, TrackKeeps DEF ScreenInv, SettingType
<1>3. UNCHANGED <<recording, taken, phase, manager, held, offset, file, overlapped>>
  BY <1>1 DEF managerVars
<1>4. ManagersInv'
  BY <1>1, ManagersStay DEF ScreenInv
<1>5. BarType'
  <2>1. Silent \in Sums /\ averages' \in Seq(Sums)
    BY <1>1 DEF Silent, Sums
  <2> QED BY <1>1, <2>1 DEF ScreenInv, BarsInv, BarType
<1>6. VolumesInv' /\ VolumesInOrder'
  <2>1. DOMAIN averages' = {}
    BY <1>1
  <2>2. \A a \in DOMAIN window' : VolumeInv(window[a])'
    BY <1>1, <1>3 DEF ScreenInv, BarsInv, VolumesInv, VolumeInv
  <2> QED BY <1>1, <1>3, <2>1, <2>2 DEF ScreenInv, BarsInv, VolumesInv, VolumesInOrder
<1>7. BarsShowHistory'
  <2>1. Len(averages') = 0 /\ \A n \in Nat : ~(n < Len(averages'))
    BY <1>1
  <2>2. \A i \in 0 .. Bars - 1 : volumes'[i] = Silent
    BY <1>1
  <2>3. /\ \A n \in 0 .. Middle : Middle - n \in 0 .. Bars - 1 /\ n \in Nat
        /\ \A n \in 0 .. Middle - 1 : Middle + n \in 0 .. Bars - 1 /\ n \in Nat
    BY MiddleIsHalf
  <2> QED BY <2>1, <2>2, <2>3 DEF BarsShowHistory
<1> QED BY <1>2, <1>4, <1>5, <1>6, <1>7 DEF ScreenInv, BarsInv

\* A step that touches neither the recorders nor the bars.
LEMMA OthersKeep ==
  ASSUME ScreenInv, UNCHANGED managerVars, UNCHANGED barVars, TrackInv', SettingType'
  PROVE  ScreenInv'
<1>1. \A q \in Recordings :
        /\ held'[q] \in Nat /\ held[q] <= held'[q]
        /\ phase'[q] = "holding" => held[q] < held'[q] \/ (phase[q] = "holding" /\ held[q] = held'[q])
  <2>1. \A q \in Recordings : held[q] \in Nat
    BY DEF ScreenInv, ManagersInv, TypeOKManagers
  <2> QED BY <2>1 DEF managerVars
<1>2. ManagersInv'
  BY ManagersStay DEF ScreenInv
<1>3. BarsInv'
  BY <1>1, BarsKept DEF ScreenInv
<1> QED BY <1>2, <1>3 DEF ScreenInv

\* The buttons that only ask, stop the microphone or turn to the player; the player's own
\* steps.
LEMMA AroundKeeps ==
  ASSUME ScreenInv,
         \/ Grant \/ PressStop \/ PressPause \/ Hear \/ UNCHANGED vars
         \/ \E p \in Plays : PressPlay(p) \/ Play(p) \/ PlayCut(p) \/ PlayDies(p)
  PROVE  ScreenInv'
<1> USE DEF screenVars
<1>1. CASE Grant
  <2>1. UNCHANGED <<managerVars, trackVars, barVars>> /\ SettingType'
    BY <1>1 DEF Grant, ScreenInv, SettingType
  <2> QED BY <2>1, OthersKeep, TrackKeeps DEF ScreenInv
<1>2. CASE PressStop
  <2>1. /\ StopRecord(visit) \/ UNCHANGED managerVars
        /\ UNCHANGED <<trackVars, barVars>> /\ SettingType'
    BY <1>2 DEF PressStop, ScreenInv, SettingType
  <2>2. ManagersInv'
    BY <2>1, StopKeeps, ManagersStay DEF ScreenInv
  <2>3. \A q \in Recordings :
          /\ held'[q] \in Nat /\ held[q] <= held'[q]
          /\ phase'[q] = "holding" => held[q] < held'[q] \/ (phase[q] = "holding" /\ held[q] = held'[q])
    BY <2>1, HeldFacts DEF ScreenInv
  <2>4. BarsInv'
    BY <2>1, <2>3, BarsKept DEF ScreenInv
  <2> QED BY <2>1, <2>2, <2>4, TrackKeeps DEF ScreenInv
<1>3. CASE PressPause \/ Hear
  <2>1. (PauseTrack \/ Sound) /\ UNCHANGED <<managerVars, barVars>> /\ SettingType'
    BY <1>3 DEF PressPause, Hear, ScreenInv, SettingType
  <2> QED BY <2>1, OthersKeep, TrackKeeps DEF ScreenInv
<1>4. CASE UNCHANGED vars
  <2>1. UNCHANGED <<managerVars, trackVars, barVars>> /\ SettingType'
    BY <1>4 DEF vars, ScreenInv, SettingType
  <2> QED BY <2>1, OthersKeep, TrackKeeps DEF ScreenInv
<1>5. ASSUME NEW p \in Plays, PressPlay(p) \/ Play(p) \/ PlayCut(p) \/ PlayDies(p)
      PROVE  ScreenInv'
  <2>1. /\ UNCHANGED <<managerVars, barVars>> /\ SettingType'
        /\ LaunchPlay(p) \/ PlayStep(p) \/ WriteFails(p) \/ PlayThrows(p)
    BY <1>5 DEF PressPlay, Play, PlayCut, PlayDies, Dies, ScreenInv, SettingType
  <2>2. TrackInv'
    <3>1. CASE \/ LaunchPlay(p) \/ StartTrack(p) \/ OpenPcm(p) \/ PlayThrows(p) \/ WriteFails(p)
               \/ ReadPcm(p) /\ UNCHANGED position
      BY <3>1, PhaseKeeps DEF ScreenInv
    <3>2. CASE WriteTrack(p)
      BY <3>2, WriteTrackKeeps DEF ScreenInv
    <3>3. CASE ReadPcm(p) /\ position[p] < PcmLength
      BY <3>3, ReadPcmKeeps DEF ScreenInv
    <3>4. ReadPcm(p) => position[p] < PcmLength \/ UNCHANGED position
      BY DEF ReadPcm
    <3> QED BY <2>1, <3>1, <3>2, <3>3, <3>4 DEF PlayStep
  <2> QED BY <2>1, <2>2, OthersKeep
<1> QED BY <1>1, <1>2, <1>3, <1>4, <1>5

\* The steps of a recording but its writes, and of the consumer of its channel.
LEMMA RecordKeeps ==
  ASSUME ScreenInv, NEW r \in Recordings, Record(r) \/ RecordEnds(r) \/ RecordThrows(r)
  PROVE  ScreenInv'
<1>1. /\ UNCHANGED <<trackVars, barVars>> /\ SettingType'
      /\ \/ StartRecording(r) \/ OpenFile(r) \/ NoStream(r) \/ ReadFails(r) \/ Throws(r)
         \/ Read(r)
  BY DEF Record, RecordEnds, RecordThrows, Dies, ScreenInv, SettingType, screenVars
<1>2. TrackInv'
  BY <1>1, TrackKeeps DEF ScreenInv
<1>3. ManagersInv'
  BY <1>1, StartKeeps, OpenKeeps, EndKeeps, ReadKeeps DEF ScreenInv
<1>4. \A q \in Recordings :
        /\ held'[q] \in Nat /\ held[q] <= held'[q]
        /\ phase'[q] = "holding" => held[q] < held'[q] \/ (phase[q] = "holding" /\ held[q] = held'[q])
  <2>1. CASE StartRecording(r) \/ OpenFile(r) \/ NoStream(r) \/ ReadFails(r) \/ Throws(r)
    BY <2>1, HeldFacts DEF ScreenInv
  <2>2. CASE Read(r)
    <3> SUFFICES ASSUME NEW q \in Recordings
                 PROVE  /\ held'[q] \in Nat /\ held[q] <= held'[q]
                        /\ phase'[q] = "holding" =>
                             held[q] < held'[q] \/ (phase[q] = "holding" /\ held[q] = held'[q])
      OBVIOUS
    <3>1. /\ held \in [Recordings -> 0 .. MaxChunks] /\ held' \in [Recordings -> 0 .. MaxChunks]
          /\ phase \in [Recordings -> Phases]
      BY <1>3 DEF ScreenInv, ManagersInv, TypeOKManagers, Phases
    <3>2. held[q] \in Nat /\ held'[q] \in Nat
      BY <3>1
    <3>3. CASE q # r
      <4>1. held'[q] = held[q] /\ phase'[q] = phase[q]
        BY <2>2, <3>1, <3>3 DEF Read, Goto
      <4> QED BY <3>2, <4>1
    <3>4. CASE q = r /\ manager[r] \in recording
      <4>1. manager[r] \in Managers /\ held[r] <= taken[manager[r]]
        BY <2>2 DEF Read, ScreenInv, ManagersInv, CallsInv
      <4>2. taken \in [Managers -> 0 .. MaxChunks]
        BY DEF ScreenInv, ManagersInv, TypeOKManagers
      <4>3. held'[r] = taken[manager[r]] + 1 /\ taken[manager[r]] \in Nat
        <5>1. /\ taken' = [taken EXCEPT ![manager[r]] = @ + 1]
              /\ held' = [held EXCEPT ![r] = taken'[manager[r]]]
          BY <2>2, <3>4 DEF Read
        <5>2. taken[manager[r]] \in Nat /\ taken'[manager[r]] = taken[manager[r]] + 1
          <6> DEFINE m == manager[r]
          <6>1. m \in Managers /\ taken' = [taken EXCEPT ![m] = @ + 1]
            BY <4>1, <5>1
          <6> HIDE DEF m
          <6>2. taken[m] \in Nat /\ taken'[m] = taken[m] + 1
            BY <4>2, <6>1
          <6> QED BY <6>2 DEF m
        <5> QED BY <3>1, <5>1, <5>2
      <4> QED BY <3>2, <3>4, <4>1, <4>3
    <3>5. CASE q = r /\ manager[r] \notin recording
      <4>1. held'[r] = held[r] /\ phase'[r] = "ended"
        BY <2>2, <3>1, <3>5 DEF Read, Goto
      <4> QED BY <3>2, <3>5, <4>1
    <3> QED BY <3>3, <3>4, <3>5
  <2> QED BY <1>1, <2>1, <2>2
<1>5. BarsInv'
  BY <1>1, <1>4, BarsKept DEF ScreenInv
<1> QED BY <1>1, <1>2, <1>3, <1>5 DEF ScreenInv

\* A chunk is written and its volume offered.
LEMMA WriteAndSendKeeps ==
  ASSUME ScreenInv, NEW r \in Recordings, WriteAndSend(r)
  PROVE  ScreenInv'
<1>1. /\ Write(r) /\ TrySend(r, <<r, held[r]>>)
      /\ UNCHANGED <<trackVars, screenVars, window, volumes, averages>>
  BY DEF WriteAndSend
<1>2. TrackInv' /\ SettingType' /\ ManagersInv'
  BY <1>1, TrackKeeps, WriteKeeps DEF ScreenInv, SettingType, screenVars
<1>3. \A q \in Recordings : /\ held[q] \in Nat /\ held'[q] = held[q]
                            /\ phase'[q] = "holding" => phase[q] = "holding"
  BY <1>1, HeldFacts DEF ScreenInv
<1>4. phase[r] = "holding" /\ phase'[r] = "reading"
  BY <1>1 DEF Write, Goto, ScreenInv, ManagersInv, TypeOKManagers
<1>5. /\ consumer \in [Recordings -> {"none", "launched", "waiting", "received", "cancelled"}]
      /\ received \in [Recordings -> Seq(Nat)] /\ <<r, held[r]>> \in Seq(Nat)
  <2>1. r \in Nat /\ held[r] \in Nat
    BY <1>3
  <2> QED BY <2>1 DEF ScreenInv, BarsInv, BarType
<1>6. /\ consumer' \in [Recordings -> {"none", "launched", "waiting", "received", "cancelled"}]
      /\ received' \in [Recordings -> Seq(Nat)]
      /\ \A q \in Recordings : q # r => consumer'[q] = consumer[q] /\ received'[q] = received[q]
      /\ \/ consumer'[r] = consumer[r] /\ received'[r] = received[r]
         \/ received'[r] = <<r, held[r]>>
  BY <1>1, <1>5 DEF TrySend
<1>7. BarType'
  BY <1>1, <1>6 DEF ScreenInv, BarsInv, BarType
<1>8. \A q \in Recordings : consumer'[q] = "received" =>
        \/ consumer[q] = "received" /\ received'[q] = received[q]
        \/ phase[q] = "holding" /\ phase'[q] # "holding" /\ received'[q] = <<q, held[q]>>
  BY <1>4, <1>6
<1>9. BarsInv'
  BY <1>1, <1>3, <1>7, <1>8, BarsStay DEF ScreenInv, ManagersInv
<1> QED BY <1>2, <1>9 DEF ScreenInv

LEMMA ListenKeeps ==
  ASSUME ScreenInv, NEW r \in Recordings, Listen(r) \/ Show(r)
  PROVE  ScreenInv'
<1>1. UNCHANGED <<screenVars, managerVars, trackVars>>
  BY DEF Listen, Show
<1>2. ManagersInv' /\ TrackInv' /\ SettingType'
  BY <1>1, ManagersStay, TrackKeeps DEF ScreenInv, SettingType, screenVars
<1>3. CASE Listen(r)
  <2>1. /\ consumer' = [consumer EXCEPT ![r] = "waiting"]
        /\ UNCHANGED <<received, window, volumes, averages>>
    BY <1>3 DEF Listen
  <2>2. BarType'
    BY <2>1 DEF ScreenInv, BarsInv, BarType
  <2>3. \A q \in Recordings : consumer'[q] = "received" => consumer[q] = "received" /\ received'[q] = received[q]
    BY <2>1 DEF ScreenInv, BarsInv, BarType
  <2>4. BarsInv'
    BY <1>1, <2>1, <2>2, <2>3, HeldFacts, BarsStay DEF ScreenInv, ManagersInv
  <2> QED BY <1>2, <2>4 DEF ScreenInv
<1>4. CASE Show(r)
  BY <1>2, <1>4, ShowKeeps DEF ScreenInv
<1> QED BY <1>3, <1>4

-----------------------------------------------------------------------------
(* The theorems.                                                           *)

LEMMA ScreenInvariant == Spec => []ScreenInv
<1>1. Init => ScreenInv
  BY ScreenInit
<1>2. ScreenInv /\ [Next]_vars => ScreenInv'
  <2> SUFFICES ASSUME ScreenInv, [Next]_vars PROVE ScreenInv'
    OBVIOUS
  <2>1. CASE Buttons
    BY <2>1, AroundKeeps, PressRecordKeeps, LeaveKeeps, ReturnKeeps DEF Buttons
  <2>2. CASE Hear \/ UNCHANGED vars
    BY <2>2, AroundKeeps
  <2>3. CASE \E r \in Recordings :
               Listen(r) \/ Show(r) \/ Record(r) \/ WriteAndSend(r) \/ RecordEnds(r) \/ RecordThrows(r)
    BY <2>3, ListenKeeps, RecordKeeps, WriteAndSendKeeps
  <2>4. CASE \E p \in Plays : Play(p) \/ PlayCut(p) \/ PlayDies(p)
    BY <2>4, AroundKeeps
  <2> QED BY <2>1, <2>2, <2>3, <2>4 DEF Next
<1> QED BY <1>1, <1>2, PTL DEF Spec

\* Whatever is pressed, and however often, in whatever order the calls of any number of
\* visits go on: a microphone that is on is read, unless its call said otherwise, and a file
\* nobody opened over another call is one recording without a gap (AudioRecordManager).
THEOREM RecordingIsSafe == Spec => []RecordingSafe
<1>1. ScreenInv => RecordingSafe
  <2>1. ScreenInv => TypeOK
    BY DEF ScreenInv, ManagersInv, TrackInv, SettingType, BarsInv, BarType, Sums, TypeOK
  <2> QED BY <2>1 DEF ScreenInv, ManagersInv, RecordingSafe
<1> QED BY <1>1, ScreenInvariant, PTL

\* For any even number of bars, the loop that moves them in place leaves the last averages
\* of the visit, the newest in the middle; and the volumes of a recording are shown in the
\* order they were measured, none twice, whatever the channel refused (AudioScreen).
THEOREM BarsAreRight == Spec => []BarsRight
<1>1. ScreenInv => BarsRight
  BY DEF ScreenInv, BarsInv, BarsRight
<1> QED BY <1>1, ScreenInvariant, PTL

\* Any number of calls that play to one track are each heard in the order of the file and
\* nothing twice, and without a gap as long as nobody paused (AudioTrackManager).
THEOREM FileIsHeardInOrder == Spec => []HeardInOrder
<1>1. ScreenInv => HeardInOrder
  BY DEF ScreenInv, TrackInv
<1> QED BY <1>1, ScreenInvariant, PTL

-----------------------------------------------------------------------------
(* MusicService: types.                                                    *)

Command == [action : {"start", "toggle", "previous", "next"}, said : BOOLEAN]
Notified == {<< >>} \union {<<n>> : n \in Music!Notifications}

\* TypeOK by what changes together.
PlayerType ==
  /\ musicLoaded \in BOOLEAN /\ musicIndex \in 1 .. Songs /\ musicPlayWhenReady \in BOOLEAN
  /\ musicState \in {"idle", "buffering", "ready", "ended"} /\ musicError \in BOOLEAN
ShownType == musicShown \in Notified /\ musicDrifted \in BOOLEAN
SystemType ==
  /\ musicGranted \in BOOLEAN /\ musicSticky \in BOOLEAN
  /\ musicPresses \in 0 .. Commands /\ musicKills \in 0 .. Kills
HistoryType ==
  /\ musicAsked \in {"play", "pause"}
  /\ musicRestarted \in BOOLEAN /\ musicCrossed \in BOOLEAN

LEMMA MusicTypeParts ==
  Music!TypeOK <=> /\ PlayerType /\ ShownType /\ SystemType /\ HistoryType
                   /\ musicAlive \in BOOLEAN /\ musicSent \in Seq(Command)
BY DEF Music!TypeOK, PlayerType, ShownType, SystemType, HistoryType, Notified, Command

LEMMA FirstSong == 1 \in 1 .. Songs
BY MusicAssumption

LEMMA MusicTypePartsNext ==
  ASSUME PlayerType', ShownType', SystemType', HistoryType', musicAlive' \in BOOLEAN,
         musicSent' \in Seq(Command)
  PROVE  Music!TypeOK'
BY DEF Music!TypeOK, PlayerType, ShownType, SystemType, HistoryType, Notified, Command

LEMMA ShownFacts ==
  ASSUME NEW n \in Music!Notifications
  PROVE  <<n>> \in Notified /\ <<n>> # << >> /\ <<n>>[1] = n
BY DEF Notified

LEMMA NotificationType ==
  ASSUME PlayerType'
  PROVE  Music!Notification \in Music!Notifications
BY MusicAssumption DEF PlayerType, Music!Notification, Music!Notifications, Music!NoSong, Music!Audible

\* What is shown stays a notification, whether the listener acts or not, ...
LEMMA ListenerType ==
  ASSUME PlayerType, PlayerType', ShownType, Music!OnIsPlayingChanged
  PROVE  ShownType'
<1>1. Music!Notification \in Music!Notifications
  BY NotificationType
<1> QED BY <1>1, ShownFacts DEF Music!OnIsPlayingChanged, Music!UpdateNotification, ShownType, PlayerType

\* ... and in a fresh start.
LEMMA StartType ==
  ASSUME PlayerType, ShownType, Music!StartPlaying
  PROVE  PlayerType' /\ ShownType'
<1>1. PlayerType'
  BY FirstSong DEF Music!StartPlaying, Music!PrepareAndPlay, PlayerType
<1>2. Music!Notification \in Music!Notifications
  BY <1>1, NotificationType
<1>3. [song |-> Music!Song, playing |-> FALSE] \in Music!Notifications
  BY MusicAssumption DEF Music!Notifications, PlayerType, Music!Song, Music!NoSong
<1>4. ShownType'
  BY <1>2, <1>3, ShownFacts DEF Music!StartPlaying, Music!UpdateNotification, ShownType
<1> QED BY <1>1, <1>4

LEMMA SkipType ==
  ASSUME PlayerType, ShownType, NEW i \in Int, Music!SkipTo(i)
  PROVE  PlayerType' /\ ShownType'
<1>1. CASE musicLoaded /\ i \in 1 .. Songs
  <2>1. PlayerType' /\ Music!OnIsPlayingChanged
    BY <1>1 DEF Music!SkipTo, PlayerType
  <2> QED BY <2>1, ListenerType
<1>2. CASE ~(musicLoaded /\ i \in 1 .. Songs)
  BY <1>2 DEF Music!SkipTo, PlayerType, ShownType, Music!playerVars
<1> QED BY <1>1, <1>2

LEMMA TakeType ==
  ASSUME musicSent \in Seq(Command), SystemType, musicAsked \in {"play", "pause"}, Music!Take
  PROVE  /\ musicSent' \in Seq(Command) /\ SystemType' /\ musicAsked' \in {"play", "pause"}
         /\ musicAlive' \in BOOLEAN /\ Music!Received \in Command
BY DEF Music!Take, SystemType, Music!Received

LEMMA PlayerStepType ==
  ASSUME Music!TypeOK, NEW s \in {"idle", "buffering", "ready", "ended"}, NEW i \in 1 .. Songs,
         Music!Player(s, i), musicError' \in BOOLEAN
  PROVE  Music!TypeOK'
<1>1. PlayerType'
  BY DEF Music!TypeOK, PlayerType, Music!Player
<1>2. ShownType'
  BY <1>1, MusicTypeParts, ListenerType DEF Music!Player
<1>3. SystemType' /\ HistoryType' /\ musicAlive' \in BOOLEAN /\ musicSent' \in Seq(Command)
  BY MusicTypeParts DEF Music!Player, Music!systemVars, SystemType, HistoryType
<1> QED BY <1>1, <1>2, <1>3, MusicTypePartsNext

\* The variables keep their types: the song and the notification name songs of the list.
THEOREM MusicTypeCorrect == Music!Spec => []Music!TypeOK
<1>1. Music!Init => Music!TypeOK
  <2> SUFFICES ASSUME Music!Init PROVE Music!TypeOK
    OBVIOUS
  <2>1. PlayerType
    BY FirstSong DEF Music!Init, PlayerType
  <2>2. ShownType
    BY DEF Music!Init, ShownType, Notified
  <2>3. 0 \in 0 .. Commands /\ 0 \in 0 .. Kills
    BY MusicAssumption
  <2>4. SystemType /\ HistoryType
    BY <2>3 DEF Music!Init, SystemType, HistoryType
  <2>5. musicAlive \in BOOLEAN
    BY DEF Music!Init
  <2>6. musicSent \in Seq(Command)
    BY EmptySeq DEF Music!Init
  <2> QED BY <2>1, <2>2, <2>4, <2>5, <2>6, MusicTypeParts
<1>2. Music!TypeOK /\ [Music!Next]_(Music!vars) => Music!TypeOK'
  <2> SUFFICES ASSUME Music!TypeOK, [Music!Next]_(Music!vars) PROVE Music!TypeOK'
    OBVIOUS
  <2> USE DEF Music!systemVars, Music!playerVars
  <2>1. CASE Music!Grant
    BY <2>1 DEF Music!Grant, Music!TypeOK
  <2>2. ASSUME NEW a \in {"start", "toggle", "previous", "next"}, NEW b \in BOOLEAN,
               Music!Send(a, b)
        PROVE  musicSent' \in Seq(Command) /\ musicPresses' \in 0 .. Commands
    <3>1. [action |-> a, said |-> b] \in Command
      BY DEF Command
    <3> QED BY <2>2, <3>1, MusicTypeParts, MusicAssumption DEF Music!Send, SystemType
  <2>3. CASE Music!PressStart
    <3>1. musicSent' \in Seq(Command) /\ musicPresses' \in 0 .. Commands
      BY <2>2, <2>3 DEF Music!PressStart
    <3> QED BY <2>3, <3>1 DEF Music!PressStart, Music!TypeOK, Command
  <2>4. CASE Music!PressToggle
    <3>1. musicShown[1].playing \in BOOLEAN
      BY <2>4 DEF Music!PressToggle, Music!TypeOK, Music!Notifications
    <3>2. musicSent' \in Seq(Command) /\ musicPresses' \in 0 .. Commands
      BY <2>2, <2>4, <3>1 DEF Music!PressToggle
    <3> QED BY <2>4, <3>2 DEF Music!PressToggle, Music!TypeOK, Command
  <2>5. CASE Music!PressSkip
    <3>1. musicSent' \in Seq(Command) /\ musicPresses' \in 0 .. Commands
      BY <2>2, <2>5 DEF Music!PressSkip
    <3> QED BY <2>5, <3>1 DEF Music!PressSkip, Music!TypeOK, Command
  <2>6. CASE Music!OnStart
    <3>1. PlayerType' /\ ShownType'
      BY <2>6, StartType, MusicTypeParts DEF Music!OnStart
    <3>2. musicSent' \in Seq(Command) /\ SystemType' /\ HistoryType' /\ musicAlive' \in BOOLEAN
      BY <2>6, TakeType, MusicTypeParts DEF Music!OnStart, HistoryType
    <3> QED BY <3>1, <3>2, MusicTypePartsNext
  <2>7. CASE Music!OnToggle
    <3>1. PlayerType'
      BY <2>7, MusicTypeParts DEF Music!OnToggle, Music!Toggle, PlayerType, Music!IsPlaying, Music!Audible
    <3>2. ShownType'
      BY <2>7, <3>1, NotificationType, ShownFacts
      DEF Music!OnToggle, Music!Toggle, Music!UpdateNotification, ShownType
    <3>3. musicSent' \in Seq(Command) /\ SystemType' /\ HistoryType' /\ musicAlive' \in BOOLEAN
      BY <2>7, TakeType, MusicTypeParts DEF Music!OnToggle, HistoryType
    <3> QED BY <3>1, <3>2, <3>3, MusicTypePartsNext
  <2>8. CASE Music!OnSkip
    <3>1. PlayerType' /\ ShownType'
      <4>1. musicIndex - 1 \in Int /\ musicIndex + 1 \in Int
        BY DEF Music!TypeOK
      <4> QED BY <2>8, <4>1, SkipType, MusicTypeParts DEF Music!OnSkip
    <3>2. musicSent' \in Seq(Command) /\ SystemType' /\ HistoryType' /\ musicAlive' \in BOOLEAN
      BY <2>8, TakeType, MusicTypeParts DEF Music!OnSkip, HistoryType
    <3> QED BY <3>1, <3>2, MusicTypePartsNext
  <2>9. CASE Music!TaskRemoved \/ Music!Kill
    <3>1. PlayerType'
      BY <2>9, FirstSong DEF Music!TaskRemoved, Music!Kill, Music!NewPlayer, PlayerType
    <3>2. ShownType'
      BY <2>9 DEF Music!TaskRemoved, Music!Kill, ShownType, Notified
    <3>3. SystemType'
      <4>1. musicKills < Kills => musicKills + 1 \in 0 .. Kills
        BY MusicTypeParts, MusicAssumption DEF SystemType
      <4> QED BY <2>9, <4>1, MusicTypeParts DEF Music!TaskRemoved, Music!Kill, SystemType
    <3>4. HistoryType' /\ musicAlive' \in BOOLEAN /\ musicSent' \in Seq(Command)
      BY <2>9, MusicTypeParts DEF Music!TaskRemoved, Music!Kill, HistoryType
    <3> QED BY <3>1, <3>2, <3>3, <3>4, MusicTypePartsNext
  <2>10. CASE Music!Restart
    <3>1. PlayerType' /\ ShownType'
      BY <2>10, StartType, MusicTypeParts DEF Music!Restart
    <3>2. musicSent' \in Seq(Command) /\ SystemType' /\ HistoryType' /\ musicAlive' \in BOOLEAN
      BY <2>10, MusicTypeParts DEF Music!Restart, HistoryType, SystemType
    <3> QED BY <3>1, <3>2, MusicTypePartsNext
  <2>11. musicIndex \in 1 .. Songs /\ musicError \in BOOLEAN
    BY DEF Music!TypeOK
  <2>12. CASE Music!Buffered
    BY <2>11, <2>12, PlayerStepType DEF Music!Buffered
  <2>13. CASE Music!Rebuffers
    BY <2>11, <2>13, PlayerStepType DEF Music!Rebuffers
  <2>14. CASE Music!SongEnds
    <3>1. musicIndex < Songs => musicIndex + 1 \in 1 .. Songs
      BY <2>11, MusicAssumption
    <3> QED BY <2>11, <2>14, <3>1, PlayerStepType DEF Music!SongEnds
  <2>15. CASE Music!Fails
    BY <2>11, <2>15, PlayerStepType DEF Music!Fails
  <2>16. CASE UNCHANGED Music!vars
    BY <2>16 DEF Music!vars, Music!TypeOK
  <2> QED
    BY <2>1, <2>3, <2>4, <2>5, <2>6, <2>7, <2>8, <2>9, <2>10, <2>12, <2>13, <2>14, <2>15,
       <2>16 DEF Music!Next
<1> QED BY <1>1, <1>2, PTL DEF Music!Spec

-----------------------------------------------------------------------------
(* The notification. What it lacks to be inductive is that a service that  *)
(* is not there has nothing to play either: a late "next" creates it.      *)

ShownIsRight ==
  /\ musicShown # << >> =>
       /\ musicAlive
       /\ musicShown[1].playing = Music!IsPlaying
       /\ musicShown[1].song = Music!Song \/ musicDrifted
  /\ musicShown = << >> => ~musicLoaded /\ ~musicPlayWhenReady

LEMMA ShownIsRightImplies == ShownIsRight => Music!NotificationRight
BY DEF ShownIsRight, Music!NotificationRight

LEMMA UpdateRight ==
  ASSUME Music!UpdateNotification, musicAlive'
  PROVE  ShownIsRight'
<1>1. musicShown' # << >> /\ musicShown'[1] = Music!Notification
  BY DEF Music!UpdateNotification
<1> QED BY <1>1 DEF ShownIsRight, Music!Notification, Music!IsPlaying, Music!Song

\* The listener sees every change of isPlaying, and drifted records what it misses.
LEMMA ListenerRight ==
  ASSUME Music!TypeOK, ShownIsRight, Music!OnIsPlayingChanged, musicAlive, musicAlive',
         UNCHANGED <<musicLoaded, musicPlayWhenReady>>
  PROVE  ShownIsRight'
<1>1. CASE Music!Audible(musicState', musicPlayWhenReady') # Music!IsPlaying
  BY <1>1, UpdateRight DEF Music!OnIsPlayingChanged
<1>2. CASE Music!Audible(musicState', musicPlayWhenReady') = Music!IsPlaying
  <2>1. musicShown' = musicShown /\ Music!IsPlaying' = Music!IsPlaying
    BY <1>2 DEF Music!OnIsPlayingChanged, Music!IsPlaying, Music!Audible
  <2>2. musicDrifted' = (musicDrifted \/ musicIndex' # musicIndex)
    BY <1>2 DEF Music!OnIsPlayingChanged
  <2>3. Music!Song' = Music!Song \/ musicDrifted'
    BY <2>2 DEF Music!Song
  <2> QED BY <2>1, <2>2, <2>3 DEF ShownIsRight
<1> QED BY <1>1, <1>2

LEMMA StartRight ==
  ASSUME Music!TypeOK, Music!StartPlaying, musicAlive'
  PROVE  ShownIsRight'
<1>1. CASE Music!IsPlaying
  BY <1>1, UpdateRight DEF Music!StartPlaying
<1>2. CASE ~Music!IsPlaying
  <2>1. Music!IsPlaying' = FALSE /\ Music!Song' = musicIndex'
    BY DEF Music!StartPlaying, Music!PrepareAndPlay, Music!IsPlaying, Music!Audible, Music!Song
  <2>2. /\ musicShown' # << >>
        /\ musicShown'[1].song = Music!Song /\ musicShown'[1].playing = FALSE
        /\ Music!Song # musicIndex' => musicDrifted'
    <3>1. /\ musicShown' = <<[song |-> Music!Song, playing |-> FALSE]>>
          /\ musicDrifted' = (Music!Song # musicIndex')
      BY <1>2 DEF Music!StartPlaying
    <3> QED BY <3>1
  <2>3. musicShown'[1].song = Music!Song' \/ musicDrifted'
    BY <2>1, <2>2
  <2> QED BY <2>1, <2>2, <2>3 DEF ShownIsRight
<1> QED BY <1>1, <1>2

LEMMA ShownIsRightStep == Music!TypeOK /\ ShownIsRight /\ [Music!Next]_(Music!vars) => ShownIsRight'
<1> SUFFICES ASSUME Music!TypeOK, ShownIsRight, [Music!Next]_(Music!vars) PROVE ShownIsRight'
  OBVIOUS
<1>1. CASE Music!Grant \/ Music!PressStart \/ Music!PressToggle \/ Music!PressSkip \/ UNCHANGED Music!vars
  <2>1. UNCHANGED <<musicAlive, Music!playerVars, musicShown, musicDrifted>>
    BY <1>1 DEF Music!Grant, Music!PressStart, Music!PressToggle, Music!PressSkip, Music!vars
  <2>2. Music!IsPlaying' = Music!IsPlaying /\ Music!Song' = Music!Song
    BY <2>1 DEF Music!playerVars, Music!IsPlaying, Music!Audible, Music!Song
  <2> QED BY <2>1, <2>2 DEF Music!playerVars, ShownIsRight
<1>2. CASE Music!OnStart \/ Music!Restart
  BY <1>2, StartRight DEF Music!OnStart, Music!Restart, Music!Take
<1>3. CASE Music!OnToggle
  BY <1>3, UpdateRight DEF Music!OnToggle, Music!Toggle, Music!Take
<1>4. CASE Music!OnSkip
  <2>1. PICK i : Music!SkipTo(i)
    BY <1>4 DEF Music!OnSkip
  <2>2. musicAlive'
    BY <1>4 DEF Music!OnSkip, Music!Take
  <2>3. CASE musicLoaded /\ i \in 1 .. Songs
    <3>1. musicAlive
      BY <2>3 DEF ShownIsRight
    <3>2. Music!OnIsPlayingChanged /\ UNCHANGED <<musicLoaded, musicPlayWhenReady>>
      BY <2>1, <2>3 DEF Music!SkipTo
    <3> QED BY <2>2, <3>1, <3>2, ListenerRight
  <2>4. CASE ~(musicLoaded /\ i \in 1 .. Songs)
    <3>1. UNCHANGED <<Music!playerVars, musicShown, musicDrifted>>
      BY <2>1, <2>4 DEF Music!SkipTo
    <3> QED BY <2>2, <3>1 DEF ShownIsRight, Music!playerVars, Music!IsPlaying, Music!Song
  <2> QED BY <2>3, <2>4
<1>5. CASE Music!TaskRemoved \/ Music!Kill
  BY <1>5 DEF Music!TaskRemoved, Music!Kill, Music!NewPlayer, ShownIsRight
<1>6. ASSUME NEW s, NEW i, Music!Player(s, i) PROVE ShownIsRight'
  BY <1>6, ListenerRight DEF Music!Player
<1>7. CASE Music!Buffered \/ Music!Rebuffers \/ Music!SongEnds \/ Music!Fails
  BY <1>6, <1>7 DEF Music!Buffered, Music!Rebuffers, Music!SongEnds, Music!Fails
<1> QED BY <1>1, <1>2, <1>3, <1>4, <1>5, <1>7 DEF Music!Next

-----------------------------------------------------------------------------
(* What plays. The last command on its way that decides it agrees with     *)
(* what the user asked for last; when none is left the player does.        *)

Decides(c) == c.action \in {"start", "toggle"}
Wanted(c) == IF c.action = "toggle" /\ c.said THEN "pause" ELSE "play"

LastIsAsked ==
  \A i \in 1 .. Len(musicSent) :
    Decides(musicSent[i]) /\ (\A j \in i + 1 .. Len(musicSent) : ~Decides(musicSent[j]))
      => musicAsked = Wanted(musicSent[i])

NoneDecides == \A i \in 1 .. Len(musicSent) : ~Decides(musicSent[i])

WillPlayAsAsked ==
  musicPlayWhenReady /\ NoneDecides => musicAsked = "play" \/ musicRestarted \/ musicCrossed

AsAsked == LastIsAsked /\ WillPlayAsAsked

LEMMA AsAskedImplies == AsAsked => Music!PlaysAsAsked
BY DEF AsAsked, WillPlayAsAsked, NoneDecides, Decides, Music!PlaysAsAsked, Music!IsPlaying, Music!Audible

LEMMA MusicAppendFacts ==
  ASSUME NEW S, NEW q \in Seq(S), NEW e \in S
  PROVE  /\ Len(Append(q, e)) = Len(q) + 1 /\ Len(q) \in Nat
         /\ \A i \in 1 .. Len(q) : Append(q, e)[i] = q[i]
         /\ Append(q, e)[Len(q) + 1] = e
OBVIOUS

LEMMA TailFacts ==
  ASSUME NEW S, NEW q \in Seq(S), q # << >>
  PROVE  /\ Len(Tail(q)) = Len(q) - 1 /\ Len(q) \in Nat \ {0}
         /\ \A i \in 1 .. Len(q) - 1 : Tail(q)[i] = q[i + 1]
         /\ Head(q) = q[1]
OBVIOUS

\* A press that decides what plays is what was asked for last.
LEMMA PressKeeps ==
  ASSUME Music!TypeOK, NEW c \in Command, musicSent' = Append(musicSent, c), Decides(c), musicAsked' = Wanted(c)
  PROVE  AsAsked'
<1>1. musicSent \in Seq(Command)
  BY MusicTypeParts
<1>2. /\ Len(musicSent') = Len(musicSent) + 1 /\ Len(musicSent) \in Nat
      /\ musicSent'[Len(musicSent) + 1] = c
  BY <1>1, MusicAppendFacts
<1>3. ~NoneDecides'
  BY <1>2 DEF NoneDecides
<1>4. LastIsAsked'
  <2> SUFFICES ASSUME NEW i \in 1 .. Len(musicSent'),
                      \A j \in i + 1 .. Len(musicSent') : ~Decides(musicSent'[j])
               PROVE  musicAsked' = Wanted(musicSent'[i])
    BY DEF LastIsAsked
  <2>1. i = Len(musicSent) + 1
    BY <1>2
  <2> QED BY <1>2, <2>1
<1> QED BY <1>3, <1>4 DEF AsAsked, WillPlayAsAsked

\* One that does not leaves things as they are.
LEMMA SkipKeeps ==
  ASSUME Music!TypeOK, AsAsked, NEW c \in Command, musicSent' = Append(musicSent, c), ~Decides(c),
         UNCHANGED <<musicAsked, musicPlayWhenReady, musicRestarted, musicCrossed>>
  PROVE  AsAsked'
<1>1. musicSent \in Seq(Command)
  BY MusicTypeParts
<1>2. /\ Len(musicSent') = Len(musicSent) + 1 /\ Len(musicSent) \in Nat
      /\ \A i \in 1 .. Len(musicSent) : musicSent'[i] = musicSent[i]
      /\ musicSent'[Len(musicSent) + 1] = c
  BY <1>1, MusicAppendFacts
<1>3. NoneDecides' => NoneDecides
  BY <1>2 DEF NoneDecides
<1>4. LastIsAsked'
  <2> SUFFICES ASSUME NEW i \in 1 .. Len(musicSent'), Decides(musicSent'[i]),
                      \A j \in i + 1 .. Len(musicSent') : ~Decides(musicSent'[j])
               PROVE  musicAsked' = Wanted(musicSent'[i])
    BY DEF LastIsAsked
  <2>1. i \in 1 .. Len(musicSent) /\ musicSent'[i] = musicSent[i]
    BY <1>2
  <2>2. ASSUME NEW j \in i + 1 .. Len(musicSent) PROVE ~Decides(musicSent[j])
    BY <1>2
  <2> QED BY <2>1, <2>2 DEF AsAsked, LastIsAsked
<1> QED BY <1>3, <1>4 DEF AsAsked, WillPlayAsAsked

\* A command that arrives leaves the others in order; if it decided and none is left that
\* does, it is what was asked for.
LEMMA TakeKeeps ==
  ASSUME Music!TypeOK, AsAsked, Music!Take
  PROVE  /\ LastIsAsked'
         /\ NoneDecides' /\ Decides(Music!Received) => musicAsked' = Wanted(Music!Received)
         /\ NoneDecides' /\ ~Decides(Music!Received) => NoneDecides
<1>1. musicSent \in Seq(Command) /\ musicSent # << >> /\ musicAsked' = musicAsked /\ musicSent' = Tail(musicSent)
  BY MusicTypeParts DEF Music!Take
<1>2. /\ Len(musicSent') = Len(musicSent) - 1 /\ Len(musicSent) \in Nat \ {0}
      /\ \A i \in 1 .. Len(musicSent) - 1 : musicSent'[i] = musicSent[i + 1]
      /\ Music!Received = musicSent[1]
  BY <1>1, TailFacts DEF Music!Received
<1>3. LastIsAsked'
  <2> SUFFICES ASSUME NEW i \in 1 .. Len(musicSent'), Decides(musicSent'[i]),
                      \A j \in i + 1 .. Len(musicSent') : ~Decides(musicSent'[j])
               PROVE  musicAsked' = Wanted(musicSent'[i])
    BY DEF LastIsAsked
  <2>1. i + 1 \in 1 .. Len(musicSent) /\ musicSent'[i] = musicSent[i + 1]
    BY <1>2
  <2>2. ASSUME NEW j \in (i + 1) + 1 .. Len(musicSent) PROVE ~Decides(musicSent[j])
    <3>1. j - 1 \in i + 1 .. Len(musicSent') /\ j - 1 \in 1 .. Len(musicSent) - 1 /\ (j - 1) + 1 = j
      BY <1>2
    <3> QED BY <1>2, <3>1
  <2> QED BY <1>1, <2>1, <2>2 DEF AsAsked, LastIsAsked
<1>4. ASSUME NoneDecides', NEW j \in 2 .. Len(musicSent) PROVE ~Decides(musicSent[j])
  <2>1. j - 1 \in 1 .. Len(musicSent') /\ j - 1 \in 1 .. Len(musicSent) - 1 /\ (j - 1) + 1 = j
    BY <1>2
  <2> QED BY <1>2, <1>4, <2>1 DEF NoneDecides
<1>5. ASSUME NoneDecides', Decides(Music!Received) PROVE musicAsked' = Wanted(Music!Received)
  <2>1. 1 \in 1 .. Len(musicSent)
    BY <1>2
  <2>2. \A j \in 1 + 1 .. Len(musicSent) : ~Decides(musicSent[j])
    BY <1>4, <1>5
  <2> QED BY <1>1, <1>2, <1>5, <2>1, <2>2 DEF AsAsked, LastIsAsked
<1>6. ASSUME NoneDecides', ~Decides(Music!Received), NEW j \in 1 .. Len(musicSent)
      PROVE  ~Decides(musicSent[j])
  <2>1. j = 1 \/ j \in 2 .. Len(musicSent)
    BY <1>2
  <2> QED BY <1>2, <1>4, <1>6, <2>1
<1> QED BY <1>3, <1>5, <1>6 DEF NoneDecides

LEMMA AsAskedStep == Music!TypeOK /\ AsAsked /\ [Music!Next]_(Music!vars) => AsAsked'
<1> SUFFICES ASSUME Music!TypeOK, AsAsked, [Music!Next]_(Music!vars) PROVE AsAsked'
  OBVIOUS
<1> USE DEF Music!playerVars, Music!systemVars
<1>1. ASSUME UNCHANGED <<musicSent, musicAsked, musicRestarted, musicCrossed>>,
             musicPlayWhenReady' => musicPlayWhenReady
      PROVE  AsAsked'
  BY <1>1 DEF AsAsked, LastIsAsked, WillPlayAsAsked, NoneDecides
<1>2. CASE Music!Grant \/ UNCHANGED Music!vars
  BY <1>1, <1>2 DEF Music!Grant, Music!vars
<1>3. CASE Music!PressStart
  <2>1. [action |-> "start", said |-> FALSE] \in Command
    BY DEF Command
  <2> QED BY <1>3, <2>1, PressKeeps DEF Music!PressStart, Music!Send, Decides, Wanted
<1>4. CASE Music!PressToggle
  <2>1. musicShown[1].playing \in BOOLEAN
    BY <1>4 DEF Music!PressToggle, Music!TypeOK, Music!Notifications
  <2>2. [action |-> "toggle", said |-> musicShown[1].playing] \in Command
    BY <2>1 DEF Command
  <2> QED BY <1>4, <2>2, PressKeeps DEF Music!PressToggle, Music!Send, Decides, Wanted
<1>5. CASE Music!PressSkip
  <2>1. PICK a \in {"previous", "next"} : Music!Send(a, FALSE)
    BY <1>5 DEF Music!PressSkip
  <2>2. [action |-> a, said |-> FALSE] \in Command
    BY DEF Command
  <2> QED BY <1>5, <2>1, <2>2, SkipKeeps DEF Music!PressSkip, Music!Send, Decides
<1>6. CASE Music!OnStart
  <2>1. Music!Take /\ Decides(Music!Received) /\ Wanted(Music!Received) = "play"
    BY <1>6 DEF Music!OnStart, Decides, Wanted
  <2> QED BY <2>1, TakeKeeps DEF AsAsked, WillPlayAsAsked
<1>7. CASE Music!OnToggle
  <2>1. Music!Take /\ Decides(Music!Received) /\ Music!Received.action = "toggle"
    BY <1>7 DEF Music!OnToggle, Decides
  <2>2. Music!Received.said \in BOOLEAN
    BY <2>1, TakeType, MusicTypeParts DEF SystemType, HistoryType, Command
  <2>3. musicPlayWhenReady' => Wanted(Music!Received) = "play" \/ musicCrossed'
    BY <1>7, <2>1, <2>2 DEF Music!OnToggle, Music!Toggle, Wanted
  <2> QED BY <2>1, <2>3, TakeKeeps DEF AsAsked, WillPlayAsAsked
<1>8. CASE Music!OnSkip
  <2>1. Music!Take /\ ~Decides(Music!Received)
    BY <1>8 DEF Music!OnSkip, Decides
  <2>2. UNCHANGED <<musicPlayWhenReady, musicRestarted, musicCrossed, musicAsked>>
    BY <1>8 DEF Music!OnSkip, Music!SkipTo, Music!Take
  <2> QED BY <2>1, <2>2, TakeKeeps DEF AsAsked, WillPlayAsAsked
<1>9. CASE Music!TaskRemoved \/ Music!Kill
  BY <1>1, <1>9 DEF Music!TaskRemoved, Music!Kill, Music!NewPlayer
<1>10. CASE Music!Restart
  BY <1>10 DEF Music!Restart, AsAsked, LastIsAsked, WillPlayAsAsked
<1>11. ASSUME NEW s, NEW i, Music!Player(s, i) PROVE AsAsked'
  BY <1>1, <1>11 DEF Music!Player
<1>12. CASE Music!Buffered \/ Music!Rebuffers \/ Music!SongEnds \/ Music!Fails
  BY <1>11, <1>12 DEF Music!Buffered, Music!Rebuffers, Music!SongEnds, Music!Fails
<1> QED
  BY <1>2, <1>3, <1>4, <1>5, <1>6, <1>7, <1>8, <1>9, <1>10, <1>12 DEF Music!Next

\* Whatever is pressed and whenever it arrives, however often the process is killed and
\* whatever the player does: the notification's button is right, its song but for the
\* changes nobody notices, and nothing plays unasked but for a restart or a crossed press.
THEOREM ServiceIsSafe == Music!Spec => []MusicSafe
<1>1. Music!Init => ShownIsRight /\ AsAsked
  BY DEF Music!Init, ShownIsRight, AsAsked, LastIsAsked, WillPlayAsAsked
<1>2. Music!TypeOK /\ ShownIsRight /\ AsAsked => MusicSafe
  BY ShownIsRightImplies, AsAskedImplies DEF MusicSafe, Music!MusicSafe
<1> QED BY <1>1, <1>2, MusicTypeCorrect, ShownIsRightStep, AsAskedStep, PTL DEF Music!Spec
=============================================================================
