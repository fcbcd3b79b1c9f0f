------------------------- MODULE PhotoPagingProofs -------------------------
(***************************************************************************)
(* Theorems about PhotoPaging, for any page size, number of photos,        *)
(* coroutines, presses and visits: which photo a press deletes, and which  *)
(* photos a fully loaded list does not show.                               *)
(***************************************************************************)
EXTENDS PhotoPaging, Integers, SequenceTheorems, FiniteSetTheorems, WellFoundedInduction, TLAPS

USE PageSizeAssumption, BoundsAssumption

-----------------------------------------------------------------------------
(* The inductive invariant.                                                *)

Ids == 1 .. Photos
Page == [key : Nat \ {0}, data : Seq(Ids)]
JobRecords ==
  [stage : {"idle", "pressed", "deleting", "delay", "waiting"}, index : Nat,
   photo : Ids \union {0}, seen : Ids \union {0}, moved : BOOLEAN]
TypeInv == TypeOK /\ jobs \in [Jobs -> JobRecords]

\* A row that was pressed is still the photo seen in it, unless rows moved; and so is the
\* photo looked up.
JobInv ==
  /\ \A j \in Jobs : ~jobs[j].moved =>
       /\ jobs[j].stage = "pressed" =>
            jobs[j].index \in DOMAIN Rows /\ Rows[jobs[j].index] = jobs[j].seen
       /\ jobs[j].stage = "deleting" => jobs[j].photo = jobs[j].seen
  /\ crashed => \E j \in Jobs : jobs[j].stage = "pressed" /\ jobs[j].moved

\* GetPhotosPage of any list.
PageOf(list, index, size) ==
  LET in == {i \in DOMAIN list : (index - 1) * size < i /\ i <= index * size}
  IN  [n \in 1 .. Cardinality(in) |-> list[(index - 1) * size + n]]

\* The pages are numbered one by one, that of the refresh is among them, and each holds
\* what the server has under its number, in the large size the page of the refresh and in
\* the small one the others.
PagesInv ==
  pages # << >> /\ ~changed =>
    /\ \A i \in 1 .. Len(pages) : pages[i].key = pages[1].key + i - 1
    /\ pages[1].key <= origin /\ origin <= pages[1].key + Len(pages) - 1
    /\ \A i \in 1 .. Len(pages) :
         pages[i].data =
           PageOf(server, pages[i].key, IF pages[i].key = origin THEN 3 * PageSize ELSE PageSize)

IInv == TypeInv /\ JobInv /\ PagesInv

-----------------------------------------------------------------------------
(* Induction over the natural numbers, for sets, and what it gives of      *)
(* functions that are defined recursively.                                 *)

Smaller == {p \in Nat \X Nat : p[1] < p[2]}

LEMMA LeastNumber ==
  ASSUME NEW S \in SUBSET Nat, S # {}
  PROVE  \E n \in S : \A m \in S : n <= m
<1>1. IsWellFoundedOn(Smaller, Nat)
  BY NatLessThanWellFounded DEF Smaller, OpToRel
<1>2. PICK n \in S : \A m \in S : ~(<<m, n>> \in Smaller)
  BY <1>1, WFMin
<1>3. ASSUME NEW m \in S PROVE n <= m
  <2>1. m \in Nat /\ n \in Nat /\ ~(<<m, n>> \in Smaller)
    BY <1>2
  <2>2. m < n => <<m, n>> \in Smaller
    BY <2>1 DEF Smaller
  <2> QED BY <2>1, <2>2
<1> QED BY <1>3

LEMMA AllNumbers ==
  ASSUME NEW S \in SUBSET Nat, 0 \in S, \A n \in S : n + 1 \in S
  PROVE  S = Nat
<1> SUFFICES ASSUME Nat \ S # {} PROVE FALSE
  OBVIOUS
<1>1. PICK n \in Nat \ S : \A m \in Nat \ S : n <= m
  BY LeastNumber
<1>2. n - 1 \in S
  BY <1>1
<1> QED BY <1>1, <1>2

\* f begins with b, and goes from the value before n to the one at n as step[n] says.
Follows(f, b, step, n) == f[0] = b /\ \A i \in 1 .. n : f[i] = step[i][f[i - 1]]

LEMMA Recursion ==
  ASSUME NEW T, NEW N \in Nat, NEW b \in T, NEW step \in [1 .. N -> [T -> T]]
  PROVE  \E f \in [0 .. N -> T] : Follows(f, b, step, N)
<1> DEFINE S == {n \in Nat : n <= N => \E f \in [0 .. n -> T] : Follows(f, b, step, n)}
<1>1. 0 \in S
  <2>1. [i \in 0 .. 0 |-> b] \in [0 .. 0 -> T] /\ Follows([i \in 0 .. 0 |-> b], b, step, 0)
    BY DEF Follows
  <2> QED BY <2>1
<1>2. ASSUME NEW n \in S PROVE n + 1 \in S
  <2>1. n \in Nat
    OBVIOUS
  <2> SUFFICES ASSUME n + 1 <= N
               PROVE  \E g \in [0 .. n + 1 -> T] : Follows(g, b, step, n + 1)
    BY <2>1
  <2>2. PICK f \in [0 .. n -> T] : Follows(f, b, step, n)
    BY <2>1
  <2> DEFINE g == [i \in 0 .. n + 1 |-> IF i = n + 1 THEN step[n + 1][f[n]] ELSE f[i]]
  <2>3. f[n] \in T /\ step[n + 1] \in [T -> T]
    BY <2>1, <2>2
  <2>4. ASSUME NEW i \in 0 .. n PROVE f[i] \in T
    BY <2>2
  <2>5. g \in [0 .. n + 1 -> T]
    BY <2>1, <2>3, <2>4
  <2>6. /\ g[n + 1] = step[n + 1][f[n]]
        /\ \A i \in 0 .. n : g[i] = f[i]
    BY <2>1
  <2> HIDE DEF g
  <2>7. g[0] = b
    BY <2>1, <2>2, <2>6 DEF Follows
  <2>8. ASSUME NEW i \in 1 .. n + 1 PROVE g[i] = step[i][g[i - 1]]
    <3>1. CASE i = n + 1
      BY <2>1, <2>6, <3>1
    <3>2. CASE i # n + 1
      <4>1. i \in 1 .. n /\ i \in 0 .. n /\ i - 1 \in 0 .. n
        BY <2>1, <3>2
      <4>2. f[i] = step[i][f[i - 1]]
        BY <2>2, <4>1 DEF Follows
      <4> QED BY <2>6, <4>1, <4>2
    <3> QED BY <3>1, <3>2
  <2> QED BY <2>5, <2>7, <2>8 DEF Follows
<1> HIDE DEF S
<1>3. S = Nat
  <2>1. S \in SUBSET Nat
    BY DEF S
  <2> QED BY <1>1, <1>2, <2>1, AllNumbers
<1> QED BY <1>3 DEF S

-----------------------------------------------------------------------------
(* FlattenSeq: the rows of a list of pages.                                *)

Flattens(f, seqs) ==
  f = [i \in 1 .. Len(seqs) |-> IF i = 1 THEN seqs[i] ELSE f[i - 1] \o seqs[i]]

LEMMA FlattensAt ==
  ASSUME NEW f, NEW s, Flattens(f, s), NEW i \in 1 .. Len(s)
  PROVE  f[i] = IF i = 1 THEN s[i] ELSE f[i - 1] \o s[i]
BY DEF Flattens

Begins(s, t) ==
  /\ Len(s) \in Nat /\ Len(t) \in Nat /\ Len(s) <= Len(t)
  /\ \A i \in 1 .. Len(s) : s[i] = t[i]

LEMMA FlattensOnce ==
  ASSUME NEW s, NEW t, NEW f, NEW g, Flattens(f, s), Flattens(g, t), Begins(s, t),
         NEW j \in 1 .. Len(s)
  PROVE  f[j] = g[j]
<1>0. /\ Len(s) \in Nat /\ Len(t) \in Nat /\ Len(s) <= Len(t)
      /\ \A i \in 1 .. Len(s) : s[i] = t[i]
  BY DEF Begins
<1> DEFINE S == {n \in Nat : n \in 1 .. Len(s) => f[n] = g[n]}
<1>1. 0 \in S
  OBVIOUS
<1>2. ASSUME NEW n \in S PROVE n + 1 \in S
  <2>1. n \in Nat
    OBVIOUS
  <2> SUFFICES ASSUME n + 1 \in 1 .. Len(s) PROVE f[n + 1] = g[n + 1]
    BY <2>1
  <2>2. /\ f[n + 1] = IF n + 1 = 1 THEN s[n + 1] ELSE f[n + 1 - 1] \o s[n + 1]
        /\ g[n + 1] = IF n + 1 = 1 THEN t[n + 1] ELSE g[n + 1 - 1] \o t[n + 1]
    <3>1. n + 1 \in 1 .. Len(t)
      BY <1>0, <2>1
    <3> QED BY <3>1, FlattensAt
  <2>3. n + 1 # 1 => f[n + 1 - 1] = g[n + 1 - 1]
    <3>1. n + 1 - 1 = n /\ (n + 1 # 1 => n \in 1 .. Len(s))
      BY <1>0, <2>1
    <3> QED BY <3>1
  <2>4. s[n + 1] = t[n + 1]
    BY <1>0
  <2> QED BY <2>2, <2>3, <2>4
<1> HIDE DEF S
<1>3. S = Nat
  <2>1. S \in SUBSET Nat
    BY DEF S
  <2> QED BY <1>1, <1>2, <2>1, AllNumbers
<1> QED BY <1>3 DEF S

LEMMA FlattenIs ==
  ASSUME NEW S, NEW seqs \in Seq(Seq(S)), Len(seqs) # 0
  PROVE  \E f : /\ Flattens(f, seqs)
                /\ FlattenSeq(seqs) = f[Len(seqs)]
                /\ \A i \in 1 .. Len(seqs) : f[i] \in Seq(S)
<1> DEFINE N == Len(seqs)
           step == [i \in 1 .. N |-> [t \in Seq(S) |-> IF i = 1 THEN seqs[i] ELSE t \o seqs[i]]]
<1>1. N \in Nat /\ << >> \in Seq(S) /\ \A i \in 1 .. N : seqs[i] \in Seq(S)
  OBVIOUS
<1>2. step \in [1 .. N -> [Seq(S) -> Seq(S)]]
  BY <1>1
<1>3. \A i \in 1 .. N : \A t \in Seq(S) :
        step[i][t] = IF i = 1 THEN seqs[i] ELSE t \o seqs[i]
  OBVIOUS
<1> HIDE DEF step
<1>4. PICK f \in [0 .. N -> Seq(S)] : Follows(f, << >>, step, N)
  BY <1>1, <1>2, Recursion
<1> DEFINE g == [i \in 1 .. N |-> f[i]]
<1>5. g = [i \in 1 .. N |-> IF i = 1 THEN seqs[i] ELSE g[i - 1] \o seqs[i]]
  <2>1. ASSUME NEW i \in 1 .. N
        PROVE  f[i] = IF i = 1 THEN seqs[i] ELSE g[i - 1] \o seqs[i]
    <3>1. f[i] = step[i][f[i - 1]]
      BY <1>4 DEF Follows
    <3>4. i - 1 \in 0 .. N
      BY <1>1
    <3>5. f[i - 1] \in Seq(S)
      BY <1>4, <3>4
    <3>2. f[i] = IF i = 1 THEN seqs[i] ELSE f[i - 1] \o seqs[i]
      BY <1>3, <3>1, <3>5
    <3>3. i # 1 => g[i - 1] = f[i - 1]
      BY <1>1
    <3> QED BY <3>2, <3>3
  <2> QED BY <2>1
<1>6. Flattens(g, seqs) /\ \A i \in 1 .. N : g[i] \in Seq(S)
  <2>1. ASSUME NEW i \in 1 .. N PROVE g[i] \in Seq(S)
    <3>1. i \in 0 .. N
      BY <1>1
    <3>2. f[i] \in Seq(S)
      BY <1>4, <3>1
    <3> QED BY <3>2
  <2> QED BY <1>5, <2>1 DEF Flattens
<1> HIDE DEF g, N
<1>7. \E h : Flattens(h, seqs) /\ FlattenSeq(seqs) = h[Len(seqs)]
  BY <1>6 DEF Flattens, FlattenSeq
<1>8. PICK h : Flattens(h, seqs) /\ FlattenSeq(seqs) = h[Len(seqs)]
  BY <1>7
<1>9. ASSUME NEW i \in 1 .. Len(seqs) PROVE h[i] = g[i]
  <2>1. Begins(seqs, seqs)
    BY <1>1 DEF Begins, N
  <2> QED BY <1>6, <1>8, <2>1, FlattensOnce
<1> QED BY <1>6, <1>8, <1>9 DEF N

\* A sequence put behind the others comes behind their elements.
LEMMA FlattenAppend ==
  ASSUME NEW S, NEW seqs \in Seq(Seq(S)), NEW x \in Seq(S)
  PROVE  FlattenSeq(Append(seqs, x)) = FlattenSeq(seqs) \o x
<1> DEFINE more == Append(seqs, x)
<1>1. /\ more \in Seq(Seq(S)) /\ Len(more) = Len(seqs) + 1 /\ Len(seqs) \in Nat
      /\ \A i \in 1 .. Len(seqs) : more[i] = seqs[i]
      /\ more[Len(seqs) + 1] = x
  OBVIOUS
<1> HIDE DEF more
<1>2. Len(more) # 0
  BY <1>1
<1>3. PICK g : Flattens(g, more) /\ FlattenSeq(more) = g[Len(more)]
  BY <1>1, <1>2, FlattenIs
<1>4. FlattenSeq(more) =
        IF Len(seqs) + 1 = 1 THEN x ELSE g[Len(seqs) + 1 - 1] \o x
  <2>1. Len(seqs) + 1 \in 1 .. Len(more) /\ Len(more) = Len(seqs) + 1
    BY <1>1
  <2> QED BY <1>1, <1>3, <2>1, FlattensAt
<1>5. CASE Len(seqs) = 0
  <2>1. FlattenSeq(seqs) = << >>
    BY <1>5 DEF FlattenSeq
  <2> QED BY <1>4, <1>5, <2>1 DEF more
<1>6. CASE Len(seqs) # 0
  <2>1. PICK f : Flattens(f, seqs) /\ FlattenSeq(seqs) = f[Len(seqs)]
    BY <1>6, FlattenIs
  <2>2. Begins(seqs, more)
    BY <1>1 DEF Begins
  <2>3. Len(seqs) + 1 # 1 /\ Len(seqs) + 1 - 1 = Len(seqs) /\ Len(seqs) \in 1 .. Len(seqs)
    BY <1>1, <1>6
  <2>4. f[Len(seqs)] = g[Len(seqs)]
    BY <1>3, <2>1, <2>2, <2>3, FlattensOnce
  <2> QED BY <1>4, <2>1, <2>3, <2>4 DEF more
<1> QED BY <1>5, <1>6

\* What is in one of the sequences is in the whole.
LEMMA FlattenHas ==
  ASSUME NEW S, NEW seqs \in Seq(Seq(S))
  PROVE  /\ FlattenSeq(seqs) \in Seq(S)
         /\ \A i \in 1 .. Len(seqs) : ToSet(seqs[i]) \subseteq ToSet(FlattenSeq(seqs))
<1>1. CASE Len(seqs) = 0
  BY <1>1 DEF FlattenSeq
<1>2. CASE Len(seqs) # 0
  <2>1. PICK f : /\ Flattens(f, seqs)
                 /\ FlattenSeq(seqs) = f[Len(seqs)]
                 /\ \A i \in 1 .. Len(seqs) : f[i] \in Seq(S)
    BY <1>2, FlattenIs
  <2>2. Len(seqs) \in Nat /\ \A i \in 1 .. Len(seqs) : seqs[i] \in Seq(S)
    OBVIOUS
  <2>3. ASSUME NEW s \in Seq(S), NEW t \in Seq(S)
        PROVE  ToSet(s) \subseteq ToSet(s \o t) /\ ToSet(t) \subseteq ToSet(s \o t)
    <3>1. DOMAIN s = 1 .. Len(s) /\ DOMAIN t = 1 .. Len(t) /\ Len(s) \in Nat /\ Len(t) \in Nat
      OBVIOUS
    <3>2. DOMAIN (s \o t) = 1 .. Len(s) + Len(t)
      OBVIOUS
    <3>3. ASSUME NEW i \in DOMAIN s PROVE i \in DOMAIN (s \o t) /\ (s \o t)[i] = s[i]
      BY <3>1, <3>2
    <3>4. ASSUME NEW i \in DOMAIN t
          PROVE  i + Len(s) \in DOMAIN (s \o t) /\ (s \o t)[i + Len(s)] = t[i]
      BY <3>1, <3>2
    <3> QED BY <3>3, <3>4 DEF ToSet
  <2> DEFINE M == {n \in Nat : n \in 1 .. Len(seqs) =>
                     \A i \in 1 .. n : ToSet(seqs[i]) \subseteq ToSet(f[n])}
  <2>4. 0 \in M
    OBVIOUS
  <2>5. ASSUME NEW n \in M PROVE n + 1 \in M
    <3>1. n \in Nat
      OBVIOUS
    <3> SUFFICES ASSUME n + 1 \in 1 .. Len(seqs), NEW i \in 1 .. n + 1
                 PROVE  ToSet(seqs[i]) \subseteq ToSet(f[n + 1])
      BY <3>1
    <3>2. f[n + 1] = IF n + 1 = 1 THEN seqs[n + 1] ELSE f[n + 1 - 1] \o seqs[n + 1]
      BY <2>1, FlattensAt
    <3>3. CASE n = 0
      <4>1. i = n + 1 /\ n + 1 = 1
        BY <3>3
      <4> QED BY <3>2, <4>1
    <3>4. CASE n # 0
      <4>1. n \in 1 .. Len(seqs) /\ n + 1 - 1 = n /\ n + 1 # 1
        BY <2>2, <3>1, <3>4
      <4>2. f[n + 1] = f[n] \o seqs[n + 1]
        BY <3>2, <4>1
      <4>3. f[n] \in Seq(S) /\ seqs[n + 1] \in Seq(S)
        BY <2>1, <2>2, <4>1
      <4>4. ToSet(f[n]) \subseteq ToSet(f[n + 1]) /\ ToSet(seqs[n + 1]) \subseteq ToSet(f[n + 1])
        BY <2>3, <4>2, <4>3
      <4>5. i \in 1 .. n \/ i = n + 1
        BY <3>1
      <4>6. i \in 1 .. n => ToSet(seqs[i]) \subseteq ToSet(f[n])
        BY <4>1
      <4> QED BY <4>4, <4>5, <4>6
    <3> QED BY <3>3, <3>4
  <2> HIDE DEF M
  <2>6. M = Nat
    <3>1. M \in SUBSET Nat
      BY DEF M
    <3> QED BY <2>4, <2>5, <3>1, AllNumbers
  <2>7. Len(seqs) \in 1 .. Len(seqs) /\ Len(seqs) \in M
    BY <1>2, <2>2, <2>6
  <2>8. \A i \in 1 .. Len(seqs) : ToSet(seqs[i]) \subseteq ToSet(f[Len(seqs)])
    BY <2>7 DEF M
  <2> QED BY <2>1, <2>7, <2>8
<1> QED BY <1>1, <1>2

-----------------------------------------------------------------------------
(* The server's list and its pages.                                        *)

LEMMA WithoutType ==
  ASSUME NEW S, NEW list \in Seq(S), NEW photos
  PROVE  Without(list, photos) \in Seq(S)
<1> DEFINE N == Len(list)
           step == [i \in 1 .. N |-> [t \in Seq(S) |->
                      IF list[i] \in photos THEN t ELSE Append(t, list[i])]]
<1>1. N \in Nat /\ << >> \in Seq(S) /\ \A i \in 1 .. N : list[i] \in S
  OBVIOUS
<1>2. step \in [1 .. N -> [Seq(S) -> Seq(S)]]
  BY <1>1
<1>3. \A i \in 1 .. N : \A t \in Seq(S) :
        step[i][t] = IF list[i] \in photos THEN t ELSE Append(t, list[i])
  OBVIOUS
<1> HIDE DEF step
<1>4. PICK f \in [0 .. N -> Seq(S)] : Follows(f, << >>, step, N)
  BY <1>1, <1>2, Recursion
<1> DEFINE Keeps(g) == g = [n \in 0 .. Len(list) |->
                             IF n = 0 THEN << >>
                             ELSE IF list[n] \in photos THEN g[n - 1]
                             ELSE Append(g[n - 1], list[n])]
<1>5. Keeps(f)
  <2>1. ASSUME NEW n \in 0 .. N
        PROVE  f[n] = IF n = 0 THEN << >>
                      ELSE IF list[n] \in photos THEN f[n - 1] ELSE Append(f[n - 1], list[n])
    <3>1. CASE n = 0
      BY <1>4, <3>1 DEF Follows
    <3>2. CASE n # 0
      <4>1. n \in 1 .. N /\ n - 1 \in 0 .. N
        BY <1>1, <3>2
      <4>2. f[n] = step[n][f[n - 1]]
        BY <1>4, <4>1 DEF Follows
      <4>3. f[n - 1] \in Seq(S)
        BY <1>4, <4>1
      <4> QED BY <1>3, <3>2, <4>1, <4>2, <4>3
    <3> QED BY <3>1, <3>2
  <2> QED BY <1>4, <2>1
<1>6. \E g : Keeps(g) /\ Without(list, photos) = g[Len(list)]
  BY <1>5 DEF Without
<1>7. PICK g : Keeps(g) /\ Without(list, photos) = g[Len(list)]
  BY <1>6
<1> DEFINE M == {n \in Nat : n \in 0 .. N => g[n] \in Seq(S)}
<1>8. 0 \in M
  BY <1>1, <1>7
<1>9. ASSUME NEW n \in M PROVE n + 1 \in M
  <2>1. n \in Nat
    OBVIOUS
  <2> SUFFICES ASSUME n + 1 \in 0 .. N PROVE g[n + 1] \in Seq(S)
    BY <2>1
  <2>2. n \in 0 .. N /\ n + 1 \in 1 .. N /\ n + 1 - 1 = n /\ n + 1 # 0
    BY <1>1, <2>1
  <2>3. g[n + 1] = IF list[n + 1] \in photos THEN g[n] ELSE Append(g[n], list[n + 1])
    <3>1. \A i \in 0 .. N : g[i] = IF i = 0 THEN << >>
                                   ELSE IF list[i] \in photos THEN g[i - 1]
                                   ELSE Append(g[i - 1], list[i])
      BY <1>7
    <3> QED BY <1>1, <2>2, <3>1
  <2>4. g[n] \in Seq(S) /\ list[n + 1] \in S
    BY <1>1, <2>2
  <2> QED BY <2>3, <2>4
<1> HIDE DEF M
<1>10. M = Nat
  <2>1. M \in SUBSET Nat
    BY DEF M
  <2> QED BY <1>8, <1>9, <2>1, AllNumbers
<1>11. N \in M /\ N \in 0 .. N
  BY <1>1, <1>10
<1> QED BY <1>7, <1>11 DEF M

LEMMA PageIs ==
  ASSUME NEW index, NEW size
  PROVE  GetPhotosPage(index, size) = PageOf(server, index, size)
BY DEF GetPhotosPage, PageOf

\* A page holds the photos in its places; it is empty only if the list ends before it.
LEMMA PageFacts ==
  ASSUME NEW S, NEW list \in Seq(S), NEW index \in Nat \ {0}, NEW size \in Nat \ {0}
  PROVE  /\ PageOf(list, index, size) \in Seq(S)
         /\ PageOf(list, index, size) = << >> => Len(list) <= (index - 1) * size
         /\ \A i \in 1 .. Len(list) :
              (index - 1) * size < i /\ i <= index * size =>
                list[i] \in ToSet(PageOf(list, index, size))
<1> DEFINE lo == (index - 1) * size
           hi == index * size
           N == Len(list)
           m == IF hi <= N THEN hi ELSE N
           in == {i \in DOMAIN list : lo < i /\ i <= hi}
           page == [n \in 1 .. Cardinality(in) |-> list[lo + n]]
<1>1. N \in Nat /\ DOMAIN list = 1 .. N /\ \A i \in 1 .. N : list[i] \in S
  OBVIOUS
<1>2. lo \in Nat /\ hi \in Nat
  OBVIOUS
<1>3. PageOf(list, index, size) = page
  BY DEF PageOf
<1> HIDE DEF lo, hi, N
<1>4. in = (lo + 1) .. m
  BY <1>1, <1>2
<1>5. m \in Nat /\ m <= N
  BY <1>1, <1>2
<1> DEFINE c == Cardinality(in)
<1> HIDE DEF m, in
<1>6. c = IF lo + 1 > m THEN 0 ELSE m - (lo + 1) + 1
  <2>1. lo + 1 \in Int /\ m \in Int
    BY <1>2, <1>5
  <2> QED BY <1>4, <2>1, FS_Interval
<1> HIDE DEF c
<1>7. c \in Nat /\ (lo < m => c = m - lo) /\ (lo >= m => c = 0)
  BY <1>2, <1>5, <1>6
<1>8. \A n \in 1 .. c : lo + n \in 1 .. N
  BY <1>1, <1>2, <1>5, <1>7
<1>9. page \in Seq(S) /\ Len(page) = c /\ DOMAIN page = 1 .. c
  <2>1. \A n \in 1 .. c : list[lo + n] \in S
    BY <1>1, <1>8
  <2> QED BY <1>7, <2>1 DEF c
<1>10. page = << >> => N <= lo
  <2> SUFFICES ASSUME page = << >> PROVE N <= lo
    OBVIOUS
  <2>1. c = 0
    BY <1>9
  <2>2. m <= lo
    BY <1>2, <1>5, <1>7, <2>1
  <2>3. lo < hi
    BY DEF lo, hi
  <2> QED BY <1>1, <1>2, <2>2, <2>3 DEF m
<1>11. ASSUME NEW i \in 1 .. N, lo < i, i <= hi
       PROVE  list[i] \in ToSet(page)
  <2>1. i <= m /\ lo < m
    BY <1>1, <1>2, <1>11 DEF m
  <2>2. i - lo \in 1 .. c /\ lo + (i - lo) = i
    BY <1>1, <1>2, <1>5, <1>7, <1>11, <2>1
  <2>3. page[i - lo] = list[i]
    BY <2>2 DEF c
  <2> QED BY <1>9, <2>2, <2>3 DEF ToSet
<1> QED BY <1>3, <1>9, <1>10, <1>11 DEF lo, hi, N

-----------------------------------------------------------------------------
(* The rows presented.                                                     *)

DataOf(ps) == [i \in DOMAIN ps |-> ps[i].data]

LEMMA DataAre ==
  ASSUME NEW ps \in Seq(Page)
  PROVE  /\ DOMAIN ps = 1 .. Len(ps) /\ Len(ps) \in Nat
         /\ \A i \in 1 .. Len(ps) : ps[i] \in Page /\ ps[i].data \in Seq(Ids)
         /\ DataOf(ps) \in Seq(Seq(Ids)) /\ Len(DataOf(ps)) = Len(ps)
         /\ \A i \in 1 .. Len(ps) : DataOf(ps)[i] = ps[i].data
<1>1. DOMAIN ps = 1 .. Len(ps) /\ Len(ps) \in Nat /\ \A i \in 1 .. Len(ps) : ps[i] \in Page
  OBVIOUS
<1>2. \A q \in Page : q.data \in Seq(Ids)
  BY DEF Page
<1>3. \A i \in 1 .. Len(ps) : ps[i].data \in Seq(Ids)
  BY <1>1, <1>2
<1> QED BY <1>1, <1>3 DEF DataOf

LEMMA RowsAre ==
  ASSUME pages \in Seq(Page)
  PROVE  /\ Rows = FlattenSeq(DataOf(pages)) /\ Rows \in Seq(Ids)
         /\ DOMAIN Rows = 1 .. Len(Rows) /\ \A i \in DOMAIN Rows : Rows[i] \in Ids /\ i \in Nat
         /\ \A i \in 1 .. Len(pages) : ToSet(pages[i].data) \subseteq ToSet(Rows)
<1>2. /\ DataOf(pages) \in Seq(Seq(Ids)) /\ Len(DataOf(pages)) = Len(pages)
      /\ \A i \in 1 .. Len(pages) : DataOf(pages)[i] = pages[i].data
  BY DataAre
<1>3. Rows = FlattenSeq(DataOf(pages))
  BY DEF Rows, DataOf
<1>4. Rows \in Seq(Ids)
  BY <1>2, <1>3, FlattenHas
<1>5. ASSUME NEW i \in 1 .. Len(pages) PROVE ToSet(pages[i].data) \subseteq ToSet(Rows)
  BY <1>2, <1>3, FlattenHas
<1>6. DOMAIN Rows = 1 .. Len(Rows) /\ \A i \in DOMAIN Rows : Rows[i] \in Ids /\ i \in Nat
  BY <1>4
<1> QED BY <1>3, <1>4, <1>5, <1>6

\* A page behind the others moves no row.
LEMMA RowsStay ==
  ASSUME pages \in Seq(Page), NEW p \in Page, pages' = Append(pages, p)
  PROVE  \A i \in DOMAIN Rows : i \in DOMAIN Rows' /\ Rows'[i] = Rows[i]
<1>1. pages' \in Seq(Page) /\ p.data \in Seq(Ids)
  BY DEF Page
<1>2. DataOf(pages) \in Seq(Seq(Ids))
  BY DataAre
<1>3. DataOf(pages') = Append(DataOf(pages), p.data)
  <2>1. /\ DOMAIN pages = 1 .. Len(pages) /\ Len(pages) \in Nat
        /\ DOMAIN pages' = 1 .. Len(pages) + 1
        /\ \A i \in 1 .. Len(pages) : pages'[i] = pages[i]
        /\ pages'[Len(pages) + 1] = p
    OBVIOUS
  <2>2. /\ Append(DataOf(pages), p.data) \in Seq(Seq(Ids))
        /\ Len(DataOf(pages)) = Len(pages)
    BY <1>1, <1>2, <2>1 DEF DataOf
  <2>3. /\ DOMAIN Append(DataOf(pages), p.data) = 1 .. Len(pages) + 1
        /\ \A i \in 1 .. Len(pages) : Append(DataOf(pages), p.data)[i] = pages[i].data
        /\ Append(DataOf(pages), p.data)[Len(pages) + 1] = p.data
    BY <1>1, <1>2, <2>1, <2>2 DEF DataOf
  <2>4. /\ Append(DataOf(pages), p.data) =
             [i \in 1 .. Len(pages) + 1 |-> Append(DataOf(pages), p.data)[i]]
        /\ DataOf(pages') = [i \in 1 .. Len(pages) + 1 |-> pages'[i].data]
    BY <2>1, <2>2, <2>3 DEF DataOf
  <2>5. ASSUME NEW i \in 1 .. Len(pages) + 1
        PROVE  Append(DataOf(pages), p.data)[i] = pages'[i].data
    <3>1. i \in 1 .. Len(pages) \/ i = Len(pages) + 1
      BY <2>1
    <3> QED BY <2>1, <2>3, <3>1
  <2> QED BY <2>4, <2>5
<1>4. Rows' = Rows \o p.data
  <2>1. Rows = FlattenSeq(DataOf(pages)) /\ Rows' = FlattenSeq(DataOf(pages'))
    BY DEF Rows, DataOf
  <2> QED BY <1>1, <1>2, <1>3, <2>1, FlattenAppend
<1>5. Rows \in Seq(Ids)
  BY RowsAre
<1> QED BY <1>1, <1>4, <1>5

-----------------------------------------------------------------------------
(* Places and page numbers.                                                *)

\* Every place is on a page.
LEMMA PageNumber ==
  ASSUME NEW size \in Nat \ {0}, NEW n \in Nat \ {0}
  PROVE  \E k \in Nat \ {0} : (k - 1) * size < n /\ n <= k * size
<1> DEFINE S == {k \in Nat : n <= k * size}
<1>1. n \in S
  <2>1. n <= n * size
    BY SMT
  <2> QED BY <2>1
<1>2. PICK k \in S : \A m \in S : k <= m
  BY <1>1, LeastNumber
<1>3. k # 0
  <2>1. 0 * size = 0
    OBVIOUS
  <2> QED BY <1>2, <2>1
<1>4. k - 1 \in Nat /\ k - 1 \notin S
  BY <1>2, <1>3
<1>5. (k - 1) * size \in Nat
  BY <1>4
<1> QED BY <1>2, <1>3, <1>4, <1>5

LEMMA Product ==
  ASSUME NEW a \in Nat, NEW b \in Nat, a <= b, NEW c \in Nat
  PROVE  a * c <= b * c
BY SMT

LEMMA RestHas ==
  ASSUME NEW S, NEW list \in Seq(S), NEW m \in Nat \ {0}, NEW n \in 1 .. Len(list), m <= n
  PROVE  list[n] \in ToSet(SubSeq(list, m, Len(list)))
<1>1. Len(list) \in Nat /\ n \in Nat
  OBVIOUS
<1>2. n - m + 1 \in 1 .. Len(list) - m + 1
  BY <1>1
<1>3. /\ DOMAIN SubSeq(list, m, Len(list)) = 1 .. Len(list) - m + 1
      /\ SubSeq(list, m, Len(list))[n - m + 1] = list[n]
  BY <1>1, <1>2
<1> QED BY <1>2, <1>3 DEF ToSet

-----------------------------------------------------------------------------
(* What the invariant says of the properties.                              *)

LEMMA InvSaysDeletes == JobInv => DeletesThePressed
BY DEF JobInv, DeletesThePressed

\* The large page is in its place as well as the small ones, and the list ends at an
\* empty page: a photo is missing only where the small page of the refresh would be.
LEMMA InvSaysLoss ==
  ASSUME TypeInv, PagesInv
  PROVE  LossExplained
<1> SUFFICES ASSUME LoadedToBothEnds, ~changed, NEW x \in Missing
             PROVE  x \in IF 3 * PageSize * (origin - 1) < Len(server)
                          THEN IF origin = 1 THEN {} ELSE ToSet(GetPhotosPage(origin, PageSize))
                          ELSE ToSet(SubSeq(server, PageSize * (origin - 1) + 1, Len(server)))
  BY DEF TypeInv, LossExplained
<1> DEFINE N == Len(server)
           L == Len(pages)
           K == pages[1].key + L - 1
<1>1. /\ server \in Seq(Ids) /\ pages \in Seq(Page) /\ pages # << >>
      /\ origin \in Nat \ {0} /\ PageSize \in Nat \ {0}
  BY DEF TypeInv, TypeOK, LoadedToBothEnds, Page, Ids
<1>2. N \in Nat /\ DOMAIN server = 1 .. N /\ L \in Nat \ {0}
      /\ \A i \in 1 .. L : pages[i] \in Page
  BY <1>1
<1>3. pages[1].key = 1 /\ pages[L].data = << >>
  <2>1. pages[1].key <= 1 /\ pages[1].key \in Nat \ {0}
    BY <1>2 DEF LoadedToBothEnds, HasPrev, Page
  <2> QED BY <1>2, <2>1 DEF LoadedToBothEnds, HasNext, Last
<1>4. /\ \A i \in 1 .. L : pages[i].key = i
      /\ origin <= L
      /\ \A i \in 1 .. L :
           pages[i].data = PageOf(server, i, IF i = origin THEN 3 * PageSize ELSE PageSize)
  <2>1. /\ \A i \in 1 .. L : pages[i].key = pages[1].key + i - 1
        /\ origin <= pages[1].key + L - 1
        /\ \A i \in 1 .. L :
             pages[i].data =
               PageOf(server, pages[i].key, IF pages[i].key = origin THEN 3 * PageSize ELSE PageSize)
    BY <1>1 DEF PagesInv
  <2>2. \A i \in 1 .. L : pages[i].key = i
    BY <1>2, <1>3, <2>1
  <2> QED BY <1>2, <1>3, <2>1, <2>2
<1> HIDE DEF N, L
<1>5. PICK n \in 1 .. N : server[n] = x
  BY <1>2 DEF Missing, ToSet
<1>6. ASSUME NEW i \in 1 .. L PROVE x \notin ToSet(pages[i].data)
  BY <1>1, <1>6, RowsAre DEF Missing, L
<1>7. ASSUME NEW i \in 1 .. L, i # origin, (i - 1) * PageSize < n, n <= i * PageSize
      PROVE  FALSE
  <2>1. pages[i].data = PageOf(server, i, PageSize)
    BY <1>4, <1>7
  <2>2. i \in Nat \ {0}
    BY <1>2
  <2>3. server[n] \in ToSet(PageOf(server, i, PageSize))
    BY <1>1, <1>7, <2>2, PageFacts DEF N
  <2> QED BY <1>5, <1>6, <2>1, <2>3
<1>8. ASSUME (origin - 1) * (3 * PageSize) < n, n <= origin * (3 * PageSize)
      PROVE  FALSE
  <2>1. origin \in 1 .. L
    BY <1>1, <1>2, <1>4
  <2>2. pages[origin].data = PageOf(server, origin, 3 * PageSize)
    BY <1>4, <2>1
  <2>3. 3 * PageSize \in Nat \ {0}
    BY <1>1
  <2>4. server[n] \in ToSet(PageOf(server, origin, 3 * PageSize))
    BY <1>1, <1>8, <2>3, PageFacts DEF N
  <2> QED BY <1>5, <1>6, <2>1, <2>2, <2>4
\* The number of the small page the photo is on.
<1>9. PICK k \in Nat \ {0} : (k - 1) * PageSize < n /\ n <= k * PageSize
  <2>1. n \in Nat \ {0}
    BY <1>2
  <2> QED BY <1>1, <2>1, PageNumber
<1>10. CASE k = origin
  <2>1. CASE origin = 1
    <3>1. (origin - 1) * (3 * PageSize) = 0 /\ n <= origin * (3 * PageSize)
      BY <1>1, <1>2, <1>9, <1>10, <2>1
    <3> QED BY <1>2, <1>8, <3>1
  <2>2. CASE origin # 1 /\ 3 * PageSize * (origin - 1) < N
    <3>1. server[n] \in ToSet(PageOf(server, origin, PageSize))
      BY <1>1, <1>9, <1>10, PageFacts DEF N
    <3> QED BY <1>5, <2>2, <3>1, PageIs DEF N
  <2>3. CASE origin # 1 /\ ~(3 * PageSize * (origin - 1) < N)
    <3>1. PageSize * (origin - 1) + 1 <= n
      BY <1>1, <1>2, <1>9, <1>10
    <3>2. server[n] \in ToSet(SubSeq(server, PageSize * (origin - 1) + 1, N))
      BY <1>1, <1>2, <3>1, RestHas DEF N
    <3> QED BY <1>5, <2>3, <3>2 DEF N
  <2> QED BY <2>1, <2>2, <2>3
<1>11. CASE k # origin /\ k <= L
  BY <1>2, <1>7, <1>9, <1>11
<1>12. CASE k > L /\ L = origin
  <2>1. N <= (L - 1) * (3 * PageSize)
    <3>1. PageOf(server, L, 3 * PageSize) = << >>
      BY <1>2, <1>3, <1>4, <1>12 DEF L
    <3>2. 3 * PageSize \in Nat \ {0}
      BY <1>1
    <3> QED BY <1>1, <1>2, <3>1, <3>2, PageFacts DEF N
  <2>2. ~(3 * PageSize * (origin - 1) < N)
    BY <1>1, <1>2, <1>12, <2>1
  <2>3. PageSize * (origin - 1) + 1 <= n
    <3>1. (origin - 1) * PageSize <= (k - 1) * PageSize
      BY <1>1, <1>2, <1>9, <1>12, Product
    <3> QED BY <1>1, <1>2, <1>9, <3>1
  <2>4. server[n] \in ToSet(SubSeq(server, PageSize * (origin - 1) + 1, N))
    BY <1>1, <1>2, <2>3, RestHas DEF N
  <2> QED BY <1>5, <2>2, <2>4 DEF N
<1>13. CASE k > L /\ L # origin
  <2>1. N <= (L - 1) * PageSize
    <3>1. PageOf(server, L, PageSize) = << >>
      BY <1>2, <1>3, <1>4, <1>13 DEF L
    <3> QED BY <1>1, <1>2, <3>1, PageFacts DEF N
  <2>2. (L - 1) * PageSize <= (k - 1) * PageSize
    BY <1>1, <1>2, <1>9, <1>13, Product
  <2>3. n <= N
    BY <1>2
  <2>4. (k - 1) * PageSize \in Int /\ (L - 1) * PageSize \in Int
    BY <1>1, <1>2, <1>9
  <2> QED BY <1>2, <1>9, <2>1, <2>2, <2>3, <2>4
<1> QED BY <1>2, <1>9, <1>10, <1>11, <1>12, <1>13

-----------------------------------------------------------------------------
(* The first state.                                                        *)

LEMMA InvInit == Init => IInv
<1> SUFFICES ASSUME Init PROVE IInv
  OBVIOUS
<1>1. server \in Seq(1 .. Photos)
  BY DEF Init
<1>2. TypeOK
  <2>1. \A j \in Jobs : jobs[j].stage = "idle"
    BY DEF Init, Idle, Job
  <2>2. /\ pages \in Seq([key : Nat \ {0}, data : Seq(1 .. Photos)])
        /\ visits \in 1 .. Visits /\ presses \in 0 .. Presses
    BY DEF Init
  <2>3. refresh = "loading" /\ key = 1 /\ origin = 1 /\ stuck = {}
    BY DEF Init
  <2>4. wanted \in BOOLEAN /\ changed \in BOOLEAN /\ spinning \in BOOLEAN /\ crashed \in BOOLEAN
    BY DEF Init
  <2> QED BY <1>1, <2>1, <2>2, <2>3, <2>4 DEF TypeOK
<1>3. jobs \in [Jobs -> JobRecords] /\ \A j \in Jobs : jobs[j].stage = "idle"
  BY DEF Init, JobRecords, Idle, Job
<1>4. JobInv
  BY <1>3 DEF Init, JobInv
<1>5. PagesInv
  BY DEF Init, PagesInv
<1> QED BY <1>2, <1>3, <1>4, <1>5 DEF IInv, TypeInv

-----------------------------------------------------------------------------
(* Steps of Paging.                                                        *)

\* Steps that leave the jobs, the rows and crashed alone keep what is said of them ...
LEMMA JobsStay ==
  ASSUME JobInv, UNCHANGED <<jobs, pages, crashed>>
  PROVE  JobInv'
BY DEF JobInv, Rows

\* ... and steps that leave the pages and the server's list alone what is said of pages.
LEMMA PagesStay ==
  ASSUME PagesInv, UNCHANGED <<pages, origin>>, changed' \/ UNCHANGED <<server, changed>>
  PROVE  PagesInv'
BY DEF PagesInv

LEMMA KeysAre ==
  ASSUME TypeOK
  PROVE  RefreshKeys \subseteq Nat \ {0}
<1>1. pages \in Seq(Page) /\ \A q \in Page : q.key \in Nat \ {0}
  BY DEF TypeOK, Page, Ids
<1>2. \A i \in DOMAIN pages : pages[i] \in Page
  BY <1>1
<1> QED BY <1>1, <1>2 DEF RefreshKeys

LEMMA RefreshBeginsKeeps == IInv /\ RefreshBegins => IInv'
<1> SUFFICES ASSUME IInv, RefreshBegins PROVE IInv'
  OBVIOUS
<1>1. key' \in Nat \ {0}
  BY KeysAre DEF IInv, TypeInv, RefreshBegins
<1>2. TypeOK'
  BY <1>1 DEF IInv, TypeInv, TypeOK, RefreshBegins, screen
<1>3. (jobs \in [Jobs -> JobRecords])'
  BY DEF IInv, TypeInv, RefreshBegins, screen
<1>4. JobInv'
  BY JobsStay DEF IInv, RefreshBegins, screen
<1>5. PagesInv'
  BY PagesStay DEF IInv, RefreshBegins
<1> QED BY <1>2, <1>3, <1>4, <1>5 DEF IInv, TypeInv

\* Rows that move are noted in the jobs that wait with one.
LEMMA RowsMoveFacts ==
  ASSUME jobs \in [Jobs -> JobRecords], RowsMove
  PROVE  /\ jobs' \in [Jobs -> JobRecords]
         /\ \A j \in Jobs :
              /\ jobs'[j].stage = jobs[j].stage /\ jobs'[j].photo = jobs[j].photo
              /\ jobs'[j].seen = jobs[j].seen
              /\ jobs[j].moved => jobs'[j].moved
              /\ jobs[j].stage = "pressed" => jobs'[j].moved
<1>1. ASSUME NEW j \in Jobs
      PROVE  /\ jobs'[j] \in JobRecords
             /\ jobs'[j].stage = jobs[j].stage /\ jobs'[j].photo = jobs[j].photo
             /\ jobs'[j].seen = jobs[j].seen
             /\ jobs[j].moved => jobs'[j].moved
             /\ jobs[j].stage = "pressed" => jobs'[j].moved
  <2>1. /\ jobs[j] \in JobRecords
        /\ jobs'[j] = [jobs[j] EXCEPT !.moved = jobs[j].moved \/ jobs[j].stage = "pressed"]
    BY DEF RowsMove
  <2>2. jobs'[j].moved = (jobs[j].moved \/ jobs[j].stage = "pressed")
    BY <2>1 DEF JobRecords
  <2>3. jobs'[j] \in JobRecords
    BY <2>1 DEF JobRecords
  <2>4. /\ jobs'[j].stage = jobs[j].stage /\ jobs'[j].photo = jobs[j].photo
        /\ jobs'[j].seen = jobs[j].seen
    BY <2>1 DEF JobRecords
  <2> QED BY <2>2, <2>3, <2>4
<1>2. jobs' \in [Jobs -> JobRecords]
  BY <1>1 DEF RowsMove
<1> QED BY <1>1, <1>2

LEMMA RowsMoveKeeps ==
  ASSUME jobs \in [Jobs -> JobRecords], RowsMove, JobInv, ~crashed, UNCHANGED crashed
  PROVE  JobInv'
<1>1. ASSUME NEW j \in Jobs, ~jobs'[j].moved
      PROVE  /\ jobs'[j].stage # "pressed"
             /\ jobs'[j].stage = "deleting" => jobs'[j].photo = jobs'[j].seen
  BY <1>1, RowsMoveFacts DEF JobInv
<1> QED BY <1>1 DEF JobInv

LEMMA PageType ==
  ASSUME server \in Seq(Ids), NEW k \in Nat \ {0}, NEW size \in Nat \ {0}
  PROVE  [key |-> k, data |-> GetPhotosPage(k, size)] \in Page
<1>1. GetPhotosPage(k, size) \in Seq(Ids)
  BY PageIs, PageFacts
<1> QED BY <1>1 DEF Page

LEMMA RefreshArrivesKeeps == IInv /\ ~crashed /\ RefreshArrives => IInv'
<1> SUFFICES ASSUME IInv, ~crashed, RefreshArrives PROVE IInv'
  OBVIOUS
<1> DEFINE p == [key |-> key, data |-> GetPhotosPage(key, 3 * PageSize)]
<1>1. /\ key \in Nat \ {0} /\ server \in Seq(Ids) /\ 3 * PageSize \in Nat \ {0}
      /\ jobs \in [Jobs -> JobRecords]
  BY DEF IInv, TypeInv, TypeOK, RefreshArrives, Ids
<1>2. p \in Page
  BY <1>1, PageType
<1>3. p.key = key /\ p.data = PageOf(server, key, 3 * PageSize)
  BY PageIs
<1> HIDE DEF p
<1>4. /\ pages' = <<p>> /\ refresh' = "idle" /\ key' = 0 /\ stuck' = {}
      /\ changed' = FALSE /\ origin' = key /\ RowsMove
      /\ UNCHANGED <<server, wanted, spinning, crashed, visits, presses>>
  BY DEF RefreshArrives, p
<1>5. pages' \in Seq(Page) /\ Len(pages') = 1 /\ pages'[1] = p
  BY <1>2, <1>4
<1>6. jobs' \in [Jobs -> JobRecords]
  BY <1>1, <1>4, RowsMoveFacts
<1>7. \A j \in Jobs :
        /\ jobs'[j].stage \in {"idle", "pressed", "deleting", "delay", "waiting"}
        /\ jobs'[j].stage = "deleting" => jobs'[j].photo \in 1 .. Photos
  BY <1>1, <1>4, RowsMoveFacts DEF IInv, TypeInv, TypeOK
<1>8. TypeOK'
  BY <1>1, <1>4, <1>5, <1>7 DEF IInv, TypeInv, TypeOK, Page, Ids
<1>9. JobInv'
  BY <1>1, <1>4, RowsMoveKeeps DEF IInv
<1>10. PagesInv'
  <2>1. ASSUME NEW i \in 1 .. Len(pages') PROVE i = 1
    BY <1>5
  <2>2. /\ pages'[1].key = origin' /\ origin' \in Nat \ {0}
        /\ pages'[1].data = PageOf(server', pages'[1].key, 3 * PageSize)
    BY <1>1, <1>3, <1>4, <1>5
  <2>3. /\ pages'[1].key + 1 - 1 = pages'[1].key
        /\ origin' <= pages'[1].key + Len(pages') - 1 /\ pages'[1].key <= origin'
    <3> DEFINE o == origin'
    <3>1. o \in Nat /\ pages'[1].key = o /\ Len(pages') = 1
      BY <1>5, <2>2
    <3> HIDE DEF o
    <3>2. o + 1 - 1 = o /\ o <= o /\ o <= o + Len(pages') - 1
      BY <3>1
    <3> QED BY <3>1, <3>2 DEF o
  <2>4. \A i \in 1 .. Len(pages') : pages'[i].key = pages'[1].key + i - 1
    BY <2>1, <2>3
  <2>5. \A i \in 1 .. Len(pages') :
          pages'[i].data =
            PageOf(server', pages'[i].key,
                   IF pages'[i].key = origin' THEN 3 * PageSize ELSE PageSize)
    BY <2>1, <2>2
  <2> QED BY <2>3, <2>4, <2>5 DEF PagesInv
<1> QED BY <1>6, <1>8, <1>9, <1>10 DEF IInv, TypeInv

LEMMA LoadFailsKeeps == IInv /\ LoadFails => IInv'
<1> SUFFICES ASSUME IInv, LoadFails PROVE IInv'
  OBVIOUS
<1>1. /\ UNCHANGED <<server, pages, wanted, changed, origin, jobs, spinning, crashed, visits, presses>>
      /\ refresh' \in {"idle", "loading", "error"} /\ key' \in Nat
      /\ (key' = 0 <=> refresh' # "loading")
      /\ stuck' \subseteq {"append", "prepend"}
  <2>1. /\ refresh \in {"idle", "loading", "error"} /\ key \in Nat
        /\ (key = 0 <=> refresh # "loading")
        /\ stuck \subseteq {"append", "prepend"}
    BY DEF IInv, TypeInv, TypeOK
  <2>2. UNCHANGED <<server, pages, wanted, changed, origin, jobs, spinning, crashed, visits, presses>>
    BY DEF LoadFails, screen
  <2>3. CASE refresh = "loading"
    <3>1. refresh' = "error" /\ key' = 0 /\ UNCHANGED stuck
      BY <2>3 DEF LoadFails
    <3> QED BY <2>1, <2>2, <3>1
  <2>4. CASE refresh # "loading"
    <3>1. UNCHANGED <<refresh, key>>
      BY <2>4 DEF LoadFails
    <3>2. stuck' \in {stuck \union {d} : d \in {"append", "prepend"}}
      BY <2>4 DEF LoadFails
    <3> QED BY <2>1, <2>2, <3>1, <3>2
  <2> QED BY <2>3, <2>4
<1>2. TypeOK'
  BY <1>1 DEF IInv, TypeInv, TypeOK
<1>3. (jobs \in [Jobs -> JobRecords])'
  BY <1>1 DEF IInv, TypeInv
<1>4. JobInv'
  BY <1>1, JobsStay DEF IInv
<1>5. PagesInv'
  BY <1>1, PagesStay DEF IInv
<1> QED BY <1>2, <1>3, <1>4, <1>5 DEF IInv, TypeInv

LEMMA AppendPageKeeps == IInv /\ AppendPage => IInv'
<1> SUFFICES ASSUME IInv, AppendPage PROVE IInv'
  OBVIOUS
<1> DEFINE L == Len(pages)
           k == pages[L].key + 1
           p == [key |-> k, data |-> GetPhotosPage(k, PageSize)]
<1>1. /\ pages \in Seq(Page) /\ pages # << >> /\ server \in Seq(Ids)
      /\ jobs \in [Jobs -> JobRecords] /\ origin \in Nat \ {0}
  BY DEF IInv, TypeInv, TypeOK, AppendPage, Page, Ids
<1>2. L \in Nat \ {0} /\ \A i \in 1 .. L : pages[i] \in Page
  BY <1>1
<1>3. k \in Nat \ {0} /\ pages[1].key \in Nat \ {0}
  <2>1. pages[L] \in Page /\ pages[1] \in Page
    BY <1>2
  <2> QED BY <2>1 DEF Page
<1>4. p \in Page
  BY <1>1, <1>3, PageType
<1>5. p.key = k /\ p.data = PageOf(server, k, PageSize)
  BY PageIs
<1>6. pages' = Append(pages, p)
  BY DEF AppendPage, NextKey, Last
<1> HIDE DEF L, k, p
<1>7. /\ UNCHANGED <<server, refresh, key, stuck, wanted, changed, origin>>
      /\ UNCHANGED <<jobs, spinning, crashed, visits, presses>>
  BY DEF AppendPage, screen
<1>8. /\ pages' \in Seq(Page) /\ Len(pages') = L + 1 /\ pages'[L + 1] = p
      /\ \A i \in 1 .. L : pages'[i] = pages[i]
  BY <1>1, <1>4, <1>6 DEF L
<1>9. TypeOK'
  BY <1>7, <1>8 DEF IInv, TypeInv, TypeOK, Page, Ids
<1>10. JobInv'
  <2>1. ASSUME NEW j \in Jobs, ~jobs[j].moved, jobs[j].stage = "pressed"
        PROVE  jobs[j].index \in DOMAIN Rows' /\ Rows'[jobs[j].index] = jobs[j].seen
    <3>1. jobs[j].index \in DOMAIN Rows /\ Rows[jobs[j].index] = jobs[j].seen
      BY <2>1 DEF IInv, JobInv
    <3> QED BY <1>1, <1>4, <1>6, <3>1, RowsStay
  <2> QED BY <1>7, <2>1 DEF IInv, JobInv
<1>11. PagesInv'
  <2> SUFFICES ASSUME ~changed
               PROVE  /\ \A i \in 1 .. Len(pages') : pages'[i].key = pages'[1].key + i - 1
                      /\ pages'[1].key <= origin /\ origin <= pages'[1].key + Len(pages') - 1
                      /\ \A i \in 1 .. Len(pages') :
                           pages'[i].data =
                             PageOf(server, pages'[i].key,
                                    IF pages'[i].key = origin THEN 3 * PageSize ELSE PageSize)
    BY <1>7 DEF PagesInv
  <2>1. /\ \A i \in 1 .. L : pages[i].key = pages[1].key + i - 1
        /\ pages[1].key <= origin /\ origin <= pages[1].key + L - 1
        /\ \A i \in 1 .. L :
             pages[i].data =
               PageOf(server, pages[i].key, IF pages[i].key = origin THEN 3 * PageSize ELSE PageSize)
    BY <1>1 DEF IInv, PagesInv, L
  <2>2. pages'[1] = pages[1]
    BY <1>2, <1>8
  <2>3. k = pages[1].key + (L + 1) - 1 /\ k # origin
    <3>1. pages[L].key = pages[1].key + L - 1
      BY <1>2, <2>1
    <3>2. k = pages[1].key + L - 1 + 1
      BY <3>1 DEF k
    <3>3. /\ pages[1].key \in Nat /\ L \in Nat /\ origin \in Nat
          /\ origin <= pages[1].key + L - 1
      BY <1>1, <1>2, <1>3, <2>1
    <3> QED BY <3>2, <3>3
  <2>4. \A i \in 1 .. L + 1 : i \in 1 .. L \/ i = L + 1
    BY <1>2
  <2>5. ASSUME NEW i \in 1 .. L + 1
        PROVE  /\ pages'[i].key = pages[1].key + i - 1
               /\ pages'[i].data =
                    PageOf(server, pages'[i].key,
                           IF pages'[i].key = origin THEN 3 * PageSize ELSE PageSize)
    <3>1. CASE i \in 1 .. L
      BY <1>8, <2>1, <3>1
    <3>2. CASE i = L + 1
      BY <1>5, <1>8, <2>3, <3>2
    <3> QED BY <2>4, <3>1, <3>2
  <2>6. origin <= pages[1].key + (L + 1) - 1
    BY <1>1, <1>2, <1>3, <2>1
  <2> QED BY <1>8, <2>1, <2>2, <2>5, <2>6
<1> QED BY <1>1, <1>7, <1>9, <1>10, <1>11 DEF IInv, TypeInv

LEMMA PrependPageKeeps == IInv /\ ~crashed /\ PrependPage => IInv'
<1> SUFFICES ASSUME IInv, ~crashed, PrependPage PROVE IInv'
  OBVIOUS
<1> DEFINE L == Len(pages)
           k == pages[1].key - 1
           p == [key |-> k, data |-> GetPhotosPage(k, PageSize)]
<1>1. /\ pages \in Seq(Page) /\ pages # << >> /\ server \in Seq(Ids)
      /\ jobs \in [Jobs -> JobRecords] /\ origin \in Nat \ {0}
  BY DEF IInv, TypeInv, TypeOK, PrependPage, Page, Ids
<1>2. L \in Nat \ {0} /\ \A i \in 1 .. L : pages[i] \in Page
  BY <1>1
<1>3. k \in Nat \ {0} /\ pages[1].key = k + 1
  <2>1. pages[1] \in Page /\ pages[1].key > 1
    BY <1>2 DEF PrependPage, HasPrev
  <2>2. pages[1].key \in Nat
    BY <2>1 DEF Page
  <2> QED BY <2>1, <2>2
<1>4. p \in Page
  BY <1>1, <1>3, PageType
<1>5. p.key = k /\ p.data = PageOf(server, k, PageSize)
  BY PageIs
<1>6. pages' = <<p>> \o pages
  BY DEF PrependPage
<1> HIDE DEF L, k, p
<1>7. /\ UNCHANGED <<server, refresh, key, stuck, wanted, changed, origin>>
      /\ UNCHANGED <<spinning, crashed, visits, presses>> /\ RowsMove
  BY DEF PrependPage
<1>8. /\ pages' \in Seq(Page) /\ Len(pages') = L + 1 /\ pages'[1] = p
      /\ \A i \in 1 .. L : pages'[i + 1] = pages[i]
  <2>1. <<p>> \in Seq(Page) /\ Len(<<p>>) = 1 /\ <<p>>[1] = p
    BY <1>4
  <2>2. pages' \in Seq(Page) /\ Len(pages') = L + 1
    BY <1>1, <1>2, <1>6, <2>1 DEF L
  <2>3. pages'[1] = p
    BY <1>1, <1>6, <2>1
  <2>4. ASSUME NEW i \in 1 .. L PROVE pages'[i + 1] = pages[i]
    BY <1>1, <1>2, <1>6, <2>1 DEF L
  <2> QED BY <2>2, <2>3, <2>4
<1>9. /\ jobs' \in [Jobs -> JobRecords]
      /\ \A j \in Jobs :
           /\ jobs'[j].stage \in {"idle", "pressed", "deleting", "delay", "waiting"}
           /\ jobs'[j].stage = "deleting" => jobs'[j].photo \in 1 .. Photos
  BY <1>1, <1>7, RowsMoveFacts DEF IInv, TypeInv, TypeOK
<1>10. TypeOK'
  BY <1>7, <1>8, <1>9 DEF IInv, TypeInv, TypeOK, Page, Ids
<1>11. JobInv'
  BY <1>1, <1>7, RowsMoveKeeps DEF IInv
<1>12. PagesInv'
  <2> SUFFICES ASSUME ~changed
               PROVE  /\ \A i \in 1 .. Len(pages') : pages'[i].key = pages'[1].key + i - 1
                      /\ pages'[1].key <= origin /\ origin <= pages'[1].key + Len(pages') - 1
                      /\ \A i \in 1 .. Len(pages') :
                           pages'[i].data =
                             PageOf(server, pages'[i].key,
                                    IF pages'[i].key = origin THEN 3 * PageSize ELSE PageSize)
    BY <1>7 DEF PagesInv
  <2>1. /\ \A i \in 1 .. L : pages[i].key = k + 1 + i - 1
        /\ k + 1 <= origin /\ origin <= k + 1 + L - 1
        /\ \A i \in 1 .. L :
             pages[i].data =
               PageOf(server, pages[i].key, IF pages[i].key = origin THEN 3 * PageSize ELSE PageSize)
    BY <1>1, <1>3 DEF IInv, PagesInv, L
  <2>2. pages'[1].key = k /\ k # origin
    BY <1>1, <1>3, <1>5, <1>8, <2>1
  <2>3. ASSUME NEW i \in 1 .. L + 1
        PROVE  /\ pages'[i].key = k + i - 1
               /\ pages'[i].data =
                    PageOf(server, pages'[i].key,
                           IF pages'[i].key = origin THEN 3 * PageSize ELSE PageSize)
    <3>1. CASE i = 1
      <4>1. k + 1 - 1 = k
        BY <1>3
      <4> QED BY <1>5, <1>8, <2>2, <3>1, <4>1
    <3>2. CASE i # 1
      <4>1. i - 1 \in 1 .. L /\ (i - 1) + 1 = i /\ k + 1 + (i - 1) - 1 = k + i - 1
        BY <1>2, <1>3, <3>2
      <4>2. pages'[i] = pages[i - 1]
        BY <1>8, <4>1
      <4>3. pages[i - 1].key = k + i - 1
        BY <2>1, <4>1
      <4> QED BY <2>1, <4>1, <4>2, <4>3
    <3> QED BY <3>1, <3>2
  <2>4. k <= origin /\ origin <= k + (L + 1) - 1
    BY <1>1, <1>2, <1>3, <2>1
  <2> QED BY <1>8, <2>2, <2>3, <2>4
<1> QED BY <1>9, <1>10, <1>11, <1>12 DEF IInv, TypeInv

-----------------------------------------------------------------------------
(* Steps of the screen.                                                    *)

LEMMA TakeAwayFacts ==
  ASSUME server \in Seq(Ids), changed \in BOOLEAN, NEW photos, TakeAway(photos)
  PROVE  /\ server' \in Seq(Ids) /\ changed' \in BOOLEAN
         /\ changed' \/ UNCHANGED <<server, changed>>
<1>1. server' \in Seq(Ids)
  BY WithoutType DEF TakeAway
<1>2. changed' \in BOOLEAN /\ (changed' \/ UNCHANGED <<server, changed>>)
  BY DEF TakeAway
<1> QED BY <1>1, <1>2

\* A job keeps what is said of it if a row it waits with is the row seen, and a photo it
\* looked up the photo seen.
JobRight(r) ==
  /\ r.stage = "deleting" => r.photo \in Ids
  /\ ~r.moved =>
       /\ r.stage = "pressed" => r.index \in DOMAIN Rows /\ Rows[r.index] = r.seen
       /\ r.stage = "deleting" => r.photo = r.seen

LEMMA JobsAreRight ==
  ASSUME TypeInv, JobInv, NEW j \in Jobs
  PROVE  jobs[j] \in JobRecords /\ JobRight(jobs[j])
BY DEF TypeInv, TypeOK, JobInv, JobRight, Ids

LEMMA JobsKeep ==
  ASSUME IInv, UNCHANGED paging, crashed' = FALSE,
         jobs' \in [Jobs -> JobRecords], \A j \in Jobs : JobRight(jobs'[j]),
         server' \in Seq(Ids), wanted' \in BOOLEAN, changed' \in BOOLEAN,
         spinning' \in BOOLEAN, visits' \in 1 .. Visits, presses' \in 0 .. Presses,
         changed' \/ UNCHANGED <<server, changed>>
  PROVE  IInv'
<1>1. \A j \in Jobs :
        /\ jobs'[j].stage \in {"idle", "pressed", "deleting", "delay", "waiting"}
        /\ jobs'[j].stage = "deleting" => jobs'[j].photo \in 1 .. Photos
  BY DEF JobRecords, JobRight, Ids
<1>2. TypeOK'
  BY <1>1 DEF IInv, TypeInv, TypeOK, paging, Ids
<1>3. Rows' = Rows
  BY DEF Rows, paging
<1>4. JobInv'
  BY <1>3 DEF JobInv, JobRight
<1>5. PagesInv'
  BY PagesStay DEF IInv, paging
<1> QED BY <1>2, <1>4, <1>5 DEF IInv, TypeInv

\* A step of one job.
LEMMA JobKeeps ==
  ASSUME IInv, ~crashed, UNCHANGED <<paging, crashed>>,
         NEW j \in Jobs, NEW r \in JobRecords, JobRight(r), jobs' = [jobs EXCEPT ![j] = r],
         server' \in Seq(Ids), wanted' \in BOOLEAN, changed' \in BOOLEAN,
         spinning' \in BOOLEAN, visits' \in 1 .. Visits, presses' \in 0 .. Presses,
         changed' \/ UNCHANGED <<server, changed>>
  PROVE  IInv'
<1>1. jobs \in [Jobs -> JobRecords]
  BY DEF IInv, TypeInv
<1>2. jobs' \in [Jobs -> JobRecords]
  BY <1>1
<1>3. ASSUME NEW i \in Jobs PROVE JobRight(jobs'[i])
  <2>1. jobs'[i] = r \/ jobs'[i] = jobs[i]
    BY <1>1
  <2> QED BY <2>1, JobsAreRight DEF IInv
<1>4. crashed' = FALSE
  BY DEF IInv, TypeInv, TypeOK
<1> QED BY <1>2, <1>3, <1>4, JobsKeep

LEMMA IdleFacts == Idle \in JobRecords /\ JobRight(Idle)
<1>1. Idle \in JobRecords
  BY DEF Idle, Job, JobRecords
<1>2. JobRight(Idle)
  BY DEF Idle, Job, JobRight
<1> QED BY <1>1, <1>2

LEMMA StageFacts ==
  ASSUME TypeInv, NEW j \in Jobs, NEW s \in {"delay", "waiting"}
  PROVE  /\ [jobs[j] EXCEPT !.stage = s] \in JobRecords
         /\ JobRight([jobs[j] EXCEPT !.stage = s])
<1>1. jobs[j] \in JobRecords
  BY DEF TypeInv
<1>2. /\ [jobs[j] EXCEPT !.stage = s] \in JobRecords
      /\ [jobs[j] EXCEPT !.stage = s].stage = s
  BY <1>1 DEF JobRecords
<1> QED BY <1>2 DEF JobRight

\* What the types say of the state before a step of the screen.
LEMMA Before ==
  ASSUME IInv
  PROVE  /\ server \in Seq(Ids) /\ pages \in Seq(Page) /\ jobs \in [Jobs -> JobRecords]
         /\ wanted \in BOOLEAN /\ changed \in BOOLEAN /\ spinning \in BOOLEAN
         /\ visits \in 1 .. Visits /\ presses \in 0 .. Presses
         /\ visits \in Nat /\ presses \in Nat
BY DEF IInv, TypeInv, TypeOK, Page, Ids

LEMMA ReturnKeeps == IInv /\ ~crashed /\ Return => IInv'
<1> SUFFICES ASSUME IInv, ~crashed, Return PROVE IInv'
  OBVIOUS
<1>1. PICK late \in SUBSET {j \in Jobs : jobs[j].stage = "deleting"} :
        TakeAway({jobs[j].photo : j \in late})
  BY DEF Return
<1>2. /\ jobs' = [j \in Jobs |-> Idle] /\ spinning' = FALSE /\ wanted' = TRUE
      /\ visits < Visits /\ visits' = visits + 1
      /\ UNCHANGED <<paging, crashed, presses>>
  BY DEF Return
<1>3. /\ server' \in Seq(Ids) /\ changed' \in BOOLEAN
      /\ changed' \/ UNCHANGED <<server, changed>>
  BY <1>1, Before, TakeAwayFacts
<1>4. visits' \in 1 .. Visits /\ presses' \in 0 .. Presses
  BY <1>2, Before
<1>5. jobs' \in [Jobs -> JobRecords] /\ \A j \in Jobs : JobRight(jobs'[j])
  BY <1>2, IdleFacts
<1>6. crashed' = FALSE
  BY <1>2 DEF IInv, TypeInv, TypeOK
<1> QED BY <1>2, <1>3, <1>4, <1>5, <1>6, JobsKeep

LEMMA RetryKeeps == IInv /\ Retry => IInv'
<1> SUFFICES ASSUME IInv, Retry PROVE IInv'
  OBVIOUS
<1>1. wanted' = TRUE /\ UNCHANGED <<server, changed, paging, screen>>
  BY DEF Retry
<1>2. TypeOK'
  BY <1>1 DEF IInv, TypeInv, TypeOK, paging, screen
<1>3. (jobs \in [Jobs -> JobRecords])'
  BY <1>1 DEF IInv, TypeInv, screen
<1>4. JobInv'
  BY <1>1, JobsStay DEF IInv, paging, screen
<1>5. PagesInv'
  BY <1>1, PagesStay DEF IInv, paging
<1> QED BY <1>2, <1>3, <1>4, <1>5 DEF IInv, TypeInv

LEMMA PullKeeps ==
  ASSUME IInv, ~crashed, NEW j \in Jobs, Pull(j)
  PROVE  IInv'
<1> DEFINE r == [jobs[j] EXCEPT !.stage = "delay"]
<1>1. /\ presses < Presses /\ presses' = presses + 1 /\ spinning' = TRUE
      /\ UNCHANGED <<server, changed, paging, wanted, crashed, visits>>
  BY DEF Pull
<1>2. jobs' = [jobs EXCEPT ![j] = r]
  BY DEF Pull
<1>3. r \in JobRecords /\ JobRight(r)
  BY StageFacts DEF IInv
<1> HIDE DEF r
<1>4. presses' \in 0 .. Presses
  BY <1>1, Before
<1> QED BY <1>1, <1>2, <1>3, <1>4, Before, JobKeeps

LEMMA PressDeleteKeeps ==
  ASSUME IInv, ~crashed, NEW j \in Jobs, PressDelete(j)
  PROVE  IInv'
<1>1. /\ presses < Presses /\ presses' = presses + 1
      /\ UNCHANGED <<server, changed, paging, wanted, spinning, crashed, visits>>
  BY DEF PressDelete
<1>2. PICK i \in DOMAIN Rows : jobs' = [jobs EXCEPT ![j] = Job("pressed", i, 0, Rows[i])]
  BY DEF PressDelete
<1> DEFINE r == Job("pressed", i, 0, Rows[i])
<1>3. i \in Nat /\ Rows[i] \in Ids
  BY Before, RowsAre
<1>4. /\ r \in JobRecords
      /\ r.stage = "pressed" /\ r.index = i /\ r.seen = Rows[i]
  BY <1>3 DEF Job, JobRecords
<1>5. JobRight(r)
  BY <1>4 DEF JobRight
<1> HIDE DEF r
<1>6. presses' \in 0 .. Presses
  BY <1>1, Before
<1>7. jobs' = [jobs EXCEPT ![j] = r]
  BY <1>2 DEF r
<1> QED BY <1>1, <1>4, <1>5, <1>6, <1>7, Before, JobKeeps

\* The row is looked up, or it is gone, which only rows that moved can explain.
LEMMA DeleteCallsKeeps ==
  ASSUME IInv, ~crashed, NEW j \in Jobs, DeleteCalls(j)
  PROVE  IInv'
<1>1. /\ jobs[j].stage = "pressed"
      /\ UNCHANGED <<server, changed, paging, wanted, spinning, visits, presses>>
  BY DEF DeleteCalls
<1>2. CASE jobs[j].index \in DOMAIN Rows
  <2> DEFINE r == [jobs[j] EXCEPT !.stage = "deleting", !.photo = Rows[jobs[j].index]]
  <2>1. jobs' = [jobs EXCEPT ![j] = r] /\ UNCHANGED crashed
    BY <1>2 DEF DeleteCalls
  <2>2. Rows[jobs[j].index] \in Ids
    BY <1>2, Before, RowsAre
  <2>3. jobs[j] \in JobRecords
    BY Before
  <2>4. /\ r \in JobRecords
        /\ r.stage = "deleting" /\ r.photo = Rows[jobs[j].index]
        /\ r.moved = jobs[j].moved /\ r.seen = jobs[j].seen
    BY <2>2, <2>3 DEF JobRecords
  <2>5. ~jobs[j].moved => Rows[jobs[j].index] = jobs[j].seen
    BY <1>1 DEF IInv, JobInv
  <2> HIDE DEF r
  <2>6. JobRight(r)
    BY <2>2, <2>4, <2>5 DEF JobRight
  <2> QED BY <1>1, <2>1, <2>4, <2>6, Before, JobKeeps
<1>3. CASE jobs[j].index \notin DOMAIN Rows
  <2>1. crashed' = TRUE /\ UNCHANGED jobs
    BY <1>3 DEF DeleteCalls
  <2>2. jobs[j].moved
    BY <1>1, <1>3 DEF IInv, JobInv
  <2>3. TypeOK'
    BY <1>1, <2>1 DEF IInv, TypeInv, TypeOK, paging
  <2>4. JobInv'
    BY <1>1, <2>1, <2>2 DEF IInv, JobInv, Rows, paging
  <2>5. PagesInv'
    BY <1>1, PagesStay DEF IInv, paging
  <2>6. jobs' \in [Jobs -> JobRecords]
    BY <2>1, Before
  <2> QED BY <2>3, <2>4, <2>5, <2>6 DEF IInv, TypeInv
<1> QED BY <1>2, <1>3

LEMMA DeleteEndsKeeps ==
  ASSUME IInv, ~crashed, NEW j \in Jobs, DeleteSucceeds(j) \/ DeleteFails(j)
  PROVE  IInv'
<1>1. /\ server' \in Seq(Ids) /\ changed' \in BOOLEAN
      /\ changed' \/ UNCHANGED <<server, changed>>
  <2>1. TakeAway({jobs[j].photo}) \/ UNCHANGED <<server, changed>>
    BY DEF DeleteSucceeds, DeleteFails
  <2> QED BY <2>1, Before, TakeAwayFacts
<1>2. UNCHANGED <<paging, wanted, crashed, visits, presses>> /\ spinning' \in BOOLEAN
  BY Before DEF DeleteSucceeds, DeleteFails
<1>3. CASE DeleteSucceeds(j)
  <2> DEFINE r == Job("delay", 0, 0, 0)
  <2>1. jobs' = [jobs EXCEPT ![j] = r]
    BY <1>3 DEF DeleteSucceeds
  <2>2. r \in JobRecords /\ JobRight(r)
    BY DEF Job, JobRecords, JobRight
  <2> HIDE DEF r
  <2> QED BY <1>1, <1>2, <2>1, <2>2, Before, JobKeeps
<1>4. CASE DeleteFails(j)
  <2>1. jobs' = [jobs EXCEPT ![j] = Idle]
    BY <1>4 DEF DeleteFails
  <2> QED BY <1>1, <1>2, <2>1, IdleFacts, Before, JobKeeps
<1> QED BY <1>3, <1>4

LEMMA DelayEndsKeeps ==
  ASSUME IInv, ~crashed, NEW j \in Jobs, DelayEnds(j)
  PROVE  IInv'
<1> DEFINE r == [jobs[j] EXCEPT !.stage = "waiting"]
<1>1. wanted' = TRUE /\ UNCHANGED <<server, changed, paging, spinning, crashed, visits, presses>>
  BY DEF DelayEnds
<1>2. jobs' = [jobs EXCEPT ![j] = r]
  BY DEF DelayEnds
<1>3. r \in JobRecords /\ JobRight(r)
  BY StageFacts DEF IInv
<1> HIDE DEF r
<1> QED BY <1>1, <1>2, <1>3, Before, JobKeeps

LEMMA WaitEndsKeeps ==
  ASSUME IInv, ~crashed, NEW j \in Jobs, WaitEnds(j)
  PROVE  IInv'
<1>1. /\ jobs' = [jobs EXCEPT ![j] = Idle] /\ spinning' = FALSE
      /\ UNCHANGED <<server, changed, paging, wanted, crashed, visits, presses>>
  BY DEF WaitEnds
<1> QED BY <1>1, IdleFacts, Before, JobKeeps

-----------------------------------------------------------------------------

\* Types; a row pressed is the row seen unless rows moved; the pages are the server's.
THEOREM Invariant == Spec => []IInv
<1>1. IInv /\ [Next]_vars => IInv'
  <2> SUFFICES ASSUME IInv, [Next]_vars PROVE IInv'
    OBVIOUS
  <2>1. CASE UNCHANGED vars
    <3>1. TypeOK' /\ jobs' \in [Jobs -> JobRecords]
      BY <2>1 DEF IInv, TypeInv, TypeOK, vars, paging, screen
    <3>2. JobInv'
      BY <2>1, JobsStay DEF IInv, vars, paging, screen
    <3>3. PagesInv'
      BY <2>1, PagesStay DEF IInv, vars, paging, screen
    <3> QED BY <3>1, <3>2, <3>3 DEF IInv, TypeInv
  <2>2. CASE Next
    <3>1. ~crashed
      BY <2>2 DEF Next
    <3>2. CASE RefreshBegins \/ RefreshArrives \/ LoadFails
      BY <3>1, <3>2, RefreshBeginsKeeps, RefreshArrivesKeeps, LoadFailsKeeps
    <3>3. CASE AppendPage \/ PrependPage
      BY <3>1, <3>3, AppendPageKeeps, PrependPageKeeps
    <3>4. CASE Return \/ Retry
      BY <3>1, <3>4, ReturnKeeps, RetryKeeps
    <3>5. ASSUME NEW j \in Jobs, Coroutine(j) PROVE IInv'
      BY <3>1, <3>5, PullKeeps, PressDeleteKeeps, DeleteCallsKeeps, DeleteEndsKeeps,
         DelayEndsKeeps, WaitEndsKeeps DEF Coroutine
    <3> QED BY <2>2, <3>2, <3>3, <3>4, <3>5 DEF Next
  <2> QED BY <2>1, <2>2
<1> QED BY <1>1, InvInit, PTL DEF Spec

\* However deletes, pulls, refreshes and loaded pages come between the press and the
\* lookup: the photo deleted is the one in the row pressed unless a refresh or a page in
\* front moved the rows, and only then can the row be gone (GreetingScreen).
THEOREM PressedIsDeleted == Spec => []DeletesThePressed
<1>1. IInv => DeletesThePressed
  BY InvSaysDeletes DEF IInv
<1> QED BY <1>1, Invariant, PTL

\* For any page size and list: a list that is loaded to both ends shows every photo, but
\* for those of the page it was refreshed from in the small size, or all from there on if
\* that page in the large size is past the end (PhotoSource, PhotoRepository).
THEOREM LossIsExplained == Spec => []LossExplained
<1>1. IInv => LossExplained
  BY InvSaysLoss DEF IInv
<1> QED BY <1>1, Invariant, PTL
=============================================================================
