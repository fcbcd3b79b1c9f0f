--------------------------- MODULE AsioPoolProofs ---------------------------
(***************************************************************************)
(* Theorems about hello1 and hello2 on the scheduler of Asio, for any      *)
(* finite set of threads and any number of coroutines: outstanding work is *)
(* counted, no wake-up is lost, nothing stops early, and each future is    *)
(* set once.  A coroutine is a token that is in one place at a time; the   *)
(* reactor is another; and the mutex, the event and the count of work say  *)
(* where the threads can be.                                               *)
(***************************************************************************)
EXTENDS AsioPool, Integers, SequenceTheorems, FiniteSetTheorems, WellFoundedInduction, TLAPS

-----------------------------------------------------------------------------
(* The inductive invariant.                                                *)

Ops == {TaskOp} \union {Start(c) : c \in Coroutines} \union {Resume(c) : c \in Coroutines}
Resumes == {Resume(c) : c \in Coroutines}

\* Where a thread runs an operation of the coroutine op[t].of ...
Fresh == {"service", "construct", "register", "expires"}
Tokens == Fresh \union {"arm", "deliver", "release"}
\* ... and where the work of the operation is not released yet.
RunStates == Tokens \union {"stopThenFinish", "finish"}
PCs == RunStates \union {"none", "entry", "stopOut", "lock", "loop", "waiting", "epoll", "timers",
                         "cleanup", "stopThenLock", "exited"}
Guarded == {"threads", "post", "spawn", "get", "reset", "stop", "joinWork", "joinForever"}
Released == {"begin", "stopThenJoin", "join", "done"}

TypeInv ==
  /\ TypeOK
  /\ pc \in [Threads -> PCs] /\ op \in [Threads -> Ops] /\ blocks \in [Threads -> BOOLEAN]
  /\ private \in [Threads -> Seq(Resumes)]
  /\ main \in Guarded \union Released \union {"threw", "terminated"}
  /\ program \in {"hello1", "hello2"}
  /\ cores \in 0 .. Cardinality(Threads)

\* The caller holds its guard from the first step to the release, and has spawned what it
\* says; threads exist once it has created them, and are gone when it is over.
CallerInv ==
  /\ main \in Guarded => guard
  /\ main \in Released => ~guard
  /\ main \in {"begin", "threads"} => spawned = 0
  /\ main = "post" => spawned > 0
  /\ main = "spawn" => spawned < NumCoroutines
  /\ main = "begin" => created = 0 /\ ~stopped
  /\ created = 0 => \A t \in Threads : pc[t] = "none"
  /\ created > 0 => \E t \in Threads : pc[t] # "none"
  /\ oneThread => cores = 1 /\ \A t, u \in Threads : pc[t] # "none" /\ pc[u] # "none" => t = u
  /\ main \in {"done", "threw"} => \A t \in Threads : pc[t] \in {"none", "exited"}

\* The mutex is held by the thread in the loop, and who sleeps on the event waits.
MutexInv ==
  /\ \A t \in Threads : (pc[t] = "loop" <=> mutex = t) /\ (pc[t] = "waiting" <=> t \in waiters \union woken)

\* The event is set while something is queued, but for the thread that holds the mutex.
EventInv ==
  /\ stopped => signalled
  /\ queue # << >> /\ ~signalled =>
       IF oneThread THEN \E t \in Threads : pc[t] \notin {"none", "waiting", "exited"}
       ELSE mutex # Free

\* The reactor's operation is in the queue or with a thread, which finds the timers, and
\* which an interruption reaches in epoll_wait.
In(q, o) == \E i \in DOMAIN q : q[i] = o
Once(q, o) == \A i, j \in DOMAIN q : q[i] = o /\ q[j] = o => i = j
Reacts(t) == pc[t] \in {"epoll", "timers", "cleanup"}
ReactorInv ==
  /\ Once(queue, TaskOp)
  /\ \A t \in Threads : Reacts(t) => task /\ ~In(queue, TaskOp)
  /\ \A t, u \in Threads : Reacts(t) /\ Reacts(u) => t = u
  /\ In(queue, TaskOp) => task
  /\ task /\ ~Over => In(queue, TaskOp) \/ \E t \in Threads : Reacts(t)
  /\ \A t \in Threads : private[t] # << >> => pc[t] = "cleanup"
  /\ \A t \in Threads : pc[t] = "epoll" /\ taskInterrupted => ~blocks[t] \/ interrupter
  /\ service \/ armed # {} => task
  /\ \A t \in Threads : pc[t] \in {"register", "expires", "arm"} => task

\* The places of a coroutine.
Has(q, c) == In(q, Start(c)) \/ In(q, Resume(c))
Runs(t, c) == pc[t] \in Tokens /\ op[t].of = c
Distinct(q) ==
  \A c \in Coroutines :
    Once(q, Start(c)) /\ Once(q, Resume(c)) /\ ~(In(q, Start(c)) /\ In(q, Resume(c)))

\* A coroutine is in one place at a time, and until its frame is released.
InOnePlace(c) ==
  /\ Has(queue, c) => c \in held /\ c \notin armed
  /\ c \in armed => c \in held
  /\ \A t \in Threads :
       /\ Has(private[t], c) => c \in held /\ c \notin armed /\ ~Has(queue, c)
       /\ Runs(t, c) => c \in held /\ c \notin armed /\ ~Has(queue, c)
       /\ \A u \in Threads : Runs(t, c) => ~Has(private[u], c) /\ (Runs(u, c) => t = u)
  /\ main = "post" /\ c = spawned =>
       /\ c \in held /\ c \notin armed /\ ~Has(queue, c)
       /\ \A t \in Threads : ~Has(private[t], c) /\ ~Runs(t, c)
TokenInv ==
  /\ Distinct(queue) /\ \A t \in Threads : Distinct(private[t])
  /\ \A t \in Threads : pc[t] \in Tokens => op[t] # TaskOp
  /\ held \subseteq 1 .. spawned
  /\ \A c \in Coroutines : InOnePlace(c)

\* What has happened to a coroutine in each place.
New(c) == deadline[c] = 0 /\ result[c] = "none"
Expired(c) == deadline[c] \in 1 .. now /\ result[c] = "none"
ProgressInv ==
  /\ \A c \in Coroutines :
       /\ c > spawned \/ (c = spawned /\ main = "post") \/ In(queue, Start(c)) => New(c)
       /\ In(queue, Resume(c)) => Expired(c)
       /\ c \in armed => deadline[c] > 0 /\ result[c] = "none"
  /\ \A t \in Threads :
       /\ \A i \in DOMAIN private[t] : Expired(private[t][i].of)
       /\ pc[t] \in Fresh => New(op[t].of)
       /\ pc[t] = "arm" => deadline[op[t].of] > 0 /\ result[op[t].of] = "none"
       /\ pc[t] = "deliver" => Expired(op[t].of)

\* Deadlines are given out one after the other, and the alarm is not after the first.
TimerInv ==
  /\ \A c \in Coroutines : deadline[c] <= Latest
  /\ \A c, d \in Coroutines : deadline[c] = deadline[d] /\ deadline[c] # 0 => c = d
  /\ \A c \in armed : alarm # 0 /\ alarm <= deadline[c]

\* Who is about to stop the scheduler found or released the last work.
StopInv ==
  /\ \A t \in Threads :
       /\ pc[t] \in {"stopOut", "stopThenLock"} => work = 0
       /\ pc[t] # "stopThenFinish"
       /\ pc[t] = "exited" => stopped
  /\ main = "stopThenJoin" => work = 0
  /\ main = "stop" => program = "hello2"
  /\ main \in {"reset"} => program = "hello1"
  /\ stopped /\ ~Over =>
       IF program = "hello1" THEN work = 0 ELSE main \in {"joinWork", "stopThenJoin", "join"}

\* A thread is on its way to what is queued.
WakeInv == ~Over /\ created > 0 /\ ~stopped /\ queue # << >> => OnTheWay

IInv ==
  /\ TypeInv /\ CallerInv /\ MutexInv /\ EventInv /\ ReactorInv
  /\ TokenInv /\ ProgressInv /\ TimerInv /\ WorkCounted /\ StopInv /\ WakeInv

-----------------------------------------------------------------------------
(* Sequences of operations, and what is counted of them.                   *)

LEMMA OpFacts ==
  /\ \A c \in Coroutines : Start(c) \in Ops /\ Resume(c) \in Ops /\ Resume(c) \in Resumes
  /\ TaskOp \in Ops
  /\ \A c, d : Start(c) # TaskOp /\ Resume(c) # TaskOp /\ Start(c) # Resume(d)
  /\ \A c, d : (Start(c) = Start(d) => c = d) /\ (Resume(c) = Resume(d) => c = d)
  /\ \A c : Start(c).of = c /\ Resume(c).of = c
  /\ \A c : Start(c).kind = "start" /\ Resume(c).kind = "resume" /\ TaskOp.kind = "task"
  /\ \A o \in Ops : o # TaskOp => o.of \in Coroutines /\ (o = Start(o.of) \/ o = Resume(o.of))
  /\ \A o \in Resumes : o \in Ops /\ o # TaskOp /\ o.of \in Coroutines /\ o = Resume(o.of)
<1>1. /\ \A c, d : Start(c) # TaskOp /\ Resume(c) # TaskOp /\ Start(c) # Resume(d)
      /\ \A c : Start(c).kind = "start" /\ Resume(c).kind = "resume" /\ TaskOp.kind = "task"
  <2>1. \A c : Start(c).kind = "start" /\ Resume(c).kind = "resume" /\ TaskOp.kind = "task"
    BY DEF TaskOp, Start, Resume
  <2>2. "start" # "task" /\ "resume" # "task" /\ "start" # "resume"
    OBVIOUS
  <2> QED BY <2>1, <2>2
<1>2. \A c : Start(c).of = c /\ Resume(c).of = c
  BY DEF Start, Resume
<1>3. \A c, d : (Start(c) = Start(d) => c = d) /\ (Resume(c) = Resume(d) => c = d)
  BY <1>2
<1>4. /\ \A c \in Coroutines : Start(c) \in Ops /\ Resume(c) \in Ops /\ Resume(c) \in Resumes
      /\ TaskOp \in Ops
  BY DEF Ops, Resumes
<1>5. \A o \in Ops : o # TaskOp => o.of \in Coroutines /\ (o = Start(o.of) \/ o = Resume(o.of))
  BY <1>2 DEF Ops
<1>6. \A o \in Resumes : o \in Ops /\ o # TaskOp /\ o.of \in Coroutines /\ o = Resume(o.of)
  BY <1>1, <1>2, <1>4 DEF Resumes
<1> QED BY <1>1, <1>2, <1>3, <1>4, <1>5, <1>6

LEMMA SeqFacts ==
  ASSUME NEW S, NEW q \in Seq(S)
  PROVE  /\ Len(q) \in Nat /\ DOMAIN q = 1 .. Len(q)
         /\ \A i \in 1 .. Len(q) : q[i] \in S
         /\ q = << >> <=> Len(q) = 0
BY LenProperties, EmptySeq

LEMMA AppendFacts ==
  ASSUME NEW S, NEW q \in Seq(S), NEW e \in S
  PROVE  /\ Append(q, e) \in Seq(S)
         /\ Len(Append(q, e)) = Len(q) + 1 /\ DOMAIN Append(q, e) = 1 .. Len(q) + 1
         /\ \A i \in 1 .. Len(q) : Append(q, e)[i] = q[i]
         /\ Append(q, e)[Len(q) + 1] = e
         /\ Append(q, e) # << >>
BY AppendProperties, LenProperties, EmptySeq

LEMMA TailFacts ==
  ASSUME NEW S, NEW q \in Seq(S), q # << >>
  PROVE  /\ Head(q) = q[1] /\ Head(q) \in S
         /\ Tail(q) \in Seq(S) /\ Len(Tail(q)) = Len(q) - 1 /\ Len(q) > 0
         /\ DOMAIN Tail(q) = 1 .. Len(q) - 1
         /\ \A i \in 1 .. Len(q) - 1 : Tail(q)[i] = q[i + 1]
<1>1. Len(q) \in Nat \ {0}
  BY EmptySeq
<1>2. Tail(q) = SubSeq(q, 2, Len(q)) /\ Tail(q) \in Seq(S) /\ Len(Tail(q)) = Len(q) - 1
  BY TailIsSubSeq, HeadTailProperties
<1>3. DOMAIN Tail(q) = 1 .. Len(q) - 1
  BY <1>2, LenProperties
<1>4. ASSUME NEW i \in 1 .. Len(q) - 1 PROVE Tail(q)[i] = q[i + 1]
  BY <1>1
<1> QED BY <1>1, <1>2, <1>3, <1>4, HeadTailProperties

LEMMA ConcatFacts ==
  ASSUME NEW S, NEW q \in Seq(S), NEW r \in Seq(S)
  PROVE  /\ q \o r \in Seq(S)
         /\ Len(q \o r) = Len(q) + Len(r) /\ DOMAIN (q \o r) = 1 .. Len(q) + Len(r)
         /\ \A i \in 1 .. Len(q) : (q \o r)[i] = q[i]
         /\ \A i \in 1 .. Len(r) : (q \o r)[Len(q) + i] = r[i]
<1>1. Len(q) \in Nat /\ Len(r) \in Nat
  BY LenProperties
<1>2. DOMAIN (q \o r) = 1 .. Len(q) + Len(r)
  BY <1>1, ConcatProperties, LenProperties
<1>3. ASSUME NEW i \in 1 .. Len(r) PROVE (q \o r)[Len(q) + i] = r[i]
  <2>1. Len(q) + i \in 1 .. Len(q) + Len(r) /\ ~(Len(q) + i <= Len(q)) /\ (Len(q) + i) - Len(q) = i
    BY <1>1
  <2> QED BY <2>1, ConcatProperties
<1>4. ASSUME NEW i \in 1 .. Len(q) PROVE (q \o r)[i] = q[i]
  <2>1. i \in 1 .. Len(q) + Len(r) /\ i <= Len(q)
    BY <1>1
  <2> QED BY <2>1, ConcatProperties
<1> QED BY <1>2, <1>3, <1>4, ConcatProperties

\* The positions of the operations that count as work.
Positions(q) == {i \in DOMAIN q : q[i] # TaskOp}

LEMMA QueuedType ==
  ASSUME NEW q \in Seq(Ops)
  PROVE  /\ IsFiniteSet(Positions(q)) /\ Queued(q) = Cardinality(Positions(q)) /\ Queued(q) \in Nat
         /\ Queued(q) = 0 => \A i \in DOMAIN q : q[i] = TaskOp
<1>1. DOMAIN q = 1 .. Len(q) /\ Len(q) \in Nat
  BY SeqFacts
<1>2. IsFiniteSet(1 .. Len(q))
  BY <1>1, FS_Interval
<1>3. IsFiniteSet(Positions(q))
  BY <1>1, <1>2, FS_Subset DEF Positions
<1>4. Queued(q) = Cardinality(Positions(q))
  BY DEF Queued, Positions
<1>5. Cardinality(Positions(q)) \in Nat
  BY <1>3, FS_CardinalityType
<1>6. Cardinality(Positions(q)) = 0 => Positions(q) = {}
  BY <1>3, FS_EmptySet
<1> QED BY <1>3, <1>4, <1>5, <1>6 DEF Positions

LEMMA QueuedAppend ==
  ASSUME NEW q \in Seq(Ops), NEW o \in Ops
  PROVE  Queued(Append(q, o)) = IF o = TaskOp THEN Queued(q) ELSE Queued(q) + 1
<1> DEFINE n == Len(q) + 1
<1>1. /\ DOMAIN q = 1 .. Len(q) /\ Len(q) \in Nat
      /\ DOMAIN Append(q, o) = 1 .. n /\ Append(q, o)[n] = o
      /\ \A i \in 1 .. Len(q) : Append(q, o)[i] = q[i]
      /\ Append(q, o) \in Seq(Ops)
  BY SeqFacts, AppendFacts
<1>2. \A i \in 1 .. n : i \in 1 .. Len(q) \/ i = n
  BY <1>1
<1>3. 1 .. Len(q) \subseteq 1 .. n /\ n \in 1 .. n /\ n \notin 1 .. Len(q)
  BY <1>1
<1>4. Positions(Append(q, o)) = IF o = TaskOp THEN Positions(q) ELSE Positions(q) \union {n}
  BY <1>1, <1>2, <1>3 DEF Positions
<1>5. n \notin Positions(q)
  BY <1>1, <1>3 DEF Positions
<1>6. IsFiniteSet(Positions(q)) /\ Cardinality(Positions(q)) = Queued(q)
  BY QueuedType
<1>7. Cardinality(Positions(q) \union {n}) = Queued(q) + 1
  BY <1>5, <1>6, FS_AddElement
<1>8. Queued(Append(q, o)) = Cardinality(Positions(Append(q, o)))
  BY <1>1, QueuedType
<1> QED BY <1>4, <1>6, <1>7, <1>8

LEMMA QueuedTail ==
  ASSUME NEW q \in Seq(Ops), q # << >>
  PROVE  Queued(q) = IF Head(q) = TaskOp THEN Queued(Tail(q)) ELSE Queued(Tail(q)) + 1
<1> DEFINE f == [i \in Positions(Tail(q)) |-> i + 1]
           T == Positions(q) \ {1}
<1>1. /\ DOMAIN q = 1 .. Len(q) /\ Len(q) \in Nat /\ Len(q) > 0
      /\ Tail(q) \in Seq(Ops) /\ DOMAIN Tail(q) = 1 .. Len(q) - 1
      /\ \A i \in 1 .. Len(q) - 1 : Tail(q)[i] = q[i + 1]
      /\ Head(q) = q[1]
  BY SeqFacts, TailFacts
<1>2. ASSUME NEW i \in Positions(Tail(q)) PROVE i \in Nat /\ f[i] \in T
  BY <1>1 DEF Positions
<1>3. ASSUME NEW j \in T PROVE \E i \in Positions(Tail(q)) : f[i] = j
  <2>1. j - 1 \in 1 .. Len(q) - 1 /\ (j - 1) + 1 = j
    BY <1>1 DEF Positions
  <2>2. j - 1 \in Positions(Tail(q))
    BY <1>1, <2>1 DEF Positions
  <2> QED BY <2>1, <2>2
<1>4. \A i, j \in Positions(Tail(q)) : f[i] = f[j] => i = j
  BY <1>2
<1>5. f \in Bijection(Positions(Tail(q)), T)
  <2>1. f \in [Positions(Tail(q)) -> T]
    BY <1>2
  <2>2. f \in Injection(Positions(Tail(q)), T)
    BY <1>4, <2>1 DEF Injection, IsInjective
  <2>3. f \in Surjection(Positions(Tail(q)), T)
    BY <1>3, <2>1 DEF Surjection
  <2> QED BY <2>2, <2>3 DEF Bijection
<1>6. Cardinality(T) = Queued(Tail(q))
  <2>1. IsFiniteSet(Positions(Tail(q))) /\ Queued(Tail(q)) = Cardinality(Positions(Tail(q)))
    BY <1>1, QueuedType
  <2>2. ExistsBijection(Positions(Tail(q)), T)
    BY <1>5 DEF ExistsBijection
  <2> QED BY <2>1, <2>2, FS_Bijection
<1>7. 1 \in Positions(q) <=> Head(q) # TaskOp
  BY <1>1 DEF Positions
<1>8. Cardinality(T) = IF 1 \in Positions(q) THEN Queued(q) - 1 ELSE Queued(q)
  BY QueuedType, FS_RemoveElement
<1> QED BY <1>1, <1>6, <1>7, <1>8, QueuedType

LEMMA QueuedConcat ==
  ASSUME NEW q \in Seq(Ops), NEW r \in Seq(Resumes)
  PROVE  q \o r \in Seq(Ops) /\ Queued(q \o r) = Queued(q) + Len(r)
<1> DEFINE S == Len(q) + 1 .. Len(q) + Len(r)
<1>1. r \in Seq(Ops) /\ \A i \in 1 .. Len(r) : r[i] # TaskOp
  BY OpFacts, SeqMonotonic, SeqFacts
<1>2. /\ DOMAIN q = 1 .. Len(q) /\ Len(q) \in Nat /\ Len(r) \in Nat
      /\ q \o r \in Seq(Ops) /\ DOMAIN (q \o r) = 1 .. Len(q) + Len(r)
      /\ \A i \in 1 .. Len(q) : (q \o r)[i] = q[i]
      /\ \A i \in 1 .. Len(r) : (q \o r)[Len(q) + i] = r[i]
  BY <1>1, SeqFacts, ConcatFacts
<1>3. ASSUME NEW j \in S PROVE j \in 1 .. Len(q) + Len(r) /\ (q \o r)[j] # TaskOp /\ j \notin 1 .. Len(q)
  <2>1. j - Len(q) \in 1 .. Len(r) /\ Len(q) + (j - Len(q)) = j
    BY <1>2
  <2>2. (q \o r)[j] = r[j - Len(q)]
    BY <1>2, <2>1
  <2> QED BY <1>1, <1>2, <2>1, <2>2
<1>4. \A i \in 1 .. Len(q) + Len(r) : i \in 1 .. Len(q) \/ i \in S
  BY <1>2
<1>5. 1 .. Len(q) \subseteq 1 .. Len(q) + Len(r)
  BY <1>2
<1>6. Positions(q \o r) = Positions(q) \union S /\ Positions(q) \cap S = {}
  <2>1. \A i \in 1 .. Len(q) : (q \o r)[i] # TaskOp <=> q[i] # TaskOp
    BY <1>2
  <2>2. Positions(q) \cap S = {}
    BY <1>2, <1>3 DEF Positions
  <2>3. \A j \in 1 .. Len(q) + Len(r) : j \in Positions(q \o r) <=> j \in Positions(q) \union S
    BY <1>2, <1>3, <1>4, <2>1 DEF Positions
  <2>4. Positions(q) \union S \subseteq 1 .. Len(q) + Len(r)
    BY <1>2, <1>3, <1>5 DEF Positions
  <2>5. Positions(q \o r) \subseteq 1 .. Len(q) + Len(r)
    BY <1>2 DEF Positions
  <2> QED BY <2>2, <2>3, <2>4, <2>5
<1>7. IsFiniteSet(S) /\ Cardinality(S) = Len(r)
  <2>1. Len(q) + 1 \in Int /\ Len(q) + Len(r) \in Int
    BY <1>2
  <2>2. IsFiniteSet(S) /\ Cardinality(S) = IF Len(q) + 1 > Len(q) + Len(r) THEN 0
                                           ELSE (Len(q) + Len(r)) - (Len(q) + 1) + 1
    BY <2>1, FS_Interval
  <2> QED BY <1>2, <2>2
<1>8. Cardinality(Positions(q) \union S) = Queued(q) + Len(r)
  <2>1. IsFiniteSet(Positions(q)) /\ Cardinality(Positions(q)) = Queued(q) /\ Queued(q) \in Nat
    BY QueuedType
  <2>2. Cardinality(Positions(q) \union S)
          = Cardinality(Positions(q)) + Cardinality(S) - Cardinality(Positions(q) \cap S)
    BY <1>7, <2>1, FS_Union
  <2>3. Cardinality(Positions(q) \cap S) = 0
    BY <1>6, FS_EmptySet
  <2> HIDE DEF S
  <2> QED BY <1>2, <1>7, <2>1, <2>2, <2>3
<1> QED BY <1>2, <1>6, <1>8, QueuedType

\* What is in a sequence of operations, once, and for which coroutines.
LEMMA InEmpty == \A o : ~In(<< >>, o) /\ ~Has(<< >>, o)
<1>1. DOMAIN << >> = {}
  OBVIOUS
<1> QED BY <1>1 DEF In, Has

LEMMA InAppend ==
  ASSUME NEW q \in Seq(Ops), NEW e \in Ops
  PROVE  /\ \A o : In(Append(q, e), o) <=> In(q, o) \/ o = e
         /\ \A o : Once(q, o) /\ (o # e \/ ~In(q, o)) => Once(Append(q, e), o)
<1>1. /\ DOMAIN Append(q, e) = 1 .. Len(q) + 1 /\ DOMAIN q = 1 .. Len(q) /\ Len(q) \in Nat
      /\ \A i \in 1 .. Len(q) : Append(q, e)[i] = q[i]
      /\ Append(q, e)[Len(q) + 1] = e
  BY AppendFacts, SeqFacts
<1>2. /\ \A i \in 1 .. Len(q) + 1 : i \in 1 .. Len(q) \/ i = Len(q) + 1
      /\ \A i \in 1 .. Len(q) : i \in 1 .. Len(q) + 1
      /\ Len(q) + 1 \in 1 .. Len(q) + 1
  BY <1>1
<1>3. ASSUME NEW o PROVE In(Append(q, e), o) <=> In(q, o) \/ o = e
  BY <1>1, <1>2 DEF In
<1>4. ASSUME NEW o, Once(q, o), o # e \/ ~In(q, o) PROVE Once(Append(q, e), o)
  BY <1>1, <1>2, <1>4 DEF In, Once
<1> QED BY <1>3, <1>4

LEMMA InTail ==
  ASSUME NEW q \in Seq(Ops), q # << >>
  PROVE  /\ \A o : In(q, o) <=> In(Tail(q), o) \/ o = Head(q)
         /\ \A o : Once(q, o) => Once(Tail(q), o) /\ ~(o = Head(q) /\ In(Tail(q), o))
<1>1. /\ DOMAIN Tail(q) = 1 .. Len(q) - 1 /\ DOMAIN q = 1 .. Len(q) /\ Len(q) \in Nat \ {0}
      /\ \A i \in 1 .. Len(q) - 1 : Tail(q)[i] = q[i + 1]
      /\ Head(q) = q[1]
  BY TailFacts, SeqFacts
<1>2. /\ \A i \in 1 .. Len(q) : i = 1 \/ (i - 1 \in 1 .. Len(q) - 1 /\ (i - 1) + 1 = i)
      /\ \A i \in 1 .. Len(q) - 1 : i + 1 \in 1 .. Len(q) /\ i + 1 # 1
      /\ \A i, j \in 1 .. Len(q) - 1 : i + 1 = j + 1 => i = j
      /\ 1 \in 1 .. Len(q)
  BY <1>1
<1>3. ASSUME NEW o PROVE In(q, o) <=> In(Tail(q), o) \/ o = Head(q)
  <2>1. ASSUME NEW i \in 1 .. Len(q), q[i] = o, i # 1 PROVE In(Tail(q), o)
    <3>1. i - 1 \in 1 .. Len(q) - 1 /\ Tail(q)[i - 1] = q[i]
      BY <1>1, <1>2, <2>1
    <3> QED BY <1>1, <2>1, <3>1 DEF In
  <2>2. ASSUME NEW i \in 1 .. Len(q) - 1, Tail(q)[i] = o PROVE In(q, o)
    <3>1. i + 1 \in 1 .. Len(q) /\ q[i + 1] = o
      BY <1>1, <1>2, <2>2
    <3> QED BY <1>1, <3>1 DEF In
  <2> QED BY <1>1, <1>2, <2>1, <2>2 DEF In
<1>4. ASSUME NEW o, Once(q, o) PROVE Once(Tail(q), o) /\ ~(o = Head(q) /\ In(Tail(q), o))
  <2>1. ASSUME NEW i \in 1 .. Len(q) - 1, NEW j \in 1 .. Len(q) - 1, Tail(q)[i] = o, Tail(q)[j] = o
        PROVE  i = j
    <3>1. q[i + 1] = o /\ q[j + 1] = o
      BY <1>1, <2>1
    <3>2. i + 1 = j + 1
      BY <1>1, <1>2, <1>4, <3>1 DEF Once
    <3> QED BY <1>2, <3>2
  <2>2. ASSUME NEW i \in 1 .. Len(q) - 1, Tail(q)[i] = o, o = Head(q) PROVE FALSE
    <3>1. q[i + 1] = o /\ q[1] = o /\ i + 1 \in DOMAIN q /\ 1 \in DOMAIN q
      BY <1>1, <1>2, <2>2
    <3>2. i + 1 = 1
      BY <1>4, <3>1 DEF Once
    <3> QED BY <1>2, <3>2
  <2> QED BY <1>1, <2>1, <2>2 DEF In, Once
<1> QED BY <1>3, <1>4

LEMMA InConcat ==
  ASSUME NEW q \in Seq(Ops), NEW r \in Seq(Resumes)
  PROVE  /\ \A o : In(q \o r, o) <=> In(q, o) \/ In(r, o)
         /\ \A o : Once(q, o) /\ ~In(r, o) => Once(q \o r, o)
         /\ \A o : Once(r, o) /\ ~In(q, o) => Once(q \o r, o)
<1> DEFINE n == Len(q)
<1>0. r \in Seq(Ops)
  BY OpFacts, SeqMonotonic
<1>1. /\ DOMAIN (q \o r) = 1 .. n + Len(r) /\ DOMAIN q = 1 .. n /\ DOMAIN r = 1 .. Len(r)
      /\ n \in Nat /\ Len(r) \in Nat
      /\ \A i \in 1 .. n : (q \o r)[i] = q[i]
      /\ \A i \in 1 .. Len(r) : (q \o r)[n + i] = r[i]
  BY <1>0, ConcatFacts, SeqFacts
<1> HIDE DEF n
<1>2. /\ \A i \in 1 .. n + Len(r) : i \in 1 .. n \/ (i - n \in 1 .. Len(r) /\ n + (i - n) = i)
      /\ \A i \in 1 .. n : i \in 1 .. n + Len(r)
      /\ \A i \in 1 .. Len(r) : n + i \in 1 .. n + Len(r)
  BY <1>1
<1>3. ASSUME NEW i \in 1 .. n + Len(r), i \notin 1 .. n
      PROVE  i - n \in 1 .. Len(r) /\ (q \o r)[i] = r[i - n]
  <2>1. i - n \in 1 .. Len(r) /\ n + (i - n) = i
    BY <1>2, <1>3
  <2>2. (q \o r)[n + (i - n)] = r[i - n]
    BY <1>1, <2>1
  <2> QED BY <2>1, <2>2
<1>4. ASSUME NEW o PROVE In(q \o r, o) <=> In(q, o) \/ In(r, o)
  <2>1. In(q, o) => In(q \o r, o)
    BY <1>1, <1>2 DEF In
  <2>2. In(r, o) => In(q \o r, o)
    BY <1>1, <1>2 DEF In
  <2>3. In(q \o r, o) => In(q, o) \/ In(r, o)
    BY <1>1, <1>3 DEF In
  <2> QED BY <2>1, <2>2, <2>3
<1>5. ASSUME NEW o, Once(q, o), ~In(r, o) PROVE Once(q \o r, o)
  <2>1. ASSUME NEW i \in 1 .. n + Len(r), (q \o r)[i] = o PROVE i \in 1 .. n /\ q[i] = o
    BY <1>1, <1>3, <1>5, <2>1 DEF In
  <2> QED BY <1>1, <1>5, <2>1 DEF Once
<1>6. ASSUME NEW o, Once(r, o), ~In(q, o) PROVE Once(q \o r, o)
  <2>1. ASSUME NEW i \in 1 .. n + Len(r), (q \o r)[i] = o
        PROVE  i - n \in 1 .. Len(r) /\ r[i - n] = o
    BY <1>1, <1>3, <1>6, <2>1 DEF In
  <2>2. ASSUME NEW i \in 1 .. n + Len(r), NEW j \in 1 .. n + Len(r), (q \o r)[i] = o, (q \o r)[j] = o
        PROVE  i = j
    <3>1. i - n = j - n
      BY <1>1, <1>6, <2>1, <2>2 DEF Once
    <3> QED BY <1>1, <3>1
  <2> QED BY <1>1, <2>2 DEF Once
<1> QED BY <1>4, <1>5, <1>6

\* What the reactor has found is with one thread.
FoundIn(P) == {p \in Threads \X (1 .. NumCoroutines) : p[2] <= Len(P[p[1]])}

LEMMA FoundNone ==
  ASSUME NEW P \in [Threads -> Seq(Resumes)], \A t \in Threads : P[t] = << >>
  PROVE  FoundIn(P) = {}
<1>1. Len(<< >>) = 0
  OBVIOUS
<1>2. \A p \in Threads \X (1 .. NumCoroutines) : ~(p[2] <= Len(P[p[1]]))
  BY <1>1, CoroutinesAssumption
<1> QED BY <1>2 DEF FoundIn

LEMMA FoundBy ==
  ASSUME NEW P \in [Threads -> Seq(Resumes)], NEW t \in Threads,
         \A u \in Threads \ {t} : P[u] = << >>, Len(P[t]) <= NumCoroutines
  PROVE  IsFiniteSet(FoundIn(P)) /\ Cardinality(FoundIn(P)) = Len(P[t])
<1> DEFINE n == Len(P[t])
<1>1. n \in Nat /\ Len(<< >>) = 0 /\ NumCoroutines \in Nat
  BY SeqFacts, CoroutinesAssumption
<1>2. ASSUME NEW p \in Threads \X (1 .. NumCoroutines)
      PROVE  p[2] <= Len(P[p[1]]) <=> p \in {t} \X (1 .. n)
  <2>1. p[1] \in Threads /\ p[2] \in 1 .. NumCoroutines
    OBVIOUS
  <2>2. CASE p[1] = t
    BY <1>1, <2>1, <2>2
  <2>3. CASE p[1] # t
    <3>1. Len(P[p[1]]) = 0
      BY <1>1, <2>1, <2>3
    <3> QED BY <1>1, <2>1, <2>3, <3>1
  <2> QED BY <2>2, <2>3
<1>3. {t} \X (1 .. n) \subseteq Threads \X (1 .. NumCoroutines)
  BY <1>1
<1>4. FoundIn(P) = {t} \X (1 .. n)
  BY <1>2, <1>3 DEF FoundIn
<1>5. IsFiniteSet({t}) /\ Cardinality({t}) = 1
  BY FS_Singleton
<1>6. IsFiniteSet(1 .. n) /\ Cardinality(1 .. n) = n
  <2>1. 1 \in Int /\ n \in Int
    BY <1>1
  <2>2. IsFiniteSet(1 .. n) /\ Cardinality(1 .. n) = IF 1 > n THEN 0 ELSE n - 1 + 1
    BY <2>1, FS_Interval
  <2> QED BY <1>1, <2>2
<1>7. IsFiniteSet({t} \X (1 .. n)) /\ Cardinality({t} \X (1 .. n)) = 1 * n
  BY <1>5, <1>6, FS_Product
<1> QED BY <1>1, <1>4, <1>7

\* How the number of running operations follows a thread.
LEMMA RunningStep ==
  ASSUME pc \in [Threads -> PCs], NEW t \in Threads, NEW to, pc' = [pc EXCEPT ![t] = to]
  PROVE  /\ IsFiniteSet(Running) /\ Cardinality(Running) \in Nat /\ Cardinality(Running') \in Nat
         /\ Cardinality(Running') = IF to \in RunStates
              THEN IF pc[t] \in RunStates THEN Cardinality(Running) ELSE Cardinality(Running) + 1
              ELSE IF pc[t] \in RunStates THEN Cardinality(Running) - 1 ELSE Cardinality(Running)
<1>1. \A u \in Threads : u \in Running <=> pc[u] \in RunStates
  BY DEF Running, RunStates, Tokens, Fresh
<1>2. \A u \in Threads : u \in Running' <=> pc'[u] \in RunStates
  BY DEF Running, RunStates, Tokens, Fresh
<1>3. Running \subseteq Threads /\ Running' \subseteq Threads
  BY DEF Running
<1>4. IsFiniteSet(Running) /\ Cardinality(Running) \in Nat /\ Cardinality(Running') \in Nat
  BY <1>3, ActorsAssumption, FS_Subset, FS_CardinalityType
<1>5. Running' = IF to \in RunStates THEN Running \union {t} ELSE Running \ {t}
  BY <1>1, <1>2, <1>3
<1>6. /\ Cardinality(Running \union {t})
           = IF t \in Running THEN Cardinality(Running) ELSE Cardinality(Running) + 1
      /\ Cardinality(Running \ {t})
           = IF t \in Running THEN Cardinality(Running) - 1 ELSE Cardinality(Running)
  BY <1>4, FS_AddElement, FS_RemoveElement
<1> QED BY <1>1, <1>4, <1>5, <1>6

\* A set of coroutines is finite.
LEMMA CoroutineSets ==
  ASSUME NEW S \in SUBSET Coroutines
  PROVE  /\ IsFiniteSet(S) /\ Cardinality(S) \in 0 .. NumCoroutines
         /\ \A c : Cardinality(S \union {c}) = IF c \in S THEN Cardinality(S) ELSE Cardinality(S) + 1
         /\ \A c : Cardinality(S \ {c}) = IF c \in S THEN Cardinality(S) - 1 ELSE Cardinality(S)
         /\ S # Coroutines => Cardinality(S) < NumCoroutines
         /\ S # {} => Cardinality(S) > 0
<1>1. IsFiniteSet(Coroutines) /\ Cardinality(Coroutines) = NumCoroutines /\ NumCoroutines \in Nat
  <2>1. 1 \in Int /\ NumCoroutines \in Int
    BY CoroutinesAssumption
  <2>2. IsFiniteSet(1 .. NumCoroutines)
        /\ Cardinality(1 .. NumCoroutines) = IF 1 > NumCoroutines THEN 0 ELSE NumCoroutines - 1 + 1
    BY <2>1, FS_Interval
  <2> QED BY <2>2, CoroutinesAssumption
<1>2. /\ IsFiniteSet(S) /\ Cardinality(S) <= NumCoroutines
      /\ Cardinality(S) = NumCoroutines => S = Coroutines
  BY <1>1, FS_Subset
<1>3. Cardinality(S) \in Nat
  BY <1>2, FS_CardinalityType
<1>4. S # {} => Cardinality(S) # 0
  BY <1>2, FS_EmptySet
<1>5. \A c : /\ Cardinality(S \union {c}) = IF c \in S THEN Cardinality(S) ELSE Cardinality(S) + 1
             /\ Cardinality(S \ {c}) = IF c \in S THEN Cardinality(S) - 1 ELSE Cardinality(S)
  BY <1>2, FS_AddElement, FS_RemoveElement
<1> QED BY <1>1, <1>2, <1>3, <1>4, <1>5

-----------------------------------------------------------------------------
(* Timers.                                                                 *)

\* Every nonempty set of natural numbers has a least element.
LEMMA Least ==
  ASSUME NEW T \in SUBSET Nat, T # {}
  PROVE  \E n \in T : \A m \in T : n <= m
<1> DEFINE R == {p \in Nat \X Nat : p[1] < p[2]}
<1>1. IsWellFoundedOn(R, Nat)
  BY NatLessThanWellFounded DEF OpToRel
<1>2. PICK n \in T : \A m \in T : <<m, n>> \notin R
  BY <1>1, WFMin
<1>3. \A m \in T : ~(m < n)
  BY <1>2
<1> QED BY <1>3

LEMMA EarliestFacts ==
  ASSUME NEW S \in SUBSET Coroutines, deadline \in [Coroutines -> 0 .. NumCoroutines]
  PROVE  /\ Earliest(S) \in 0 .. NumCoroutines
         /\ \A c \in S : Earliest(S) <= deadline[c]
         /\ S # {} => \E c \in S : Earliest(S) = deadline[c]
<1>1. CASE S = {}
  BY <1>1, CoroutinesAssumption DEF Earliest
<1>2. CASE S # {}
  <2> DEFINE T == {deadline[c] : c \in S}
             P(c) == \A d \in S : deadline[c] <= deadline[d]
  <2>1. T \in SUBSET Nat /\ T # {}
    BY <1>2, CoroutinesAssumption
  <2>2. \E n \in T : \A m \in T : n <= m
    BY <2>1, Least
  <2>3. \E c \in S : P(c)
    BY <2>2
  <2>4. (CHOOSE c \in S : P(c)) \in S /\ P(CHOOSE c \in S : P(c))
    BY <2>3
  <2>5. Earliest(S) = deadline[CHOOSE c \in S : P(c)]
    BY <1>2 DEF Earliest
  <2> HIDE DEF P
  <2>6. PICK e \in S : e = (CHOOSE c \in S : P(c)) /\ P(e) /\ Earliest(S) = deadline[e]
    BY <2>4, <2>5
  <2> QED BY <2>6, CoroutinesAssumption DEF P
<1> QED BY <1>1, <1>2

\* The timers of a set, ranked by their deadlines, make a sequence of all of them.
LEMMA InOrderFacts ==
  ASSUME NEW S \in SUBSET Coroutines, deadline \in [Coroutines -> 0 .. NumCoroutines],
         \A c, d \in S : deadline[c] = deadline[d] => c = d
  PROVE  /\ DOMAIN InOrder(S) = 1 .. Cardinality(S)
         /\ \A i \in 1 .. Cardinality(S) : InOrder(S)[i] \in S
         /\ \A i, j \in 1 .. Cardinality(S) : InOrder(S)[i] = InOrder(S)[j] => i = j
<1> DEFINE n == Cardinality(S)
           Before(c) == {d \in S : deadline[d] < deadline[c]}
           f == [c \in S |-> Cardinality(Before(c))]
           T == 0 .. n - 1
<1>1. IsFiniteSet(S) /\ n \in Nat
  BY CoroutineSets, CoroutinesAssumption
<1>2. ASSUME NEW c \in S
      PROVE  IsFiniteSet(Before(c)) /\ Cardinality(Before(c)) \in T
  <2>1. IsFiniteSet(Before(c)) /\ Cardinality(Before(c)) <= n /\ (Cardinality(Before(c)) = n => Before(c) = S)
    BY <1>1, FS_Subset
  <2>2. c \notin Before(c)
    BY CoroutinesAssumption
  <2>3. Cardinality(Before(c)) \in Nat
    BY <2>1, FS_CardinalityType
  <2> QED BY <1>1, <2>1, <2>2, <2>3
<1>3. ASSUME NEW c \in S, NEW d \in S, deadline[c] < deadline[d]
      PROVE  Cardinality(Before(c)) # Cardinality(Before(d))
  <2>1. Before(c) \subseteq Before(d)
    <3> SUFFICES ASSUME NEW e \in S, deadline[e] < deadline[c] PROVE deadline[e] < deadline[d]
      OBVIOUS
    <3>1. deadline[e] \in Int /\ deadline[c] \in Int /\ deadline[d] \in Int
      BY CoroutinesAssumption
    <3> QED BY <1>3, <3>1
  <2>2. c \in Before(d) /\ c \notin Before(c)
    BY <1>3, CoroutinesAssumption
  <2>3. Cardinality(Before(c)) = Cardinality(Before(d)) => Before(c) = Before(d)
    BY <1>2, <2>1, FS_Subset
  <2> QED BY <2>2, <2>3
<1>4. \A c, d \in S : f[c] = f[d] => c = d
  <2> SUFFICES ASSUME NEW c \in S, NEW d \in S, c # d PROVE f[c] # f[d]
    OBVIOUS
  <2>1. deadline[c] < deadline[d] \/ deadline[d] < deadline[c]
    BY CoroutinesAssumption
  <2> QED BY <1>3, <2>1
<1>5. f \in Injection(S, T)
  BY <1>2, <1>4 DEF Injection, IsInjective
<1>6. IsFiniteSet(T) /\ Cardinality(T) = n
  <2>1. 0 \in Int /\ n - 1 \in Int
    BY <1>1
  <2>2. IsFiniteSet(T) /\ Cardinality(T) = IF 0 > n - 1 THEN 0 ELSE (n - 1) - 0 + 1
    BY <2>1, FS_Interval
  <2> QED BY <1>1, <2>2
<1>7. f \in Surjection(S, T)
  BY <1>5, <1>6, FS_Injection
<1>8. ASSUME NEW i \in 1 .. n PROVE \E c \in S : Cardinality(Before(c)) = i - 1
  <2>1. i - 1 \in T
    BY <1>1
  <2> QED BY <1>7, <2>1 DEF Surjection
<1>9. ASSUME NEW i \in 1 .. n
      PROVE  InOrder(S)[i] \in S /\ Cardinality(Before(InOrder(S)[i])) = i - 1
  <2>1. InOrder(S)[i] = CHOOSE c \in S : Cardinality(Before(c)) = i - 1
    BY DEF InOrder
  <2> HIDE DEF Before
  <2> QED BY <1>8, <2>1
<1>10. DOMAIN InOrder(S) = 1 .. n
  BY DEF InOrder
<1>11. ASSUME NEW i \in 1 .. n, NEW j \in 1 .. n, InOrder(S)[i] = InOrder(S)[j] PROVE i = j
  <2>1. i - 1 = j - 1
    BY <1>9, <1>11
  <2> QED BY <2>1
<1> QED BY <1>9, <1>10, <1>11

-----------------------------------------------------------------------------
(* The steps.                                                              *)

ThreadWork(t) ==
  \/ Enter(t) \/ Lock(t) \/ StopBy(t) \/ Return(t) \/ TakeTask(t) \/ TakeHandler(t) \/ Sleep(t)
  \/ Finish(t) \/ EpollWait(t) \/ CheckTimers(t) \/ TaskCleanup(t)
  \/ Awake(t) \/ SpuriousWakeup(t) \/ EpollInterrupted(t)

LEMMA StepCases ==
  ASSUME [Next]_vars
  PROVE  \/ UNCHANGED vars
         \/ Alive /\ (CallerStep \/ ThreadFails)
         \/ Alive /\ \E a \in Threads \union {Main} : Signal(a) /\ UNCHANGED poolVars
         \/ Alive /\ Tick /\ UNCHANGED poolVars
         \/ \E t \in Threads : Alive /\ ThreadWork(t) /\ UNCHANGED poolVars
         \/ \E t \in Threads : Alive /\ (CoroutineStep(t) \/ ReactorFails(t))
<1>1. ASSUME NEW t \in Threads, Worker(t) \/ Awake(t) \/ Spurious(t) PROVE ThreadWork(t)
  BY <1>1 DEF Worker, Spurious, ThreadWork
<1> QED BY <1>1 DEF Next

-----------------------------------------------------------------------------
(* The mutex.                                                              *)

LEMMA MutexStep ==
  ASSUME TypeInv, MutexInv, [Next]_vars
  PROVE  MutexInv'
<1> USE DEF MutexInv
<1>0. /\ pc \in [Threads -> PCs] /\ mutex \in Threads \union {Free} /\ Free \notin Threads
      /\ waiters \subseteq Threads /\ woken \subseteq Threads \ waiters
  BY ActorsAssumption DEF TypeInv, TypeOK
<1>1. ASSUME UNCHANGED <<pc, mutex, waiters, woken>> PROVE MutexInv'
  BY <1>1
<1>2. CASE UNCHANGED vars \/ (Tick /\ UNCHANGED poolVars)
  BY <1>1, <1>2 DEF vars, asioVars, Tick, schedulerVars, eventVars, threadVars
<1>3. CASE CallerStep \/ ThreadFails
  <2>1. CASE CreateThread
    BY <1>0, <2>1 DEF CreateThread, schedulerVars, eventVars
  <2>2. CASE Stop
    BY <1>0, <2>2 DEF Stop, StopAllThreads, threadVars
  <2>3. CASE Post
    BY <1>0, <2>3 DEF Post, WakeOneAndUnlock, SetAndSignal, threadVars
  <2>4. CASE Begin \/ Spawn \/ ReleaseGuard \/ Join
    BY <1>1, <2>4 DEF Begin, Spawn, ReleaseGuard, Join, eventVars, threadVars
  <2>5. CASE GetAll \/ GetThrows \/ ThreadFails
    BY <1>1, <2>5 DEF GetAll, GetThrows, ThreadFails, asioVars, schedulerVars, eventVars, threadVars
  <2> QED BY <1>3, <2>1, <2>2, <2>3, <2>4, <2>5 DEF CallerStep
<1>4. ASSUME NEW a, Signal(a) PROVE MutexInv'
  BY <1>0, <1>4 DEF Signal, schedulerVars, threadVars
<1>5. ASSUME NEW t \in Threads, ThreadWork(t) PROVE MutexInv'
  <2>1. CASE Enter(t) \/ Finish(t) \/ CheckTimers(t)
    BY <1>0, <2>1 DEF Enter, Finish, CheckTimers, WorkFinished, At, schedulerVars, eventVars
  <2>2. CASE EpollWait(t) \/ EpollInterrupted(t)
    BY <1>0, <2>2 DEF EpollWait, EpollInterrupted, EpollReturns, At, schedulerVars, eventVars
  <2>3. CASE Lock(t) \/ TaskCleanup(t)
    BY <1>0, <2>3 DEF Lock, TaskCleanup, At, eventVars
  <2>4. CASE StopBy(t)
    BY <1>0, <2>4 DEF StopBy, StopAllThreads
  <2>5. CASE Return(t) \/ Sleep(t)
    BY <1>0, <2>5 DEF Return, Sleep, Holding, eventVars
  <2>6. CASE TakeTask(t)
    BY <1>0, <2>6 DEF TakeTask, Holding, SetAndSignal, eventVars
  <2>7. CASE TakeHandler(t)
    BY <1>0, <2>7 DEF TakeHandler, WakeOneAndUnlock, Holding, SetAndSignal, eventVars
  <2>8. CASE Awake(t)
    BY <1>0, <2>8 DEF Awake
  <2>9. CASE SpuriousWakeup(t)
    BY <1>0, <2>9 DEF SpuriousWakeup, schedulerVars
  <2> QED BY <1>5, <2>1, <2>2, <2>3, <2>4, <2>5, <2>6, <2>7, <2>8, <2>9 DEF ThreadWork
<1>6. ASSUME NEW t \in Threads, CoroutineStep(t) \/ ReactorFails(t) PROVE MutexInv'
  <2>1. CASE InitTask(t)
    BY <1>0, <2>1 DEF InitTask, Goes, At, WakeOneAndUnlock, SetAndSignal, eventVars
  <2>2. CASE UseService(t) \/ Register(t) \/ ExpiresAfter(t) \/ Deliver(t) \/ ReactorFails(t)
    BY <1>0, <2>2 DEF UseService, Register, ExpiresAfter, Deliver, ReactorFails, Goes, At,
                     schedulerVars, eventVars
  <2>3. CASE AsyncWait(t) \/ ReleaseFrame(t)
    BY <1>0, <2>3 DEF AsyncWait, ReleaseFrame, WorkFinished, Goes, At, eventVars
  <2> QED BY <1>6, <2>1, <2>2, <2>3 DEF CoroutineStep
<1> QED BY <1>2, <1>3, <1>4, <1>5, <1>6, StepCases

-----------------------------------------------------------------------------
(* The caller.                                                             *)

\* A thread that takes a step was created, has not left run(), and stays created.
LEMMA ThreadIsAlive ==
  ASSUME TypeInv, MutexInv, NEW t \in Threads,
         ThreadWork(t) \/ CoroutineStep(t) \/ ReactorFails(t)
  PROVE  /\ pc[t] \notin {"none", "exited"}
         /\ \A u \in Threads : (pc'[u] = "none" <=> pc[u] = "none") /\ (u # t => pc'[u] = pc[u])
<1>0. pc \in [Threads -> PCs] /\ (t \in waiters \union woken => pc[t] = "waiting")
  BY DEF TypeInv, MutexInv
<1>1. CASE Enter(t) \/ Lock(t) \/ StopBy(t) \/ Return(t) \/ Finish(t)
  BY <1>0, <1>1 DEF Enter, Lock, StopBy, Return, Finish, WorkFinished, At, Holding
<1>2. CASE TakeTask(t) \/ TakeHandler(t) \/ Sleep(t)
  BY <1>0, <1>2 DEF TakeTask, TakeHandler, Sleep, Holding
<1>3. CASE EpollWait(t) \/ EpollInterrupted(t) \/ CheckTimers(t) \/ TaskCleanup(t)
  BY <1>0, <1>3 DEF EpollWait, EpollInterrupted, EpollReturns, CheckTimers, TaskCleanup, At
<1>4. CASE Awake(t) \/ SpuriousWakeup(t)
  BY <1>0, <1>4 DEF Awake, SpuriousWakeup
<1>5. CASE UseService(t) \/ InitTask(t) \/ Register(t) \/ ExpiresAfter(t) \/ AsyncWait(t)
  BY <1>0, <1>5 DEF UseService, InitTask, Register, ExpiresAfter, AsyncWait, Goes, At
<1>6. CASE Deliver(t) \/ ReleaseFrame(t) \/ ReactorFails(t)
  BY <1>0, <1>6 DEF Deliver, ReleaseFrame, ReactorFails, WorkFinished, Goes, At
<1> QED BY <1>1, <1>2, <1>3, <1>4, <1>5, <1>6 DEF ThreadWork, CoroutineStep

LEMMA RunsBeforeTheEnd ==
  ASSUME TypeInv, MutexInv, CallerInv, Alive, NEW t \in Threads, pc[t] \notin {"none", "exited"}
  PROVE  ~Over /\ main # "begin" /\ created > 0
BY DEF CallerInv, Over, Alive, TypeInv, TypeOK

LEMMA CallerInvStep ==
  ASSUME TypeInv, MutexInv, CallerInv, [Next]_vars
  PROVE  CallerInv'
<1> USE DEF CallerInv
<1>0. /\ pc \in [Threads -> PCs] /\ created \in 0 .. cores /\ cores \in Nat
      /\ spawned \in 0 .. NumCoroutines /\ NumCoroutines \in Nat \ {0}
      /\ main \in Guarded \union Released \union {"threw", "terminated"}
  <2>1. Cardinality(Threads) \in Nat
    BY ActorsAssumption, FS_CardinalityType
  <2> QED BY <2>1, CoroutinesAssumption DEF TypeInv, TypeOK
<1>1. ASSUME UNCHANGED <<main, guard, spawned, created, stopped, oneThread, cores, pc>>
      PROVE  CallerInv'
  BY <1>1
<1>2. CASE UNCHANGED vars \/ (Tick /\ UNCHANGED poolVars)
  BY <1>1, <1>2 DEF vars, asioVars, Tick, schedulerVars, threadVars, poolVars, mainVars, inputs
<1>3. CASE CallerStep \/ ThreadFails
  <2> USE DEF Guarded, Released
  <2>1. CASE Begin
    BY <1>0, <2>1 DEF Begin, Caller, threadVars, inputs
  <2>2. CASE CreateThread
    <3>1. /\ main = "threads" /\ main' = "threads" /\ created' = created + 1
          /\ UNCHANGED <<guard, spawned, stopped, oneThread, cores>>
      BY <2>2 DEF CreateThread, Caller, schedulerVars, inputs
    <3>2. PICK t \in Threads : pc[t] = "none" /\ pc' = [pc EXCEPT ![t] = "entry"] /\ created < cores
      BY <2>2 DEF CreateThread
    <3>3. oneThread => created = 0
      BY <1>0, <3>2
    <3>4. \A u \in Threads : pc'[u] # "none" => u = t \/ pc[u] # "none"
      BY <1>0, <3>2
    <3>5. oneThread => \A u \in Threads : pc'[u] # "none" => u = t
      BY <3>3, <3>4
    <3> QED BY <1>0, <3>1, <3>2, <3>5
  <2>3. CASE ThreadFails
    BY <1>0, <2>3 DEF ThreadFails, Caller, asioVars, schedulerVars, threadVars, inputs
  <2>4. CASE Spawn
    BY <1>0, <2>4 DEF Spawn, Caller, threadVars, inputs
  <2>5. CASE Post
    BY <1>0, <2>5 DEF Post, Caller, threadVars, inputs
  <2>6. CASE GetAll \/ GetThrows
    BY <1>0, <2>6 DEF GetAll, GetThrows, Caller, asioVars, schedulerVars, threadVars, inputs
  <2>7. CASE ReleaseGuard
    BY <1>0, <2>7 DEF ReleaseGuard, Caller, threadVars, inputs
  <2>8. CASE Stop
    BY <1>0, <2>8 DEF Stop, Caller, threadVars, inputs
  <2>9. CASE Join
    BY <1>0, <2>9 DEF Join, Caller, threadVars, inputs
  <2> QED BY <1>3, <2>1, <2>2, <2>3, <2>4, <2>5, <2>6, <2>7, <2>8, <2>9 DEF CallerStep
<1>4. ASSUME NEW a, Signal(a), UNCHANGED poolVars PROVE CallerInv'
  BY <1>1, <1>4 DEF Signal, schedulerVars, threadVars, poolVars, mainVars, inputs
<1>5. ASSUME NEW t \in Threads, Alive,
             (ThreadWork(t) /\ UNCHANGED poolVars) \/ CoroutineStep(t) \/ ReactorFails(t)
      PROVE  CallerInv'
  <2>1. /\ pc[t] \notin {"none", "exited"}
        /\ \A u \in Threads : (pc'[u] = "none" <=> pc[u] = "none") /\ (u # t => pc'[u] = pc[u])
    BY <1>5, ThreadIsAlive
  <2>2. ~Over /\ main # "begin" /\ created > 0
    BY <1>5, <2>1, RunsBeforeTheEnd
  <2>3. UNCHANGED <<main, guard, spawned, created, oneThread, cores>>
    <3>1. CASE ThreadWork(t) /\ UNCHANGED poolVars
      <4>1. oneThread' = oneThread
        BY <3>1 DEF ThreadWork, Enter, Lock, StopBy, Return, TakeTask, TakeHandler, Sleep, Finish,
             EpollWait, EpollInterrupted, EpollReturns, CheckTimers, TaskCleanup, Awake,
             SpuriousWakeup, schedulerVars
      <4> QED BY <3>1, <4>1 DEF poolVars, mainVars, inputs
    <3>2. CASE CoroutineStep(t) \/ ReactorFails(t)
      BY <3>2 DEF CoroutineStep, UseService, InitTask, Register, ExpiresAfter, AsyncWait, Deliver,
           ReleaseFrame, ReactorFails, schedulerVars, poolVars, mainVars, inputs
    <3> QED BY <1>5, <3>1, <3>2
  <2> QED BY <1>0, <2>1, <2>2, <2>3 DEF Over
<1> QED BY <1>2, <1>3, <1>4, <1>5, StepCases

-----------------------------------------------------------------------------
(* The event.                                                              *)

LEMMA EventStep ==
  ASSUME TypeInv, MutexInv, EventInv, [Next]_vars
  PROVE  EventInv'
<1> USE DEF EventInv
<1>0. /\ pc \in [Threads -> PCs] /\ mutex \in Threads \union {Free} /\ Free \notin Threads
      /\ \A t \in Threads : pc[t] = "loop" <=> mutex = t
      /\ \A t \in Threads : t \in woken => pc[t] = "waiting"
  BY ActorsAssumption DEF TypeInv, TypeOK, MutexInv
<1>1. ASSUME UNCHANGED <<pc, mutex, queue, signalled, stopped, oneThread>> PROVE EventInv'
  BY <1>1
<1>2. CASE UNCHANGED vars \/ (Tick /\ UNCHANGED poolVars)
  BY <1>1, <1>2 DEF vars, asioVars, Tick, schedulerVars, eventVars, threadVars
<1>3. CASE CallerStep \/ ThreadFails
  <2>1. CASE CreateThread
    BY <1>0, <2>1 DEF CreateThread, schedulerVars, eventVars
  <2>2. CASE Post
    BY <1>0, <2>2 DEF Post, WakeOneAndUnlock, SetAndSignal
  <2>3. CASE Stop
    BY <1>0, <2>3 DEF Stop, StopAllThreads
  <2>4. CASE Join
    BY <1>0, <2>4 DEF Join, eventVars
  <2>5. CASE Begin \/ Spawn \/ ReleaseGuard
    BY <1>1, <2>5 DEF Begin, Spawn, ReleaseGuard, eventVars, threadVars
  <2>6. CASE GetAll \/ GetThrows \/ ThreadFails
    BY <1>1, <2>6 DEF GetAll, GetThrows, ThreadFails, asioVars, schedulerVars, eventVars, threadVars
  <2> QED BY <1>3, <2>1, <2>2, <2>3, <2>4, <2>5, <2>6 DEF CallerStep
<1>4. ASSUME NEW a, Signal(a) PROVE EventInv'
  BY <1>1, <1>4 DEF Signal, schedulerVars, threadVars
<1>5. ASSUME NEW t \in Threads, ThreadWork(t) PROVE EventInv'
  <2>1. CASE Enter(t) \/ Finish(t) \/ CheckTimers(t)
    BY <1>0, <2>1 DEF Enter, Finish, CheckTimers, WorkFinished, At, schedulerVars, eventVars
  <2>2. CASE EpollWait(t) \/ EpollInterrupted(t)
    BY <1>0, <2>2 DEF EpollWait, EpollInterrupted, EpollReturns, At, schedulerVars, eventVars
  <2>3. CASE Lock(t) \/ TaskCleanup(t)
    BY <1>0, <2>3 DEF Lock, TaskCleanup, At, eventVars
  <2>4. CASE StopBy(t)
    BY <1>0, <2>4 DEF StopBy, StopAllThreads
  <2>5. CASE Return(t) \/ Sleep(t)
    BY <1>0, <2>5 DEF Return, Sleep, Holding, eventVars
  <2>6. CASE TakeTask(t)
    <3>1. pc'[t] = "epoll" /\ stopped' = stopped /\ ~stopped /\ oneThread' = oneThread
      BY <1>0, <2>6 DEF TakeTask, Holding
    <3>2. ~oneThread /\ queue' # << >> => signalled'
      BY <2>6 DEF TakeTask, More, SetAndSignal
    <3> QED BY <3>1, <3>2
  <2>7. CASE TakeHandler(t)
    <3>1. pc'[t] \in {"service", "deliver"} /\ stopped' = stopped /\ ~stopped /\ oneThread' = oneThread
      BY <1>0, <2>7 DEF TakeHandler, Holding
    <3>2. ~oneThread /\ queue' # << >> => signalled'
      BY <2>7 DEF TakeHandler, More, WakeOneAndUnlock, SetAndSignal
    <3> QED BY <3>1, <3>2
  <2>8. CASE Awake(t)
    BY <1>0, <2>8 DEF Awake
  <2>9. CASE SpuriousWakeup(t)
    BY <1>0, <2>9 DEF SpuriousWakeup, schedulerVars
  <2> QED BY <1>5, <2>1, <2>2, <2>3, <2>4, <2>5, <2>6, <2>7, <2>8, <2>9 DEF ThreadWork
<1>6. ASSUME NEW t \in Threads, CoroutineStep(t) \/ ReactorFails(t) PROVE EventInv'
  <2>1. CASE InitTask(t)
    <3>1. pc'[t] = "register" /\ UNCHANGED <<oneThread, stopped>>
      BY <1>0, <2>1 DEF InitTask, Goes, At
    <3>2. (UNCHANGED <<queue, signalled>> /\ mutex' = mutex) \/ signalled'
      BY <2>1 DEF InitTask, WakeOneAndUnlock, SetAndSignal, eventVars
    <3> QED BY <3>1, <3>2
  <2>2. CASE UseService(t) \/ Register(t) \/ ExpiresAfter(t) \/ Deliver(t) \/ ReactorFails(t)
    BY <1>0, <2>2 DEF UseService, Register, ExpiresAfter, Deliver, ReactorFails, Goes, At,
                     schedulerVars, eventVars
  <2>3. CASE AsyncWait(t) \/ ReleaseFrame(t)
    BY <1>0, <2>3 DEF AsyncWait, ReleaseFrame, WorkFinished, Goes, At, eventVars
  <2> QED BY <1>6, <2>1, <2>2, <2>3 DEF CoroutineStep
<1> QED BY <1>2, <1>3, <1>4, <1>5, <1>6, StepCases

LEMMA DistinctEmpty == Distinct(<< >>)
<1>1. DOMAIN << >> = {}
  OBVIOUS
<1> QED BY <1>1 DEF Distinct, Once, In

LEMMA DistinctAppend ==
  ASSUME NEW q \in Seq(Ops), Distinct(q), NEW e \in Ops, e # TaskOp => ~Has(q, e.of)
  PROVE  Distinct(Append(q, e))
<1> SUFFICES ASSUME NEW c \in Coroutines
             PROVE  /\ Once(Append(q, e), Start(c)) /\ Once(Append(q, e), Resume(c))
                    /\ ~(In(Append(q, e), Start(c)) /\ In(Append(q, e), Resume(c)))
  BY DEF Distinct
<1>1. /\ Start(c) # TaskOp /\ Resume(c) # TaskOp /\ Start(c) # Resume(c)
      /\ Start(c).of = c /\ Resume(c).of = c
  BY OpFacts
<1>2. (e = Start(c) => ~In(q, Start(c)) /\ ~In(q, Resume(c)))
      /\ (e = Resume(c) => ~In(q, Start(c)) /\ ~In(q, Resume(c)))
  BY <1>1 DEF Has
<1> QED BY <1>1, <1>2, InAppend DEF Distinct

LEMMA DistinctTail ==
  ASSUME NEW q \in Seq(Ops), Distinct(q), q # << >>
  PROVE  /\ Distinct(Tail(q))
         /\ \A c \in Coroutines : Has(Tail(q), c) => Has(q, c)
         /\ \A c \in Coroutines : Head(q) \in {Start(c), Resume(c)} => Has(q, c) /\ ~Has(Tail(q), c)
BY InTail DEF Distinct, Has

LEMMA DistinctConcat ==
  ASSUME NEW q \in Seq(Ops), Distinct(q), NEW r \in Seq(Resumes), Distinct(r),
         \A c \in Coroutines : Has(r, c) => ~Has(q, c)
  PROVE  Distinct(q \o r)
<1> SUFFICES ASSUME NEW c \in Coroutines
             PROVE  /\ Once(q \o r, Start(c)) /\ Once(q \o r, Resume(c))
                    /\ ~(In(q \o r, Start(c)) /\ In(q \o r, Resume(c)))
  BY DEF Distinct
<1>1. Once(q, Start(c)) /\ Once(q, Resume(c)) /\ ~(In(q, Start(c)) /\ In(q, Resume(c)))
      /\ Once(r, Start(c)) /\ Once(r, Resume(c)) /\ ~(In(r, Start(c)) /\ In(r, Resume(c)))
  BY DEF Distinct
<1>2. Has(r, c) => ~Has(q, c)
  OBVIOUS
<1> QED BY <1>1, <1>2, InConcat DEF Has

-----------------------------------------------------------------------------
(* The reactor.                                                            *)

LEMMA ReactorStep ==
  ASSUME TypeInv, MutexInv, CallerInv, ReactorInv, [Next]_vars
  PROVE  ReactorInv'
<1> USE DEF ReactorInv, Reacts
<1>0. /\ pc \in [Threads -> PCs] /\ blocks \in [Threads -> BOOLEAN] /\ queue \in Seq(Ops)
      /\ private \in [Threads -> Seq(Resumes)] /\ task \in BOOLEAN
  BY DEF TypeInv, TypeOK, Ops
<1>a. ASSUME main \in {"done", "threw"} PROVE \A t \in Threads : ~Reacts(t)
  BY <1>a DEF CallerInv
<1>1. ASSUME UNCHANGED <<queue, task, pc, private, taskInterrupted, blocks, interrupter, service, armed>>,
             Over' <=> Over
      PROVE  ReactorInv'
  BY <1>1
<1>2. CASE UNCHANGED vars \/ (Tick /\ UNCHANGED poolVars)
  <2>1. UNCHANGED <<queue, task, pc, private, taskInterrupted, blocks, interrupter, service, armed, main>>
    BY <1>2 DEF vars, asioVars, Tick, schedulerVars, eventVars, reactorVars, threadVars,
                poolVars, mainVars, coVars
  <2> QED BY <1>1, <2>1 DEF Over
<1>3. CASE Alive /\ (CallerStep \/ ThreadFails)
  <2>1. CASE CreateThread
    <3>1. UNCHANGED <<queue, task, private, taskInterrupted, blocks, interrupter, service, armed>>
      BY <2>1 DEF CreateThread, schedulerVars, reactorVars, coVars
    <3>2. /\ \A u \in Threads : Reacts(u)' <=> Reacts(u)
          /\ \A u \in Threads : pc[u] = "cleanup" <=> pc'[u] = "cleanup"
          /\ \A u \in Threads : pc[u] = "epoll" <=> pc'[u] = "epoll"
          /\ \A u \in Threads : pc'[u] \in {"register", "expires", "arm"} => pc[u] \in {"register", "expires", "arm"}
      BY <1>0, <2>1 DEF CreateThread
    <3>3. ~Over
      BY <2>1 DEF CreateThread, Caller, Over
    <3> QED BY <3>1, <3>2, <3>3
  <2>2. CASE Post
    <3>1. queue' = Append(queue, Start(spawned)) /\ Start(spawned) \in Ops /\ Start(spawned) # TaskOp
      BY <2>2, OpFacts, CoroutinesAssumption DEF Post, Caller, TypeInv, TypeOK, CallerInv
    <3>2. (In(queue, TaskOp) <=> In(queue', TaskOp)) /\ Once(queue', TaskOp)
      BY <1>0, <3>1, InAppend
    <3>3. UNCHANGED <<task, private, pc, blocks, service, armed>> /\ ~Over
          /\ (taskInterrupted' => taskInterrupted \/ interrupter') /\ (interrupter => interrupter')
      BY <2>2 DEF Post, Caller, WakeOneAndUnlock, InterruptTask, threadVars, coVars, Over
    <3> QED BY <1>0, <3>2, <3>3
  <2>3. CASE Stop
    <3>3. UNCHANGED <<queue, task, private, pc, blocks, service, armed>> /\ ~Over
          /\ (taskInterrupted' => taskInterrupted \/ interrupter') /\ (interrupter => interrupter')
      BY <2>3 DEF Stop, Caller, StopAllThreads, InterruptTask, threadVars, coVars, Over
    <3> QED BY <1>0, <3>3
  <2>4. CASE Join
    <3>1. UNCHANGED <<task, private, pc, blocks, service, taskInterrupted, interrupter>>
          /\ queue' = << >> /\ armed' = {} /\ Over'
      BY <2>4 DEF Join, Caller, threadVars, Over
    <3>2. \A o : ~In(queue', o) /\ Once(queue', o)
      BY <3>1, InEmpty DEF In, Once
    <3>3. \A t \in Threads : ~Reacts(t) /\ pc[t] \in {"none", "exited"}
      BY <2>4 DEF Join
    <3> QED BY <3>1, <3>2, <3>3
  <2>5. CASE Begin \/ Spawn \/ ReleaseGuard \/ GetAll \/ GetThrows \/ ThreadFails
    <3>1. UNCHANGED <<queue, task, pc, private, taskInterrupted, blocks, interrupter, service, armed>>
      BY <2>5 DEF Begin, Spawn, ReleaseGuard, GetAll, GetThrows, ThreadFails, asioVars, schedulerVars,
                  reactorVars, threadVars, coVars
    <3>2. ~Over
      BY <2>5 DEF Begin, Spawn, ReleaseGuard, GetAll, GetThrows, ThreadFails, Caller, Over
    <3> QED BY <3>1, <3>2
  <2> QED BY <1>3, <2>1, <2>2, <2>3, <2>4, <2>5 DEF CallerStep
<1>4. ASSUME NEW a, Signal(a), UNCHANGED poolVars PROVE ReactorInv'
  <2>1. UNCHANGED <<queue, task, pc, private, taskInterrupted, blocks, interrupter, service, armed, main>>
    BY <1>4 DEF Signal, schedulerVars, reactorVars, threadVars, poolVars, mainVars, coVars
  <2> QED BY <1>1, <2>1 DEF Over
<1>5. ASSUME NEW t \in Threads, Alive, ThreadWork(t), UNCHANGED poolVars PROVE ReactorInv'
  <2>0. /\ ~Over /\ ~Over'
        /\ UNCHANGED <<service, main>>
    BY <1>5, ThreadIsAlive, RunsBeforeTheEnd DEF poolVars, coVars, mainVars, Over
  <2>a. ASSUME UNCHANGED <<queue, task, private, taskInterrupted, blocks, interrupter, armed>>,
               NEW to \in {"loop", "exited", "waiting", "stopOut", "lock", "stopThenLock", "finish"},
               pc' = [pc EXCEPT ![t] = to], ~Reacts(t)
        PROVE  ReactorInv'
    BY <1>0, <2>0, <2>a
  <2>1. CASE Enter(t) \/ Finish(t)
    BY <2>1, <2>a DEF Enter, Finish, WorkFinished, At, schedulerVars, reactorVars
  <2>2. CASE Lock(t) \/ Return(t) \/ Sleep(t)
    BY <2>2, <2>a DEF Lock, Return, Sleep, Holding, At, schedulerVars, reactorVars
  <2>3. CASE StopBy(t)
    <3>1. /\ UNCHANGED <<queue, task, private, blocks, armed>>
          /\ (taskInterrupted' => taskInterrupted \/ interrupter') /\ (interrupter => interrupter')
      BY <2>3 DEF StopBy, StopAllThreads, InterruptTask
    <3>2. /\ ~Reacts(t) /\ ~Reacts(t)' /\ pc[t] # "cleanup" /\ pc'[t] \notin {"register", "expires", "arm"}
          /\ \A u \in Threads : u # t => pc'[u] = pc[u]
      BY <1>0, <2>3 DEF StopBy
    <3> QED BY <1>0, <2>0, <3>1, <3>2
  <2>4. CASE TakeTask(t)
    <3>1. /\ Head(queue) = TaskOp /\ queue # << >> /\ queue' = Tail(queue) /\ pc[t] = "loop"
          /\ pc' = [pc EXCEPT ![t] = "epoll"] /\ blocks' = [blocks EXCEPT ![t] = ~More]
          /\ taskInterrupted' = More
          /\ UNCHANGED <<task, private, armed, interrupter>>
      BY <2>4 DEF TakeTask, Holding, reactorVars
    <3>2. In(queue, TaskOp) /\ ~In(queue', TaskOp) /\ Once(queue', TaskOp)
      BY <1>0, <3>1, InTail
    <3>3. \A u \in Threads : ~Reacts(u) /\ pc[u] # "epoll"
      BY <3>2
    <3>4. \A u \in Threads : Reacts(u)' => u = t
      BY <1>0, <3>1, <3>3
    <3>5. blocks'[t] = ~More /\ pc'[t] = "epoll"
      BY <1>0, <3>1
    <3> QED BY <1>0, <2>0, <3>1, <3>2, <3>4, <3>5
  <2>5. CASE TakeHandler(t)
    <3>1. /\ Head(queue) # TaskOp /\ queue # << >> /\ queue' = Tail(queue) /\ pc[t] = "loop"
          /\ UNCHANGED <<task, private, armed, blocks>>
          /\ (taskInterrupted' => taskInterrupted \/ interrupter') /\ (interrupter => interrupter')
      BY <2>5 DEF TakeHandler, Holding, WakeOneAndUnlock, InterruptTask
    <3>2. (In(queue, TaskOp) <=> In(queue', TaskOp)) /\ Once(queue', TaskOp)
      BY <1>0, <3>1, InTail
    <3>3. /\ ~Reacts(t) /\ ~Reacts(t)' /\ pc[t] # "cleanup" /\ pc'[t] \notin {"register", "expires", "arm"}
          /\ \A u \in Threads : u # t => pc'[u] = pc[u]
      BY <1>0, <2>5 DEF TakeHandler, Holding
    <3> QED BY <1>0, <2>0, <3>1, <3>2, <3>3
  <2>6. CASE EpollWait(t) \/ EpollInterrupted(t)
    <3>1. /\ pc[t] = "epoll" /\ UNCHANGED <<queue, task, private, armed, blocks, taskInterrupted>>
          /\ pc'[t] \in {"timers", "cleanup"} /\ \A u \in Threads : u # t => pc'[u] = pc[u]
      BY <1>0, <2>6 DEF EpollWait, EpollInterrupted, EpollReturns, At, schedulerVars
    <3>2. \A u \in Threads : Reacts(u) => u = t
      BY <3>1
    <3> QED BY <1>0, <2>0, <3>1, <3>2
  <2>7. CASE CheckTimers(t)
    <3>1. /\ pc[t] = "timers" /\ UNCHANGED <<queue, task, blocks, taskInterrupted, interrupter>>
          /\ pc'[t] = "cleanup" /\ \A u \in Threads : u # t => pc'[u] = pc[u] /\ private'[u] = private[u]
      BY <1>0, <2>7 DEF CheckTimers, At, schedulerVars
    <3>2. armed' \subseteq armed
      BY <2>7 DEF CheckTimers
    <3> QED BY <1>0, <2>0, <3>1, <3>2
  <2>8. CASE TaskCleanup(t)
    <3>1. /\ pc[t] = "cleanup" /\ UNCHANGED <<task, blocks, armed, interrupter>>
          /\ queue' = Append(queue \o private[t], TaskOp)
          /\ pc'[t] = "loop" /\ private'[t] = << >>
          /\ \A u \in Threads : u # t => pc'[u] = pc[u] /\ private'[u] = private[u]
      BY <1>0, <2>8 DEF TaskCleanup, At, reactorVars
    <3>2. queue \o private[t] \in Seq(Ops) /\ ~In(private[t], TaskOp) /\ TaskOp \in Ops
      BY <1>0, QueuedConcat, OpFacts, SeqFacts DEF In
    <3>3. ~In(queue \o private[t], TaskOp) /\ Once(queue \o private[t], TaskOp)
      BY <1>0, <3>1, <3>2, InConcat
    <3>4. In(queue', TaskOp) /\ Once(queue', TaskOp)
      BY <3>1, <3>2, <3>3, InAppend
    <3>5. \A u \in Threads : ~Reacts(u)'
      BY <1>0, <3>1
    <3> QED BY <1>0, <2>0, <3>1, <3>4, <3>5
  <2>9. CASE Awake(t)
    <3>1. UNCHANGED <<queue, task, private, taskInterrupted, blocks, interrupter, armed>>
      BY <2>9 DEF Awake, reactorVars
    <3>2. pc[t] = "waiting"
      BY <2>9 DEF Awake, MutexInv
    <3>3. pc' = [pc EXCEPT ![t] = "loop"] \/ pc' = pc
      BY <2>9 DEF Awake
    <3> QED BY <1>1, <2>0, <2>a, <3>1, <3>2, <3>3
  <2>10. CASE SpuriousWakeup(t)
    BY <1>1, <2>0, <2>10 DEF SpuriousWakeup, schedulerVars, reactorVars
  <2> QED BY <1>5, <2>1, <2>2, <2>3, <2>4, <2>5, <2>6, <2>7, <2>8, <2>9, <2>10 DEF ThreadWork
<1>6. ASSUME NEW t \in Threads, Alive, CoroutineStep(t) \/ ReactorFails(t) PROVE ReactorInv'
  <2>0. ~Over /\ ~Over' /\ main' = main
    <3>1. main' = main
      BY <1>6 DEF CoroutineStep, UseService, InitTask, Register, ExpiresAfter, AsyncWait, Deliver,
                  ReleaseFrame, ReactorFails, poolVars, mainVars
    <3> QED BY <1>6, <3>1, ThreadIsAlive, RunsBeforeTheEnd DEF Over
  <2>1. CASE InitTask(t)
    <3>0. /\ pc[t] = "construct" /\ pc'[t] = "register" /\ \A u \in Threads : u # t => pc'[u] = pc[u]
          /\ UNCHANGED <<private, armed, blocks, service>>
      BY <1>0, <2>1 DEF InitTask, Goes, At, poolVars, coVars
    <3>1. CASE task
      BY <1>0, <2>0, <2>1, <3>0, <3>1 DEF InitTask
    <3>2. CASE ~task
      <4>1. task' /\ queue' = Append(queue, TaskOp) /\ TaskOp \in Ops
        BY <2>1, <3>2, OpFacts DEF InitTask
      <4>2. In(queue', TaskOp) /\ Once(queue', TaskOp)
        BY <1>0, <3>2, <4>1, InAppend
      <4>3. \A u \in Threads : ~Reacts(u) /\ pc[u] # "epoll" /\ pc[u] # "cleanup"
        BY <3>2
      <4> QED BY <1>0, <2>0, <3>0, <3>2, <4>1, <4>2, <4>3
    <3> QED BY <3>1, <3>2
  <2>2. CASE UseService(t)
    BY <1>0, <2>0, <2>2 DEF UseService, Goes, At, schedulerVars, reactorVars, poolVars, coVars
  <2>3. CASE Register(t) \/ ExpiresAfter(t)
    BY <1>0, <2>0, <2>3 DEF Register, ExpiresAfter, Goes, At, schedulerVars, reactorVars, poolVars, coVars
  <2>4. CASE AsyncWait(t)
    BY <1>0, <2>0, <2>4 DEF AsyncWait, Goes, At, poolVars, coVars
  <2>5. CASE Deliver(t) \/ ReactorFails(t)
    BY <1>0, <2>0, <2>5 DEF Deliver, ReactorFails, Goes, At, schedulerVars, reactorVars
  <2>6. CASE ReleaseFrame(t)
    BY <1>0, <2>0, <2>6 DEF ReleaseFrame, WorkFinished, At, reactorVars
  <2> QED BY <1>6, <2>1, <2>2, <2>3, <2>4, <2>5, <2>6 DEF CoroutineStep
<1> QED BY <1>2, <1>3, <1>4, <1>5, <1>6, StepCases

-----------------------------------------------------------------------------
(* The places of the coroutines.                                           *)

\* What the reactor finds: each timer that is ready, once.
FoundNow == LET sorted == InOrder(ReadyTimers) IN [i \in DOMAIN sorted |-> Resume(sorted[i])]

LEMMA FoundFacts ==
  ASSUME TypeInv, TimerInv, ProgressInv
  PROVE  /\ FoundNow \in Seq(Resumes) /\ Len(FoundNow) = Cardinality(ReadyTimers)
         /\ ReadyTimers \subseteq armed /\ ReadyTimers \subseteq Coroutines
         /\ Distinct(FoundNow)
         /\ \A c \in Coroutines : Has(FoundNow, c) => c \in ReadyTimers
         /\ \A i \in DOMAIN FoundNow : FoundNow[i].of \in ReadyTimers
<1> DEFINE n == Cardinality(ReadyTimers)
           o == InOrder(ReadyTimers)
<1>1. /\ ReadyTimers \subseteq armed /\ ReadyTimers \in SUBSET Coroutines
      /\ deadline \in [Coroutines -> 0 .. NumCoroutines]
  BY DEF TypeInv, TypeOK, ReadyTimers
<1>2. \A c, d \in ReadyTimers : deadline[c] = deadline[d] => c = d
  BY <1>1 DEF TimerInv, ProgressInv
<1>3. /\ DOMAIN o = 1 .. n /\ \A i \in 1 .. n : o[i] \in ReadyTimers
      /\ \A i, j \in 1 .. n : o[i] = o[j] => i = j
  BY <1>1, <1>2, InOrderFacts
<1>4. n \in Nat
  BY <1>1, CoroutineSets
<1> HIDE DEF n, o
<1>5. FoundNow = [i \in 1 .. n |-> Resume(o[i])]
  BY <1>3 DEF FoundNow, o
<1>6. \A i \in 1 .. n : Resume(o[i]) \in Resumes
  BY <1>1, <1>3, OpFacts
<1>7. FoundNow \in Seq(Resumes) /\ Len(FoundNow) = n /\ DOMAIN FoundNow = 1 .. n
  BY <1>4, <1>5, <1>6
<1>8. \A i \in 1 .. n : FoundNow[i] = Resume(o[i]) /\ FoundNow[i].of = o[i]
  BY <1>5, OpFacts
<1>9. ASSUME NEW c \in Coroutines
      PROVE  /\ ~In(FoundNow, Start(c)) /\ Once(FoundNow, Start(c)) /\ Once(FoundNow, Resume(c))
             /\ In(FoundNow, Resume(c)) => c \in ReadyTimers
  <2>1. ~In(FoundNow, Start(c)) /\ Once(FoundNow, Start(c))
    BY <1>7, <1>8, OpFacts DEF In, Once
  <2>2. \A i \in 1 .. n : FoundNow[i] = Resume(c) => o[i] = c
    BY <1>8, OpFacts
  <2>3. Once(FoundNow, Resume(c))
    BY <1>3, <1>7, <2>2 DEF Once
  <2>4. In(FoundNow, Resume(c)) => c \in ReadyTimers
    BY <1>3, <1>7, <2>2 DEF In
  <2> QED BY <2>1, <2>3, <2>4
<1>10. Distinct(FoundNow) /\ \A c \in Coroutines : Has(FoundNow, c) => c \in ReadyTimers
  BY <1>9 DEF Distinct, Has
<1> QED BY <1>1, <1>3, <1>7, <1>8, <1>10 DEF n

LEMMA TokenFrame ==
  ASSUME TokenInv, UNCHANGED <<queue, private, op, armed, held, spawned>>, main' = "post" <=> main = "post",
         \A u \in Threads : pc'[u] \in Tokens <=> pc[u] \in Tokens
  PROVE  TokenInv'
<1>1. \A u \in Threads, c \in Coroutines : Runs(u, c)' <=> Runs(u, c)
  BY DEF Runs
<1>2. \A c \in Coroutines : InOnePlace(c)'
  BY <1>1 DEF TokenInv, InOnePlace
<1> QED BY <1>2 DEF TokenInv

LEMMA TokenStep ==
  ASSUME TypeInv, MutexInv, CallerInv, ReactorInv, ProgressInv, TimerInv, TokenInv, [Next]_vars
  PROVE  TokenInv'
<1>0. /\ pc \in [Threads -> PCs] /\ op \in [Threads -> Ops] /\ queue \in Seq(Ops)
      /\ private \in [Threads -> Seq(Resumes)] /\ armed \subseteq Coroutines /\ held \subseteq Coroutines
      /\ spawned \in 0 .. NumCoroutines /\ Coroutines = 1 .. NumCoroutines /\ NumCoroutines \in Nat
  BY CoroutinesAssumption DEF TypeInv, TypeOK, Ops
<1>i. /\ Distinct(queue) /\ \A t \in Threads : Distinct(private[t])
      /\ \A t \in Threads : pc[t] \in Tokens => op[t] # TaskOp
      /\ held \subseteq 1 .. spawned
      /\ \A c \in Coroutines : InOnePlace(c)
  BY DEF TokenInv
<1>2. CASE UNCHANGED vars \/ (Tick /\ UNCHANGED poolVars)
  BY <1>2, TokenFrame DEF vars, asioVars, Tick, schedulerVars, reactorVars, threadVars,
                          poolVars, mainVars, coVars
<1>3. CASE CallerStep \/ ThreadFails
  <2>1. CASE CreateThread
    <3>1. \A u \in Threads : pc'[u] \in Tokens <=> pc[u] \in Tokens
      BY <1>0, <2>1 DEF CreateThread, Tokens, Fresh
    <3> QED BY <2>1, <3>1, TokenFrame DEF CreateThread, Caller, schedulerVars, reactorVars, coVars
  <2>2. CASE Spawn
    <3>1. /\ spawned' = spawned + 1 /\ held' = held \union {spawned + 1}
          /\ UNCHANGED <<queue, private, pc, op, armed>> /\ main # "post"
      BY <2>2 DEF Spawn, Caller, reactorVars, threadVars
    <3>2. spawned + 1 \notin held
      BY <1>0, <1>i
    <3>3. ASSUME NEW c \in Coroutines PROVE InOnePlace(c)'
      <4>1. InOnePlace(c)
        BY <1>i
      <4>2. \A t \in Threads : Runs(t, c)' <=> Runs(t, c)
        BY <3>1 DEF Runs
      <4> QED BY <3>1, <3>2, <4>1, <4>2 DEF InOnePlace
    <3>4. held' \subseteq 1 .. spawned'
      BY <1>0, <1>i, <3>1
    <3> QED BY <1>i, <3>1, <3>3, <3>4 DEF TokenInv
  <2>3. CASE Post
    <3>1. /\ main = "post" /\ main' # "post" /\ queue' = Append(queue, Start(spawned))
          /\ UNCHANGED <<private, pc, op, armed, held, spawned>>
      BY <2>3 DEF Post, Caller, threadVars, coVars
    <3>2. spawned \in Coroutines /\ Start(spawned) \in Ops /\ Start(spawned).of = spawned
      BY <1>0, <3>1, OpFacts DEF CallerInv
    <3>3. ~Has(queue, spawned)
      BY <1>i, <3>1, <3>2 DEF InOnePlace
    <3>4. Distinct(queue')
      BY <1>0, <1>i, <3>1, <3>2, <3>3, DistinctAppend
    <3>5. \A c : Has(queue', c) => Has(queue, c) \/ c = spawned
      BY <1>0, <3>1, <3>2, InAppend, OpFacts DEF Has
    <3>6. ASSUME NEW c \in Coroutines PROVE InOnePlace(c)'
      <4>1. InOnePlace(c)
        BY <1>i
      <4>2. \A t \in Threads : Runs(t, c)' <=> Runs(t, c)
        BY <3>1 DEF Runs
      <4> QED BY <3>1, <3>5, <4>1, <4>2 DEF InOnePlace
    <3> QED BY <1>i, <3>1, <3>4, <3>6 DEF TokenInv
  <2>4. CASE Join
    <3>1. /\ queue' = << >> /\ armed' = {} /\ held' = {} /\ UNCHANGED <<private, pc, op, spawned>>
          /\ main' # "post"
      BY <2>4 DEF Join, Caller, threadVars
    <3>2. \A t \in Threads : pc[t] \in {"none", "exited"} /\ private[t] = << >>
      BY <2>4 DEF Join, ReactorInv
    <3>3. \A c : ~Has(queue', c) /\ \A t \in Threads : ~Has(private[t], c) /\ ~Runs(t, c)'
      BY <3>1, <3>2, InEmpty DEF Runs, Tokens, Fresh
    <3> QED BY <1>i, <3>1, <3>3, DistinctEmpty DEF TokenInv, InOnePlace
  <2>5. CASE Begin \/ ReleaseGuard \/ GetAll \/ GetThrows \/ ThreadFails \/ Stop
    <3>1. UNCHANGED <<queue, private, op, armed, held, spawned, pc>>
      BY <2>5 DEF Begin, ReleaseGuard, GetAll, GetThrows, ThreadFails, Stop,
                  asioVars, schedulerVars, reactorVars, threadVars, coVars
    <3>2. main' # "post" /\ main # "post"
      BY <2>5 DEF Begin, ReleaseGuard, GetAll, GetThrows, ThreadFails, Stop, Caller
    <3> QED BY <3>1, <3>2, TokenFrame
  <2> QED BY <1>3, <2>1, <2>2, <2>3, <2>4, <2>5 DEF CallerStep
<1>4. ASSUME NEW a, Signal(a), UNCHANGED poolVars PROVE TokenInv'
  BY <1>4, TokenFrame DEF Signal, schedulerVars, reactorVars, threadVars, poolVars, mainVars, coVars
<1>5. ASSUME NEW t \in Threads, ThreadWork(t), UNCHANGED poolVars PROVE TokenInv'
  <2>0. UNCHANGED <<held, spawned, main>>
    BY <1>5 DEF poolVars, coVars, mainVars
  <2>a. ASSUME UNCHANGED <<queue, private, op, armed>>, pc[t] \notin Tokens,
               NEW to \in PCs \ Tokens, pc' = [pc EXCEPT ![t] = to]
        PROVE  TokenInv'
    <3>1. \A u \in Threads : pc'[u] \in Tokens <=> pc[u] \in Tokens
      BY <1>0, <2>a
    <3> QED BY <2>0, <2>a, <3>1, TokenFrame
  <2>1. CASE Enter(t) \/ Finish(t)
    BY <2>1, <2>a DEF Enter, Finish, WorkFinished, At, schedulerVars, reactorVars, PCs, RunStates, Tokens, Fresh
  <2>2. CASE Lock(t) \/ Return(t) \/ Sleep(t)
    BY <2>2, <2>a DEF Lock, Return, Sleep, Holding, At, schedulerVars, reactorVars, PCs, RunStates, Tokens, Fresh
  <2>3. CASE StopBy(t)
    <3>1. /\ UNCHANGED <<queue, private, op, armed>> /\ pc[t] \notin Tokens
          /\ \A u \in Threads : u # t => pc'[u] = pc[u]
          /\ pc'[t] \in {"exited", "finish", "lock"}
      BY <1>0, <2>3 DEF StopBy, Tokens, Fresh
    <3>2. \A u \in Threads : pc'[u] \in Tokens <=> pc[u] \in Tokens
      BY <3>1 DEF Tokens, Fresh
    <3> QED BY <2>0, <3>1, <3>2, TokenFrame
  <2>4. CASE TakeTask(t)
    <3>1. /\ queue # << >> /\ queue' = Tail(queue) /\ UNCHANGED <<private, op, armed>>
          /\ pc[t] = "loop" /\ pc' = [pc EXCEPT ![t] = "epoll"]
      BY <2>4 DEF TakeTask, Holding, reactorVars
    <3>2. Distinct(queue') /\ \A c \in Coroutines : Has(queue', c) => Has(queue, c)
      BY <1>0, <1>i, <3>1, DistinctTail
    <3>3. \A u \in Threads : pc'[u] \in Tokens <=> pc[u] \in Tokens
      BY <1>0, <3>1 DEF Tokens, Fresh
    <3>4. ASSUME NEW c \in Coroutines PROVE InOnePlace(c)'
      <4>1. InOnePlace(c)
        BY <1>i
      <4>2. \A u \in Threads : Runs(u, c)' <=> Runs(u, c)
        BY <3>1, <3>3 DEF Runs
      <4> QED BY <2>0, <3>1, <3>2, <4>1, <4>2 DEF InOnePlace
    <3> QED BY <1>i, <2>0, <3>1, <3>2, <3>3, <3>4 DEF TokenInv
  <2>5. CASE TakeHandler(t)
    <3> DEFINE h == Head(queue)
    <3>1. /\ queue # << >> /\ h # TaskOp /\ queue' = Tail(queue) /\ UNCHANGED <<private, armed>>
          /\ pc[t] = "loop" /\ op' = [op EXCEPT ![t] = h] /\ pc'[t] \in Tokens
          /\ \A u \in Threads : u # t => pc'[u] = pc[u] /\ op'[u] = op[u]
      BY <1>0, <2>5 DEF TakeHandler, Holding, Tokens, Fresh
    <3>2. h \in Ops /\ h.of \in Coroutines /\ h \in {Start(h.of), Resume(h.of)}
      BY <1>0, <3>1, TailFacts, OpFacts
    <3>3. /\ Distinct(queue') /\ \A c \in Coroutines : Has(queue', c) => Has(queue, c)
          /\ Has(queue, h.of) /\ ~Has(queue', h.of)
      BY <1>0, <1>i, <3>1, <3>2, DistinctTail
    <3>4. op'[t] = h
      BY <1>0, <3>1
    <3>5. ASSUME NEW c \in Coroutines PROVE InOnePlace(c)'
      <4>1. InOnePlace(c) /\ InOnePlace(h.of)
        BY <1>i, <3>2
      <4>2. \A u \in Threads : Runs(u, c)' => Runs(u, c) \/ (u = t /\ c = h.of)
        BY <3>1, <3>4 DEF Runs
      <4>3. CASE c = h.of
        BY <2>0, <3>1, <3>3, <4>1, <4>2, <4>3 DEF InOnePlace
      <4>4. CASE c # h.of
        BY <2>0, <3>1, <3>3, <4>1, <4>2, <4>4 DEF InOnePlace
      <4> QED BY <4>3, <4>4
    <3>6. \A u \in Threads : pc'[u] \in Tokens => op'[u] # TaskOp
      BY <1>i, <3>1, <3>4
    <3> QED BY <1>i, <2>0, <3>1, <3>3, <3>5, <3>6 DEF TokenInv
  <2>6. CASE EpollWait(t) \/ EpollInterrupted(t)
    <3>1. /\ UNCHANGED <<queue, private, op, armed>> /\ pc[t] = "epoll"
          /\ pc' = [pc EXCEPT ![t] = IF AlarmDue THEN "timers" ELSE "cleanup"]
      BY <2>6 DEF EpollWait, EpollInterrupted, EpollReturns, At, schedulerVars
    <3> QED BY <2>a, <3>1 DEF PCs, RunStates, Tokens, Fresh
  <2>7. CASE CheckTimers(t)
    <3>1. /\ pc[t] = "timers" /\ pc' = [pc EXCEPT ![t] = "cleanup"]
          /\ private' = [private EXCEPT ![t] = FoundNow] /\ armed' = armed \ ReadyTimers
          /\ UNCHANGED <<queue, op>>
      BY <2>7 DEF CheckTimers, At, schedulerVars, FoundNow
    <3>2. /\ Distinct(FoundNow) /\ \A c \in Coroutines : Has(FoundNow, c) => c \in ReadyTimers
          /\ ReadyTimers \subseteq armed
      BY FoundFacts
    <3>3. private'[t] = FoundNow /\ \A u \in Threads : u # t => private'[u] = private[u]
      BY <1>0, <3>1
    <3>4. \A u \in Threads : pc'[u] \in Tokens <=> pc[u] \in Tokens
      BY <1>0, <3>1 DEF Tokens, Fresh
    <3>5. ASSUME NEW c \in Coroutines PROVE InOnePlace(c)'
      <4>1. InOnePlace(c)
        BY <1>i
      <4>2. \A u \in Threads : Runs(u, c)' <=> Runs(u, c)
        BY <3>1, <3>4 DEF Runs
      <4>3. \A u \in Threads : Has(private'[u], c) => Has(private[u], c) \/ c \in ReadyTimers
        BY <3>2, <3>3
      <4>4. c \in ReadyTimers => c \in armed /\ c \notin armed'
        BY <3>1, <3>2
      <4>5. c \in armed' => c \in armed
        BY <3>1
      <4> QED BY <2>0, <3>1, <4>1, <4>2, <4>3, <4>4, <4>5 DEF InOnePlace
    <3>6. \A u \in Threads : Distinct(private'[u])
      BY <1>i, <3>2, <3>3
    <3> QED BY <1>i, <2>0, <3>1, <3>4, <3>5, <3>6 DEF TokenInv
  <2>8. CASE TaskCleanup(t)
    <3>1. /\ pc[t] = "cleanup" /\ pc' = [pc EXCEPT ![t] = "loop"]
          /\ queue' = Append(queue \o private[t], TaskOp)
          /\ private' = [private EXCEPT ![t] = << >>] /\ UNCHANGED <<armed, op>>
      BY <2>8 DEF TaskCleanup, At, reactorVars
    <3>2. private'[t] = << >> /\ \A u \in Threads : u # t => private'[u] = private[u]
      BY <1>0, <3>1
    <3>3. \A u \in Threads : u # t => private[u] = << >>
      BY <3>1 DEF ReactorInv, Reacts
    <3>4. \A u \in Threads, c \in Coroutines : ~Has(private'[u], c)
      BY <3>2, <3>3, InEmpty
    <3>5. \A c \in Coroutines : Has(private[t], c) => ~Has(queue, c)
      BY <1>i DEF InOnePlace
    <3>6. queue \o private[t] \in Seq(Ops) /\ Distinct(queue \o private[t])
      BY <1>0, <1>i, <3>5, QueuedConcat, DistinctConcat
    <3>7. Distinct(queue') /\ \A c \in Coroutines : Has(queue', c) => Has(queue, c) \/ Has(private[t], c)
      <4>1. TaskOp \in Ops /\ \A c : Start(c) # TaskOp /\ Resume(c) # TaskOp
        BY OpFacts
      <4>2. \A o : In(queue', o) => In(queue, o) \/ In(private[t], o) \/ o = TaskOp
        BY <1>0, <3>1, <3>6, <4>1, InConcat, InAppend
      <4> QED BY <3>1, <3>6, <4>1, <4>2, DistinctAppend DEF Has
    <3>8. \A u \in Threads : pc'[u] \in Tokens <=> pc[u] \in Tokens
      BY <1>0, <3>1 DEF Tokens, Fresh
    <3>9. ASSUME NEW c \in Coroutines PROVE InOnePlace(c)'
      <4>1. InOnePlace(c)
        BY <1>i
      <4>2. \A u \in Threads : Runs(u, c)' <=> Runs(u, c)
        BY <3>1, <3>8 DEF Runs
      <4> QED BY <2>0, <3>1, <3>4, <3>7, <4>1, <4>2 DEF InOnePlace
    <3>10. \A u \in Threads : Distinct(private'[u])
      BY <3>2, <3>3, DistinctEmpty
    <3> QED BY <1>i, <2>0, <3>1, <3>7, <3>8, <3>9, <3>10 DEF TokenInv
  <2>9. CASE Awake(t)
    <3>1. UNCHANGED <<queue, private, op, armed>> /\ pc[t] = "waiting"
      BY <2>9 DEF Awake, reactorVars, MutexInv
    <3>2. pc' = [pc EXCEPT ![t] = "loop"] \/ pc' = pc
      BY <2>9 DEF Awake
    <3> QED BY <2>0, <2>a, <3>1, <3>2, TokenFrame DEF PCs, RunStates, Tokens, Fresh
  <2>10. CASE SpuriousWakeup(t)
    BY <2>0, <2>10, TokenFrame DEF SpuriousWakeup, schedulerVars, reactorVars
  <2> QED BY <1>5, <2>1, <2>2, <2>3, <2>4, <2>5, <2>6, <2>7, <2>8, <2>9, <2>10 DEF ThreadWork
<1>6. ASSUME NEW t \in Threads, CoroutineStep(t) \/ ReactorFails(t) PROVE TokenInv'
  <2>1. CASE InitTask(t)
    <3>1. /\ pc[t] = "construct" /\ pc' = [pc EXCEPT ![t] = "register"]
          /\ UNCHANGED <<private, op, armed, held, spawned, main>>
          /\ queue' = queue \/ queue' = Append(queue, TaskOp)
      BY <2>1 DEF InitTask, Goes, At, poolVars, coVars, mainVars
    <3>2. Distinct(queue') /\ \A c \in Coroutines : Has(queue', c) => Has(queue, c)
      <4>1. TaskOp \in Ops /\ \A c : Start(c) # TaskOp /\ Resume(c) # TaskOp
        BY OpFacts
      <4>2. \A o : In(Append(queue, TaskOp), o) => In(queue, o) \/ o = TaskOp
        BY <1>0, <4>1, InAppend
      <4>3. Distinct(Append(queue, TaskOp))
        BY <1>0, <1>i, <4>1, DistinctAppend
      <4>4. \A c \in Coroutines : Has(Append(queue, TaskOp), c) => Has(queue, c)
        BY <4>1, <4>2 DEF Has
      <4> QED BY <1>i, <3>1, <4>3, <4>4
    <3>3. \A u \in Threads : pc'[u] \in Tokens <=> pc[u] \in Tokens
      BY <1>0, <3>1 DEF Tokens, Fresh
    <3>4. ASSUME NEW c \in Coroutines PROVE InOnePlace(c)'
      <4>1. InOnePlace(c)
        BY <1>i
      <4>2. \A u \in Threads : Runs(u, c)' <=> Runs(u, c)
        BY <3>1, <3>3 DEF Runs
      <4> QED BY <3>1, <3>2, <4>1, <4>2 DEF InOnePlace
    <3> QED BY <1>i, <3>1, <3>2, <3>3, <3>4 DEF TokenInv
  <2>2. CASE UseService(t) \/ Register(t) \/ ExpiresAfter(t) \/ Deliver(t) \/ ReactorFails(t)
    <3>1. UNCHANGED <<queue, private, op, armed, held, spawned, main>>
      BY <2>2 DEF UseService, Register, ExpiresAfter, Deliver, ReactorFails,
                  schedulerVars, reactorVars, poolVars, coVars, mainVars
    <3>2. pc[t] \in Tokens /\ pc'[t] \in Tokens /\ \A u \in Threads : u # t => pc'[u] = pc[u]
      BY <1>0, <2>2 DEF UseService, Register, ExpiresAfter, Deliver, ReactorFails, Goes, At, Tokens, Fresh
    <3>3. \A u \in Threads : pc'[u] \in Tokens <=> pc[u] \in Tokens
      BY <3>2
    <3> QED BY <3>1, <3>3, TokenFrame
  <2>3. CASE AsyncWait(t)
    <3> DEFINE self == op[t].of
    <3>1. /\ pc[t] = "arm" /\ pc' = [pc EXCEPT ![t] = "finish"] /\ armed' = armed \union {self}
          /\ UNCHANGED <<queue, private, op, held, spawned, main>>
      BY <2>3 DEF AsyncWait, ScheduleTimer, Self, Goes, At, poolVars, coVars, mainVars
    <3>2. Runs(t, self)
      BY <3>1 DEF Runs, Tokens
    <3>3. \A u \in Threads : pc'[u] \in Tokens => pc[u] \in Tokens /\ u # t
      BY <1>0, <3>1 DEF Tokens, Fresh
    <3>4. ASSUME NEW c \in Coroutines PROVE InOnePlace(c)'
      <4>1. InOnePlace(c)
        BY <1>i
      <4>2. \A u \in Threads : Runs(u, c)' => Runs(u, c) /\ u # t
        BY <3>1, <3>3 DEF Runs
      <4>3. CASE c = self
        <5>1. /\ c \in held /\ ~Has(queue, c) /\ \A u \in Threads : ~Has(private[u], c) /\ ~Runs(u, c)'
              /\ ~(main = "post" /\ c = spawned)
          BY <3>2, <4>1, <4>2, <4>3 DEF InOnePlace
        <5> QED BY <3>1, <4>3, <5>1 DEF InOnePlace
      <4>4. CASE c # self
        BY <3>1, <4>1, <4>2, <4>4 DEF InOnePlace
      <4> QED BY <4>3, <4>4
    <3>5. \A u \in Threads : pc'[u] \in Tokens => op'[u] # TaskOp
      BY <1>i, <3>1, <3>3
    <3> QED BY <1>i, <3>1, <3>4, <3>5 DEF TokenInv
  <2>4. CASE ReleaseFrame(t)
    <3> DEFINE self == op[t].of
    <3>1. /\ pc[t] = "release" /\ held' = held \ {self}
          /\ UNCHANGED <<queue, private, op, armed, spawned, main>>
      BY <2>4 DEF ReleaseFrame, Self, At, reactorVars, mainVars
    <3>2. Runs(t, self)
      BY <3>1 DEF Runs, Tokens
    <3>3. \A u \in Threads : pc'[u] \in Tokens => pc[u] \in Tokens /\ u # t
      BY <1>0, <2>4 DEF ReleaseFrame, WorkFinished, Tokens, Fresh
    <3>4. ASSUME NEW c \in Coroutines PROVE InOnePlace(c)'
      <4>1. InOnePlace(c)
        BY <1>i
      <4>2. \A u \in Threads : Runs(u, c)' => Runs(u, c) /\ u # t
        BY <3>1, <3>3 DEF Runs
      <4>3. CASE c = self
        <5>1. /\ c \notin armed /\ ~Has(queue, c) /\ \A u \in Threads : ~Has(private[u], c) /\ ~Runs(u, c)'
              /\ ~(main = "post" /\ c = spawned)
          BY <3>2, <4>1, <4>2, <4>3 DEF InOnePlace
        <5> QED BY <3>1, <4>3, <5>1 DEF InOnePlace
      <4>4. CASE c # self
        BY <3>1, <4>1, <4>2, <4>4 DEF InOnePlace
      <4> QED BY <4>3, <4>4
    <3>5. \A u \in Threads : pc'[u] \in Tokens => op'[u] # TaskOp
      BY <1>i, <3>1, <3>3
    <3> QED BY <1>i, <3>1, <3>4, <3>5 DEF TokenInv
  <2> QED BY <1>6, <2>1, <2>2, <2>3, <2>4 DEF CoroutineStep
<1> QED BY <1>2, <1>3, <1>4, <1>5, <1>6, StepCases

-----------------------------------------------------------------------------
(* What has happened to the coroutines, and their timers.                  *)

\* A coroutine that runs is nowhere else.
LEMMA RunsAlone ==
  ASSUME TypeInv, TokenInv, NEW t \in Threads, pc[t] \in Tokens
  PROVE  LET c == op[t].of IN
         /\ c \in Coroutines /\ c \in held /\ c \in 1 .. spawned /\ ~(main = "post" /\ c = spawned)
         /\ ~In(queue, Start(c)) /\ ~In(queue, Resume(c)) /\ c \notin armed
         /\ \A u \in Threads : \A i \in DOMAIN private[u] : private[u][i].of # c
         /\ \A u \in Threads : pc[u] \in Tokens /\ op[u].of = c => u = t
<1> DEFINE c == op[t].of
<1>1. c \in Coroutines
  BY OpFacts DEF TypeInv, TokenInv
<1>2. InOnePlace(c) /\ Runs(t, c)
  BY <1>1 DEF TokenInv, Runs
<1>3. ASSUME NEW u \in Threads, NEW i \in DOMAIN private[u], private[u][i].of = c PROVE FALSE
  <2>1. private[u][i] \in Resumes
    BY SeqFacts DEF TypeInv
  <2>2. private[u][i] = Resume(c)
    BY <1>3, <2>1, OpFacts
  <2>3. Has(private[u], c)
    BY <2>2 DEF Has, In
  <2> QED BY <1>2, <2>3 DEF InOnePlace
<1> HIDE DEF c
<1>4. c \in 1 .. spawned
  BY <1>2 DEF InOnePlace, TokenInv
<1>5. \A u \in Threads : Runs(u, c) => u = t
  BY <1>2 DEF InOnePlace
<1> QED BY <1>1, <1>2, <1>3, <1>4, <1>5 DEF InOnePlace, Has, Runs, c

Waiting == Fresh \union {"arm", "deliver"}

\* Threads that leave a place, and time, leave the rest as it is.
LEMMA ProgressFrame ==
  ASSUME TypeInv, ProgressInv, now' \in Nat, now <= now',
         UNCHANGED <<queue, private, op, armed, spawned, deadline, result>>,
         main' = "post" => main = "post",
         \A u \in Threads : pc'[u] = pc[u] \/ pc'[u] \notin Waiting
  PROVE  ProgressInv'
<1>1. deadline \in [Coroutines -> 0 .. NumCoroutines] /\ now \in Nat /\ NumCoroutines \in Nat
  BY CoroutinesAssumption DEF TypeInv, TypeOK
<1>2. ASSUME NEW c \in Coroutines PROVE (Expired(c) => Expired(c)') /\ (New(c) => New(c)')
  BY <1>1 DEF Expired, New
<1>3. ASSUME NEW t \in Threads
      PROVE  /\ \A i \in DOMAIN private[t] : Expired(private[t][i].of)'
             /\ pc'[t] \in Fresh => New(op[t].of)'
             /\ pc'[t] = "arm" => deadline[op[t].of] > 0 /\ result[op[t].of] = "none"
             /\ pc'[t] = "deliver" => Expired(op[t].of)'
  <2>1. \A i \in DOMAIN private[t] : private[t][i].of \in Coroutines
    BY OpFacts, SeqFacts DEF TypeInv
  <2>2. pc'[t] \in Waiting => pc[t] = pc'[t]
    OBVIOUS
  <2>3. pc'[t] = "deliver" => deadline[op[t].of] \in 1 .. now' /\ result[op[t].of] = "none"
    BY <1>1, <2>2 DEF ProgressInv, Waiting, Expired
  <2> QED BY <1>2, <2>1, <2>2, <2>3 DEF ProgressInv, Waiting, New, Expired
<1> QED BY <1>2, <1>3 DEF ProgressInv

LEMMA ProgressStep ==
  ASSUME TypeInv, MutexInv, CallerInv, ReactorInv, ProgressInv, TimerInv, TokenInv, [Next]_vars
  PROVE  ProgressInv'
<1>0. /\ pc \in [Threads -> PCs] /\ op \in [Threads -> Ops] /\ queue \in Seq(Ops)
      /\ private \in [Threads -> Seq(Resumes)] /\ armed \subseteq Coroutines
      /\ spawned \in 0 .. NumCoroutines /\ Coroutines = 1 .. NumCoroutines /\ NumCoroutines \in Nat
      /\ deadline \in [Coroutines -> 0 .. NumCoroutines] /\ now \in Nat
      /\ result \in [Coroutines -> {"none", "value", "exception"}]
  BY CoroutinesAssumption DEF TypeInv, TypeOK, Ops
<1>n. now \in Nat /\ now <= now
  BY <1>0
<1>i. /\ \A c \in Coroutines :
           /\ c > spawned \/ (c = spawned /\ main = "post") \/ In(queue, Start(c)) => New(c)
           /\ In(queue, Resume(c)) => Expired(c)
           /\ c \in armed => deadline[c] > 0 /\ result[c] = "none"
      /\ \A t \in Threads :
           /\ \A i \in DOMAIN private[t] : Expired(private[t][i].of)
           /\ pc[t] \in Fresh => New(op[t].of)
           /\ pc[t] = "arm" => deadline[op[t].of] > 0 /\ result[op[t].of] = "none"
           /\ pc[t] = "deliver" => Expired(op[t].of)
  BY DEF ProgressInv
<1>2. CASE UNCHANGED vars
  BY <1>n, <1>2, ProgressFrame DEF vars, asioVars, schedulerVars, reactorVars, threadVars,
                                poolVars, mainVars, coVars
<1>t. CASE Tick /\ UNCHANGED poolVars
  BY <1>0, <1>t, ProgressFrame DEF Tick, schedulerVars, threadVars, poolVars, mainVars, coVars
<1>3. CASE CallerStep \/ ThreadFails
  <2>1. CASE CreateThread
    <3>1. \A u \in Threads : pc'[u] = pc[u] \/ pc'[u] \notin Waiting
      BY <1>0, <2>1 DEF CreateThread, Waiting, Fresh
    <3> QED BY <1>n, <2>1, <3>1, ProgressFrame DEF CreateThread, Caller, schedulerVars, reactorVars, coVars
  <2>2. CASE Spawn
    <3>1. /\ spawned' = spawned + 1
          /\ UNCHANGED <<queue, private, pc, op, armed, deadline, now, result>>
      BY <2>2 DEF Spawn, reactorVars, threadVars
    <3>2. \A c \in Coroutines : c > spawned' \/ c = spawned' => c > spawned
      BY <1>0, <3>1
    <3> QED BY <1>i, <3>1, <3>2 DEF ProgressInv, New, Expired
  <2>3. CASE Post
    <3>1. /\ main = "post" /\ main' # "post" /\ queue' = Append(queue, Start(spawned))
          /\ UNCHANGED <<private, pc, op, armed, spawned, deadline, now, result>>
      BY <2>3 DEF Post, Caller, threadVars, coVars
    <3>2. spawned \in Coroutines /\ Start(spawned) \in Ops
      BY <1>0, <3>1, OpFacts DEF CallerInv
    <3>3. \A c \in Coroutines : /\ In(queue', Start(c)) => In(queue, Start(c)) \/ c = spawned
                                /\ In(queue', Resume(c)) => In(queue, Resume(c))
      BY <1>0, <3>1, <3>2, InAppend, OpFacts
    <3> QED BY <1>i, <3>1, <3>3 DEF ProgressInv, New, Expired
  <2>4. CASE Join
    <3>1. /\ queue' = << >> /\ armed' = {} /\ main' # "post"
          /\ UNCHANGED <<private, pc, op, spawned, deadline, now, result>>
      BY <2>4 DEF Join, Caller, threadVars
    <3> QED BY <1>i, <3>1, InEmpty DEF ProgressInv, New, Expired
  <2>5. CASE Begin \/ ReleaseGuard \/ GetAll \/ GetThrows \/ ThreadFails \/ Stop
    <3>1. UNCHANGED <<queue, private, op, armed, spawned, pc, deadline, now, result>>
      BY <2>5 DEF Begin, ReleaseGuard, GetAll, GetThrows, ThreadFails, Stop,
                  asioVars, schedulerVars, reactorVars, threadVars, coVars
    <3>2. main' # "post"
      BY <2>5 DEF Begin, ReleaseGuard, GetAll, GetThrows, ThreadFails, Stop, Caller
    <3> QED BY <1>n, <3>1, <3>2, ProgressFrame
  <2> QED BY <1>3, <2>1, <2>2, <2>3, <2>4, <2>5 DEF CallerStep
<1>4. ASSUME NEW a, Signal(a), UNCHANGED poolVars PROVE ProgressInv'
  BY <1>n, <1>4, ProgressFrame DEF Signal, schedulerVars, reactorVars, threadVars, poolVars, mainVars, coVars
<1>5. ASSUME NEW t \in Threads, ThreadWork(t), UNCHANGED poolVars PROVE ProgressInv'
  <2>0. UNCHANGED <<spawned, main, result>>
    BY <1>5 DEF poolVars, coVars, mainVars
  <2>a. ASSUME UNCHANGED <<queue, private, op, armed, deadline, now>>,
               NEW to, to \notin Waiting, pc' = [pc EXCEPT ![t] = to]
        PROVE  ProgressInv'
    <3>1. \A u \in Threads : pc'[u] = pc[u] \/ pc'[u] \notin Waiting
      BY <1>0, <2>a
    <3> QED BY <1>n, <2>0, <2>a, <3>1, ProgressFrame
  <2>1. CASE Enter(t) \/ Finish(t)
    BY <2>1, <2>a DEF Enter, Finish, WorkFinished, At, schedulerVars, reactorVars, Waiting, Fresh
  <2>2. CASE Lock(t) \/ Return(t) \/ Sleep(t)
    BY <2>2, <2>a DEF Lock, Return, Sleep, Holding, At, schedulerVars, reactorVars, Waiting, Fresh
  <2>3. CASE StopBy(t)
    <3>1. /\ UNCHANGED <<queue, private, op, armed, deadline, now>>
          /\ \A u \in Threads : u # t => pc'[u] = pc[u]
          /\ pc'[t] \in {"exited", "finish", "lock"}
      BY <1>0, <2>3 DEF StopBy
    <3>2. \A u \in Threads : pc'[u] = pc[u] \/ pc'[u] \notin Waiting
      BY <3>1 DEF Waiting, Fresh
    <3> QED BY <1>n, <2>0, <3>1, <3>2, ProgressFrame
  <2>4. CASE TakeTask(t)
    <3>1. /\ queue # << >> /\ queue' = Tail(queue)
          /\ UNCHANGED <<private, op, armed, deadline, now>>
          /\ \A u \in Threads : pc'[u] = pc[u] \/ pc'[u] \notin Waiting
      BY <1>0, <2>4 DEF TakeTask, Holding, reactorVars, Waiting, Fresh
    <3>2. \A o : In(queue', o) => In(queue, o)
      BY <1>0, <3>1, InTail
    <3> QED BY <1>i, <2>0, <3>1, <3>2 DEF ProgressInv, New, Expired, Waiting
  <2>5. CASE TakeHandler(t)
    <3> DEFINE h == Head(queue)
    <3>1. /\ queue # << >> /\ h # TaskOp /\ queue' = Tail(queue)
          /\ UNCHANGED <<private, armed, deadline, now>>
          /\ op' = [op EXCEPT ![t] = h]
          /\ pc' = [pc EXCEPT ![t] = IF h.kind = "start" THEN "service" ELSE "deliver"]
      BY <2>5 DEF TakeHandler, reactorVars
    <3>2. h \in Ops /\ h.of \in Coroutines /\ h \in {Start(h.of), Resume(h.of)} /\ In(queue, h)
      BY <1>0, <3>1, TailFacts, OpFacts, InTail
    <3>3. \A o : In(queue', o) => In(queue, o)
      BY <1>0, <3>1, InTail
    <3>4. op'[t] = h /\ \A u \in Threads : u # t => pc'[u] = pc[u] /\ op'[u] = op[u]
      BY <1>0, <3>1
    <3>5. CASE h = Start(h.of)
      <4>1. pc'[t] = "service" /\ New(h.of)
        BY <1>0, <1>i, <3>1, <3>2, <3>5, OpFacts
      <4> QED BY <1>i, <2>0, <3>1, <3>3, <3>4, <4>1 DEF ProgressInv, New, Expired, Fresh
    <3>6. CASE h = Resume(h.of)
      <4>1. pc'[t] = "deliver" /\ Expired(h.of)
        BY <1>0, <1>i, <3>1, <3>2, <3>6, OpFacts
      <4> QED BY <1>i, <2>0, <3>1, <3>3, <3>4, <4>1 DEF ProgressInv, New, Expired, Fresh
    <3> QED BY <3>2, <3>5, <3>6
  <2>6. CASE EpollWait(t) \/ EpollInterrupted(t)
    <3>1. /\ UNCHANGED <<queue, private, op, armed, deadline, now>>
          /\ pc' = [pc EXCEPT ![t] = IF AlarmDue THEN "timers" ELSE "cleanup"]
      BY <2>6 DEF EpollWait, EpollInterrupted, EpollReturns, At, schedulerVars
    <3>2. "timers" \notin Waiting /\ "cleanup" \notin Waiting
      BY DEF Waiting, Fresh
    <3> QED BY <2>a, <3>1, <3>2
  <2>7. CASE CheckTimers(t)
    <3>1. /\ pc' = [pc EXCEPT ![t] = "cleanup"]
          /\ private' = [private EXCEPT ![t] = FoundNow] /\ armed' = armed \ ReadyTimers
          /\ UNCHANGED <<queue, op, deadline, now>>
      BY <2>7 DEF CheckTimers, At, schedulerVars, FoundNow
    <3>2. private'[t] = FoundNow /\ \A u \in Threads : u # t => private'[u] = private[u]
      BY <1>0, <3>1
    <3>3. \A u \in Threads : pc'[u] = pc[u] \/ pc'[u] \notin Waiting
      BY <1>0, <3>1 DEF Waiting, Fresh
    <3>4. \A c \in ReadyTimers : Expired(c)
      BY <1>0, <1>i DEF ReadyTimers, Expired
    <3>5. \A i \in DOMAIN FoundNow : Expired(FoundNow[i].of)
      BY <3>4, FoundFacts
    <3> HIDE DEF Expired
    <3>6. \A u \in Threads : \A i \in DOMAIN private'[u] : Expired(private'[u][i].of)
      BY <1>i, <3>2, <3>5
    <3>7. \A u \in Threads : \A i \in DOMAIN private'[u] : Expired(private[u][i].of)'
      BY <2>0, <3>1, <3>6 DEF Expired
    <3> QED BY <1>i, <2>0, <3>1, <3>3, <3>7 DEF ProgressInv, New, Expired, Waiting
  <2>8. CASE TaskCleanup(t)
    <3>1. /\ pc' = [pc EXCEPT ![t] = "loop"]
          /\ queue' = Append(queue \o private[t], TaskOp)
          /\ private' = [private EXCEPT ![t] = << >>] /\ UNCHANGED <<armed, op, deadline, now>>
      BY <2>8 DEF TaskCleanup, At, reactorVars
    <3>2. private'[t] = << >> /\ \A u \in Threads : u # t => private'[u] = private[u]
      BY <1>0, <3>1
    <3>3. \A u \in Threads : pc'[u] = pc[u] \/ pc'[u] \notin Waiting
      BY <1>0, <3>1 DEF Waiting, Fresh
    <3>4. \A o : In(queue', o) => In(queue, o) \/ In(private[t], o) \/ o = TaskOp
      <4>1. queue \o private[t] \in Seq(Ops) /\ TaskOp \in Ops
        BY <1>0, QueuedConcat, OpFacts
      <4>2. \A o : In(queue \o private[t], o) => In(queue, o) \/ In(private[t], o)
        BY <1>0, InConcat
      <4>3. \A o : In(Append(queue \o private[t], TaskOp), o) => In(queue \o private[t], o) \/ o = TaskOp
        BY <4>1, InAppend
      <4> QED BY <3>1, <4>2, <4>3
    <3>5. \A c \in Coroutines : ~In(private[t], Start(c)) /\ (In(private[t], Resume(c)) => Expired(c))
      <4>1. \A i \in DOMAIN private[t] : private[t][i] \in Resumes
        BY <1>0, SeqFacts
      <4>2. \A c \in Coroutines : ~In(private[t], Start(c))
        BY <4>1, OpFacts DEF In, Resumes
      <4>3. \A c \in Coroutines : In(private[t], Resume(c)) => Expired(c)
        BY <1>i, OpFacts DEF In
      <4> QED BY <4>2, <4>3
    <3>6. \A c \in Coroutines : /\ In(queue', Start(c)) => In(queue, Start(c))
                                /\ In(queue', Resume(c)) => Expired(c)
      BY <1>i, <3>4, <3>5, OpFacts
    <3>7. \A u \in Threads : \A i \in DOMAIN private'[u] : private'[u][i] = private[u][i] /\ i \in DOMAIN private[u]
      <4>1. DOMAIN << >> = {}
        OBVIOUS
      <4> QED BY <3>2, <4>1
    <3> QED BY <1>i, <2>0, <3>1, <3>3, <3>6, <3>7 DEF ProgressInv, New, Expired, Waiting
  <2>9. CASE Awake(t)
    <3>1. UNCHANGED <<queue, private, op, armed, deadline, now>>
      BY <2>9 DEF Awake, reactorVars
    <3>2. pc' = [pc EXCEPT ![t] = "loop"] \/ pc' = pc
      BY <2>9 DEF Awake
    <3> QED BY <1>n, <2>0, <2>a, <3>1, <3>2, ProgressFrame DEF Waiting, Fresh
  <2>10. CASE SpuriousWakeup(t)
    BY <1>n, <2>0, <2>10, ProgressFrame DEF SpuriousWakeup, schedulerVars, reactorVars
  <2> QED BY <1>5, <2>1, <2>2, <2>3, <2>4, <2>5, <2>6, <2>7, <2>8, <2>9, <2>10 DEF ThreadWork
<1>6. ASSUME NEW t \in Threads, CoroutineStep(t) \/ ReactorFails(t) PROVE ProgressInv'
  <2> DEFINE self == op[t].of
  <2>a. ASSUME pc[t] \in Tokens
        PROVE  /\ self \in Coroutines /\ self \in 1 .. spawned /\ ~(main = "post" /\ self = spawned)
               /\ ~In(queue, Start(self)) /\ ~In(queue, Resume(self)) /\ self \notin armed
               /\ \A u \in Threads : \A i \in DOMAIN private[u] : private[u][i].of # self
               /\ \A u \in Threads : pc[u] \in Tokens /\ op[u].of = self => u = t
    BY <2>a, RunsAlone
  <2>b. \A u \in Threads : pc[u] \in Waiting => pc[u] \in Tokens
    BY DEF Waiting, Tokens
  <2>1. CASE InitTask(t)
    <3>1. /\ pc[t] = "construct" /\ pc' = [pc EXCEPT ![t] = "register"]
          /\ UNCHANGED <<private, op, armed, spawned, main, deadline, now, result>>
          /\ queue' = queue \/ queue' = Append(queue, TaskOp)
      BY <2>1 DEF InitTask, Goes, At, poolVars, coVars, mainVars
    <3>2. \A c \in Coroutines : /\ In(queue', Start(c)) => In(queue, Start(c))
                                /\ In(queue', Resume(c)) => In(queue, Resume(c))
      <4>1. TaskOp \in Ops /\ \A c : Start(c) # TaskOp /\ Resume(c) # TaskOp
        BY OpFacts
      <4>2. \A o : In(Append(queue, TaskOp), o) => In(queue, o) \/ o = TaskOp
        BY <1>0, <4>1, InAppend
      <4> QED BY <3>1, <4>1, <4>2
    <3>3. \A u \in Threads : pc'[u] = pc[u] \/ (u = t /\ pc'[u] \in Fresh /\ pc[u] \in Fresh)
      BY <1>0, <3>1 DEF Fresh
    <3> QED BY <1>i, <3>1, <3>2, <3>3 DEF ProgressInv, New, Expired, Fresh
  <2>2. CASE UseService(t) \/ Register(t)
    <3>1. /\ pc[t] \in Fresh /\ pc'[t] \in Fresh /\ \A u \in Threads : u # t => pc'[u] = pc[u]
          /\ UNCHANGED <<queue, private, op, armed, spawned, main, deadline, now, result>>
      BY <1>0, <2>2 DEF UseService, Register, Goes, At, Fresh, schedulerVars, reactorVars,
                        poolVars, coVars, mainVars
    <3> QED BY <1>i, <3>1 DEF ProgressInv, New, Expired, Fresh
  <2>3. CASE ExpiresAfter(t)
    <3>1. /\ pc[t] = "expires" /\ pc' = [pc EXCEPT ![t] = "arm"]
          /\ deadline' = [deadline EXCEPT ![self] = Latest + 1]
          /\ UNCHANGED <<queue, private, op, armed, spawned, main, now, result>>
      BY <2>3 DEF ExpiresAfter, Goes, At, Self, schedulerVars, poolVars, coVars, mainVars
    <3>2. pc[t] \in Tokens /\ New(self)
      BY <1>i, <3>1 DEF Tokens, Fresh
    <3>3. Latest \in Nat
      BY CoroutineSets, CoroutinesAssumption DEF Latest
    <3>4. deadline'[self] > 0 /\ \A c \in Coroutines : c # self => deadline'[c] = deadline[c]
      BY <1>0, <2>a, <3>1, <3>2, <3>3
    <3>5. \A c \in Coroutines : c # self => (New(c) => New(c)') /\ (Expired(c) => Expired(c)')
      BY <3>1, <3>4 DEF New, Expired
    <3>6. \A c \in Coroutines :
            /\ c > spawned \/ (c = spawned /\ main = "post") \/ In(queue, Start(c)) => New(c)'
            /\ In(queue, Resume(c)) => Expired(c)'
            /\ c \in armed => deadline'[c] > 0 /\ result[c] = "none"
      BY <1>0, <1>i, <2>a, <3>2, <3>4, <3>5
    <3>7. ASSUME NEW u \in Threads
          PROVE  /\ \A i \in DOMAIN private[u] : Expired(private[u][i].of)'
                 /\ pc'[u] \in Fresh => New(op[u].of)'
                 /\ pc'[u] = "arm" => deadline'[op[u].of] > 0 /\ result[op[u].of] = "none"
                 /\ pc'[u] = "deliver" => Expired(op[u].of)'
      <4>1. \A i \in DOMAIN private[u] : private[u][i].of \in Coroutines
        BY <1>0, OpFacts, SeqFacts
      <4>2. \A i \in DOMAIN private[u] : Expired(private[u][i].of)'
        BY <1>i, <2>a, <3>1, <3>2, <3>5, <4>1
      <4>3. CASE u = t
        BY <1>0, <3>1, <3>2, <3>4, <4>2, <4>3 DEF New, Fresh
      <4>4. CASE u # t
        <5>1. pc'[u] = pc[u]
          BY <1>0, <3>1, <4>4
        <5>2. pc[u] \in Waiting => op[u].of # self /\ op[u].of \in Coroutines
          BY <2>a, <2>b, <3>2, <4>4, RunsAlone
        <5> QED BY <1>i, <3>1, <3>4, <3>5, <4>2, <5>1, <5>2 DEF Waiting, New, Expired
      <4> QED BY <4>3, <4>4
    <3> QED BY <3>1, <3>6, <3>7 DEF ProgressInv
  <2>4. CASE AsyncWait(t)
    <3>1. /\ pc[t] = "arm" /\ pc' = [pc EXCEPT ![t] = "finish"] /\ armed' = armed \union {self}
          /\ UNCHANGED <<queue, private, op, spawned, main, deadline, now, result>>
      BY <2>4 DEF AsyncWait, ScheduleTimer, Self, Goes, At, poolVars, coVars, mainVars
    <3>2. \A u \in Threads : pc'[u] = pc[u] \/ pc'[u] \notin Waiting
      BY <1>0, <3>1 DEF Waiting, Fresh
    <3>3. deadline[self] > 0 /\ result[self] = "none"
      BY <1>i, <3>1
    <3> QED BY <1>i, <3>1, <3>2, <3>3 DEF ProgressInv, New, Expired, Waiting
  <2>5. CASE Deliver(t) \/ ReactorFails(t)
    <3>1. /\ pc[t] \in Tokens /\ pc' = [pc EXCEPT ![t] = "release"]
          /\ UNCHANGED <<queue, private, op, armed, spawned, main, deadline, now>>
      BY <2>5 DEF Deliver, ReactorFails, Goes, At, schedulerVars, reactorVars, inputs, mainVars, Tokens, Fresh
    <3>2. \A c \in Coroutines : c # self => result'[c] = result[c]
      BY <1>0, <2>5 DEF Deliver, ReactorFails, Self
    <3>3. \A c \in Coroutines : c # self => (New(c) => New(c)') /\ (Expired(c) => Expired(c)')
      BY <3>1, <3>2 DEF New, Expired
    <3>4. \A c \in Coroutines :
            /\ c > spawned \/ (c = spawned /\ main = "post") \/ In(queue, Start(c)) => New(c)'
            /\ In(queue, Resume(c)) => Expired(c)'
            /\ c \in armed => deadline[c] > 0 /\ result'[c] = "none"
      BY <1>0, <1>i, <2>a, <3>1, <3>2, <3>3
    <3>5. ASSUME NEW u \in Threads
          PROVE  /\ \A i \in DOMAIN private[u] : Expired(private[u][i].of)'
                 /\ pc'[u] \in Fresh => New(op[u].of)'
                 /\ pc'[u] = "arm" => deadline[op[u].of] > 0 /\ result'[op[u].of] = "none"
                 /\ pc'[u] = "deliver" => Expired(op[u].of)'
      <4>1. \A i \in DOMAIN private[u] : private[u][i].of \in Coroutines
        BY <1>0, OpFacts, SeqFacts
      <4>2. \A i \in DOMAIN private[u] : Expired(private[u][i].of)'
        BY <1>i, <2>a, <3>1, <3>3, <4>1
      <4>3. CASE u = t
        BY <1>0, <3>1, <4>2, <4>3 DEF Fresh
      <4>4. CASE u # t
        <5>1. pc'[u] = pc[u]
          BY <1>0, <3>1, <4>4
        <5>2. pc[u] \in Waiting => op[u].of # self /\ op[u].of \in Coroutines
          BY <2>a, <2>b, <3>1, <4>4, RunsAlone
        <5> QED BY <1>i, <3>1, <3>2, <3>3, <4>2, <5>1, <5>2 DEF Waiting, New, Expired
      <4> QED BY <4>3, <4>4
    <3> QED BY <3>1, <3>4, <3>5 DEF ProgressInv
  <2>6. CASE ReleaseFrame(t)
    <3>1. /\ UNCHANGED <<queue, private, op, armed, spawned, main, deadline, now, result>>
          /\ \A u \in Threads : pc'[u] = pc[u] \/ pc'[u] \notin Waiting
      BY <1>0, <2>6 DEF ReleaseFrame, WorkFinished, At, reactorVars, inputs, mainVars, Waiting, Fresh
    <3> QED BY <1>n, <3>1, ProgressFrame
  <2> QED BY <1>6, <2>1, <2>2, <2>3, <2>4, <2>5, <2>6 DEF CoroutineStep
<1> QED BY <1>2, <1>t, <1>3, <1>4, <1>5, <1>6, StepCases

\* Only four steps set a timer.
LEMMA TimerFrame ==
  ASSUME [Next]_vars
  PROVE  \/ UNCHANGED <<deadline, armed, alarm>>
         \/ Join
         \/ \E t \in Threads : CheckTimers(t) \/ ExpiresAfter(t) \/ AsyncWait(t)
<1>1. CASE UNCHANGED vars \/ (Tick /\ UNCHANGED poolVars)
  BY <1>1 DEF vars, asioVars, reactorVars, Tick
<1>2. CASE CallerStep \/ ThreadFails
  BY <1>2 DEF CallerStep, Begin, CreateThread, ThreadFails, Spawn, Post, GetAll, GetThrows, ReleaseGuard,
              Stop, asioVars, reactorVars
<1>3. ASSUME NEW a, Signal(a) PROVE UNCHANGED <<deadline, armed, alarm>>
  BY <1>3 DEF Signal, reactorVars
<1>4. ASSUME NEW t \in Threads, ThreadWork(t), ~CheckTimers(t) PROVE UNCHANGED <<deadline, armed, alarm>>
  BY <1>4 DEF ThreadWork, Enter, Lock, StopBy, Return, TakeTask, TakeHandler, Sleep, Finish, EpollWait,
              EpollInterrupted, EpollReturns, TaskCleanup, Awake, SpuriousWakeup, reactorVars
<1>5. ASSUME NEW t \in Threads, CoroutineStep(t) \/ ReactorFails(t), ~ExpiresAfter(t), ~AsyncWait(t)
      PROVE  UNCHANGED <<deadline, armed, alarm>>
  BY <1>5 DEF CoroutineStep, UseService, InitTask, Register, Deliver, ReleaseFrame, ReactorFails, reactorVars
<1> QED BY <1>1, <1>2, <1>3, <1>4, <1>5, StepCases

LEMMA LatestFacts ==
  ASSUME deadline \in [Coroutines -> 0 .. NumCoroutines], NEW c \in Coroutines, deadline[c] = 0,
         NEW n \in Nat \ {0}, deadline' = [deadline EXCEPT ![c] = n]
  PROVE  Latest \in Nat /\ Latest < NumCoroutines /\ Latest' = Latest + 1
<1> DEFINE S == {d \in Coroutines : deadline[d] # 0}
<1>1. S \in SUBSET Coroutines /\ c \notin S
  OBVIOUS
<1>2. {d \in Coroutines : deadline'[d] # 0} = S \union {c}
  OBVIOUS
<1>3. Latest = Cardinality(S) /\ Latest' = Cardinality(S \union {c})
  BY <1>2 DEF Latest
<1> HIDE DEF S
<1>4. Cardinality(S) \in 0 .. NumCoroutines /\ Cardinality(S \union {c}) = Cardinality(S) + 1
      /\ Cardinality(S) < NumCoroutines
  BY <1>1, CoroutineSets
<1> QED BY <1>3, <1>4, CoroutinesAssumption

LEMMA TimerStep ==
  ASSUME TypeInv, TokenInv, ProgressInv, TimerInv, [Next]_vars
  PROVE  TimerInv'
<1>0. /\ deadline \in [Coroutines -> 0 .. NumCoroutines] /\ armed \subseteq Coroutines
      /\ alarm \in Nat /\ NumCoroutines \in Nat
  BY CoroutinesAssumption DEF TypeInv, TypeOK
<1>1. CASE UNCHANGED <<deadline, armed, alarm>>
  BY <1>1 DEF TimerInv, Latest
<1>2. CASE Join
  BY <1>2 DEF Join, TimerInv, Latest
<1>3. ASSUME NEW t \in Threads, CheckTimers(t) PROVE TimerInv'
  <2>1. armed' = armed \ ReadyTimers /\ alarm' = Earliest(armed \ ReadyTimers) /\ deadline' = deadline
    BY <1>3 DEF CheckTimers
  <2>2. /\ \A c \in armed' : alarm' <= deadline[c]
        /\ armed' # {} => \E c \in armed' : alarm' = deadline[c]
    BY <1>0, <2>1, EarliestFacts
  <2>3. \A c \in armed : deadline[c] > 0
    BY <1>0 DEF ProgressInv
  <2>4. \A c \in armed' : alarm' # 0
    BY <1>0, <2>1, <2>2, <2>3
  <2> QED BY <2>1, <2>2, <2>4 DEF TimerInv, Latest
<1>4. ASSUME NEW t \in Threads, ExpiresAfter(t) PROVE TimerInv'
  <2> DEFINE self == op[t].of
  <2>1. /\ pc[t] = "expires" /\ deadline' = [deadline EXCEPT ![self] = Latest + 1]
        /\ UNCHANGED <<armed, alarm>>
    BY <1>4 DEF ExpiresAfter, Goes, At, Self
  <2>2. self \in Coroutines /\ self \notin armed
    BY <2>1, RunsAlone DEF Tokens, Fresh
  <2>3. deadline[self] = 0
    BY <2>1 DEF ProgressInv, Fresh, New
  <2>4. Latest \in Nat
    BY CoroutineSets, CoroutinesAssumption DEF Latest
  <2>5. Latest' = Latest + 1
    <3>1. Latest + 1 \in Nat \ {0}
      BY <2>4
    <3> QED BY <1>0, <2>1, <2>2, <2>3, <3>1, LatestFacts
  <2>6. deadline'[self] = Latest + 1 /\ \A c \in Coroutines : c # self => deadline'[c] = deadline[c]
    BY <1>0, <2>1, <2>2
  <2> HIDE DEF self
  <2>7. \A c \in Coroutines : deadline'[c] <= Latest'
    BY <1>0, <2>4, <2>5, <2>6 DEF TimerInv
  <2>8. \A c, d \in Coroutines : deadline'[c] = deadline'[d] /\ deadline'[c] # 0 => c = d
    BY <1>0, <2>4, <2>6 DEF TimerInv
  <2>9. \A c \in armed' : alarm' # 0 /\ alarm' <= deadline'[c]
    BY <1>0, <2>1, <2>2, <2>6 DEF TimerInv
  <2> QED BY <2>7, <2>8, <2>9 DEF TimerInv
<1>5. ASSUME NEW t \in Threads, AsyncWait(t) PROVE TimerInv'
  <2> DEFINE self == op[t].of
  <2>1. /\ pc[t] = "arm" /\ armed' = armed \union {self} /\ deadline' = deadline
        /\ alarm' = IF \A d \in armed : deadline[self] < deadline[d] THEN deadline[self] ELSE alarm
    BY <1>5 DEF AsyncWait, ScheduleTimer, Goes, At, Self
  <2>2. self \in Coroutines
    BY <2>1, RunsAlone DEF Tokens, Fresh
  <2>3. deadline[self] > 0
    BY <2>1 DEF ProgressInv
  <2> HIDE DEF self
  <2>4. \A c \in armed : alarm # 0 /\ alarm <= deadline[c]
    BY DEF TimerInv
  <2>5. \A c \in armed' : alarm' # 0 /\ alarm' <= deadline[c]
    <3>1. CASE \A d \in armed : deadline[self] < deadline[d]
      BY <1>0, <2>1, <2>2, <2>3, <3>1
    <3>2. CASE ~\A d \in armed : deadline[self] < deadline[d]
      <4>1. PICK d \in armed : ~(deadline[self] < deadline[d])
        BY <3>2
      <4>2. alarm <= deadline[self] /\ alarm # 0
        BY <1>0, <2>2, <2>4, <4>1
      <4> QED BY <2>1, <2>4, <3>2, <4>2
    <3> QED BY <3>1, <3>2
  <2> QED BY <2>1, <2>5 DEF TimerInv, Latest
<1> QED BY <1>1, <1>2, <1>3, <1>4, <1>5, TimerFrame

-----------------------------------------------------------------------------
(* The work.                                                               *)

\* The parts of the count are numbers; and work is zero only when nothing is left.
Outstanding ==
  (IF guard THEN 1 ELSE 0) + Cardinality(held) + Queued(queue) + Cardinality(Found)
    + Cardinality(Running) + Cardinality(armed) + (IF main = "post" THEN 1 ELSE 0)

LEMMA WorkFacts ==
  ASSUME TypeInv, WorkCounted, ~Over
  PROVE  /\ work = Outstanding /\ work \in Nat
         /\ Cardinality(held) \in Nat /\ Queued(queue) \in Nat /\ Cardinality(Found) \in Nat
         /\ Cardinality(Running) \in Nat /\ Cardinality(armed) \in Nat
         /\ guard => work > 0
         /\ \A t \in Threads : pc[t] \in RunStates => work > 0
         /\ \A t \in Threads : pc[t] \in RunStates /\ held # {} => work > 1
         /\ work = 0 => held = {} /\ armed = {} /\ Queued(queue) = 0
         /\ work - Cardinality(held) \in Nat
<1>1. IsFiniteSet(Running) /\ Cardinality(Running) \in Nat
  BY ActorsAssumption, FS_Subset, FS_CardinalityType DEF Running
<1>2. Cardinality(Found) \in Nat
  <2>1. IsFiniteSet(1 .. NumCoroutines)
    BY CoroutinesAssumption, FS_Interval
  <2>2. IsFiniteSet(Threads \X (1 .. NumCoroutines))
    BY <2>1, ActorsAssumption, FS_Product
  <2>3. IsFiniteSet(Found)
    BY <2>2, FS_Subset DEF Found
  <2> QED BY <2>3, FS_CardinalityType
<1>3. Queued(queue) \in Nat
  BY QueuedType DEF TypeInv, TypeOK, Ops
<1>4. /\ Cardinality(held) \in Nat /\ Cardinality(armed) \in Nat
      /\ (held # {} => Cardinality(held) > 0) /\ (armed # {} => Cardinality(armed) > 0)
  BY CoroutineSets, CoroutinesAssumption DEF TypeInv, TypeOK
<1>5. \A t \in Threads : pc[t] \in RunStates => Cardinality(Running) > 0
  <2>1. \A t \in Threads : pc[t] \in RunStates => t \in Running
    BY DEF Running, RunStates, Tokens, Fresh
  <2>2. Running # {} => Cardinality(Running) # 0
    BY <1>1, FS_EmptySet
  <2> QED BY <1>1, <2>1, <2>2
<1>6. work = Outstanding
  BY DEF WorkCounted, Outstanding
<1>7. PICK g \in 0 .. 1, m \in 0 .. 1, h \in Nat, q \in Nat, f \in Nat, r \in Nat, a \in Nat :
        /\ (guard => g = 1) /\ h = Cardinality(held) /\ q = Queued(queue) /\ f = Cardinality(Found)
        /\ r = Cardinality(Running) /\ a = Cardinality(armed)
        /\ work = g + h + q + f + r + a + m
  <2> DEFINE g == IF guard THEN 1 ELSE 0
             m == IF main = "post" THEN 1 ELSE 0
  <2>1. g \in 0 .. 1 /\ m \in 0 .. 1 /\ (guard => g = 1)
    OBVIOUS
  <2>2. work = g + Cardinality(held) + Queued(queue) + Cardinality(Found)
                 + Cardinality(Running) + Cardinality(armed) + m
    BY <1>6 DEF Outstanding
  <2> HIDE DEF g, m
  <2> QED BY <1>1, <1>2, <1>3, <1>4, <2>1, <2>2
<1>8. work \in Nat /\ g >= 0 /\ m >= 0 /\ work = g + h + q + f + r + a + m
  BY <1>7
<1>9. (guard => work > 0) /\ (r > 0 => work > 0)
  BY <1>7, <1>8
<1>10. (r > 0 /\ h > 0 => work > 1) /\ (work = 0 => h = 0 /\ q = 0 /\ a = 0)
  BY <1>8
<1>11. work = 0 => held = {} /\ armed = {} /\ Queued(queue) = 0
  <2> SUFFICES ASSUME work = 0 PROVE held = {} /\ armed = {} /\ Queued(queue) = 0
    OBVIOUS
  <2>1. h = 0 /\ q = 0 /\ a = 0
    BY <1>10
  <2>2. Cardinality(held) = 0 /\ Cardinality(armed) = 0 /\ Queued(queue) = 0
    BY <1>7, <2>1
  <2>3. ~(0 > 0)
    OBVIOUS
  <2> QED BY <1>4, <2>2, <2>3
<1>12. ASSUME NEW t \in Threads, pc[t] \in RunStates PROVE work > 0 /\ (held # {} => work > 1)
  BY <1>4, <1>5, <1>7, <1>9, <1>10, <1>12
<1>13. work - Cardinality(held) \in Nat
  <2>1. work - h \in Nat
    BY <1>8
  <2> QED BY <1>7, <2>1
<1> QED BY <1>1, <1>2, <1>3, <1>4, <1>6, <1>8, <1>9, <1>11, <1>12, <1>13

-----------------------------------------------------------------------------
(* The types.                                                              *)

SchedulerType ==
  /\ oneThread \in BOOLEAN /\ work \in Nat /\ queue \in Seq(Ops)
  /\ task \in BOOLEAN /\ taskInterrupted \in BOOLEAN /\ stopped \in BOOLEAN
  /\ mutex \in Threads \union {Free}
EventType ==
  /\ signalled \in BOOLEAN /\ waiters \subseteq Threads /\ woken \subseteq Threads \ waiters
  /\ signalling \subseteq Threads \union {Main}
ReactorType ==
  /\ deadline \in [Coroutines -> 0 .. NumCoroutines] /\ now \in 0 .. NumCoroutines
  /\ armed \subseteq Coroutines /\ alarm \in 0 .. NumCoroutines /\ interrupter \in BOOLEAN
ThreadType ==
  /\ pc \in [Threads -> PCs] /\ op \in [Threads -> Ops] /\ blocks \in [Threads -> BOOLEAN]
  /\ private \in [Threads -> Seq(Resumes)] /\ spurious \in 0 .. MaxSpurious
CallerType ==
  /\ main \in Guarded \union Released \union {"threw", "terminated"}
  /\ program \in {"hello1", "hello2"} /\ cores \in 0 .. Cardinality(Threads)
  /\ created \in 0 .. cores /\ spawned \in 0 .. NumCoroutines /\ guard \in BOOLEAN
  /\ held \subseteq Coroutines /\ service \in BOOLEAN
  /\ result \in [Coroutines -> {"none", "value", "exception"}]

LEMMA TypeParts ==
  ASSUME TypeInv
  PROVE  SchedulerType /\ EventType /\ ReactorType /\ ThreadType /\ CallerType
BY DEF TypeInv, TypeOK, SchedulerType, EventType, ReactorType, ThreadType, CallerType, Ops

\* Work is only released that was counted.
LEMMA SchedulerTypeStep ==
  ASSUME TypeInv, MutexInv, CallerInv, WorkCounted, [Next]_vars
  PROVE  SchedulerType'
<1>0. SchedulerType /\ CallerType /\ ThreadType
  BY TypeParts
<1>o. TaskOp \in Ops /\ \A c \in Coroutines : Start(c) \in Ops
  BY OpFacts
<1> USE DEF SchedulerType
<1>2. CASE UNCHANGED vars \/ (Tick /\ UNCHANGED poolVars)
  BY <1>0, <1>2 DEF vars, asioVars, Tick, schedulerVars
<1>3. CASE CallerStep \/ ThreadFails
  <2>1. CASE Begin \/ Spawn
    BY <1>0, <2>1 DEF Begin, Spawn
  <2>2. CASE CreateThread \/ GetAll \/ GetThrows \/ ThreadFails
    BY <1>0, <2>2 DEF CreateThread, GetAll, GetThrows, ThreadFails, asioVars, schedulerVars
  <2>3. CASE Post
    <3>1. spawned \in Coroutines
      BY <1>0, <2>3, CoroutinesAssumption DEF Post, Caller, CallerInv, CallerType
    <3>2. queue' \in Seq(Ops)
      BY <1>0, <1>o, <2>3, <3>1, AppendFacts DEF Post
    <3> QED BY <1>0, <2>3, <3>2 DEF Post, WakeOneAndUnlock, SetAndSignal, InterruptTask
  <2>4. CASE ReleaseGuard
    <3>1. guard /\ ~Over
      BY <2>4 DEF ReleaseGuard, Over, CallerInv, Guarded
    <3>2. work > 0
      BY <3>1, WorkFacts
    <3> QED BY <1>0, <2>4, <3>2 DEF ReleaseGuard
  <2>5. CASE Stop
    BY <1>0, <2>5 DEF Stop, StopAllThreads, InterruptTask
  <2>6. CASE Join
    <3>1. work - Cardinality(held) \in Nat
      BY <2>6, WorkFacts DEF Join, Caller, Over
    <3>2. << >> \in Seq(Ops)
      OBVIOUS
    <3> QED BY <1>0, <2>6, <3>1, <3>2 DEF Join
  <2> QED BY <1>3, <2>1, <2>2, <2>3, <2>4, <2>5, <2>6 DEF CallerStep
<1>4. ASSUME NEW a, Signal(a) PROVE SchedulerType'
  BY <1>0, <1>4 DEF Signal, schedulerVars
<1>5. ASSUME NEW t \in Threads, Alive, ThreadWork(t) PROVE SchedulerType'
  <2>1. CASE Enter(t) \/ CheckTimers(t) \/ SpuriousWakeup(t) \/ EpollWait(t) \/ EpollInterrupted(t)
    BY <1>0, <2>1 DEF Enter, CheckTimers, SpuriousWakeup, EpollWait, EpollInterrupted, EpollReturns,
                      schedulerVars
  <2>2. CASE Lock(t) \/ Return(t) \/ Sleep(t) \/ Awake(t)
    BY <1>0, <2>2 DEF Lock, Return, Sleep, Awake
  <2>3. CASE StopBy(t)
    BY <1>0, <2>3 DEF StopBy, StopAllThreads, InterruptTask
  <2>4. CASE TakeTask(t)
    <3>1. queue' \in Seq(Ops)
      BY <1>0, <2>4, TailFacts DEF TakeTask
    <3> QED BY <1>0, <2>4, <3>1 DEF TakeTask, More
  <2>5. CASE TakeHandler(t)
    <3>1. queue' \in Seq(Ops)
      BY <1>0, <2>5, TailFacts DEF TakeHandler
    <3> QED BY <1>0, <2>5, <3>1 DEF TakeHandler, WakeOneAndUnlock, InterruptTask
  <2>6. CASE Finish(t)
    <3>1. pc[t] \in RunStates /\ pc[t] \notin {"none", "exited"}
      BY <2>6 DEF Finish, At, RunStates
    <3>2. work > 0
      BY <1>5, <3>1, WorkFacts, RunsBeforeTheEnd
    <3> QED BY <1>0, <2>6, <3>2 DEF Finish, WorkFinished
  <2>7. CASE TaskCleanup(t)
    <3>1. private[t] \in Seq(Resumes)
      BY <1>0 DEF ThreadType
    <3>2. queue' \in Seq(Ops)
      BY <1>0, <1>o, <2>7, <3>1, QueuedConcat, AppendFacts DEF TaskCleanup
    <3> QED BY <1>0, <2>7, <3>2 DEF TaskCleanup
  <2> QED BY <1>5, <2>1, <2>2, <2>3, <2>4, <2>5, <2>6, <2>7 DEF ThreadWork
<1>6. ASSUME NEW t \in Threads, Alive, CoroutineStep(t) \/ ReactorFails(t) PROVE SchedulerType'
  <2>1. CASE UseService(t) \/ Register(t) \/ ExpiresAfter(t) \/ Deliver(t) \/ ReactorFails(t)
    BY <1>0, <2>1 DEF UseService, Register, ExpiresAfter, Deliver, ReactorFails, schedulerVars
  <2>2. CASE InitTask(t)
    <3>1. Append(queue, TaskOp) \in Seq(Ops)
      BY <1>0, <1>o, AppendFacts
    <3> QED BY <1>0, <2>2, <3>1 DEF InitTask, WakeOneAndUnlock, InterruptTask
  <2>3. CASE AsyncWait(t)
    BY <1>0, <2>3 DEF AsyncWait, ScheduleTimer
  <2>4. CASE ReleaseFrame(t)
    <3>1. pc[t] \in RunStates /\ pc[t] \notin {"none", "exited"}
      BY <2>4 DEF ReleaseFrame, At, RunStates, Tokens
    <3>2. work > 0
      BY <1>6, <3>1, WorkFacts, RunsBeforeTheEnd
    <3> QED BY <1>0, <2>4, <3>2 DEF ReleaseFrame, WorkFinished
  <2> QED BY <1>6, <2>1, <2>2, <2>3, <2>4 DEF CoroutineStep
<1> QED BY <1>2, <1>3, <1>4, <1>5, <1>6, StepCases

LEMMA EventTypeStep ==
  ASSUME TypeInv, MutexInv, [Next]_vars
  PROVE  EventType'
<1>0. EventType
  BY TypeParts
<1> USE DEF EventType
<1>2. CASE UNCHANGED vars \/ (Tick /\ UNCHANGED poolVars)
  BY <1>0, <1>2 DEF vars, asioVars, Tick, eventVars
<1>3. CASE CallerStep \/ ThreadFails
  <2>1. CASE Post \/ Stop
    BY <1>0, <2>1 DEF Post, Stop, WakeOneAndUnlock, SetAndSignal, StopAllThreads
  <2>2. CASE ~(Post \/ Stop)
    BY <1>0, <1>3, <2>2 DEF CallerStep, Begin, CreateThread, Spawn, GetAll, GetThrows, ReleaseGuard, Join,
                      ThreadFails, asioVars, eventVars
  <2> QED BY <2>1, <2>2
<1>4. ASSUME NEW a, Signal(a) PROVE EventType'
  BY <1>0, <1>4 DEF Signal
<1>5. ASSUME NEW t \in Threads, ThreadWork(t) PROVE EventType'
  <2>1. CASE StopBy(t)
    BY <1>0, <2>1 DEF StopBy, StopAllThreads
  <2>2. CASE TakeTask(t) \/ TakeHandler(t)
    BY <1>0, <2>2 DEF TakeTask, TakeHandler, WakeOneAndUnlock, SetAndSignal, eventVars
  <2>3. CASE Sleep(t)
    <3>1. pc[t] = "loop" /\ signalled' = FALSE /\ waiters' = waiters \union {t}
          /\ UNCHANGED <<woken, signalling>>
      BY <2>3 DEF Sleep, Holding
    <3>2. t \notin woken
      BY <3>1 DEF MutexInv
    <3> QED BY <1>0, <3>1, <3>2
  <2>4. CASE Awake(t) \/ SpuriousWakeup(t)
    BY <1>0, <2>4 DEF Awake, SpuriousWakeup
  <2>5. CASE ~(StopBy(t) \/ TakeTask(t) \/ TakeHandler(t) \/ Sleep(t) \/ Awake(t) \/ SpuriousWakeup(t))
    BY <1>0, <1>5, <2>5 DEF ThreadWork, Enter, Lock, Return, Finish, EpollWait, EpollInterrupted, EpollReturns,
                      CheckTimers, TaskCleanup, eventVars
  <2> QED BY <2>1, <2>2, <2>3, <2>4, <2>5
<1>6. ASSUME NEW t \in Threads, CoroutineStep(t) \/ ReactorFails(t) PROVE EventType'
  <2>1. CASE InitTask(t)
    BY <1>0, <2>1 DEF InitTask, WakeOneAndUnlock, SetAndSignal, eventVars
  <2>2. CASE ~InitTask(t)
    BY <1>0, <1>6, <2>2 DEF CoroutineStep, UseService, Register, ExpiresAfter, AsyncWait, Deliver, ReleaseFrame,
                      ReactorFails, eventVars
  <2> QED BY <2>1, <2>2
<1> QED BY <1>2, <1>3, <1>4, <1>5, <1>6, StepCases

LEMMA ReactorTypeStep ==
  ASSUME TypeInv, TokenInv, ProgressInv, [Next]_vars
  PROVE  ReactorType'
<1>0. ReactorType /\ NumCoroutines \in Nat
  BY TypeParts, CoroutinesAssumption
<1> USE DEF ReactorType
<1>1. ASSUME UNCHANGED <<deadline, now, armed, alarm>>, interrupter' = interrupter \/ interrupter' \in BOOLEAN
      PROVE  ReactorType'
  BY <1>0, <1>1
<1>2. CASE UNCHANGED vars
  BY <1>1, <1>2 DEF vars, asioVars, reactorVars
<1>t. CASE Tick /\ UNCHANGED poolVars
  <2>1. PICK c \in Coroutines : deadline[c] > now
    BY <1>t DEF Tick
  <2>2. now + 1 \in 0 .. NumCoroutines
    BY <1>0, <2>1
  <2> QED BY <1>0, <1>t, <2>2 DEF Tick
<1>3. CASE CallerStep \/ ThreadFails
  <2>1. CASE Join
    BY <1>0, <2>1 DEF Join
  <2>2. CASE ~Join
    BY <1>1, <1>3, <2>2 DEF CallerStep, Begin, CreateThread, Spawn, Post, Stop, GetAll, GetThrows, ReleaseGuard,
         ThreadFails, asioVars, reactorVars, WakeOneAndUnlock, StopAllThreads, InterruptTask
  <2> QED BY <2>1, <2>2
<1>4. ASSUME NEW a, Signal(a) PROVE ReactorType'
  BY <1>1, <1>4 DEF Signal, reactorVars
<1>5. ASSUME NEW t \in Threads, ThreadWork(t) PROVE ReactorType'
  <2>1. CASE CheckTimers(t)
    <3>1. /\ armed' \subseteq armed /\ alarm' = Earliest(armed') /\ UNCHANGED <<deadline, now, interrupter>>
      BY <2>1 DEF CheckTimers
    <3>2. Earliest(armed') \in 0 .. NumCoroutines
      BY <1>0, <3>1, EarliestFacts
    <3> QED BY <1>0, <3>1, <3>2
  <2>2. CASE ~CheckTimers(t)
    BY <1>1, <1>5, <2>2 DEF ThreadWork, Enter, Lock, StopBy, Return, TakeTask, TakeHandler, Sleep, Finish,
         EpollWait, EpollInterrupted, EpollReturns, TaskCleanup, Awake, SpuriousWakeup, reactorVars,
         WakeOneAndUnlock, StopAllThreads, InterruptTask
  <2> QED BY <2>1, <2>2
<1>6. ASSUME NEW t \in Threads, CoroutineStep(t) \/ ReactorFails(t) PROVE ReactorType'
  <2> DEFINE self == op[t].of
  <2>1. CASE ExpiresAfter(t)
    <3>1. /\ pc[t] = "expires" /\ deadline' = [deadline EXCEPT ![self] = Latest + 1]
          /\ UNCHANGED <<now, armed, alarm, interrupter>>
      BY <2>1 DEF ExpiresAfter, Goes, At, Self
    <3>2. self \in Coroutines
      BY <3>1, RunsAlone DEF Tokens, Fresh
    <3>3. deadline[self] = 0
      BY <3>1 DEF ProgressInv, Fresh, New
    <3>4. Latest + 1 \in Nat \ {0} /\ Latest \in Nat
      BY CoroutineSets, CoroutinesAssumption DEF Latest
    <3>5. Latest < NumCoroutines
      BY <1>0, <3>1, <3>2, <3>3, <3>4, LatestFacts
    <3>6. Latest + 1 \in 0 .. NumCoroutines
      BY <1>0, <3>4, <3>5
    <3> QED BY <1>0, <3>1, <3>2, <3>6
  <2>2. CASE AsyncWait(t)
    <3>1. /\ pc[t] = "arm" /\ armed' = armed \union {self} /\ alarm' \in {deadline[self], alarm}
          /\ UNCHANGED <<deadline, now, interrupter>>
      BY <2>2 DEF AsyncWait, ScheduleTimer, Goes, At, Self
    <3>2. self \in Coroutines
      BY <3>1, RunsAlone DEF Tokens, Fresh
    <3> QED BY <1>0, <3>1, <3>2
  <2>3. CASE ~ExpiresAfter(t) /\ ~AsyncWait(t)
    BY <1>1, <1>6, <2>3 DEF CoroutineStep, UseService, InitTask, Register, Deliver, ReleaseFrame, ReactorFails,
         reactorVars, WakeOneAndUnlock, InterruptTask
  <2> QED BY <2>1, <2>2, <2>3
<1> QED BY <1>2, <1>t, <1>3, <1>4, <1>5, <1>6, StepCases

LEMMA ThreadTypeStep ==
  ASSUME TypeInv, ProgressInv, TimerInv, [Next]_vars
  PROVE  ThreadType'
<1>0. ThreadType /\ SchedulerType
  BY TypeParts
<1> USE DEF ThreadType
<1>1. ASSUME UNCHANGED <<op, blocks, private, spurious>>, pc' \in [Threads -> PCs] PROVE ThreadType'
  BY <1>0, <1>1
<1>2. CASE UNCHANGED vars \/ (Tick /\ UNCHANGED poolVars)
  BY <1>0, <1>2 DEF vars, asioVars, Tick, threadVars
<1>3. CASE CallerStep \/ ThreadFails
  <2>1. CASE CreateThread
    BY <1>0, <1>1, <2>1 DEF CreateThread, PCs
  <2>2. CASE ~CreateThread
    BY <1>0, <1>3, <2>2 DEF CallerStep, Begin, Spawn, Post, Stop, GetAll, GetThrows, ReleaseGuard, Join,
         ThreadFails, asioVars, threadVars
  <2> QED BY <2>1, <2>2
<1>4. ASSUME NEW a, Signal(a) PROVE ThreadType'
  BY <1>0, <1>4 DEF Signal, threadVars
<1>5. ASSUME NEW t \in Threads, ThreadWork(t) PROVE ThreadType'
  <2>1. CASE Enter(t) \/ Lock(t) \/ StopBy(t) \/ Return(t) \/ Sleep(t) \/ Finish(t)
    <3>1. UNCHANGED <<op, blocks, private, spurious>>
      BY <2>1 DEF Enter, Lock, StopBy, Return, Sleep, Finish
    <3>2. \E p \in PCs : pc' = [pc EXCEPT ![t] = p]
      <4>1. {"stopOut", "lock", "exited", "loop", "waiting", "finish", "stopThenLock"} \subseteq PCs
        BY DEF PCs, RunStates
      <4> QED BY <1>0, <2>1, <4>1 DEF Enter, Lock, StopBy, Return, Sleep, Finish, WorkFinished
    <3> QED BY <1>0, <1>1, <3>1, <3>2
  <2>2. CASE TakeTask(t)
    BY <1>0, <2>2 DEF TakeTask, More, PCs
  <2>3. CASE TakeHandler(t)
    <3>1. Head(queue) \in Ops
      BY <1>0, <2>3, TailFacts DEF TakeHandler, SchedulerType
    <3> QED BY <1>0, <2>3, <3>1 DEF TakeHandler, PCs, RunStates, Tokens, Fresh
  <2>4. CASE EpollWait(t) \/ EpollInterrupted(t)
    <3>1. spurious' \in 0 .. MaxSpurious
      BY <1>0, <2>4, ActorsAssumption DEF EpollWait, EpollInterrupted
    <3>2. UNCHANGED <<op, blocks, private>> /\ pc' \in [Threads -> PCs]
      BY <1>0, <2>4 DEF EpollWait, EpollInterrupted, EpollReturns, PCs
    <3> QED BY <1>0, <3>1, <3>2
  <2>5. CASE CheckTimers(t)
    <3>1. private' = [private EXCEPT ![t] = FoundNow]
      BY <2>5 DEF CheckTimers, FoundNow
    <3>2. FoundNow \in Seq(Resumes)
      BY FoundFacts
    <3> QED BY <1>0, <2>5, <3>1, <3>2 DEF CheckTimers, PCs
  <2>6. CASE TaskCleanup(t)
    BY <1>0, <2>6 DEF TaskCleanup, PCs
  <2>7. CASE Awake(t)
    BY <1>0, <1>1, <2>7 DEF Awake, PCs
  <2>8. CASE SpuriousWakeup(t)
    BY <1>0, <2>8, ActorsAssumption DEF SpuriousWakeup
  <2> QED BY <1>5, <2>1, <2>2, <2>3, <2>4, <2>5, <2>6, <2>7, <2>8 DEF ThreadWork
<1>6. ASSUME NEW t \in Threads, CoroutineStep(t) \/ ReactorFails(t) PROVE ThreadType'
  <2>1. UNCHANGED <<op, blocks, private, spurious>>
    BY <1>6 DEF CoroutineStep, UseService, InitTask, Register, ExpiresAfter, AsyncWait, Deliver,
                ReleaseFrame, ReactorFails
  <2>2. \E p \in PCs : pc' = [pc EXCEPT ![t] = p]
    <3>1. {"expires", "construct", "register", "release", "arm", "finish", "stopThenFinish"} \subseteq PCs
      BY DEF PCs, RunStates, Tokens, Fresh
    <3> QED BY <1>6, <3>1 DEF CoroutineStep, UseService, InitTask, Register, ExpiresAfter, AsyncWait,
                Deliver, ReleaseFrame, ReactorFails, WorkFinished, Goes
  <2> QED BY <1>0, <1>1, <2>1, <2>2
<1> QED BY <1>2, <1>3, <1>4, <1>5, <1>6, StepCases

LEMMA CallerTypeStep ==
  ASSUME TypeInv, CallerInv, TokenInv, [Next]_vars
  PROVE  CallerType'
<1>0. CallerType /\ cores \in Nat /\ Coroutines = 1 .. NumCoroutines /\ NumCoroutines \in Nat \ {0}
  <2>1. Cardinality(Threads) \in Nat
    BY ActorsAssumption, FS_CardinalityType
  <2> QED BY <2>1, TypeParts, CoroutinesAssumption DEF CallerType
<1> USE DEF CallerType
<1>2. CASE UNCHANGED vars \/ UNCHANGED poolVars
  BY <1>0, <1>2 DEF vars, poolVars, inputs, mainVars, coVars
<1>3. CASE CallerStep \/ ThreadFails
  <2> USE DEF Guarded, Released
  <2>1. CASE Begin \/ Post \/ GetAll \/ GetThrows \/ ReleaseGuard \/ Stop \/ ThreadFails
    BY <1>0, <2>1 DEF Begin, Post, GetAll, GetThrows, ReleaseGuard, Stop, ThreadFails, Caller, inputs, coVars
  <2>2. CASE CreateThread
    BY <1>0, <2>2 DEF CreateThread, Caller, inputs, coVars
  <2>3. CASE Spawn
    <3>1. spawned + 1 \in 1 .. NumCoroutines
      BY <1>0, <2>3 DEF Spawn, Caller, CallerInv
    <3> QED BY <1>0, <2>3, <3>1 DEF Spawn, Caller, inputs
  <2>4. CASE Join
    BY <1>0, <2>4 DEF Join, Caller, inputs
  <2> QED BY <1>3, <2>1, <2>2, <2>3, <2>4 DEF CallerStep
<1>6. ASSUME NEW t \in Threads, CoroutineStep(t) \/ ReactorFails(t) PROVE CallerType'
  <2>1. CASE Deliver(t) \/ ReactorFails(t)
    BY <1>0, <2>1 DEF Deliver, ReactorFails, inputs, mainVars
  <2>2. CASE ~(Deliver(t) \/ ReactorFails(t))
    BY <1>0, <1>6, <2>2 DEF CoroutineStep, UseService, InitTask, Register, ExpiresAfter, AsyncWait,
         ReleaseFrame, poolVars, inputs, mainVars, coVars
  <2> QED BY <2>1, <2>2
<1> QED BY <1>2, <1>3, <1>6, StepCases

LEMMA TypeStep ==
  ASSUME TypeInv, MutexInv, CallerInv, TokenInv, ProgressInv, TimerInv, WorkCounted, [Next]_vars
  PROVE  TypeInv'
<1>1. SchedulerType' /\ EventType' /\ ReactorType' /\ ThreadType' /\ CallerType'
  BY SchedulerTypeStep, EventTypeStep, ReactorTypeStep, ThreadTypeStep, CallerTypeStep
<1> QED BY <1>1 DEF TypeInv, TypeOK, SchedulerType, EventType, ReactorType, ThreadType, CallerType, Ops

-----------------------------------------------------------------------------
(* The count of the work.                                                  *)

\* What the reactor found for a thread is of different coroutines.
LEMMA FewFound ==
  ASSUME NEW P \in Seq(Resumes), Distinct(P)
  PROVE  Len(P) \in 0 .. NumCoroutines
<1> DEFINE f == [i \in 1 .. Len(P) |-> P[i].of]
<1>1. Len(P) \in Nat /\ DOMAIN P = 1 .. Len(P) /\ \A i \in 1 .. Len(P) : P[i] \in Resumes
  BY SeqFacts
<1>2. f \in [1 .. Len(P) -> Coroutines]
  BY <1>1, OpFacts
<1>3. \A i, j \in 1 .. Len(P) : f[i] = f[j] => i = j
  <2> SUFFICES ASSUME NEW i \in 1 .. Len(P), NEW j \in 1 .. Len(P), P[i].of = P[j].of PROVE i = j
    OBVIOUS
  <2>1. P[i] = Resume(P[i].of) /\ P[j] = Resume(P[i].of) /\ P[i].of \in Coroutines
    BY <1>1, OpFacts
  <2> QED BY <1>1, <2>1 DEF Distinct, Once
<1>4. f \in Injection(1 .. Len(P), Coroutines)
  BY <1>2, <1>3 DEF Injection, IsInjective
<1>5. IsFiniteSet(Coroutines) /\ Cardinality(Coroutines) <= NumCoroutines /\ Cardinality(Coroutines) \in Nat
  BY CoroutineSets, CoroutinesAssumption
<1>6. IsFiniteSet(1 .. Len(P)) /\ Cardinality(1 .. Len(P)) = Len(P)
  <2>1. 1 \in Int /\ Len(P) \in Int
    BY <1>1
  <2>2. IsFiniteSet(1 .. Len(P)) /\ Cardinality(1 .. Len(P)) = IF 1 > Len(P) THEN 0 ELSE Len(P) - 1 + 1
    BY <2>1, FS_Interval
  <2> QED BY <1>1, <2>2
<1>7. Cardinality(1 .. Len(P)) <= Cardinality(Coroutines)
  BY <1>4, <1>5, FS_Injection
<1> QED BY <1>1, <1>5, <1>6, <1>7, CoroutinesAssumption

OwnWork == IF guard THEN 1 ELSE 0
PostWork == IF main = "post" THEN 1 ELSE 0
Balance ==
  work = OwnWork + Cardinality(held) + Queued(queue) + Cardinality(Found) + Cardinality(Running)
           + Cardinality(armed) + PostWork

LEMMA BalanceFacts ==
  ASSUME TypeInv, WorkCounted, ~Over
  PROVE  /\ Balance /\ work \in Nat /\ OwnWork \in Nat /\ PostWork \in Nat
         /\ Cardinality(held) \in Nat /\ Queued(queue) \in Nat /\ Cardinality(Found) \in Nat
         /\ Cardinality(Running) \in Nat /\ Cardinality(armed) \in Nat
BY WorkFacts DEF Balance, OwnWork, PostWork, Outstanding

LEMMA BalanceFrame ==
  ASSUME Balance, UNCHANGED <<work, guard, held, queue, private, armed>>, main' = "post" <=> main = "post",
         \A u \in Threads : pc'[u] \in RunStates <=> pc[u] \in RunStates
  PROVE  Balance'
<1>1. Running' = Running
  BY DEF Running, RunStates, Tokens, Fresh
<1>2. Found' = Found /\ OwnWork' = OwnWork /\ PostWork' = PostWork /\ Queued(queue)' = Queued(queue)
  BY DEF Found, OwnWork, PostWork, Queued
<1> QED BY <1>1, <1>2 DEF Balance

LEMMA BalanceStep ==
  ASSUME TypeInv, MutexInv, CallerInv, ReactorInv, ProgressInv, TimerInv, TokenInv, WorkCounted,
         ~Over, [Next]_vars
  PROVE  Over' \/ Balance'
<1>0. /\ pc \in [Threads -> PCs] /\ queue \in Seq(Ops) /\ private \in [Threads -> Seq(Resumes)]
      /\ armed \in SUBSET Coroutines /\ held \in SUBSET Coroutines
      /\ spawned \in 0 .. NumCoroutines /\ Coroutines = 1 .. NumCoroutines /\ NumCoroutines \in Nat
      /\ guard \in BOOLEAN
  BY CoroutinesAssumption DEF TypeInv, TypeOK, Ops
<1>b. /\ Balance /\ work \in Nat /\ OwnWork \in Nat /\ PostWork \in Nat
      /\ Cardinality(held) \in Nat /\ Queued(queue) \in Nat /\ Cardinality(Found) \in Nat
      /\ Cardinality(Running) \in Nat /\ Cardinality(armed) \in Nat
  BY BalanceFacts
<1>2. CASE UNCHANGED vars \/ (Tick /\ UNCHANGED poolVars)
  BY <1>b, <1>2, BalanceFrame DEF vars, asioVars, Tick, schedulerVars, reactorVars, threadVars,
                          poolVars, mainVars, coVars
<1>3. CASE CallerStep \/ ThreadFails
  <2>1. CASE CreateThread
    <3>1. \A u \in Threads : pc'[u] \in RunStates <=> pc[u] \in RunStates
      BY <1>0, <2>1 DEF CreateThread, RunStates, Tokens, Fresh
    <3> QED BY <1>b, <2>1, <3>1, BalanceFrame DEF CreateThread, Caller, schedulerVars, reactorVars, coVars
  <2>2. CASE GetAll \/ GetThrows \/ ThreadFails \/ Stop
    BY <1>b, <2>2, BalanceFrame DEF GetAll, GetThrows, ThreadFails, Stop, Caller, asioVars, schedulerVars,
         reactorVars, threadVars, coVars
  <2>3. CASE Join
    BY <2>3 DEF Join, Caller, Over
  <2>4. CASE Begin \/ ReleaseGuard
    <3>1. /\ UNCHANGED <<held, queue, private, armed, pc>> /\ PostWork' = PostWork
          /\ OwnWork' - OwnWork = work' - work /\ OwnWork' \in Nat /\ work' \in Int
      <4>1. CASE Begin
        <5>1. ~guard /\ guard' /\ work' = work + 1
          BY <2>4, <4>1 DEF Begin, Caller, CallerInv, Released
        <5> QED BY <1>b, <4>1, <5>1 DEF Begin, Caller, OwnWork, PostWork, threadVars, reactorVars, coVars
      <4>2. CASE ReleaseGuard
        <5>1. guard /\ ~guard' /\ work' = work - 1
          BY <4>2 DEF ReleaseGuard, CallerInv, Guarded
        <5> QED BY <1>b, <4>2, <5>1 DEF ReleaseGuard, Caller, OwnWork, PostWork, threadVars, reactorVars, coVars
      <4> QED BY <2>4, <4>1, <4>2
    <3>2. Found' = Found /\ Running' = Running /\ Queued(queue)' = Queued(queue)
      BY <3>1 DEF Found, Running, Queued
    <3> QED BY <1>b, <3>1, <3>2 DEF Balance
  <2>5. CASE Spawn
    <3>1. /\ UNCHANGED <<guard, queue, private, armed, pc>> /\ main # "post" /\ main' = "post"
          /\ held' = held \union {spawned + 1} /\ work' = work + 2
      BY <2>5 DEF Spawn, Caller, threadVars, reactorVars
    <3>2. spawned + 1 \notin held
      BY <1>0 DEF TokenInv
    <3>3. Cardinality(held') = Cardinality(held) + 1
      BY <1>0, <3>1, <3>2, CoroutineSets
    <3>4. Found' = Found /\ Running' = Running /\ Queued(queue)' = Queued(queue) /\ OwnWork' = OwnWork
          /\ PostWork = 0 /\ PostWork' = 1
      BY <3>1 DEF Found, Running, Queued, OwnWork, PostWork
    <3> QED BY <1>b, <3>1, <3>3, <3>4 DEF Balance
  <2>6. CASE Post
    <3>1. /\ UNCHANGED <<work, guard, held, private, armed, pc>> /\ main = "post" /\ main' # "post"
          /\ queue' = Append(queue, Start(spawned))
      BY <2>6 DEF Post, Caller, threadVars, coVars
    <3>2. Start(spawned) \in Ops /\ Start(spawned) # TaskOp
      BY <1>0, <3>1, OpFacts DEF CallerInv
    <3>3. Queued(queue') = Queued(queue) + 1
      BY <1>0, <3>1, <3>2, QueuedAppend
    <3>4. Found' = Found /\ Running' = Running /\ OwnWork' = OwnWork /\ PostWork = 1 /\ PostWork' = 0
      BY <3>1 DEF Found, Running, OwnWork, PostWork
    <3>5. Queued(queue)' = Queued(queue')
      BY DEF Queued
    <3> QED BY <1>b, <3>1, <3>3, <3>4, <3>5 DEF Balance
  <2> QED BY <1>3, <2>1, <2>2, <2>3, <2>4, <2>5, <2>6 DEF CallerStep
<1>4. ASSUME NEW a, Signal(a), UNCHANGED poolVars PROVE Balance'
  BY <1>b, <1>4, BalanceFrame DEF Signal, schedulerVars, reactorVars, threadVars, poolVars, mainVars, coVars
<1>5. ASSUME NEW t \in Threads, ThreadWork(t), UNCHANGED poolVars PROVE Balance'
  <2>0. UNCHANGED <<main, guard, held>> /\ OwnWork' = OwnWork /\ PostWork' = PostWork
    BY <1>5 DEF poolVars, mainVars, coVars, OwnWork, PostWork
  <2>1. CASE Enter(t) \/ Lock(t) \/ StopBy(t) \/ Return(t) \/ Sleep(t)
    <3>1. UNCHANGED <<work, queue, private, armed>>
      BY <2>1 DEF Enter, Lock, StopBy, Return, Sleep, schedulerVars, reactorVars
    <3>2. (pc'[t] \in RunStates <=> pc[t] \in RunStates) /\ \A u \in Threads : u # t => pc'[u] = pc[u]
      BY <1>0, <2>1 DEF Enter, Lock, StopBy, Return, Sleep, At, Holding, RunStates, Tokens, Fresh
    <3>3. \A u \in Threads : pc'[u] \in RunStates <=> pc[u] \in RunStates
      BY <3>2
    <3> QED BY <1>b, <2>0, <3>1, <3>3, BalanceFrame
  <2>2. CASE EpollWait(t) \/ EpollInterrupted(t)
    <3>1. /\ UNCHANGED <<work, queue, private, armed>>
          /\ \A u \in Threads : pc'[u] \in RunStates <=> pc[u] \in RunStates
      BY <1>0, <2>2 DEF EpollWait, EpollInterrupted, EpollReturns, At, schedulerVars, RunStates, Tokens, Fresh
    <3> QED BY <1>b, <2>0, <3>1, BalanceFrame
  <2>3. CASE Awake(t) \/ SpuriousWakeup(t)
    <3>1. UNCHANGED <<work, queue, private, armed>> /\ (pc' = pc \/ pc' = [pc EXCEPT ![t] = "loop"])
      BY <2>3 DEF Awake, SpuriousWakeup, schedulerVars, reactorVars
    <3>2. pc[t] = "waiting"
      BY <2>3 DEF Awake, SpuriousWakeup, MutexInv
    <3>3. \A u \in Threads : pc'[u] \in RunStates <=> pc[u] \in RunStates
      BY <1>0, <3>1, <3>2 DEF RunStates, Tokens, Fresh
    <3> QED BY <1>b, <2>0, <3>1, <3>3, BalanceFrame
  <2>4. CASE TakeTask(t)
    <3>1. /\ UNCHANGED <<work, private, armed>> /\ queue' = Tail(queue) /\ queue # << >> /\ Head(queue) = TaskOp
          /\ \A u \in Threads : pc'[u] \in RunStates <=> pc[u] \in RunStates
      BY <1>0, <2>4 DEF TakeTask, Holding, reactorVars, RunStates, Tokens, Fresh
    <3>2. Queued(queue') = Queued(queue) /\ Queued(queue)' = Queued(queue')
      BY <1>0, <3>1, QueuedTail DEF Queued
    <3>3. Found' = Found /\ Running' = Running
      BY <3>1 DEF Found, Running, RunStates, Tokens, Fresh
    <3> QED BY <1>b, <2>0, <3>1, <3>2, <3>3 DEF Balance
  <2>5. CASE TakeHandler(t)
    <3>1. /\ UNCHANGED <<work, private, armed>> /\ queue' = Tail(queue) /\ queue # << >> /\ Head(queue) # TaskOp
          /\ pc[t] = "loop"
      BY <2>5 DEF TakeHandler, Holding
    <3>2. PICK to \in RunStates : pc' = [pc EXCEPT ![t] = to]
      BY <2>5 DEF TakeHandler, RunStates, Tokens, Fresh
    <3>3. Cardinality(Running') = Cardinality(Running) + 1
      <4>1. pc[t] \notin RunStates
        BY <3>1 DEF RunStates, Tokens, Fresh
      <4> QED BY <1>0, <3>2, <4>1, RunningStep
    <3>4. Queued(queue') + 1 = Queued(queue) /\ Queued(queue)' = Queued(queue') /\ Queued(queue') \in Nat
      <4>1. queue' \in Seq(Ops)
        BY <1>0, <3>1, TailFacts
      <4> QED BY <1>0, <3>1, <4>1, QueuedTail, QueuedType DEF Queued
    <3>5. Found' = Found
      BY <3>1 DEF Found
    <3> QED BY <1>b, <2>0, <3>1, <3>3, <3>4, <3>5 DEF Balance
  <2>6. CASE Finish(t)
    <3>1. /\ UNCHANGED <<queue, private, armed>> /\ work' = work - 1 /\ pc[t] = "finish"
      BY <2>6 DEF Finish, WorkFinished, At, reactorVars
    <3>2. PICK to \in {"stopThenLock", "lock"} : pc' = [pc EXCEPT ![t] = to]
      BY <2>6 DEF Finish, WorkFinished
    <3>3. Cardinality(Running') = Cardinality(Running) - 1
      <4>1. pc[t] \in RunStates /\ to \notin RunStates
        BY <3>1 DEF RunStates, Tokens, Fresh
      <4> QED BY <1>0, <3>2, <4>1, RunningStep
    <3>4. Found' = Found /\ Queued(queue)' = Queued(queue)
      BY <3>1 DEF Found, Queued
    <3> QED BY <1>b, <2>0, <3>1, <3>3, <3>4 DEF Balance
  <2>7. CASE CheckTimers(t)
    <3>1. /\ UNCHANGED <<work, queue>> /\ private' = [private EXCEPT ![t] = FoundNow] /\ armed' = armed \ ReadyTimers
          /\ pc[t] = "timers" /\ pc' = [pc EXCEPT ![t] = "cleanup"]
      BY <2>7 DEF CheckTimers, FoundNow, At, schedulerVars
    <3>2. /\ FoundNow \in Seq(Resumes) /\ Len(FoundNow) = Cardinality(ReadyTimers)
          /\ ReadyTimers \subseteq armed /\ Distinct(FoundNow)
      BY FoundFacts
    <3>3. \A u \in Threads : private[u] = << >>
      BY <3>1 DEF ReactorInv, Reacts
    <3>4. Cardinality(Found) = 0
      BY <1>0, <3>3, FoundNone, FS_EmptySet DEF Found, FoundIn
    <3>5. Cardinality(Found') = Cardinality(ReadyTimers)
      <4>1. private' \in [Threads -> Seq(Resumes)] /\ private'[t] = FoundNow
            /\ \A u \in Threads \ {t} : private'[u] = << >>
        BY <1>0, <3>1, <3>2, <3>3
      <4>2. Len(private'[t]) <= NumCoroutines
        BY <1>0, <3>2, <4>1, FewFound
      <4>3. Cardinality(FoundIn(private')) = Len(private'[t])
        BY <4>1, <4>2, FoundBy
      <4>4. Found' = FoundIn(private')
        BY DEF Found, FoundIn
      <4> QED BY <3>2, <4>1, <4>3, <4>4
    <3>6. Cardinality(armed') = Cardinality(armed) - Cardinality(ReadyTimers)
          /\ Cardinality(armed') \in Nat /\ Cardinality(ReadyTimers) \in Nat
      <4>1. IsFiniteSet(armed) /\ armed \cap ReadyTimers = ReadyTimers
        BY <1>0, <3>2, CoroutineSets
      <4> DEFINE T == ReadyTimers
      <4> HIDE DEF T
      <4>a. Cardinality(armed \ T) = Cardinality(armed) - Cardinality(armed \cap T)
        BY <4>1, FS_Difference
      <4>2. Cardinality(armed') = Cardinality(armed) - Cardinality(ReadyTimers)
        BY <3>1, <4>1, <4>a DEF T
      <4>3. ReadyTimers \in SUBSET Coroutines /\ armed' \in SUBSET Coroutines
        BY <1>0, <3>1, <3>2
      <4> QED BY <1>0, <4>2, <4>3, CoroutineSets
    <3>7. Running' = Running /\ Queued(queue)' = Queued(queue)
      BY <1>0, <3>1 DEF Running, Queued
    <3> QED BY <1>b, <2>0, <3>1, <3>4, <3>5, <3>6, <3>7 DEF Balance
  <2>8. CASE TaskCleanup(t)
    <3>1. /\ UNCHANGED <<work, armed>> /\ private' = [private EXCEPT ![t] = << >>]
          /\ queue' = Append(queue \o private[t], TaskOp)
          /\ pc[t] = "cleanup" /\ pc' = [pc EXCEPT ![t] = "loop"]
      BY <2>8 DEF TaskCleanup, At, reactorVars
    <3>2. \A u \in Threads \ {t} : private[u] = << >>
      BY <3>1 DEF ReactorInv, Reacts
    <3>3. Cardinality(Found) = Len(private[t])
      <4>1. Len(private[t]) <= NumCoroutines
        BY <1>0, FewFound DEF TokenInv
      <4>2. Found = FoundIn(private)
        BY DEF Found, FoundIn
      <4> QED BY <1>0, <3>2, <4>1, <4>2, FoundBy
    <3>4. Cardinality(Found') = 0
      <4>1. private' \in [Threads -> Seq(Resumes)] /\ \A u \in Threads : private'[u] = << >>
        BY <1>0, <3>1, <3>2
      <4>2. FoundIn(private') = {} /\ Found' = FoundIn(private')
        BY <4>1, FoundNone DEF Found, FoundIn
      <4> QED BY <4>2, FS_EmptySet
    <3>5. Queued(queue') = Queued(queue) + Len(private[t])
      <4>1. queue \o private[t] \in Seq(Ops) /\ Queued(queue \o private[t]) = Queued(queue) + Len(private[t])
        BY <1>0, QueuedConcat
      <4>2. TaskOp \in Ops
        BY OpFacts
      <4> QED BY <3>1, <4>1, <4>2, QueuedAppend
    <3>6. Running' = Running /\ Queued(queue)' = Queued(queue')
      BY <1>0, <3>1 DEF Running, Queued
    <3>7. /\ work' = work /\ Cardinality(held') = Cardinality(held)
          /\ Cardinality(armed') = Cardinality(armed)
      BY <2>0, <3>1
    <3>8. Queued(queue)' = Queued(queue) + Cardinality(Found)
      BY <3>3, <3>5, <3>6
    <3>9. work = OwnWork + Cardinality(held) + Queued(queue) + Cardinality(Found)
                   + Cardinality(Running) + Cardinality(armed) + PostWork
      BY <1>b DEF Balance
    <3> QED BY <1>b, <2>0, <3>4, <3>6, <3>7, <3>8, <3>9 DEF Balance
  <2> QED BY <1>5, <2>1, <2>2, <2>3, <2>4, <2>5, <2>6, <2>7, <2>8 DEF ThreadWork
<1>6. ASSUME NEW t \in Threads, CoroutineStep(t) \/ ReactorFails(t) PROVE Balance'
  <2> DEFINE self == op[t].of
  <2>1. CASE UseService(t) \/ Register(t) \/ ExpiresAfter(t) \/ Deliver(t) \/ ReactorFails(t)
    <3>1. UNCHANGED <<work, queue, private, armed, main, guard, held>>
      BY <2>1 DEF UseService, Register, ExpiresAfter, Deliver, ReactorFails, schedulerVars, reactorVars,
                  poolVars, mainVars, coVars
    <3>2. \A u \in Threads : pc'[u] \in RunStates <=> pc[u] \in RunStates
      BY <1>0, <2>1 DEF UseService, Register, ExpiresAfter, Deliver, ReactorFails, Goes, At,
                        RunStates, Tokens, Fresh
    <3> QED BY <1>b, <3>1, <3>2, BalanceFrame
  <2>2. CASE InitTask(t)
    <3>1. /\ UNCHANGED <<work, private, armed, main, guard, held>>
          /\ queue' = queue \/ queue' = Append(queue, TaskOp)
          /\ \A u \in Threads : pc'[u] \in RunStates <=> pc[u] \in RunStates
      BY <1>0, <2>2 DEF InitTask, Goes, At, poolVars, mainVars, coVars, RunStates, Tokens, Fresh
    <3>2. Queued(queue') = Queued(queue) /\ Queued(queue)' = Queued(queue')
      <4>1. TaskOp \in Ops
        BY OpFacts
      <4> QED BY <1>0, <3>1, <4>1, QueuedAppend DEF Queued
    <3>3. Found' = Found /\ Running' = Running /\ OwnWork' = OwnWork /\ PostWork' = PostWork
      BY <3>1 DEF Found, Running, RunStates, Tokens, Fresh, OwnWork, PostWork
    <3> QED BY <1>b, <3>1, <3>2, <3>3 DEF Balance
  <2>3. CASE AsyncWait(t)
    <3>1. /\ UNCHANGED <<queue, private, main, guard, held>> /\ work' = work + 1
          /\ armed' = armed \union {self} /\ pc[t] = "arm"
          /\ \A u \in Threads : pc'[u] \in RunStates <=> pc[u] \in RunStates
      BY <1>0, <2>3 DEF AsyncWait, ScheduleTimer, Self, Goes, At, poolVars, mainVars, coVars,
                        RunStates, Tokens, Fresh
    <3>2. self \in Coroutines /\ self \notin armed
      BY <3>1, RunsAlone DEF Tokens
    <3>3. Cardinality(armed') = Cardinality(armed) + 1
      BY <1>0, <3>1, <3>2, CoroutineSets
    <3>4. Found' = Found /\ Running' = Running /\ OwnWork' = OwnWork /\ PostWork' = PostWork
          /\ Queued(queue)' = Queued(queue)
      BY <3>1 DEF Found, Running, RunStates, Tokens, Fresh, OwnWork, PostWork, Queued
    <3> QED BY <1>b, <3>1, <3>3, <3>4 DEF Balance
  <2>4. CASE ReleaseFrame(t)
    <3>1. /\ UNCHANGED <<queue, private, armed, main, guard>> /\ work' = work - 1
          /\ held' = held \ {self} /\ pc[t] = "release"
          /\ \A u \in Threads : pc'[u] \in RunStates <=> pc[u] \in RunStates
      BY <1>0, <2>4 DEF ReleaseFrame, WorkFinished, Self, At, reactorVars, mainVars,
                        RunStates, Tokens, Fresh
    <3>2. self \in Coroutines /\ self \in held
      BY <3>1, RunsAlone DEF Tokens
    <3> HIDE DEF self
    <3>3. Cardinality(held') = Cardinality(held) - 1
      BY <1>0, <3>1, <3>2, CoroutineSets
    <3>4. Found' = Found /\ Running' = Running /\ OwnWork' = OwnWork /\ PostWork' = PostWork
          /\ Queued(queue)' = Queued(queue)
      BY <3>1 DEF Found, Running, RunStates, Tokens, Fresh, OwnWork, PostWork, Queued
    <3> QED BY <1>b, <3>1, <3>3, <3>4 DEF Balance
  <2> QED BY <1>6, <2>1, <2>2, <2>3, <2>4 DEF CoroutineStep
<1> QED BY <1>2, <1>3, <1>4, <1>5, <1>6, StepCases

\* What is over stays over.
LEMMA OverStays ==
  ASSUME Over, [Next]_vars
  PROVE  main' = main
<1>1. ASSUME CallerStep \/ ThreadFails PROVE FALSE
  BY <1>1 DEF CallerStep, Begin, CreateThread, ThreadFails, Spawn, Post, GetAll, GetThrows, ReleaseGuard,
              Stop, Join, Caller, Over
<1>2. ASSUME NEW t \in Threads, CoroutineStep(t) \/ ReactorFails(t) PROVE main' = main
  BY <1>2 DEF CoroutineStep, UseService, InitTask, Register, ExpiresAfter, AsyncWait, Deliver, ReleaseFrame,
              ReactorFails, poolVars, mainVars
<1>3. UNCHANGED vars \/ UNCHANGED poolVars => main' = main
  BY DEF vars, poolVars, mainVars
<1> QED BY <1>1, <1>2, <1>3, StepCases

LEMMA WorkStep ==
  ASSUME TypeInv, MutexInv, CallerInv, ReactorInv, ProgressInv, TimerInv, TokenInv, WorkCounted,
         [Next]_vars
  PROVE  WorkCounted'
<1>1. TypeOK'
  BY TypeStep DEF TypeInv
<1>2. ~Over' => Balance'
  BY BalanceStep, OverStays DEF Over
<1>3. Balance' => (work = (IF guard THEN 1 ELSE 0) + Cardinality(held) + Queued(queue)
                   + Cardinality(Found) + Cardinality(Running) + Cardinality(armed)
                   + (IF main = "post" THEN 1 ELSE 0))'
  BY DEF Balance, OwnWork, PostWork
<1> QED BY <1>1, <1>2, <1>3 DEF WorkCounted

-----------------------------------------------------------------------------
(* The stop.                                                               *)

\* Once the last work is released, there is none any more.
LEMMA NoMoreWork ==
  ASSUME TypeInv, MutexInv, CallerInv, WorkCounted, [Next]_vars,
         work = 0, main # "begin", ~Over
  PROVE  work' = 0 \/ Over'
<1>0. ~guard /\ \A t \in Threads : pc[t] \notin RunStates
  BY WorkFacts
<1>1. UNCHANGED vars \/ (Tick /\ UNCHANGED poolVars) => work' = work
  BY DEF vars, asioVars, schedulerVars, Tick
<1>2. ASSUME CallerStep \/ ThreadFails PROVE work' = work \/ Over'
  <2>1. main \notin Guarded
    BY <1>0 DEF CallerInv
  <2>2. ~(Begin \/ Spawn \/ ReleaseGuard)
    BY <2>1 DEF Begin, Spawn, ReleaseGuard, Caller, Guarded
  <2>3. Join => Over'
    BY DEF Join, Caller, Over
  <2> QED BY <1>2, <2>2, <2>3 DEF CallerStep, CreateThread, ThreadFails, Post, GetAll, GetThrows, Stop,
                              asioVars, schedulerVars
<1>3. ASSUME NEW a, Signal(a) PROVE work' = work
  BY <1>3 DEF Signal, schedulerVars
<1>4. ASSUME NEW t \in Threads, ThreadWork(t) PROVE work' = work
  <2>1. ~Finish(t)
    BY <1>0 DEF Finish, At, RunStates
  <2> QED BY <1>4, <2>1 DEF ThreadWork, Enter, Lock, StopBy, Return, TakeTask, TakeHandler, Sleep, EpollWait,
       EpollInterrupted, EpollReturns, CheckTimers, TaskCleanup, Awake, SpuriousWakeup, schedulerVars
<1>5. ASSUME NEW t \in Threads, CoroutineStep(t) \/ ReactorFails(t) PROVE FALSE
  BY <1>0, <1>5 DEF CoroutineStep, UseService, InitTask, Register, ExpiresAfter, AsyncWait, Deliver,
       ReleaseFrame, ReactorFails, Goes, At, RunStates, Tokens, Fresh
<1> QED BY <1>1, <1>2, <1>3, <1>4, <1>5, StepCases

LEMMA StopStep ==
  ASSUME TypeInv, MutexInv, CallerInv, TokenInv, WorkCounted, StopInv, [Next]_vars
  PROVE  StopInv'
<1>0. /\ pc \in [Threads -> PCs] /\ program \in {"hello1", "hello2"} /\ work \in Nat
      /\ main \in Guarded \union Released \union {"threw", "terminated"}
  BY DEF TypeInv, TypeOK
<1>i. /\ \A t \in Threads :
           /\ pc[t] \in {"stopOut", "stopThenLock"} => work = 0
           /\ pc[t] # "stopThenFinish"
           /\ pc[t] = "exited" => stopped
      /\ main = "stopThenJoin" => work = 0
      /\ main = "stop" => program = "hello2"
      /\ main \in {"reset"} => program = "hello1"
      /\ stopped /\ ~Over =>
           IF program = "hello1" THEN work = 0 ELSE main \in {"joinWork", "stopThenJoin", "join"}
  BY DEF StopInv
<1>w. work = 0 /\ main # "begin" /\ ~Over => work' = 0 \/ Over'
  BY NoMoreWork
<1>2. CASE UNCHANGED vars \/ (Tick /\ UNCHANGED poolVars)
  <2>1. UNCHANGED <<pc, work, stopped, main, program>>
    BY <1>2 DEF vars, asioVars, Tick, schedulerVars, threadVars, poolVars, mainVars, inputs
  <2> QED BY <1>i, <2>1 DEF StopInv, Over
<1>3. CASE CallerStep \/ ThreadFails
  <2>1. CASE Begin
    BY <1>0, <1>i, <2>1 DEF Begin, Caller, CallerInv, StopInv, threadVars, inputs
  <2>2. CASE CreateThread
    BY <1>0, <1>i, <2>2 DEF CreateThread, Caller, StopInv, Over, schedulerVars, inputs
  <2>3. CASE Spawn
    <3>1. work # 0
      BY <2>3, WorkFacts DEF Spawn, Caller, CallerInv, Guarded, Over
    <3> QED BY <1>0, <1>i, <2>3, <3>1 DEF Spawn, Caller, StopInv, Over, threadVars, inputs
  <2>4. CASE Post \/ GetAll \/ GetThrows \/ ThreadFails
    <3>1. UNCHANGED <<pc, work, stopped, program>>
      BY <2>4 DEF Post, GetAll, GetThrows, ThreadFails, asioVars, schedulerVars, threadVars, inputs
    <3>2. /\ main \in {"post", "get", "threads"}
          /\ main' \in {"get", "spawn", "threw", "terminated", "joinForever",
                        IF program = "hello1" THEN "reset" ELSE "stop"}
      BY <2>4 DEF Post, GetAll, GetThrows, ThreadFails, Caller
    <3> QED BY <1>0, <1>i, <3>1, <3>2 DEF StopInv, Over
  <2>5. CASE ReleaseGuard
    <3>1. guard /\ ~Over /\ main \in {"reset", "joinWork"}
      BY <2>5 DEF ReleaseGuard, Over, CallerInv, Guarded
    <3>2. work > 0
      BY <3>1, WorkFacts
    <3> QED BY <1>0, <1>i, <2>5, <3>1, <3>2 DEF ReleaseGuard, Caller, StopInv, Over, threadVars, inputs
  <2>6. CASE Stop
    BY <1>0, <1>i, <2>6 DEF Stop, StopAllThreads, Caller, StopInv, Over, threadVars, inputs
  <2>7. CASE Join
    BY <1>0, <1>i, <2>7 DEF Join, Caller, StopInv, Over, threadVars, inputs
  <2> QED BY <1>3, <2>1, <2>2, <2>3, <2>4, <2>5, <2>6, <2>7 DEF CallerStep
<1>4. ASSUME NEW a, Signal(a), UNCHANGED poolVars PROVE StopInv'
  <2>1. UNCHANGED <<pc, work, stopped, main, program>>
    BY <1>4 DEF Signal, schedulerVars, threadVars, poolVars, mainVars, inputs
  <2> QED BY <1>i, <2>1 DEF StopInv, Over
<1>5. ASSUME NEW t \in Threads, Alive, ThreadWork(t), UNCHANGED poolVars PROVE StopInv'
  <2>0. UNCHANGED <<main, program>>
    BY <1>5 DEF poolVars, mainVars, inputs
  <2>a. ~Over /\ main # "begin"
    BY <1>5, ThreadIsAlive, RunsBeforeTheEnd
  <2>1. CASE StopBy(t)
    <3>1. work = 0 /\ pc[t] \in {"stopOut", "stopThenLock"}
      BY <1>i, <2>1 DEF StopBy
    <3>2. ~guard
      BY <2>a, <3>1, WorkFacts
    <3>3. main \in {"stopThenJoin", "join"}
      BY <1>0, <2>a, <3>2 DEF CallerInv, Over, Released
    <3>4. stopped' /\ work' = work /\ \A u \in Threads : pc'[u] \in {pc[u], "exited", "lock"}
      BY <1>0, <2>1, <3>1 DEF StopBy, StopAllThreads
    <3> QED BY <1>i, <2>0, <3>1, <3>3, <3>4 DEF StopInv
  <2>2. CASE Enter(t)
    <3>1. UNCHANGED <<work, stopped>> /\ \A u \in Threads : pc'[u] \in {pc[u], "lock"} \/ (pc'[u] = "stopOut" /\ work = 0)
      BY <1>0, <2>2 DEF Enter, schedulerVars
    <3> QED BY <1>i, <2>0, <3>1 DEF StopInv, Over
  <2>3. CASE Return(t)
    <3>1. UNCHANGED <<work, stopped>> /\ stopped /\ \A u \in Threads : pc'[u] \in {pc[u], "exited"}
      BY <1>0, <2>3 DEF Return
    <3> QED BY <1>i, <2>0, <3>1 DEF StopInv, Over
  <2>4. CASE Finish(t)
    <3>1. pc[t] \in RunStates
      BY <2>4 DEF Finish, At, RunStates
    <3>2. work > 0
      BY <2>a, <3>1, WorkFacts
    <3>3. /\ stopped' = stopped /\ work' = work - 1
          /\ \A u \in Threads : pc'[u] \in {pc[u], "lock"} \/ (pc'[u] = "stopThenLock" /\ work = 1)
      BY <1>0, <2>4 DEF Finish, WorkFinished
    <3> QED BY <1>0, <1>i, <2>0, <3>2, <3>3 DEF StopInv, Over
  <2>5. CASE ~(StopBy(t) \/ Enter(t) \/ Return(t) \/ Finish(t))
    <3>1. UNCHANGED <<work, stopped>>
      BY <1>5, <2>5 DEF ThreadWork, Lock, TakeTask, TakeHandler, Sleep, EpollWait, EpollInterrupted, EpollReturns,
           CheckTimers, TaskCleanup, Awake, SpuriousWakeup, schedulerVars
    <3>2. \A u \in Threads : pc'[u] \in {pc[u], "loop", "waiting", "epoll", "service", "deliver", "timers", "cleanup"}
      BY <1>0, <1>5, <2>5 DEF ThreadWork, Lock, TakeTask, TakeHandler, Sleep, EpollWait, EpollInterrupted,
           EpollReturns, CheckTimers, TaskCleanup, Awake, SpuriousWakeup
    <3> QED BY <1>i, <2>0, <3>1, <3>2 DEF StopInv, Over
  <2> QED BY <2>1, <2>2, <2>3, <2>4, <2>5
<1>6. ASSUME NEW t \in Threads, Alive, CoroutineStep(t) \/ ReactorFails(t) PROVE StopInv'
  <2>1. UNCHANGED <<main, program, stopped>> /\ pc[t] \in Tokens
    BY <1>6 DEF CoroutineStep, UseService, InitTask, Register, ExpiresAfter, AsyncWait, Deliver, ReleaseFrame,
         ReactorFails, Goes, At, schedulerVars, poolVars, mainVars, inputs, Tokens, Fresh
  <2>2. ~Over /\ pc[t] \in RunStates
    <3>1. pc[t] \notin {"none", "exited"}
      BY <2>1 DEF Tokens, Fresh
    <3> QED BY <1>6, <2>1, <3>1, RunsBeforeTheEnd DEF RunStates
  <2>3. work > 1
    <3>1. op[t].of \in held
      BY <2>1, RunsAlone
    <3> QED BY <2>2, <3>1, WorkFacts
  <2>4. \A u \in Threads : pc'[u] \in {pc[u], "expires", "construct", "register", "release", "arm", "finish"}
    BY <1>0, <1>6, <2>3 DEF CoroutineStep, UseService, InitTask, Register, ExpiresAfter, AsyncWait, Deliver,
         ReleaseFrame, ReactorFails, WorkFinished, Goes
  <2> QED BY <1>0, <1>i, <2>1, <2>2, <2>3, <2>4 DEF StopInv
<1> QED BY <1>2, <1>3, <1>4, <1>5, <1>6, StepCases

-----------------------------------------------------------------------------
(* The wake-ups.                                                           *)

Idle == {"none", "exited", "waiting", "epoll"}

\* A thread that takes a step goes on, or leaves nothing behind that it would have to.
LEMMA BusyAfter ==
  ASSUME TypeInv, MutexInv, CallerInv, EventInv, NEW t \in Threads, ThreadWork(t)
  PROVE  \/ pc'[t] \notin Idle
         \/ queue' = << >> \/ stopped'
         \/ t \in woken'
         \/ pc'[t] = "epoll" /\ ~blocks'[t]
<1>0. pc \in [Threads -> PCs] /\ blocks \in [Threads -> BOOLEAN]
  BY DEF TypeInv
<1> USE DEF Idle
<1>1. CASE Enter(t) \/ Lock(t) \/ StopBy(t) \/ Return(t) \/ Sleep(t) \/ Finish(t)
  BY <1>0, <1>1 DEF Enter, Lock, StopBy, StopAllThreads, Return, Sleep, Finish, WorkFinished
<1>2. CASE TakeTask(t)
  BY <1>0, <1>2 DEF TakeTask, More
<1>3. CASE TakeHandler(t) \/ CheckTimers(t) \/ TaskCleanup(t)
  BY <1>0, <1>3 DEF TakeHandler, CheckTimers, TaskCleanup
<1>4. CASE EpollWait(t) \/ EpollInterrupted(t)
  BY <1>0, <1>4 DEF EpollWait, EpollInterrupted, EpollReturns
<1>5. CASE Awake(t)
  <2>1. CASE signalled
    BY <1>0, <1>5, <2>1 DEF Awake
  <2>2. CASE ~signalled
    <3>1. mutex = Free /\ queue' = queue /\ pc[t] = "waiting"
      BY <1>5 DEF Awake, MutexInv
    <3>2. oneThread => \A u \in Threads : pc[u] = "none" \/ pc[u] = "waiting"
      BY <3>1 DEF CallerInv
    <3> QED BY <2>2, <3>1, <3>2 DEF EventInv
  <2> QED BY <2>1, <2>2
<1>6. CASE SpuriousWakeup(t)
  BY <1>6 DEF SpuriousWakeup
<1> QED BY <1>1, <1>2, <1>3, <1>4, <1>5, <1>6 DEF ThreadWork

\* What only wakes threads, lets time pass or interrupts the reactor takes no thread off its way.
LEMMA WayFrame ==
  ASSUME TypeInv, OnTheWay, now' \in Nat, now <= now', UNCHANGED <<pc, blocks, alarm>>,
         woken \subseteq woken', interrupter => interrupter',
         waiters' = waiters \/ woken' # {}, woken' \subseteq Threads,
         signalling # {} /\ waiters # {} => signalling' # {} \/ woken' # {}
  PROVE  OnTheWay'
<1>1. AlarmDue => AlarmDue'
  BY DEF AlarmDue, TypeInv, TypeOK
<1>2. ASSUME woken' # {} PROVE OnTheWay'
  BY <1>2 DEF OnTheWay
<1>3. PICK t \in Threads :
        \/ pc[t] \notin {"none", "exited", "waiting", "epoll"}
        \/ t \in woken
        \/ t \in waiters /\ signalling # {}
        \/ pc[t] = "epoll" /\ (~blocks[t] \/ interrupter \/ AlarmDue)
  BY DEF OnTheWay
<1>4. CASE t \in waiters /\ signalling # {}
  BY <1>2, <1>4 DEF OnTheWay
<1>5. CASE ~(t \in waiters /\ signalling # {})
  BY <1>1, <1>3, <1>5 DEF OnTheWay
<1> QED BY <1>4, <1>5

LEMMA WakeStep ==
  ASSUME TypeInv, TypeInv', MutexInv, CallerInv, EventInv, ReactorInv, StopInv, WakeInv, [Next]_vars
  PROVE  WakeInv'
<1>0. /\ pc \in [Threads -> PCs] /\ now \in Nat /\ now' \in Nat /\ woken' \subseteq Threads
      /\ waiters \subseteq Threads /\ woken \subseteq Threads /\ queue \in Seq(Ops)
  <2>1. pc \in [Threads -> PCs] /\ now \in Nat
        /\ waiters \subseteq Threads /\ woken \subseteq Threads /\ queue \in Seq(Ops)
    BY CoroutinesAssumption, TypeParts DEF ThreadType, ReactorType, EventType, SchedulerType
  <2>2. woken' \subseteq Threads /\ now' \in Nat
    BY CoroutinesAssumption DEF TypeInv, TypeOK
  <2> QED BY <2>1, <2>2
<1>n. now <= now
  BY <1>0
<1>1. ASSUME UNCHANGED <<queue, stopped, created, pc, blocks, waiters, woken, signalling, interrupter, alarm, now>>,
             Over => Over'
      PROVE  WakeInv'
  <2>1. OnTheWay' <=> OnTheWay
    BY <1>1 DEF OnTheWay, AlarmDue
  <2> QED BY <1>1, <2>1 DEF WakeInv
<1>2. CASE UNCHANGED vars
  BY <1>1, <1>2 DEF vars, asioVars, schedulerVars, eventVars, reactorVars, threadVars, poolVars, mainVars, Over
<1>t. CASE Tick /\ UNCHANGED poolVars
  <2>1. /\ UNCHANGED <<queue, stopped, created, main, pc, blocks, waiters, woken, signalling, interrupter, alarm>>
        /\ now <= now'
    BY <1>0, <1>t DEF Tick, schedulerVars, eventVars, threadVars, poolVars, mainVars
  <2>2. OnTheWay => OnTheWay'
    BY <1>0, <2>1, WayFrame
  <2> QED BY <2>1, <2>2 DEF WakeInv, Over
<1>3. CASE CallerStep \/ ThreadFails
  <2>1. CASE Begin \/ Spawn \/ GetAll \/ GetThrows \/ ReleaseGuard \/ ThreadFails
    <3>1. UNCHANGED <<queue, stopped, created, pc, blocks, waiters, woken, signalling, interrupter, alarm, now>>
      BY <2>1 DEF Begin, Spawn, GetAll, GetThrows, ReleaseGuard, ThreadFails, asioVars, schedulerVars, eventVars,
           reactorVars, threadVars
    <3>2. ~Over
      BY <2>1 DEF Begin, Spawn, GetAll, GetThrows, ReleaseGuard, ThreadFails, Caller, Over
    <3> QED BY <1>1, <3>1, <3>2
  <2>2. CASE CreateThread
    <3>1. \E t \in Threads : pc'[t] = "entry"
      BY <1>0, <2>2 DEF CreateThread
    <3> QED BY <3>1 DEF WakeInv, OnTheWay
  <2>3. CASE Post
    <3>1. /\ UNCHANGED <<created, stopped, pc, blocks, waiters, woken>> /\ main = "post"
      BY <2>3 DEF Post, Caller, WakeOneAndUnlock, SetAndSignal, threadVars
    <3>2. CASE HaveWaiters
      <4>1. signalling' # {}
        BY <2>3, <3>2 DEF Post, WakeOneAndUnlock, SetAndSignal
      <4> QED BY <1>0, <3>1, <3>2, <4>1 DEF WakeInv, OnTheWay, HaveWaiters
    <3>3. CASE ~HaveWaiters
      <4>1. SUFFICES ASSUME created > 0, ~stopped PROVE OnTheWay'
        BY <3>1 DEF WakeInv
      <4>2. PICK u \in Threads : pc[u] # "none"
        BY <4>1 DEF CallerInv
      <4>3. pc[u] # "exited" /\ pc[u] # "waiting"
        BY <3>3, <4>1 DEF StopInv, MutexInv, HaveWaiters
      <4>4. CASE pc[u] = "epoll"
        <5>1. task /\ (taskInterrupted => ~blocks[u] \/ interrupter)
          BY <4>4 DEF ReactorInv, Reacts
        <5>2. ~blocks[u] \/ interrupter'
          BY <2>3, <3>3, <5>1 DEF Post, WakeOneAndUnlock, InterruptTask
        <5> QED BY <3>1, <4>4, <5>2 DEF OnTheWay
      <4>5. CASE pc[u] # "epoll"
        BY <3>1, <4>2, <4>3, <4>5 DEF OnTheWay
      <4> QED BY <4>4, <4>5
    <3> QED BY <3>2, <3>3
  <2>4. CASE Stop
    BY <2>4 DEF Stop, StopAllThreads, WakeInv
  <2>5. CASE Join
    BY <2>5 DEF Join, WakeInv
  <2> QED BY <1>3, <2>1, <2>2, <2>3, <2>4, <2>5 DEF CallerStep
<1>4. ASSUME NEW a, Signal(a), UNCHANGED poolVars PROVE WakeInv'
  <2>1. UNCHANGED <<queue, stopped, created, main, pc, blocks, interrupter, alarm, now>>
    BY <1>4 DEF Signal, schedulerVars, reactorVars, threadVars, poolVars, mainVars
  <2>2. /\ woken \subseteq woken' /\ (waiters' = waiters \/ woken' # {})
        /\ (waiters # {} => woken' # {})
    BY <1>4 DEF Signal
  <2>3. OnTheWay => OnTheWay'
    BY <1>0, <1>n, <2>1, <2>2, WayFrame
  <2> QED BY <2>1, <2>3 DEF WakeInv, Over
<1>5. ASSUME NEW t \in Threads, ThreadWork(t) PROVE WakeInv'
  <2>1. (pc'[t] \notin Idle \/ t \in woken' \/ (pc'[t] = "epoll" /\ ~blocks'[t])) => OnTheWay'
    BY DEF OnTheWay, Idle
  <2> QED BY <1>5, <2>1, BusyAfter DEF WakeInv
<1>6. ASSUME NEW t \in Threads, CoroutineStep(t) \/ ReactorFails(t) PROVE WakeInv'
  <2>1. pc'[t] \notin Idle
    BY <1>0, <1>6 DEF CoroutineStep, UseService, InitTask, Register, ExpiresAfter, AsyncWait, Deliver, ReleaseFrame,
         ReactorFails, WorkFinished, Goes, Idle
  <2> QED BY <2>1 DEF WakeInv, OnTheWay, Idle
<1> QED BY <1>2, <1>t, <1>3, <1>4, <1>5, <1>6, StepCases

-----------------------------------------------------------------------------
(* The theorems.                                                           *)

LEMMA InitInv == Init => IInv
<1> SUFFICES ASSUME Init PROVE IInv
  OBVIOUS
<1> USE DEF Init, AsioInit
<1>0. NumCoroutines \in Nat \ {0} /\ Coroutines = 1 .. NumCoroutines /\ Cardinality(Threads) \in Nat
      /\ MaxSpurious \in Nat
  BY CoroutinesAssumption, ActorsAssumption, FS_CardinalityType
<1>1. TypeInv
  <2>1. TaskOp \in Ops
    BY OpFacts
  <2>2. SchedulerType
    <3>1. << >> \in Seq(Ops) /\ oneThread \in BOOLEAN
      OBVIOUS
    <3> QED BY <3>1 DEF SchedulerType
  <2>3. EventType
    BY DEF EventType
  <2>4. ReactorType
    BY <1>0 DEF ReactorType
  <2>5. ThreadType
    <3>1. << >> \in Seq(Resumes) /\ "none" \in PCs
      BY DEF PCs
    <3>2. spurious \in 0 .. MaxSpurious
      BY <1>0
    <3> QED BY <2>1, <3>1, <3>2 DEF ThreadType
  <2>6. CallerType
    <3>1. cores \in 0 .. Cardinality(Threads) /\ created \in 0 .. cores
      BY <1>0
    <3>2. main \in Released
      BY DEF Released
    <3>3. spawned \in 0 .. NumCoroutines
      <4>1. spawned = 0
        OBVIOUS
      <4> QED BY <1>0, <4>1
    <3>5. guard \in BOOLEAN /\ held \subseteq Coroutines /\ service \in BOOLEAN
      OBVIOUS
    <3>4. result \in [Coroutines -> {"none", "value", "exception"}] /\ program \in {"hello1", "hello2"}
      OBVIOUS
    <3> QED BY <3>1, <3>2, <3>3, <3>4, <3>5 DEF CallerType
  <2> QED BY <2>2, <2>3, <2>4, <2>5, <2>6
          DEF TypeInv, TypeOK, SchedulerType, EventType, ReactorType, ThreadType, CallerType, Ops
<1>2. CallerInv /\ MutexInv /\ EventInv
  <2>1. \A t \in Threads : pc[t] = "none" /\ t # Free
    BY ActorsAssumption
  <2>2. main = "begin" /\ main \notin Guarded
    BY DEF Guarded
  <2>3. oneThread => cores = 1
    OBVIOUS
  <2>4. CallerInv
    BY <1>0, <2>1, <2>2, <2>3 DEF CallerInv
  <2>5. MutexInv /\ EventInv
    BY <2>1 DEF MutexInv, EventInv
  <2> QED BY <2>4, <2>5
<1>3. ReactorInv
  BY InEmpty DEF ReactorInv, Reacts, Once, In
<1>4. TokenInv
  BY InEmpty, DistinctEmpty DEF TokenInv, InOnePlace, Runs, Tokens, Fresh
<1>5. ProgressInv
  <2>1. \A c \in Coroutines : New(c)
    BY DEF New
  <2>2. \A t \in Threads : private[t] = << >> /\ pc[t] = "none"
    OBVIOUS
  <2>3. DOMAIN << >> = {}
    OBVIOUS
  <2> QED BY <2>1, <2>2, <2>3, InEmpty DEF ProgressInv, Fresh
<1>6. TimerInv
  BY <1>0, CoroutineSets DEF TimerInv, Latest
<1>7. WorkCounted
  <2>1. Queued(queue) = 0
    <3>1. {i \in DOMAIN queue : queue[i] # TaskOp} = {}
      OBVIOUS
    <3> QED BY <3>1, FS_EmptySet DEF Queued
  <2>2. Cardinality(Found) = 0
    <3>1. private \in [Threads -> Seq(Resumes)] /\ \A t \in Threads : private[t] = << >>
      OBVIOUS
    <3>2. Found = FoundIn(private)
      BY DEF Found, FoundIn
    <3> QED BY <3>1, <3>2, FoundNone, FS_EmptySet
  <2>3. Running = {}
    BY DEF Running
  <2>4. Cardinality(Running) = 0 /\ Cardinality(held) = 0 /\ Cardinality(armed) = 0
    BY <2>3, FS_EmptySet
  <2> QED BY <1>1, <2>1, <2>2, <2>4 DEF WorkCounted, TypeInv
<1>8. StopInv /\ WakeInv
  BY DEF StopInv, WakeInv, Over
<1> QED BY <1>1, <1>2, <1>3, <1>4, <1>5, <1>6, <1>7, <1>8 DEF IInv

LEMMA NextInv == IInv /\ [Next]_vars => IInv'
<1> SUFFICES ASSUME IInv, [Next]_vars PROVE IInv'
  OBVIOUS
<1>1. /\ TypeInv /\ CallerInv /\ MutexInv /\ EventInv /\ ReactorInv
      /\ TokenInv /\ ProgressInv /\ TimerInv /\ WorkCounted /\ StopInv /\ WakeInv
  BY DEF IInv
<1>2. TypeInv' /\ CallerInv' /\ MutexInv' /\ EventInv'
  BY <1>1, TypeStep, CallerInvStep, MutexStep, EventStep
<1>3. ReactorInv' /\ TokenInv' /\ ProgressInv' /\ TimerInv'
  BY <1>1, ReactorStep, TokenStep, ProgressStep, TimerStep
<1>4. WorkCounted' /\ StopInv' /\ WakeInv'
  BY <1>1, <1>2, WorkStep, StopStep, WakeStep
<1> QED BY <1>2, <1>3, <1>4 DEF IInv

\* The inductive invariant holds of every behaviour of hello1 and of hello2.
THEOREM Invariant == Spec => []IInv
<1>1. Init => IInv
  BY InitInv
<1>2. IInv /\ [Next]_vars => IInv'
  BY NextInv
<1> QED BY <1>1, <1>2, PTL DEF Spec

\* Whatever the threads and the coroutines, outstanding_work_ is what is outstanding: the
\* guard, the frames, the operations queued, found or run, and the timers.
THEOREM WorkIsCounted == Spec => []WorkCounted
<1>1. IInv => WorkCounted
  BY DEF IInv
<1> QED BY <1>1, Invariant, PTL

\* While the program runs there is one reactor: queued once, or with one thread.
LEMMA OneReactorHolds ==
  ASSUME TypeInv, ReactorInv
  PROVE  OneReactor
<1> DEFINE Q == {i \in DOMAIN queue : queue[i] = TaskOp}
<1>0. DOMAIN queue = 1 .. Len(queue) /\ Len(queue) \in Nat
  BY SeqFacts DEF TypeInv, TypeOK
<1>1. \A t \in Threads : t \in InReactor <=> Reacts(t)
  BY DEF InReactor, Reacts
<1>2. InReactor \subseteq Threads
  BY DEF InReactor
<1>3. Q = {} <=> ~In(queue, TaskOp)
  BY DEF In
<1>4. Q # {} => \E i : Q = {i}
  BY DEF ReactorInv, Once
<1>5. InReactor # {} => \E t : InReactor = {t}
  BY <1>1, <1>2 DEF ReactorInv
<1>6. Cardinality(Q) = IF In(queue, TaskOp) THEN 1 ELSE 0
  BY <1>3, <1>4, FS_EmptySet, FS_Singleton
<1>7. Cardinality(InReactor) = IF InReactor = {} THEN 0 ELSE 1
  BY <1>5, FS_EmptySet, FS_Singleton
<1>8. ~Over => (task <=> In(queue, TaskOp) \/ InReactor # {}) /\ ~(In(queue, TaskOp) /\ InReactor # {})
  BY <1>1, <1>2 DEF ReactorInv
<1>9. TasksInQueue = Cardinality(Q)
  BY DEF TasksInQueue
<1> HIDE DEF Q
<1> QED BY <1>6, <1>7, <1>8, <1>9 DEF OneReactor

\* A thread is on its way to whatever is queued, and to every timer that has expired: the
\* reactor's operation is queued, or the thread that runs it will see the alarm.
LEMMA WakesUp ==
  ASSUME TypeInv, ReactorInv, TimerInv, ProgressInv, WakeInv
  PROVE  NoLostWakeup
<1>1. OneReactor
  BY OneReactorHolds
<1>2. ASSUME ~Over, created > 0, ~stopped, queue # << >> PROVE OnTheWay
  BY <1>2 DEF WakeInv
<1>3. ASSUME ~Over, created > 0, ~stopped, NEW c \in armed, deadline[c] <= now PROVE OnTheWay
  <2>1. alarm # 0 /\ alarm <= deadline[c]
    BY DEF TimerInv
  <2>2. AlarmDue
    <3>1. alarm \in Nat /\ now \in Nat /\ deadline[c] \in Nat
      BY CoroutinesAssumption DEF TypeInv, TypeOK
    <3> QED BY <1>3, <2>1, <3>1 DEF AlarmDue
  <2>3. CASE In(queue, TaskOp)
    <3>1. queue # << >>
      BY <2>3, InEmpty
    <3> QED BY <1>2, <1>3, <3>1
  <2>4. CASE ~In(queue, TaskOp)
    <3>1. PICK t \in Threads : pc[t] \in {"epoll", "timers", "cleanup"}
      BY <1>3, <2>4 DEF ReactorInv, Reacts
    <3> QED BY <2>2, <3>1 DEF OnTheWay
  <2> QED BY <2>3, <2>4
<1> QED BY <1>1, <1>2, <1>3 DEF NoLostWakeup

\* No wake-up is lost, for any pool: nothing is queued and no timer expired that no thread
\* is going to look at, and there is one reactor.
THEOREM NoWakeupIsLost == Spec => []NoLostWakeup
<1>1. IInv => NoLostWakeup
  BY WakesUp DEF IInv
<1> QED BY <1>1, Invariant, PTL

\* No pool is stopped, and no thread leaves run(), before the work is done.
THEOREM NothingStopsEarly == Spec => []NoEarlyStop
<1>1. IInv => NoEarlyStop
  <2> SUFFICES ASSUME IInv PROVE NoEarlyStop
    OBVIOUS
  <2>1. TypeInv /\ CallerInv /\ WorkCounted /\ StopInv
    BY DEF IInv
  <2>2. (\E t \in Threads : pc[t] = "exited") => stopped
    BY <2>1 DEF StopInv
  <2>3. ASSUME stopped, ~Over, program = "hello1"
        PROVE  ~guard /\ held = {} /\ armed = {} /\ Queued(queue) = 0
    <3>1. work = 0
      BY <2>1, <2>3 DEF StopInv
    <3> QED BY <2>1, <2>3, <3>1, WorkFacts
  <2>4. ASSUME stopped, ~Over, program # "hello1" PROVE main \in {"joinWork", "stopThenJoin", "join"}
    BY <2>1, <2>4 DEF StopInv
  <2> QED BY <2>2, <2>3, <2>4 DEF NoEarlyStop
<1> QED BY <1>1, Invariant, PTL

\* The steps that set a future.
LEMMA ResultFrame ==
  ASSUME [Next]_vars
  PROVE  result' = result \/ \E t \in Threads : Deliver(t) \/ ReactorFails(t)
<1>1. UNCHANGED vars \/ UNCHANGED poolVars => result' = result
  BY DEF vars, poolVars, coVars
<1>2. CallerStep \/ ThreadFails => result' = result
  BY DEF CallerStep, Begin, CreateThread, ThreadFails, Spawn, Post, GetAll, GetThrows, ReleaseGuard, Stop,
         Join, coVars
<1>3. ASSUME NEW t \in Threads, CoroutineStep(t), ~Deliver(t) PROVE result' = result
  BY <1>3 DEF CoroutineStep, UseService, InitTask, Register, ExpiresAfter, AsyncWait, ReleaseFrame, poolVars, coVars
<1> QED BY <1>1, <1>2, <1>3, StepCases

\* Each future is set once, and to its value only after the coroutine's second is over.
THEOREM SetOnceInTime == Spec => DeliveredOnceInTime
<1> DEFINE A == \A c \in Coroutines : result'[c] # result[c] =>
                  /\ result[c] = "none"
                  /\ result'[c] = "value" => deadline[c] \in 1 .. now
<1>1. IInv /\ [Next]_vars => [A]_vars
  <2> SUFFICES ASSUME IInv, [Next]_vars PROVE A
    OBVIOUS
  <2>1. TypeInv /\ TokenInv /\ ProgressInv
    BY DEF IInv
  <2>2. result \in [Coroutines -> {"none", "value", "exception"}]
    BY <2>1 DEF TypeInv, TypeOK
  <2>3. CASE result' = result
    BY <2>3
  <2>4. ASSUME NEW t \in Threads, Deliver(t) PROVE A
    <3>1. pc[t] = "deliver" /\ result' = [result EXCEPT ![op[t].of] = "value"]
      BY <2>4 DEF Deliver, Goes, At, Self
    <3>2. Expired(op[t].of)
      BY <2>1, <3>1 DEF ProgressInv
    <3> QED BY <2>2, <3>1, <3>2 DEF Expired
  <2>5. ASSUME NEW t \in Threads, ReactorFails(t) PROVE A
    <3>1. pc[t] = "construct" /\ result' = [result EXCEPT ![op[t].of] = "exception"]
      BY <2>5 DEF ReactorFails, Goes, At, Self
    <3>2. New(op[t].of)
      BY <2>1, <3>1 DEF ProgressInv, Fresh
    <3> QED BY <2>2, <3>1, <3>2 DEF New
  <2> QED BY <2>3, <2>4, <2>5, ResultFrame
<1> QED BY <1>1, Invariant, PTL DEF Spec, DeliveredOnceInTime
=============================================================================
