----------------------------- MODULE AsioPool -----------------------------
(***************************************************************************)
(* hello1 and hello2 of HelloKtorfit: two coroutines, each waiting for a   *)
(* timer of one second, are spawned on a pool of `cores` threads, and the  *)
(* caller waits for both results. hello1 builds the pool from an           *)
(* io_context, a work guard and std::threads, and ends it by releasing the *)
(* guard; hello2 uses asio::thread_pool, whose destructor stops it.        *)
(*                                                                         *)
(* A coroutine holds work of its own (spawn_work) from co_spawn until its  *)
(* frame is destroyed; the executor its timer's handler holds besides is   *)
(* left out, as it is never the last. hardware_concurrency() may be 0.     *)
(***************************************************************************)
EXTENDS AsioScheduler

CONSTANT NumCoroutines     \* the last of the coroutines, which are numbered from 1

ASSUME CoroutinesAssumption == NumCoroutines \in Nat \ {0} /\ Coroutines = 1 .. NumCoroutines

VARIABLES
  program,    \* "hello1" or "hello2"
  cores,      \* threads of the pool
  order,      \* the coroutine whose get() is evaluated first: unspecified in C++
  main,       \* where the caller is
  created,    \* threads created
  spawned,    \* coroutines spawned
  guard,      \* the caller's own work is not released
  held,       \* coroutines whose spawn_work is not released
  service,    \* the timer service is registered
  result      \* the futures: "none", "value" or "exception"

inputs == <<program, cores, order>>
mainVars == <<main, created, spawned, guard>>
coVars == <<held, service, result>>
poolVars == <<inputs, mainVars, coVars>>
vars == <<asioVars, poolVars>>

Init ==
  /\ AsioInit
  /\ program \in {"hello1", "hello2"}
  /\ cores \in 0 .. Cardinality(Threads)
  /\ order \in Coroutines
  \* config_from_concurrency_hint(num_threads == 1 ? 1 : 0), and -1 for an io_context
  /\ oneThread = (program = "hello2" /\ cores = 1)
  /\ main = "begin" /\ created = 0 /\ spawned = 0 /\ guard = FALSE
  /\ held = {} /\ service = FALSE
  /\ result = [c \in Coroutines |-> "none"]

-----------------------------------------------------------------------------
(* The caller.                                                             *)

Caller(from, to) == main = from /\ Main \notin signalling /\ main' = to

\* Mutant of Begin: the guard is forgotten.
BeginUnguarded ==
  /\ Caller("begin", "threads")
  /\ UNCHANGED <<asioVars, inputs, created, spawned, guard, coVars>>

\* make_work_guard, or work_started in thread_pool::start.
Begin ==
  /\ Caller("begin", "threads")
  /\ guard' = TRUE /\ work' = work + 1
  /\ UNCHANGED <<oneThread, queue, task, taskInterrupted, stopped, mutex, eventVars, reactorVars,
                 threadVars, inputs, created, spawned, coVars>>

CreateThread ==
  /\ Caller("threads", "threads")
  /\ created < cores
  /\ created' = created + 1
  /\ \E t \in Threads :
       /\ pc[t] = "none" /\ \A u \in Threads : u < t => pc[u] # "none"
       /\ pc' = [pc EXCEPT ![t] = "entry"]
  /\ UNCHANGED <<schedulerVars, eventVars, reactorVars, op, blocks, private, spurious,
                 inputs, spawned, guard, coVars>>

\* The system has no thread left. hello1's vector terminates the process if it holds one
\* that can be joined; the half-built pool of hello2 joins its threads, unstopped.
ThreadFails ==
  /\ created < cores
  /\ Caller("threads", IF created = 0 THEN "threw"
                       ELSE IF program = "hello1" THEN "terminated" ELSE "joinForever")
  /\ UNCHANGED <<asioVars, inputs, created, spawned, guard, coVars>>

\* co_spawn: the frame takes its work, and dispatch counts the operation ...
Spawn ==
  /\ Caller("threads", "post") \/ Caller("spawn", "post")
  /\ created = cores
  /\ spawned' = spawned + 1
  /\ held' = held \union {spawned + 1}
  /\ work' = work + 2
  /\ UNCHANGED <<oneThread, queue, task, taskInterrupted, stopped, mutex, eventVars, reactorVars,
                 threadVars, inputs, created, guard, service, result>>

\* ... and queues it.
Post ==
  /\ mutex = Free
  /\ Caller("post", IF spawned = NumCoroutines THEN "get" ELSE "spawn")
  /\ queue' = Append(queue, Start(spawned))
  /\ WakeOneAndUnlock(Main)
  /\ UNCHANGED <<oneThread, work, task, stopped, deadline, now, armed, alarm, threadVars,
                 inputs, created, spawned, guard, coVars>>

\* The next result to wait for: `order` first, then the others.
Awaited == IF result[order] = "value"
           THEN {c \in Coroutines : c # order /\ result[c] # "value"} ELSE {order}

GetAll ==
  /\ \A c \in Coroutines : result[c] = "value"
  /\ Caller("get", IF program = "hello1" THEN "reset" ELSE "stop")
  /\ UNCHANGED <<asioVars, inputs, created, spawned, guard, coVars>>

\* get() rethrows: hello1 is left with its threads unjoined, which terminates the
\* process; hello2's pool is destroyed on the way out.
GetThrows ==
  /\ \E c \in Awaited : result[c] = "exception"
  /\ Caller("get", IF program = "hello1" THEN "terminated" ELSE "stop")
  /\ UNCHANGED <<asioVars, inputs, created, spawned, guard, coVars>>

\* work.reset(), or work_finished() in thread_pool::join.
ReleaseGuard ==
  /\ main \in {"reset", "joinWork"}
  /\ Caller(main, IF work = 1 THEN "stopThenJoin" ELSE "join")
  /\ guard' = FALSE
  /\ work' = work - 1
  /\ UNCHANGED <<oneThread, queue, task, taskInterrupted, stopped, mutex, eventVars, reactorVars,
                 threadVars, inputs, created, spawned, coVars>>

\* stop(): by the pool's destructor, or by releasing the last work.
Stop ==
  /\ mutex = Free
  /\ Caller("stop", "joinWork") \/ Caller("stopThenJoin", "join")
  /\ StopAllThreads
  /\ UNCHANGED <<oneThread, work, queue, task, mutex, deadline, now, armed, alarm, threadVars,
                 inputs, created, spawned, guard, coVars>>

\* The threads are joined and the services shut down: what is queued or armed is
\* destroyed, and the frames with it.
Join ==
  /\ Caller("join", IF \E c \in Coroutines : result[c] # "value" THEN "threw" ELSE "done")
  /\ \A t \in Threads : pc[t] \in {"none", "exited"}
  /\ queue' = << >> /\ armed' = {} /\ alarm' = 0
  /\ held' = {} /\ work' = work - Cardinality(held)
  /\ UNCHANGED <<oneThread, task, taskInterrupted, stopped, mutex, eventVars, deadline, now,
                 interrupter, threadVars, inputs, created, spawned, guard, service, result>>

-----------------------------------------------------------------------------
(* The coroutine async_print, in the worker that runs its operation.       *)

Goes(t, from, to) == At(t, from) /\ pc' = [pc EXCEPT ![t] = to]
Self(t) == op[t].of

\* steady_timer timer(executor): use_service, without the registry's mutex from the look
\* at it until the new service is registered.
UseService(t) ==
  /\ Goes(t, "service", IF service THEN "expires" ELSE "construct")
  /\ UNCHANGED <<schedulerVars, eventVars, reactorVars, op, blocks, private, spurious, poolVars>>

\* The constructor of the service calls init_task: the first call queues the task.
InitTask(t) ==
  /\ mutex = Free
  /\ Goes(t, "construct", "register")
  /\ IF task THEN UNCHANGED <<task, queue, mutex, eventVars, taskInterrupted, interrupter>>
     ELSE task' = TRUE /\ queue' = Append(queue, TaskOp) /\ WakeOneAndUnlock(t)
  /\ UNCHANGED <<oneThread, work, stopped, deadline, now, armed, alarm,
                 op, blocks, private, spurious, poolVars>>

\* The reactor cannot be created (no descriptor left): the coroutine throws, and
\* co_spawn's catch hands the exception to the promise.
ReactorFails(t) ==
  /\ ~task
  /\ Goes(t, "construct", "release")
  /\ result' = [result EXCEPT ![Self(t)] = "exception"]
  /\ UNCHANGED <<schedulerVars, eventVars, reactorVars, op, blocks, private, spurious,
                 inputs, mainVars, held, service>>

Register(t) ==
  /\ Goes(t, "register", "expires")
  /\ service' = TRUE
  /\ UNCHANGED <<schedulerVars, eventVars, reactorVars, op, blocks, private, spurious,
                 inputs, mainVars, held, result>>

Latest == Cardinality({c \in Coroutines : deadline[c] # 0})

\* timer.expires_after(1 s)
ExpiresAfter(t) ==
  /\ Goes(t, "expires", "arm")
  /\ deadline' = [deadline EXCEPT ![Self(t)] = Latest + 1]
  /\ UNCHANGED <<schedulerVars, eventVars, now, armed, alarm, interrupter, op, blocks, private,
                 spurious, poolVars>>

\* co_await timer.async_wait(...): the coroutine is suspended and the handler returns.
AsyncWait(t) ==
  /\ Goes(t, "arm", "finish")
  /\ ScheduleTimer(Self(t))
  /\ UNCHANGED <<oneThread, queue, task, taskInterrupted, stopped, mutex, eventVars,
                 deadline, now, interrupter, op, blocks, private, spurious, poolVars>>

\* The timer's completion resumes it: co_return, and the promise is set ...
Deliver(t) ==
  /\ Goes(t, "deliver", "release")
  /\ result' = [result EXCEPT ![Self(t)] = "value"]
  /\ UNCHANGED <<schedulerVars, eventVars, reactorVars, op, blocks, private, spurious,
                 inputs, mainVars, held, service>>

\* ... before the frame and its work go.
ReleaseFrame(t) ==
  /\ At(t, "release")
  /\ held' = held \ {Self(t)}
  /\ WorkFinished(t, "stopThenFinish", "finish")
  /\ UNCHANGED <<oneThread, queue, task, taskInterrupted, stopped, mutex, eventVars, reactorVars,
                 op, blocks, private, spurious, inputs, mainVars, service, result>>

-----------------------------------------------------------------------------
CallerStep ==
  \/ Begin \/ CreateThread \/ Spawn \/ Post \/ GetAll \/ GetThrows
  \/ ReleaseGuard \/ Stop \/ Join

CoroutineStep(t) ==
  \/ UseService(t) \/ InitTask(t) \/ Register(t)
  \/ ExpiresAfter(t) \/ AsyncWait(t) \/ Deliver(t) \/ ReleaseFrame(t)

\* std::terminate() ends every thread.
Alive == main # "terminated"

Next ==
  /\ Alive
  /\ \/ CallerStep \/ ThreadFails
     \/ \E a \in Threads \union {Main} : Signal(a) /\ UNCHANGED poolVars
     \/ \E t \in Threads :
          \/ (Worker(t) \/ Awake(t) \/ Spurious(t)) /\ UNCHANGED poolVars
          \/ CoroutineStep(t) \/ ReactorFails(t)
     \/ Tick /\ UNCHANGED poolVars

Spec == Init /\ [][Next]_vars

\* Every thread runs, the mutex included, which nobody holds for long, and time passes.
\* No call has to return for nothing, and no thread or reactor has to fail.
Fairness ==
  /\ WF_vars(Alive /\ CallerStep)
  /\ WF_vars(Alive /\ Tick /\ UNCHANGED poolVars)
  /\ \A a \in Threads \union {Main} : WF_vars(Alive /\ Signal(a) /\ UNCHANGED poolVars)
  /\ \A t \in Threads :
       /\ WF_vars(Alive /\ Awake(t) /\ UNCHANGED poolVars)
       /\ WF_vars(Alive /\ ((Worker(t) /\ UNCHANGED poolVars) \/ CoroutineStep(t)))

FairSpec == Spec /\ Fairness

-----------------------------------------------------------------------------
(* Properties.                                                             *)

Over == main \in {"done", "threw", "terminated"}

TypeOK ==
  /\ oneThread \in BOOLEAN /\ work \in Nat
  /\ queue \in Seq({TaskOp} \union {Start(c) : c \in Coroutines} \union {Resume(c) : c \in Coroutines})
  /\ task \in BOOLEAN /\ taskInterrupted \in BOOLEAN /\ stopped \in BOOLEAN
  /\ mutex \in Threads \union {Free}
  /\ signalled \in BOOLEAN /\ waiters \subseteq Threads /\ woken \subseteq Threads \ waiters
  /\ signalling \subseteq Threads \union {Main}
  /\ deadline \in [Coroutines -> 0 .. NumCoroutines] /\ now \in 0 .. NumCoroutines
  /\ armed \subseteq Coroutines /\ alarm \in 0 .. NumCoroutines /\ interrupter \in BOOLEAN
  /\ spurious \in 0 .. MaxSpurious
  /\ created \in 0 .. cores /\ spawned \in 0 .. NumCoroutines /\ guard \in BOOLEAN
  /\ held \subseteq Coroutines /\ service \in BOOLEAN
  /\ result \in [Coroutines -> {"none", "value", "exception"}]

\* The threads that run an operation whose work is not released yet.
Running == {t \in Threads :
  pc[t] \in {"service", "construct", "register", "expires", "arm", "deliver", "release",
             "stopThenFinish", "finish"}}

Queued(q) == Cardinality({i \in DOMAIN q : q[i] # TaskOp})
Found == {p \in Threads \X (1 .. NumCoroutines) : p[2] <= Len(private[p[1]])}

\* outstanding_work_ is exactly what is outstanding, at every step: the caller's guard,
\* the coroutines' frames, the operations queued, found by the reactor or being run, and the
\* timers.
WorkCounted ==
  TypeOK /\
  (~Over => work = (IF guard THEN 1 ELSE 0) + Cardinality(held) + Queued(queue)
                   + Cardinality(Found) + Cardinality(Running) + Cardinality(armed)
                   + (IF main = "post" THEN 1 ELSE 0))

\* The reactor is one: its operation is in the queue, or one thread runs it.
TasksInQueue == Cardinality({i \in DOMAIN queue : queue[i] = TaskOp})
InReactor == {t \in Threads : pc[t] \in {"epoll", "timers", "cleanup"}}
OneReactor == ~Over => TasksInQueue + Cardinality(InReactor) = IF task THEN 1 ELSE 0

\* Nothing is queued, and no timer has expired, that no thread is going to look at: one of
\* them is running, was woken, is about to be signalled, or sits in an epoll_wait that
\* returns.
OnTheWay ==
  \E t \in Threads :
    \/ pc[t] \notin {"none", "exited", "waiting", "epoll"}
    \/ t \in woken
    \/ t \in waiters /\ signalling # {}
    \/ pc[t] = "epoll" /\ (~blocks[t] \/ interrupter \/ AlarmDue)
NoLostWakeup ==
  /\ OneReactor
  /\ ~Over /\ created > 0 /\ ~stopped
       => ((queue # << >> \/ \E c \in armed : deadline[c] <= now) => OnTheWay)

\* The pool is not stopped, and no thread leaves run(), before the work is done: hello1's
\* by the last release, hello2's by the caller, who has both results or an exception.
NoEarlyStop ==
  /\ (\E t \in Threads : pc[t] = "exited") => stopped
  /\ stopped /\ ~Over =>
       IF program = "hello1"
       THEN ~guard /\ held = {} /\ armed = {} /\ Queued(queue) = 0
       ELSE main \in {"joinWork", "stopThenJoin", "join"}

\* A future is set once, and its value only after the coroutine's second is over.
DeliveredOnceInTime ==
  [][\A c \in Coroutines : result'[c] # result[c] =>
       /\ result[c] = "none"
       /\ result'[c] = "value" => deadline[c] \in 1 .. now]_vars

\* The call ends, unless there is no thread to run anything or the pool could not be
\* built: the threads that were created wait for each other's join.
HelloEnds == <>(Over \/ (cores = 0 /\ main = "get") \/ main = "joinForever")
=============================================================================
