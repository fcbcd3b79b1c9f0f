--------------------------- MODULE AsioScheduler ---------------------------
(***************************************************************************)
(* The scheduler of the Asio library as HelloKtorfit's thread pools drive  *)
(* it: one queue of operations under a mutex, worker threads that take     *)
(* them or sleep on an event, the count of outstanding work whose last     *)
(* release stops everything, and the epoll reactor, which is itself an     *)
(* operation of the queue (TaskOp): the thread that takes it blocks in     *)
(* epoll_wait for the timers and for interrupt().                          *)
(*                                                                         *)
(* A critical section is one action, except that the mutex is held over    *)
(* the turn of the loop that follows a reactor run (task_cleanup locks).   *)
(* pthread_cond_signal comes after the unlock, as a step of its own. No    *)
(* handler of the programs posts from a worker, so that a thread's private *)
(* queue only holds what the reactor found, and its private work is 0.     *)
(* The task does not spin (task_usec_, wait_usec_ = -1), and the timer     *)
(* descriptor exists.                                                      *)
(***************************************************************************)
EXTENDS Naturals, Sequences, FiniteSets

CONSTANTS
  Threads,      \* the worker threads there can be
  Main,         \* the thread that creates them
  Free,         \* nobody: no holder of the mutex
  Coroutines,   \* what is spawned; an operation or a timer is for one of them
  MaxSpurious   \* spurious wake-ups and interrupted system calls (bounds the model)

ASSUME ActorsAssumption ==
  IsFiniteSet(Threads) /\ Main \notin Threads /\ Free \notin Threads /\ MaxSpurious \in Nat

VARIABLES
  \* scheduler
  oneThread,        \* one_thread_
  work,             \* outstanding_work_
  queue,            \* op_queue_
  task,             \* task_ is set
  taskInterrupted,  \* task_interrupted_
  stopped,          \* stopped_
  mutex,            \* who holds mutex_, or Free
  \* wakeup_event_
  signalled,        \* its lowest bit
  waiters,          \* threads asleep in pthread_cond_wait
  woken,            \* threads that were woken there and have not got the mutex yet
  signalling,       \* who has unlocked and has still to call pthread_cond_signal
  \* reactor
  deadline,         \* when a coroutine's timer expires, 0 before it is set
  now,              \* the clock: the deadlines that have passed
  armed,            \* coroutines in the timer queue
  alarm,            \* the deadline the timer descriptor is set to, or 0
  interrupter,      \* the interrupter's descriptor has an event epoll has not returned
  \* threads
  pc, op,           \* where a worker is, and the operation it runs
  blocks,           \* its epoll_wait has no timeout
  private,          \* private_op_queue
  spurious          \* how often a call returned for nothing

eventVars == <<signalled, waiters, woken, signalling>>
reactorVars == <<deadline, now, armed, alarm, interrupter>>
threadVars == <<pc, op, blocks, private, spurious>>
schedulerVars == <<oneThread, work, queue, task, taskInterrupted, stopped, mutex>>
asioVars == <<schedulerVars, eventVars, reactorVars, threadVars>>

TaskOp == [kind |-> "task", of |-> Main]
Start(c) == [kind |-> "start", of |-> c]      \* posted by co_spawn
Resume(c) == [kind |-> "resume", of |-> c]    \* the completion of its timer

AsioInit ==
  /\ work = 0 /\ queue = << >>
  /\ task = FALSE /\ taskInterrupted = TRUE /\ stopped = FALSE
  /\ mutex = Free
  /\ signalled = FALSE /\ waiters = {} /\ woken = {} /\ signalling = {}
  /\ deadline = [c \in Coroutines |-> 0] /\ now = 0
  /\ armed = {} /\ alarm = 0 /\ interrupter = TRUE
  /\ pc = [t \in Threads |-> "none"]
  /\ op = [t \in Threads |-> TaskOp]
  /\ blocks = [t \in Threads |-> FALSE]
  /\ private = [t \in Threads |-> << >>]
  /\ spurious = 0

-----------------------------------------------------------------------------
(* The event and the stop flag.                                            *)

\* state_ > 1: a thread counts as a waiter until it has the mutex again.
HaveWaiters == waiters \union woken # {}

\* unlock_and_signal_one by a; also the first half of wake_one_thread_and_unlock.
SetAndSignal(a) ==
  /\ signalled' = TRUE
  /\ signalling' = IF HaveWaiters THEN signalling \union {a} ELSE signalling
  /\ UNCHANGED <<waiters, woken>>

\* The reactor is only interrupted when it may be blocked.
InterruptTask ==
  IF task /\ ~taskInterrupted
  THEN taskInterrupted' = TRUE /\ interrupter' = TRUE
  ELSE UNCHANGED <<taskInterrupted, interrupter>>

\* Mutant of WakeOneAndUnlock: a thread without a waiter to signal leaves the reactor be.
WakeWaiterOnly(a) ==
  SetAndSignal(a) /\ mutex' = Free /\ UNCHANGED <<taskInterrupted, interrupter>>

\* wake_one_thread_and_unlock: a waiter, or else the thread in the reactor.
WakeOneAndUnlock(a) ==
  /\ SetAndSignal(a)
  /\ IF HaveWaiters THEN UNCHANGED <<taskInterrupted, interrupter>> ELSE InterruptTask
  /\ mutex' = Free

\* Mutant of StopAllThreads: the thread in the reactor is not interrupted.
StopWaitersOnly ==
  /\ stopped' = TRUE /\ signalled' = TRUE
  /\ woken' = woken \union waiters /\ waiters' = {}
  /\ UNCHANGED <<signalling, taskInterrupted, interrupter>>

\* stop(): stop_all_threads under the mutex.
StopAllThreads ==
  /\ stopped' = TRUE
  /\ signalled' = TRUE
  /\ woken' = woken \union waiters /\ waiters' = {}
  /\ InterruptTask
  /\ UNCHANGED signalling

Signal(a) ==
  /\ a \in signalling
  /\ signalling' = signalling \ {a}
  /\ IF waiters = {} THEN UNCHANGED <<waiters, woken>>
     ELSE \E w \in waiters : waiters' = waiters \ {w} /\ woken' = woken \union {w}
  /\ UNCHANGED <<schedulerVars, signalled, reactorVars, threadVars>>

\* The wait ends when the bit is set; otherwise the thread sleeps again.
Awake(t) ==
  /\ t \in woken /\ mutex = Free
  /\ woken' = woken \ {t}
  /\ IF signalled
     THEN mutex' = t /\ pc' = [pc EXCEPT ![t] = "loop"] /\ UNCHANGED waiters
     ELSE waiters' = waiters \union {t} /\ UNCHANGED <<mutex, pc>>
  /\ UNCHANGED <<oneThread, work, queue, task, taskInterrupted, stopped, signalled, signalling,
                 reactorVars, op, blocks, private, spurious>>

SpuriousWakeup(t) ==
  /\ t \in waiters /\ spurious < MaxSpurious
  /\ spurious' = spurious + 1
  /\ waiters' = waiters \ {t} /\ woken' = woken \union {t}
  /\ UNCHANGED <<schedulerVars, signalled, signalling, reactorVars, pc, op, blocks, private>>

-----------------------------------------------------------------------------
(* run() and do_run_one().                                                 *)

At(t, where) == pc[t] = where /\ t \notin signalling

\* run() looks at the count before it takes the mutex.
Enter(t) ==
  /\ At(t, "entry")
  /\ pc' = [pc EXCEPT ![t] = IF work = 0 THEN "stopOut" ELSE "lock"]
  /\ UNCHANGED <<schedulerVars, eventVars, reactorVars, op, blocks, private, spurious>>

Lock(t) ==
  /\ At(t, "lock") /\ mutex = Free
  /\ mutex' = t
  /\ pc' = [pc EXCEPT ![t] = "loop"]
  /\ UNCHANGED <<oneThread, work, queue, task, taskInterrupted, stopped, eventVars, reactorVars,
                 op, blocks, private, spurious>>

\* stop(), called by a worker that found no work or released the last of it.
StopBy(t) ==
  /\ pc[t] \in {"stopOut", "stopThenFinish", "stopThenLock"} /\ mutex = Free
  /\ StopAllThreads
  /\ pc' = [pc EXCEPT ![t] = CASE @ = "stopOut" -> "exited"
                               [] @ = "stopThenFinish" -> "finish"
                               [] OTHER -> "lock"]
  /\ UNCHANGED <<oneThread, work, queue, task, mutex, deadline, now, armed, alarm,
                 op, blocks, private, spurious>>

Holding(t) == pc[t] = "loop" /\ mutex = t
More == Tail(queue) # << >>

Return(t) ==
  /\ Holding(t) /\ stopped
  /\ mutex' = Free
  /\ pc' = [pc EXCEPT ![t] = "exited"]
  /\ UNCHANGED <<oneThread, work, queue, task, taskInterrupted, stopped, eventVars, reactorVars,
                 op, blocks, private, spurious>>

\* The reactor's turn: it may only block if nothing else is queued, and another thread
\* is woken for what is.
TakeTask(t) ==
  /\ Holding(t) /\ ~stopped /\ queue # << >> /\ Head(queue) = TaskOp
  /\ queue' = Tail(queue)
  /\ taskInterrupted' = More
  /\ blocks' = [blocks EXCEPT ![t] = ~More]
  /\ pc' = [pc EXCEPT ![t] = "epoll"]
  /\ mutex' = Free
  /\ IF More /\ ~oneThread THEN SetAndSignal(t) ELSE UNCHANGED eventVars
  /\ UNCHANGED <<oneThread, work, task, stopped, reactorVars, op, private, spurious>>

TakeHandler(t) ==
  /\ Holding(t) /\ ~stopped /\ queue # << >> /\ Head(queue) # TaskOp
  /\ queue' = Tail(queue)
  /\ op' = [op EXCEPT ![t] = Head(queue)]
  /\ pc' = [pc EXCEPT ![t] = IF Head(queue).kind = "start" THEN "service" ELSE "deliver"]
  /\ IF More /\ ~oneThread THEN WakeOneAndUnlock(t)
     ELSE mutex' = Free /\ UNCHANGED <<eventVars, taskInterrupted, interrupter>>
  /\ UNCHANGED <<oneThread, work, task, stopped, deadline, now, armed, alarm,
                 blocks, private, spurious>>

\* Nothing to do: clear the event and wait for it.
Sleep(t) ==
  /\ Holding(t) /\ ~stopped /\ queue = << >>
  /\ signalled' = FALSE
  /\ waiters' = waiters \union {t}
  /\ mutex' = Free
  /\ pc' = [pc EXCEPT ![t] = "waiting"]
  /\ UNCHANGED <<oneThread, work, queue, task, taskInterrupted, stopped, woken, signalling,
                 reactorVars, op, blocks, private, spurious>>

\* work_finished(): the last one stops the scheduler. Then the worker goes on at `next`.
WorkFinished(t, stop, next) ==
  /\ work' = work - 1
  /\ pc' = [pc EXCEPT ![t] = IF work = 1 THEN stop ELSE next]

\* work_cleanup, when a handler has returned.
Finish(t) ==
  /\ At(t, "finish")
  /\ WorkFinished(t, "stopThenLock", "lock")
  /\ UNCHANGED <<oneThread, queue, task, taskInterrupted, stopped, mutex, eventVars, reactorVars,
                 op, blocks, private, spurious>>

-----------------------------------------------------------------------------
(* The reactor: epoll_reactor::run, its timer queue, schedule_timer.       *)

AlarmDue == alarm # 0 /\ alarm <= now

\* epoll_wait returns: the interrupter is edge triggered, the timer descriptor is not.
EpollReturns(t) ==
  /\ At(t, "epoll")
  /\ interrupter' = FALSE
  /\ pc' = [pc EXCEPT ![t] = IF AlarmDue THEN "timers" ELSE "cleanup"]
  /\ UNCHANGED <<schedulerVars, eventVars, deadline, now, armed, alarm, op, blocks, private>>

EpollWait(t) ==
  /\ ~blocks[t] \/ interrupter \/ AlarmDue
  /\ EpollReturns(t)
  /\ UNCHANGED spurious

\* A signal ends the call, or the five minutes the descriptor is set to without a timer.
EpollInterrupted(t) ==
  /\ spurious < MaxSpurious
  /\ spurious' = spurious + 1
  /\ EpollReturns(t)

\* The timers of a set as a sequence, the earliest first.
InOrder(set) ==
  [i \in 1 .. Cardinality(set) |->
     CHOOSE c \in set : Cardinality({d \in set : deadline[d] < deadline[c]}) = i - 1]
Earliest(set) ==
  IF set = {} THEN 0
  ELSE deadline[CHOOSE c \in set : \A d \in set : deadline[c] <= deadline[d]]

\* Mutant of ReadyTimers: what is in the queue is taken for ready.
AllTimers == armed
\* get_ready_timers: all timers not later than now.
ReadyTimers == {c \in armed : deadline[c] <= now}

\* They become operations, and the descriptor is set to the first one left.
CheckTimers(t) ==
  /\ At(t, "timers")
  /\ LET ready == ReadyTimers
         order == InOrder(ready) IN
     /\ private' = [private EXCEPT ![t] = [i \in DOMAIN order |-> Resume(order[i])]]
     /\ armed' = armed \ ready
     /\ alarm' = Earliest(armed \ ready)
  /\ pc' = [pc EXCEPT ![t] = "cleanup"]
  /\ UNCHANGED <<schedulerVars, eventVars, deadline, now, interrupter, op, blocks, spurious>>

\* task_cleanup: the operations found go to the queue, the task behind them, and the
\* thread keeps the mutex for its next turn.
TaskCleanup(t) ==
  /\ At(t, "cleanup") /\ mutex = Free
  /\ mutex' = t
  /\ taskInterrupted' = TRUE
  /\ queue' = Append(queue \o private[t], TaskOp)
  /\ private' = [private EXCEPT ![t] = << >>]
  /\ pc' = [pc EXCEPT ![t] = "loop"]
  /\ UNCHANGED <<oneThread, work, task, stopped, eventVars, reactorVars, op, blocks, spurious>>

\* Mutant of ScheduleTimer: the timer is not counted as work.
ScheduleUncounted(c) ==
  /\ armed' = armed \union {c}
  /\ alarm' = IF \A d \in armed : deadline[c] < deadline[d] THEN deadline[c] ELSE alarm
  /\ UNCHANGED work

\* schedule_timer: the descriptor is set again if the new timer is the earliest.
ScheduleTimer(c) ==
  /\ armed' = armed \union {c}
  /\ alarm' = IF \A d \in armed : deadline[c] < deadline[d] THEN deadline[c] ELSE alarm
  /\ work' = work + 1

\* Time passes the next deadline.
Tick ==
  /\ \E c \in Coroutines : deadline[c] > now
  /\ now' = now + 1
  /\ UNCHANGED <<schedulerVars, eventVars, deadline, armed, alarm, interrupter, threadVars>>

-----------------------------------------------------------------------------
Worker(t) ==
  \/ Enter(t) \/ Lock(t) \/ StopBy(t) \/ Return(t)
  \/ TakeTask(t) \/ TakeHandler(t) \/ Sleep(t) \/ Finish(t)
  \/ EpollWait(t) \/ CheckTimers(t) \/ TaskCleanup(t)

Spurious(t) == SpuriousWakeup(t) \/ EpollInterrupted(t)
=============================================================================
