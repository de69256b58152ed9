------------------------------ MODULE Scheduler ------------------------------
(***************************************************************************)
(* CScheduler and SingleThreadedSchedulerClient: the threads that run      *)
(* tasks when their time comes, and the queue of callbacks (the node's     *)
(* validation signals) that is served through them one callback at a time. *)
(*                                                                         *)
(* Every critical section of newTaskMutex and of m_callbacks_mutex is one  *)
(* step.  Times are relative to now: 0 is due, and a tick of the clock     *)
(* brings every time one nearer.  A thread in wait or wait_until is at     *)
(* "wait" or "timed" until it is notified or its time has come.  At        *)
(* shutdown the main thread stops the scheduler, joins its threads and     *)
(* runs what is left with EmptyQueue, as PrepareShutdown does.             *)
(***************************************************************************)
EXTENDS Integers, Sequences, FiniteSets

CONSTANTS Thread,     \* threads in serviceQueue
          Caller,     \* threads that call AddToProcessQueue
          Main,       \* the thread that shuts the node down
          Nobody,     \* no caller
          Delta,      \* the interval of the function given to scheduleEvery
          MaxPending, \* bound on callbacks pending
          MaxTasks    \* bound on tasks queued when a callback is added

ASSUME ActorAssumption ==
  /\ IsFiniteSet(Thread)
  /\ Thread \cap Caller = {}
  /\ Main \notin Thread \cup Caller
  /\ Nobody \notin Caller

ASSUME BoundAssumption == Delta \in Nat \ {0} /\ MaxPending \in Nat /\ MaxTasks \in Nat

VARIABLES taskQueue,               \* tasks in the order of their times
          nThreadsServicingQueue,
          stopRequested,
          m_callbacks_pending,
          m_are_callbacks_running,
          pc,                      \* where each actor is
          waitFor,                 \* what a thread in wait_until waits for
          callback                 \* the callback an actor has taken

schedulerVars == <<taskQueue, nThreadsServicingQueue, stopRequested, waitFor>>
clientVars == <<m_callbacks_pending, m_are_callbacks_running, callback>>
vars == <<schedulerVars, clientVars, pc>>

Actor == Thread \cup Caller \cup {Main}

Task == [job : {"process", "repeat"}, time : 0 .. Delta]

ClientPC == {"maybe", "insert", "notify"}
ProcessPC == {"process", "callback"} \cup ClientPC
ThreadPC == {"start", "wait", "timed", "woken", "timeout", "repeat", "left"} \cup ProcessPC
CallerPC == {"idle"} \cup ClientPC
MainPC == {"serving", "stopping", "joining", "check", "flushed"} \cup ProcessPC

\* Everything has its type, and the tasks are in the order of their times, as
\* the keys of the multimap are.
TypeOK ==
  /\ taskQueue \in Seq(Task)
  /\ \A i, j \in 1 .. Len(taskQueue) : i <= j => taskQueue[i].time <= taskQueue[j].time
  /\ nThreadsServicingQueue \in 0 .. Cardinality(Thread)
  /\ stopRequested \in BOOLEAN
  /\ waitFor \in [Thread -> 0 .. Delta]
  /\ m_callbacks_pending \in Seq(Caller)
  /\ m_are_callbacks_running \in BOOLEAN
  /\ pc \in [Actor -> ThreadPC \cup CallerPC \cup MainPC]
  /\ \A t \in Thread : pc[t] \in ThreadPC
  /\ \A c \in Caller : pc[c] \in CallerPC
  /\ pc[Main] \in MainPC
  /\ callback \in [Actor -> Caller \cup {Nobody}]

\* A scheduler whose threads were just created, and one repeated task.
Init ==
  /\ taskQueue = <<[job |-> "repeat", time |-> Delta]>>
  /\ nThreadsServicingQueue = 0
  /\ stopRequested = FALSE
  /\ waitFor = [t \in Thread |-> 0]
  /\ m_callbacks_pending = <<>>
  /\ m_are_callbacks_running = FALSE
  /\ pc = [a \in Actor |-> IF a \in Thread THEN "start"
                           ELSE IF a = Main THEN "serving" ELSE "idle"]
  /\ callback = [a \in Actor |-> Nobody]

Goto(a, l) == pc' = [pc EXCEPT ![a] = l]

\* Where a call into the client returns to.
After(a) == IF a \in Thread THEN "woken" ELSE IF a = Main THEN "check" ELSE "idle"

-----------------------------------------------------------------------------
(* CScheduler.                                                             *)

\* Faulty variant: the queue is not kept in the order of time.
ScheduleAppends(job, time) ==
  taskQueue' = Append(taskQueue, [job |-> job, time |-> time])

\* schedule: the task goes behind those that are not later.
Schedule(job, time) ==
  \E n \in 0 .. Len(taskQueue) :
    /\ \A i \in 1 .. n : taskQueue[i].time <= time
    /\ \A i \in n + 1 .. Len(taskQueue) : taskQueue[i].time > time
    /\ taskQueue' = [i \in 1 .. Len(taskQueue) + 1 |->
                       IF i <= n THEN taskQueue[i]
                       ELSE IF i = n + 1 THEN [job |-> job, time |-> time]
                       ELSE taskQueue[i - 1]]

Blocked == {t \in Thread : pc[t] \in {"wait", "timed"}}

\* newTaskScheduled.notify_one(), which schedule calls without the mutex.
NotifyOne(a) ==
  /\ pc[a] = "notify"
  /\ \/ /\ Blocked = {}
        /\ Goto(a, After(a))
     \/ \E t \in Blocked : pc' = [pc EXCEPT ![t] = "woken", ![a] = After(a)]
  /\ UNCHANGED <<schedulerVars, clientVars>>

shouldStop == stopRequested

\* What a thread of serviceQueue does with the mutex when it has no task:
\* leave, wait for a task, or wait for the time of the first one.
Decide(t) ==
  \/ /\ shouldStop
     /\ nThreadsServicingQueue' = nThreadsServicingQueue - 1
     /\ \/ /\ Blocked \ {t} = {}
           /\ Goto(t, "left")
        \/ \E u \in Blocked \ {t} : pc' = [pc EXCEPT ![u] = "woken", ![t] = "left"]
     /\ UNCHANGED <<taskQueue, stopRequested, waitFor, clientVars>>
  \/ /\ ~shouldStop /\ taskQueue = <<>>
     /\ Goto(t, "wait")
     /\ UNCHANGED <<schedulerVars, clientVars>>
  \/ /\ ~shouldStop /\ taskQueue # <<>>
     /\ waitFor' = [waitFor EXCEPT ![t] = taskQueue[1].time]
     /\ Goto(t, "timed")
     /\ UNCHANGED <<taskQueue, nThreadsServicingQueue, stopRequested, clientVars>>

EnterServiceQueue(t) ==
  /\ pc[t] = "start"
  /\ nThreadsServicingQueue' = nThreadsServicingQueue + 1
  /\ Goto(t, "woken")
  /\ UNCHANGED <<taskQueue, stopRequested, waitFor, clientVars>>

Resume(t) == pc[t] = "woken" /\ Decide(t)

\* A condition variable may wake a thread that nobody notified.
SpuriousWakeup(t) ==
  /\ t \in Blocked
  /\ Goto(t, "woken")
  /\ UNCHANGED <<schedulerVars, clientVars>>

Timeout(t) ==
  /\ pc[t] = "timed"
  /\ waitFor[t] = 0
  /\ Goto(t, "timeout")
  /\ UNCHANGED <<schedulerVars, clientVars>>

\* The thread whose wait timed out takes the first task, unless another one
\* was faster or the scheduler is stopped.
TakeTask(t) ==
  /\ pc[t] = "timeout"
  /\ IF shouldStop \/ taskQueue = <<>>
       THEN Decide(t)
       ELSE /\ taskQueue' = Tail(taskQueue)
            /\ Goto(t, taskQueue[1].job)
            /\ UNCHANGED <<nThreadsServicingQueue, stopRequested, waitFor, clientVars>>

\* Repeat: the function runs and is scheduled again.
Repeat(t) ==
  /\ pc[t] = "repeat"
  /\ Schedule("repeat", Delta)
  /\ Goto(t, "notify")
  /\ UNCHANGED <<nThreadsServicingQueue, stopRequested, waitFor, clientVars>>

Nearer(time) == IF time = 0 THEN 0 ELSE time - 1

\* Time passes.
Tick ==
  /\ \/ \E i \in 1 .. Len(taskQueue) : taskQueue[i].time # 0
     \/ \E t \in Thread : waitFor[t] # 0
  /\ taskQueue' = [i \in 1 .. Len(taskQueue) |->
                     [job |-> taskQueue[i].job, time |-> Nearer(taskQueue[i].time)]]
  /\ waitFor' = [t \in Thread |-> Nearer(waitFor[t])]
  /\ UNCHANGED <<nThreadsServicingQueue, stopRequested, clientVars, pc>>

-----------------------------------------------------------------------------
(* SingleThreadedSchedulerClient.                                          *)

\* AddToProcessQueue up to its call of MaybeScheduleProcessQueue.  Nobody adds
\* callbacks once the node flushes the queue for shutdown.
AddToProcessQueue(c) ==
  /\ pc[c] = "idle"
  /\ pc[Main] \in {"serving", "stopping", "joining"}
  /\ Len(m_callbacks_pending) < MaxPending
  /\ Len(taskQueue) < MaxTasks
  /\ m_callbacks_pending' = Append(m_callbacks_pending, c)
  /\ Goto(c, "maybe")
  /\ UNCHANGED <<schedulerVars, m_are_callbacks_running, callback>>

\* Faulty variant: nothing is scheduled while a task is queued.
MaybeScheduleWhenIdle(a) ==
  /\ pc[a] = "maybe"
  /\ Goto(a, IF m_are_callbacks_running \/ m_callbacks_pending = <<>> \/ taskQueue # <<>>
               THEN After(a) ELSE "insert")
  /\ UNCHANGED <<schedulerVars, clientVars>>

\* MaybeScheduleProcessQueue looks at the queue, releases m_callbacks_mutex,
\* and only then schedules.
MaybeScheduleProcessQueue(a) ==
  /\ pc[a] = "maybe"
  /\ Goto(a, IF m_are_callbacks_running \/ m_callbacks_pending = <<>>
               THEN After(a) ELSE "insert")
  /\ UNCHANGED <<schedulerVars, clientVars>>

ScheduleProcessQueue(a) ==
  /\ pc[a] = "insert"
  /\ Schedule("process", 0)
  /\ Goto(a, "notify")
  /\ UNCHANGED <<nThreadsServicingQueue, stopRequested, waitFor, clientVars>>

\* ProcessQueue takes the first callback if none is running by busy.
BeginCallback(a, busy) ==
  /\ pc[a] = "process"
  /\ IF busy \/ m_callbacks_pending = <<>>
       THEN /\ Goto(a, After(a))
            /\ UNCHANGED clientVars
       ELSE /\ m_are_callbacks_running' = TRUE
            /\ callback' = [callback EXCEPT ![a] = Head(m_callbacks_pending)]
            /\ m_callbacks_pending' = Tail(m_callbacks_pending)
            /\ Goto(a, "callback")
  /\ UNCHANGED schedulerVars

\* Faulty variant: a running callback is ignored.
ProcessQueueAnyway(a) == BeginCallback(a, FALSE)

ProcessQueue(a) == BeginCallback(a, m_are_callbacks_running)

\* Faulty variant: the next callback is not scheduled.
EndCallbackQuietly(a) ==
  /\ pc[a] = "callback"
  /\ m_are_callbacks_running' = FALSE
  /\ callback' = [callback EXCEPT ![a] = Nobody]
  /\ Goto(a, After(a))
  /\ UNCHANGED <<schedulerVars, m_callbacks_pending>>

\* Faulty variant: m_are_callbacks_running stays set.
EndCallbackKeepsFlag(a) ==
  /\ pc[a] = "callback"
  /\ callback' = [callback EXCEPT ![a] = Nobody]
  /\ Goto(a, "maybe")
  /\ UNCHANGED <<schedulerVars, m_callbacks_pending, m_are_callbacks_running>>

\* The callback returns or throws: RAIICallbacksRunning resets the flag and
\* calls MaybeScheduleProcessQueue.
EndCallback(a) ==
  /\ pc[a] = "callback"
  /\ m_are_callbacks_running' = FALSE
  /\ callback' = [callback EXCEPT ![a] = Nobody]
  /\ Goto(a, "maybe")
  /\ UNCHANGED <<schedulerVars, m_callbacks_pending>>

-----------------------------------------------------------------------------
(* Shutdown.                                                               *)

\* stop() sets stopRequested, notifies all threads, and they are joined.
Stop ==
  /\ pc[Main] = "serving"
  /\ stopRequested' = TRUE
  /\ Goto(Main, "stopping")
  /\ UNCHANGED <<taskQueue, nThreadsServicingQueue, waitFor, clientVars>>

StopNotifies ==
  /\ pc[Main] = "stopping"
  /\ pc' = [a \in Actor |-> IF a = Main THEN "joining"
                            ELSE IF a \in Blocked THEN "woken" ELSE pc[a]]
  /\ UNCHANGED <<schedulerVars, clientVars>>

\* The threads are joined and FlushBackgroundCallbacks calls EmptyQueue.
Join ==
  /\ pc[Main] = "joining"
  /\ \A t \in Thread : pc[t] = "left"
  /\ Goto(Main, "process")
  /\ UNCHANGED <<schedulerVars, clientVars>>

\* EmptyQueue goes on while callbacks are pending.
EmptyQueue ==
  /\ pc[Main] = "check"
  /\ Goto(Main, IF m_callbacks_pending = <<>> THEN "flushed" ELSE "process")
  /\ UNCHANGED <<schedulerVars, clientVars>>

-----------------------------------------------------------------------------

ServiceStep(t) == EnterServiceQueue(t) \/ Resume(t) \/ Timeout(t) \/ TakeTask(t) \/ Repeat(t)

ClientStep(a) ==
  MaybeScheduleProcessQueue(a) \/ ScheduleProcessQueue(a) \/ NotifyOne(a)
  \/ ProcessQueue(a) \/ EndCallback(a)

ShutdownStep == StopNotifies \/ Join \/ EmptyQueue

Next ==
  \/ \E t \in Thread : ServiceStep(t) \/ SpuriousWakeup(t)
  \/ \E c \in Caller : AddToProcessQueue(c)
  \/ \E a \in Actor : ClientStep(a)
  \/ Tick
  \/ Stop
  \/ ShutdownStep

Spec == Init /\ [][Next]_vars

\* Every thread keeps running, callbacks return and time passes, and a wait_until
\* whose time has come again and again does time out: neither notifications nor
\* spurious wake-ups pre-empt it for ever.  Nobody has to add a callback or to
\* stop the node, and no thread has to wake up unnotified.
Fairness ==
  /\ \A t \in Thread : WF_vars(ServiceStep(t)) /\ SF_vars(Timeout(t))
  /\ \A a \in Actor : WF_vars(ClientStep(a))
  /\ WF_vars(Tick)
  /\ WF_vars(ShutdownStep)

FairSpec == Spec /\ Fairness

-----------------------------------------------------------------------------
(* Properties.                                                             *)

ProcessScheduled == \E i \in 1 .. Len(taskQueue) : taskQueue[i].job = "process"

\* MaybeScheduleProcessQueue looks at the flag and the queue before it
\* schedules, and ProcessQueue gives up when a callback runs: whenever callbacks
\* are pending and none runs, a ProcessQueue is scheduled or an actor is on its
\* way to one, and EmptyQueue returns only when nothing is left.
NoneForgotten ==
  /\ m_callbacks_pending # <<>> /\ ~m_are_callbacks_running =>
       \/ ProcessScheduled
       \/ \E a \in Actor : pc[a] \in {"maybe", "insert", "process", "check"}
  /\ pc[Main] = "flushed" => m_callbacks_pending = <<>>

\* The callback that runs: of an actor inside callback().
Executing ==
  IF \E a \in Actor : pc[a] = "callback"
    THEN callback[CHOOSE a \in Actor : pc[a] = "callback"]
    ELSE Nobody

Executor == INSTANCE SerialExecutor WITH waiting <- m_callbacks_pending, executing <- Executing

\* "no two jobs will be executed at the same time" and "callbacks can behave as
\* if they are executed in order by a single thread": whatever threads serve the
\* scheduler, the client implements a serial executor.
ImplementsExecutor == Executor!Spec

\* Every callback is executed in its turn, although a ProcessQueue that finds
\* another one running does nothing and the repeated task competes for threads.
CallbacksRun == Executor!FairSpec

\* stop() returns, whatever its threads wait for, and so does the EmptyQueue
\* that follows it.
StopReturns == pc[Main] = "stopping" ~> pc[Main] = "flushed"
=============================================================================
