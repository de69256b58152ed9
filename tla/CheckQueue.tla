----------------------------- MODULE CheckQueue -----------------------------
(***************************************************************************)
(* CCheckQueue and CCheckQueueControl: the pool of threads that verifies   *)
(* the scripts of a block (and, in CQuorumBlockProcessor, the BLS          *)
(* signatures of its commitments) while the thread that connects the block *)
(* goes on, and the verdict that thread is given when it waits.            *)
(*                                                                         *)
(* A thread at "loop" holds m_mutex; every other step that reads the       *)
(* shared state is one critical section, enabled while no thread is there. *)
(* A condition variable is the set of threads at "wait"; a thread that was *)
(* notified, or woke up for no reason, is "woken" until it has the mutex.  *)
(* The queue is the set of its checks: the code says of its LIFO order     *)
(* that it does not matter.                                                *)
(***************************************************************************)
EXTENDS Integers, FiniteSets

CONSTANTS Worker,     \* the pool's threads
          Master,     \* threads that open a CCheckQueueControl
          Check,      \* verifications that may be added
          Bad,        \* those that fail
          nBatchSize, \* the most checks a thread takes at once
          NoOne       \* not a thread

ASSUME ThreadAssumption ==
  /\ IsFiniteSet(Worker) /\ IsFiniteSet(Master)
  /\ Worker \cap Master = {}
  /\ NoOne \notin Worker \cup Master

ASSUME CheckAssumption ==
  /\ IsFiniteSet(Check)
  /\ Bad \subseteq Check
  /\ nBatchSize \in Nat \ {0}

VARIABLES queue,          \* checks no thread has taken
          nIdle, nTotal, nTodo, fAllOk,
          m_request_stop,
          control,        \* holder of m_control_mutex
          pool,           \* progress of StartWorkerThreads, StopWorkerThreads
          pc,             \* where each thread is
          batch,          \* vChecks of each thread, until they are accounted for
          fOk,            \* each thread's local verdict
          added,          \* what each master added under its control
          verdict         \* what Wait returned to each master

shared == <<queue, nIdle, nTotal, nTodo, fAllOk>>
local  == <<batch, fOk>>
caller == <<added, verdict>>
vars   == <<shared, m_request_stop, control, pool, pc, local, caller>>

Thread == Worker \cup Master

WorkerPC == {"off", "lock", "loop", "wait", "woken", "run", "left"}
MasterPC == {"out", "open", "notify_one", "notify_all", "lock", "loop", "wait",
             "woken", "run", "done"}

MutexFree == \A t \in Thread : pc[t] # "loop"

Goto(t, l) == pc' = [pc EXCEPT ![t] = l]

Waiting == {t \in Thread : pc[t] \in {"wait", "woken"}}

\* Threads that have been through the first iteration of Loop.  A worker that
\* left because of a stop stays counted until the pool is started again.
Counted == {t \in Thread : \/ pc[t] \in {"loop", "wait", "woken", "run", "left"}
                           \/ pc[t] = "lock" /\ batch[t] # {}}

\* Checks queued, or in a batch that is not accounted for.
Outstanding == queue \cup {c \in Check : \E t \in Thread : c \in batch[t]}

\* What TypeOK says of everything but the counters.
Shape ==
  /\ queue \in SUBSET Check
  /\ fAllOk \in BOOLEAN
  /\ m_request_stop \in BOOLEAN
  /\ control \in Master \cup {NoOne}
  /\ pool \in {"stopped", "running", "requested", "joining"}
  /\ pc \in [Thread -> WorkerPC \cup MasterPC]
  /\ \A w \in Worker : pc[w] \in WorkerPC
  /\ \A m \in Master : pc[m] \in MasterPC
  /\ batch \in [Thread -> SUBSET Check]
  /\ fOk \in [Thread -> BOOLEAN]
  /\ added \in [Master -> SUBSET Check]
  /\ verdict \in [Master -> BOOLEAN]

\* Every counter stays within the number of threads or checks: none of the
\* decrements of Loop goes below zero, where nTodo would wrap around.
TypeOK ==
  /\ Shape
  /\ nIdle \in 0 .. Cardinality(Thread)
  /\ nTotal \in 0 .. Cardinality(Thread)
  /\ nTodo \in 0 .. Cardinality(Check)

Init ==
  /\ queue = {}
  /\ nIdle = 0 /\ nTotal = 0 /\ nTodo = 0
  /\ fAllOk = TRUE
  /\ m_request_stop = FALSE
  /\ control = NoOne
  /\ pool = "stopped"
  /\ pc = [t \in Thread |-> IF t \in Worker THEN "off" ELSE "out"]
  /\ batch = [t \in Thread |-> {}]
  /\ fOk = [t \in Thread |-> TRUE]
  /\ added = [m \in Master |-> {}]
  /\ verdict = [m \in Master |-> TRUE]

-----------------------------------------------------------------------------
(* CCheckQueueControl.                                                     *)

\* The constructor takes m_control_mutex.  A node starts and stops the pool
\* while nothing validates blocks, so no control is open then.
OpenControl(m) ==
  /\ pc[m] = "out"
  /\ control = NoOne
  /\ pool \in {"stopped", "running"}
  /\ control' = m
  /\ Goto(m, "open")
  /\ UNCHANGED <<shared, m_request_stop, pool, local, caller>>

\* Faulty variant: nTodo counts a batch of checks as one.
AddCountsOnce(m, checks) ==
  /\ pc[m] = "open"
  /\ MutexFree
  /\ queue' = queue \cup checks
  /\ nTodo' = nTodo + 1
  /\ added' = [added EXCEPT ![m] = @ \cup checks]
  /\ Goto(m, IF Cardinality(checks) = 1 THEN "notify_one" ELSE "notify_all")
  /\ UNCHANGED <<nIdle, nTotal, fAllOk, m_request_stop, control, pool, local, verdict>>

\* The critical section of Add; an empty vector changes nothing.
Add(m, checks) ==
  /\ pc[m] = "open"
  /\ MutexFree
  /\ queue' = queue \cup checks
  /\ nTodo' = nTodo + Cardinality(checks)
  /\ added' = [added EXCEPT ![m] = @ \cup checks]
  /\ Goto(m, IF Cardinality(checks) = 1 THEN "notify_one" ELSE "notify_all")
  /\ UNCHANGED <<nIdle, nTotal, fAllOk, m_request_stop, control, pool, local, verdict>>

\* Add calls m_worker_cv.notify_one() or notify_all() without the mutex.
NotifyOne(m) ==
  /\ pc[m] = "notify_one"
  /\ LET waiting == {w \in Worker : pc[w] = "wait"} IN
       \/ /\ waiting = {}
          /\ Goto(m, "open")
       \/ \E w \in waiting : pc' = [pc EXCEPT ![w] = "woken", ![m] = "open"]
  /\ UNCHANGED <<shared, m_request_stop, control, pool, local, caller>>

WorkersWoken == [t \in Thread |-> IF t \in Worker /\ pc[t] = "wait" THEN "woken" ELSE pc[t]]

NotifyAll(m) ==
  /\ pc[m] = "notify_all"
  /\ pc' = [WorkersWoken EXCEPT ![m] = "open"]
  /\ UNCHANGED <<shared, m_request_stop, control, pool, local, caller>>

\* Wait, which the destructor calls too when the block failed before it.
Wait(m) ==
  /\ pc[m] = "open"
  /\ Goto(m, "lock")
  /\ UNCHANGED <<shared, m_request_stop, control, pool, local, caller>>

\* The destructor leaves m_control_mutex.
CloseControl(m) ==
  /\ pc[m] = "done"
  /\ control' = NoOne
  /\ added' = [added EXCEPT ![m] = {}]
  /\ verdict' = [verdict EXCEPT ![m] = TRUE]
  /\ Goto(m, "out")
  /\ UNCHANGED <<shared, m_request_stop, pool, local>>

-----------------------------------------------------------------------------
(* Loop.                                                                   *)

\* notify_one on m_master_cv: at most the master in control waits on it.
MasterWoken == [t \in Thread |-> IF t \in Master /\ pc[t] = "wait" THEN "woken" ELSE pc[t]]

\* The head of an iteration: the mutex is taken, and what the last batch
\* gave is accounted for.
EnterLoop(t, ok, woken) ==
  /\ pc[t] = "lock"
  /\ MutexFree
  /\ IF batch[t] # {}
       THEN /\ fAllOk' = ok
            /\ nTodo' = nTodo - Cardinality(batch[t])
            /\ nTotal' = nTotal
            /\ pc' = IF nTodo' = 0 /\ t \notin Master
                       THEN [woken EXCEPT ![t] = "loop"]
                       ELSE [pc EXCEPT ![t] = "loop"]
       ELSE /\ nTotal' = nTotal + 1
            /\ Goto(t, "loop")
            /\ UNCHANGED <<fAllOk, nTodo>>
  /\ batch' = [batch EXCEPT ![t] = {}]
  /\ UNCHANGED <<queue, nIdle, m_request_stop, control, pool, fOk, caller>>

\* Faulty variant: the last batch alone decides the verdict.
AccountOverwrites(t) == EnterLoop(t, fOk[t], MasterWoken)

\* Faulty variant: the master is not woken by the last check.
AccountSilently(t) == EnterLoop(t, fAllOk /\ fOk[t], pc)

Account(t) == EnterLoop(t, fAllOk /\ fOk[t], MasterWoken)

\* Nothing to take and not to be stopped: wait, unless the master is done.
Sleep(t) ==
  /\ pc[t] = "loop"
  /\ queue = {} /\ ~m_request_stop
  /\ ~(t \in Master /\ nTodo = 0)
  /\ nIdle' = nIdle + 1
  /\ Goto(t, "wait")
  /\ UNCHANGED <<queue, nTotal, nTodo, fAllOk, m_request_stop, control, pool, local, caller>>

\* Faulty variant: nIdle is not taken back.
WakeupUncounted(t) ==
  /\ pc[t] = "woken"
  /\ MutexFree
  /\ Goto(t, "loop")
  /\ UNCHANGED <<shared, m_request_stop, control, pool, local, caller>>

\* cond.wait returns with the mutex.
Wakeup(t) ==
  /\ pc[t] = "woken"
  /\ MutexFree
  /\ nIdle' = nIdle - 1
  /\ Goto(t, "loop")
  /\ UNCHANGED <<queue, nTotal, nTodo, fAllOk, m_request_stop, control, pool, local, caller>>

\* A condition variable may wake a thread that nobody notified.
SpuriousWakeup(t) ==
  /\ pc[t] = "wait"
  /\ Goto(t, "woken")
  /\ UNCHANGED <<shared, m_request_stop, control, pool, local, caller>>

\* Faulty variant: fAllOk is not reset for the next control.
ReturnKeepsVerdict(m) ==
  /\ pc[m] = "loop"
  /\ queue = {} /\ ~m_request_stop /\ nTodo = 0
  /\ nTotal' = nTotal - 1
  /\ verdict' = [verdict EXCEPT ![m] = fAllOk]
  /\ Goto(m, "done")
  /\ UNCHANGED <<queue, nIdle, nTodo, fAllOk, m_request_stop, control, pool, local, added>>

\* The master returns the verdict and resets it for the next control.
Return(m) ==
  /\ pc[m] = "loop"
  /\ queue = {} /\ ~m_request_stop /\ nTodo = 0
  /\ nTotal' = nTotal - 1
  /\ verdict' = [verdict EXCEPT ![m] = fAllOk]
  /\ fAllOk' = TRUE
  /\ Goto(m, "done")
  /\ UNCHANGED <<queue, nIdle, nTodo, m_request_stop, control, pool, local, added>>

\* A worker that finds m_request_stop leaves the loop.
Leave(w) ==
  /\ pc[w] = "loop"
  /\ m_request_stop
  /\ Goto(w, "left")
  /\ UNCHANGED <<shared, m_request_stop, control, pool, local, caller>>

AtMost(a, b) == IF a <= b THEN a ELSE b
AtLeast(a, b) == IF a >= b THEN a ELSE b

\* How many checks to take: smaller batches the more threads can share them.
nNow == AtLeast(1, AtMost(nBatchSize, Cardinality(queue) \div (nTotal + nIdle + 1)))

Take(t) ==
  /\ pc[t] = "loop"
  /\ queue # {} /\ ~m_request_stop
  /\ \E checks \in SUBSET queue :
       /\ Cardinality(checks) = nNow
       /\ batch' = [batch EXCEPT ![t] = checks]
       /\ queue' = queue \ checks
  /\ fOk' = [fOk EXCEPT ![t] = fAllOk]
  /\ Goto(t, "run")
  /\ UNCHANGED <<nIdle, nTotal, nTodo, fAllOk, m_request_stop, control, pool, caller>>

\* The checks of a batch run without the mutex, and once one has failed (here
\* or in an earlier batch of any thread) the others are skipped.
Execute(t) ==
  /\ pc[t] = "run"
  /\ fOk' = [fOk EXCEPT ![t] = @ /\ batch[t] \cap Bad = {}]
  /\ Goto(t, "lock")
  /\ UNCHANGED <<shared, m_request_stop, control, pool, batch, caller>>

-----------------------------------------------------------------------------
(* The pool.                                                               *)

StartWorkerThreads ==
  /\ pool = "stopped"
  /\ control = NoOne
  /\ nIdle' = 0 /\ nTotal' = 0
  /\ fAllOk' = TRUE
  /\ pc' = [t \in Thread |-> IF t \in Worker THEN "lock" ELSE pc[t]]
  /\ pool' = "running"
  /\ UNCHANGED <<queue, nTodo, m_request_stop, control, local, caller>>

\* StopWorkerThreads sets m_request_stop under the mutex, notifies the workers
\* without it, and joins them.
RequestStop ==
  /\ pool = "running"
  /\ control = NoOne
  /\ MutexFree
  /\ m_request_stop' = TRUE
  /\ pool' = "requested"
  /\ UNCHANGED <<shared, control, pc, local, caller>>

NotifyStop ==
  /\ pool = "requested"
  /\ pc' = WorkersWoken
  /\ pool' = "joining"
  /\ UNCHANGED <<shared, m_request_stop, control, local, caller>>

JoinWorkers ==
  /\ pool = "joining"
  /\ \A w \in Worker : pc[w] = "left"
  /\ m_request_stop' = FALSE
  /\ pool' = "stopped"
  /\ UNCHANGED <<shared, control, pc, local, caller>>

-----------------------------------------------------------------------------

\* Checks that a master may still add: one that no control is using.
Unused == {c \in Check : \A m \in Master : c \notin added[m]}

TakeMutex(t) == Account(t) \/ Wakeup(t)

LoopStep(t) == Sleep(t) \/ Take(t) \/ Execute(t)

MasterStep(m) == NotifyOne(m) \/ NotifyAll(m) \/ Wait(m) \/ Return(m) \/ CloseControl(m)

StopStep == NotifyStop \/ JoinWorkers

Next ==
  \/ \E m \in Master :
       \/ OpenControl(m)
       \/ \E checks \in (SUBSET Unused) \ {{}} : Add(m, checks)
       \/ MasterStep(m)
  \/ \E w \in Worker : Leave(w)
  \/ \E t \in Thread : TakeMutex(t) \/ LoopStep(t) \/ SpuriousWakeup(t)
  \/ StartWorkerThreads
  \/ RequestStop
  \/ StopStep

Spec == Init /\ [][Next]_vars

\* Every thread keeps running, and one that asks for m_mutex gets it although
\* others may take it in between.  Nobody has to open or fill a control, start
\* or stop the pool, and no thread has to wake up without being notified.
Fairness ==
  /\ \A t \in Thread : WF_vars(LoopStep(t)) /\ SF_vars(TakeMutex(t))
  /\ \A m \in Master : WF_vars(MasterStep(m))
  /\ \A w \in Worker : WF_vars(Leave(w))
  /\ WF_vars(StopStep)

FairSpec == Spec /\ Fairness

-----------------------------------------------------------------------------
(* Properties.                                                             *)

\* CCheckQueue::Wait returns true exactly when every check added under this
\* control succeeds, whichever threads ran them, in whatever batches, and
\* whatever earlier controls found.
VerdictExact ==
  \A m \in Master : pc[m] = "done" => (verdict[m] <=> added[m] \cap Bad = {})

\* "guarantees the passed queue is finished before continuing": once Wait has
\* returned, and while no control is open, no check is queued or in the hands
\* of a worker, and no earlier failure is left in fAllOk.
ControlLeavesClean ==
  control = NoOne \/ (\E m \in Master : pc[m] = "done") =>
    Outstanding = {} /\ nTodo = 0 /\ fAllOk

\* nIdle, nTotal and nTodo, which size the batches and end Wait, count what
\* they say although each is updated in several critical sections.
CountersExact ==
  /\ nIdle = Cardinality(Waiting)
  /\ nTotal = Cardinality(Counted)
  /\ nTodo = Cardinality(Outstanding)

\* No wake-up is lost: a thread that waits for its checks is given a verdict,
\* and StopWorkerThreads joins every worker.
CallsReturn ==
  /\ \A m \in Master : pc[m] = "lock" ~> pc[m] = "done"
  /\ pool = "requested" ~> pool = "stopped"
=============================================================================
