-------------------------- MODULE CheckQueueProofs --------------------------
(***************************************************************************)
(* The check queue gives every control an exact verdict, for any numbers   *)
(* of workers, of threads that open controls and of checks, and for any    *)
(* batch size.                                                             *)
(***************************************************************************)
EXTENDS CheckQueue, FiniteSetTheorems, TLAPS

\* m_control_mutex: the master in control, and no other, is between the
\* constructor and the destructor, and only it has checks in the queue.
ControlInv ==
  /\ \A m \in Master : pc[m] # "out" <=> control = m
  /\ \A m \in Master : control # m => added[m] = {}
  /\ \A c \in Outstanding : \E m \in Master : c \in added[m]

\* No check is in two places, and a thread holds a batch exactly from taking
\* it to accounting for it.
BatchInv ==
  /\ \A t \in Thread : batch[t] \cap queue = {}
  /\ \A t, u \in Thread : t # u => batch[t] \cap batch[u] = {}
  /\ \A t \in Thread : batch[t] # {} => pc[t] \in {"run", "lock"}
  /\ \A t \in Thread : pc[t] = "run" => batch[t] # {}

\* A failure is known only if a check fails, and a check that fails is known
\* or still to be found: queued, about to run, or in a batch that failed.
FailureInv ==
  /\ ~fAllOk => \E m \in Master : added[m] \cap Bad # {}
  /\ \A t \in Thread : batch[t] # {} /\ ~fOk[t] => \E m \in Master : added[m] \cap Bad # {}
  /\ \A m \in Master : pc[m] # "done" =>
       \A c \in added[m] \cap Bad :
         \/ c \in queue
         \/ ~fAllOk
         \/ \E t \in Thread : c \in batch[t] /\ (pc[t] = "run" \/ ~fOk[t])

\* The pool is started and stopped while no control is open.
PoolInv ==
  /\ m_request_stop <=> pool \in {"requested", "joining"}
  /\ m_request_stop => control = NoOne
  /\ pool = "stopped" => \A w \in Worker : pc[w] \in {"off", "left"}

IInv ==
  /\ Shape
  /\ CountersExact
  /\ ControlInv
  /\ BatchInv
  /\ FailureInv
  /\ PoolInv
  /\ ControlLeavesClean
  /\ VerdictExact

-----------------------------------------------------------------------------
(* Counting.                                                               *)

\* Adding an element to a finite set, or removing one, moves its size by one.
LEMMA CountOne ==
  ASSUME NEW S, NEW T, NEW x, IsFiniteSet(S)
  PROVE  /\ x \notin S /\ T = S \cup {x} => Cardinality(T) = Cardinality(S) + 1
         /\ x \in S /\ T = S \ {x} => Cardinality(T) = Cardinality(S) - 1
BY FS_AddElement, FS_RemoveElement

\* The same for a set of checks at a time.
LEMMA CountMany ==
  ASSUME NEW S, NEW T, NEW X, IsFiniteSet(S), IsFiniteSet(X)
  PROVE  /\ S \cap X = {} /\ T = S \cup X => Cardinality(T) = Cardinality(S) + Cardinality(X)
         /\ X \subseteq S /\ T = S \ X => Cardinality(T) = Cardinality(S) - Cardinality(X)
<1>1. ASSUME S \cap X = {}, T = S \cup X
      PROVE  Cardinality(T) = Cardinality(S) + Cardinality(X)
  <2>1. Cardinality(S \cap X) = 0
    BY <1>1, FS_EmptySet
  <2>2. Cardinality(S) \in Nat /\ Cardinality(X) \in Nat
    BY FS_CardinalityType
  <2>3. Cardinality(S \cup X) = Cardinality(S) + Cardinality(X) - Cardinality(S \cap X)
    BY FS_Union
  <2> QED BY <1>1, <2>1, <2>2, <2>3
<1>2. ASSUME X \subseteq S, T = S \ X
      PROVE  Cardinality(T) = Cardinality(S) - Cardinality(X)
  <2>1. S \cap X = X
    BY <1>2
  <2> QED BY <1>2, <2>1, FS_Difference
<1> QED BY <1>1, <1>2

\* What the counters count is finite, and its size a natural number.
LEMMA FiniteCounts ==
  ASSUME Shape
  PROVE  /\ IsFiniteSet(Thread)
         /\ IsFiniteSet(Waiting) /\ Cardinality(Waiting) \in 0 .. Cardinality(Thread)
         /\ IsFiniteSet(Counted) /\ Cardinality(Counted) \in 0 .. Cardinality(Thread)
         /\ IsFiniteSet(Outstanding) /\ Cardinality(Outstanding) \in 0 .. Cardinality(Check)
<1>1. IsFiniteSet(Thread)
  BY ThreadAssumption, FS_Union DEF Thread
<1>2. Waiting \in SUBSET Thread /\ Counted \in SUBSET Thread /\ Outstanding \in SUBSET Check
  BY DEF Waiting, Counted, Outstanding, Shape
<1>3. Cardinality(Thread) \in Nat /\ Cardinality(Check) \in Nat
  BY <1>1, CheckAssumption, FS_CardinalityType
<1>4. \A S \in SUBSET Thread : IsFiniteSet(S) /\ Cardinality(S) \in Nat
                               /\ Cardinality(S) <= Cardinality(Thread)
  BY <1>1, FS_Subset, FS_CardinalityType
<1>5. \A S \in SUBSET Check : IsFiniteSet(S) /\ Cardinality(S) \in Nat
                              /\ Cardinality(S) <= Cardinality(Check)
  BY CheckAssumption, FS_Subset, FS_CardinalityType
<1> QED BY <1>1, <1>2, <1>3, <1>4, <1>5

-----------------------------------------------------------------------------
(* Each action preserves the invariant.                                    *)

\* A queue that was just constructed.
LEMMA InitIInv == Init => IInv
<1> SUFFICES ASSUME Init PROVE IInv
  OBVIOUS
<1> USE DEF Init
<1>1. Shape
  BY ThreadAssumption DEF Shape, Thread, WorkerPC, MasterPC
<1>2. Waiting = {} /\ Counted = {} /\ Outstanding = {}
  BY ThreadAssumption DEF Waiting, Counted, Outstanding, Thread
<1>3. CountersExact
  BY <1>2, FS_EmptySet DEF CountersExact
<1>4. ControlInv
  BY <1>2, ThreadAssumption DEF ControlInv, Thread
<1>5. BatchInv
  BY DEF BatchInv, Thread
<1>6. FailureInv
  BY DEF FailureInv
<1>7. PoolInv
  BY DEF PoolInv, Thread
<1>8. ControlLeavesClean
  BY <1>2 DEF ControlLeavesClean
<1>9. VerdictExact
  BY ThreadAssumption DEF VerdictExact, Thread
<1> QED BY <1>1, <1>3, <1>4, <1>5, <1>6, <1>7, <1>8, <1>9 DEF IInv

\* The constructor of CCheckQueueControl finds a clean queue.
LEMMA OpenControlIInv ==
  ASSUME IInv, NEW m \in Master, OpenControl(m)
  PROVE  IInv'
<1> USE DEF IInv, OpenControl, shared, local, caller, Goto
<1> m \in Thread /\ m \notin Worker /\ Thread = Worker \cup Master
  BY ThreadAssumption DEF Thread
<1>1. Shape'
  BY DEF Shape, MasterPC
<1>2. Waiting' = Waiting /\ Counted' = Counted /\ Outstanding' = Outstanding
  BY DEF Waiting, Counted, Outstanding, Shape
<1>3. CountersExact'
  BY <1>2 DEF CountersExact
<1>4. ControlInv'
  BY <1>2, ThreadAssumption DEF ControlInv, Shape
<1>5. BatchInv'
  BY DEF BatchInv, Shape
<1>6. FailureInv'
  BY DEF FailureInv, Shape
<1>7. PoolInv'
  BY ThreadAssumption DEF PoolInv, Shape, Thread
<1>8. ControlLeavesClean'
  BY <1>2 DEF ControlLeavesClean, Shape
<1>9. VerdictExact'
  BY DEF VerdictExact, Shape
<1> QED BY <1>1, <1>3, <1>4, <1>5, <1>6, <1>7, <1>8, <1>9

\* Added checks are new to the queue and counted once.
LEMMA AddIInv ==
  ASSUME IInv, NEW m \in Master, NEW checks \in (SUBSET Unused) \ {{}}, Add(m, checks)
  PROVE  IInv'
<1> USE DEF IInv, Add, local, Goto
<1> m \in Thread /\ m \notin Worker /\ Thread = Worker \cup Master
  BY ThreadAssumption DEF Thread
<1> checks \subseteq Check
  BY DEF Unused
<1>1. Shape'
  BY DEF Shape, MasterPC
<1>2. Waiting' = Waiting /\ Counted' = Counted /\ Outstanding' = Outstanding \cup checks
  BY DEF Waiting, Counted, Outstanding, Shape
<1>3. Outstanding \cap checks = {}
  BY DEF ControlInv, Unused
<1>4. control = m
  BY DEF ControlInv
<1>5. IsFiniteSet(checks)
  BY CheckAssumption, FS_Subset
<1>6. CountersExact'
  BY <1>2, <1>3, <1>5, CountMany, FiniteCounts DEF CountersExact
<1>7. ControlInv'
  BY <1>2, <1>4 DEF ControlInv, Shape
<1>8. BatchInv'
  BY <1>3 DEF BatchInv, Shape, Outstanding
<1>9. FailureInv'
  BY <1>4 DEF FailureInv, Shape, ControlInv
<1>10. PoolInv'
  BY ThreadAssumption DEF PoolInv, Shape, Thread
<1>11. ControlLeavesClean'
  BY <1>4, ThreadAssumption DEF ControlLeavesClean, Shape, ControlInv
<1>12. VerdictExact'
  BY DEF VerdictExact, Shape
<1> QED BY <1>1, <1>6, <1>7, <1>8, <1>9, <1>10, <1>11, <1>12

\* A notification moves a worker from one waiting state to the other.
LEMMA NotifyOneIInv ==
  ASSUME IInv, NEW m \in Master, NotifyOne(m)
  PROVE  IInv'
<1> USE DEF IInv, NotifyOne, shared, local, caller, Goto
<1> m \in Thread /\ m \notin Worker /\ Thread = Worker \cup Master
  BY ThreadAssumption DEF Thread
<1>1. Shape'
  BY DEF Shape, MasterPC, WorkerPC
<1>2. Waiting' = Waiting /\ Counted' = Counted /\ Outstanding' = Outstanding
  BY DEF Waiting, Counted, Outstanding, Shape, BatchInv
<1>3. CountersExact'
  BY <1>2 DEF CountersExact
<1>4. ControlInv'
  BY <1>2 DEF ControlInv, Shape
<1>5. BatchInv'
  BY DEF BatchInv, Shape
<1>6. FailureInv'
  BY DEF FailureInv, Shape
<1>7. PoolInv'
  BY DEF PoolInv, Shape
<1>8. ControlLeavesClean'
  BY <1>2 DEF ControlLeavesClean, Shape
<1>9. VerdictExact'
  BY DEF VerdictExact, Shape
<1> QED BY <1>1, <1>3, <1>4, <1>5, <1>6, <1>7, <1>8, <1>9

\* The same for all workers.
LEMMA NotifyAllIInv ==
  ASSUME IInv, NEW m \in Master, NotifyAll(m)
  PROVE  IInv'
<1> USE DEF IInv, NotifyAll, WorkersWoken, shared, local, caller, Goto
<1> m \in Thread /\ m \notin Worker /\ Thread = Worker \cup Master
  BY ThreadAssumption DEF Thread
<1>1. Shape'
  BY DEF Shape, MasterPC, WorkerPC
<1>2. Waiting' = Waiting /\ Counted' = Counted /\ Outstanding' = Outstanding
  BY DEF Waiting, Counted, Outstanding, Shape, BatchInv
<1>3. CountersExact'
  BY <1>2 DEF CountersExact
<1>4. ControlInv'
  BY <1>2 DEF ControlInv, Shape
<1>5. BatchInv'
  BY DEF BatchInv, Shape
<1>6. FailureInv'
  BY DEF FailureInv, Shape
<1>7. PoolInv'
  BY DEF PoolInv, Shape
<1>8. ControlLeavesClean'
  BY <1>2 DEF ControlLeavesClean, Shape
<1>9. VerdictExact'
  BY DEF VerdictExact, Shape
<1> QED BY <1>1, <1>3, <1>4, <1>5, <1>6, <1>7, <1>8, <1>9

\* The call of Wait takes no mutex yet.
LEMMA WaitIInv ==
  ASSUME IInv, NEW m \in Master, Wait(m)
  PROVE  IInv'
<1> USE DEF IInv, Wait, shared, local, caller, Goto
<1> m \in Thread /\ m \notin Worker /\ Thread = Worker \cup Master
  BY ThreadAssumption DEF Thread
<1>1. Shape'
  BY DEF Shape, MasterPC, WorkerPC
<1>2. Waiting' = Waiting /\ Counted' = Counted /\ Outstanding' = Outstanding
  BY DEF Waiting, Counted, Outstanding, Shape, BatchInv
<1>3. CountersExact'
  BY <1>2 DEF CountersExact
<1>4. ControlInv'
  BY <1>2 DEF ControlInv, Shape
<1>5. BatchInv'
  BY DEF BatchInv, Shape
<1>6. FailureInv'
  BY DEF FailureInv, Shape
<1>7. PoolInv'
  BY DEF PoolInv, Shape
<1>8. ControlLeavesClean'
  BY <1>2 DEF ControlLeavesClean, Shape
<1>9. VerdictExact'
  BY DEF VerdictExact, Shape
<1> QED BY <1>1, <1>3, <1>4, <1>5, <1>6, <1>7, <1>8, <1>9

\* The destructor forgets the checks of a control whose verdict is known.
LEMMA CloseControlIInv ==
  ASSUME IInv, NEW m \in Master, CloseControl(m)
  PROVE  IInv'
<1> USE DEF IInv, CloseControl, shared, local, caller, Goto
<1> m \in Thread /\ m \notin Worker /\ Thread = Worker \cup Master
  BY ThreadAssumption DEF Thread
<1>1. Shape'
  BY DEF Shape, MasterPC, WorkerPC
<1>2. Waiting' = Waiting /\ Counted' = Counted /\ Outstanding' = Outstanding
  BY DEF Waiting, Counted, Outstanding, Shape, BatchInv
<1>3. Outstanding = {} /\ fAllOk /\ control = m
  BY DEF ControlLeavesClean, ControlInv
<1>4. \A t \in Thread : batch[t] = {}
  BY <1>3 DEF Outstanding, Shape
<1>5. CountersExact'
  BY <1>2 DEF CountersExact
<1>6. ControlInv'
  BY <1>2, <1>3, ThreadAssumption DEF ControlInv, Shape
<1>7. BatchInv'
  BY DEF BatchInv, Shape
<1>8. FailureInv'
  BY <1>3, <1>4 DEF FailureInv, Shape, ControlInv
<1>9. PoolInv'
  BY <1>3 DEF PoolInv, Shape
<1>10. ControlLeavesClean'
  BY <1>2, <1>3 DEF ControlLeavesClean, Shape
<1>11. VerdictExact'
  BY DEF VerdictExact, Shape
<1> QED BY <1>1, <1>5, <1>6, <1>7, <1>8, <1>9, <1>10, <1>11

\* A thread that waits is counted in nIdle.
LEMMA SleepIInv ==
  ASSUME IInv, NEW t \in Thread, Sleep(t)
  PROVE  IInv'
<1> USE DEF IInv, Sleep, shared, local, caller, Goto
<1> Thread = Worker \cup Master /\ Worker \cap Master = {} /\ NoOne \notin Master
  BY ThreadAssumption DEF Thread
<1>1. Shape'
  BY DEF Shape, MasterPC, WorkerPC
<1>2. /\ Waiting' = Waiting \cup {t} /\ t \notin Waiting
      /\ Counted' = Counted /\ Outstanding' = Outstanding
  BY DEF Waiting, Counted, Outstanding, Shape, BatchInv
<1>3. CountersExact'
  BY <1>2, CountOne, FiniteCounts DEF CountersExact
<1>4. ControlInv'
  BY <1>2 DEF ControlInv, Shape
<1>5. BatchInv'
  BY DEF BatchInv, Shape
<1>6. FailureInv'
  BY DEF FailureInv, Shape
<1>7. PoolInv'
  BY DEF PoolInv, Shape
<1>8. ControlLeavesClean'
  BY <1>2 DEF ControlLeavesClean, Shape
<1>9. VerdictExact'
  BY DEF VerdictExact, Shape
<1> QED BY <1>1, <1>3, <1>4, <1>5, <1>6, <1>7, <1>8, <1>9

\* A thread that has the mutex again is not.
LEMMA WakeupIInv ==
  ASSUME IInv, NEW t \in Thread, Wakeup(t)
  PROVE  IInv'
<1> USE DEF IInv, Wakeup, shared, local, caller, Goto
<1> Thread = Worker \cup Master /\ Worker \cap Master = {} /\ NoOne \notin Master
  BY ThreadAssumption DEF Thread
<1>1. Shape'
  BY DEF Shape, MasterPC, WorkerPC
<1>2. /\ Waiting' = Waiting \ {t} /\ t \in Waiting
      /\ Counted' = Counted /\ Outstanding' = Outstanding
  BY DEF Waiting, Counted, Outstanding, Shape, BatchInv
<1>3. CountersExact'
  BY <1>2, CountOne, FiniteCounts DEF CountersExact
<1>4. ControlInv'
  BY <1>2 DEF ControlInv, Shape
<1>5. BatchInv'
  BY DEF BatchInv, Shape
<1>6. FailureInv'
  BY DEF FailureInv, Shape
<1>7. PoolInv'
  BY DEF PoolInv, Shape
<1>8. ControlLeavesClean'
  BY <1>2 DEF ControlLeavesClean, Shape
<1>9. VerdictExact'
  BY DEF VerdictExact, Shape
<1> QED BY <1>1, <1>3, <1>4, <1>5, <1>6, <1>7, <1>8, <1>9

\* Waking up without a notification changes nothing that is counted.
LEMMA SpuriousWakeupIInv ==
  ASSUME IInv, NEW t \in Thread, SpuriousWakeup(t)
  PROVE  IInv'
<1> USE DEF IInv, SpuriousWakeup, shared, local, caller, Goto
<1> Thread = Worker \cup Master /\ Worker \cap Master = {} /\ NoOne \notin Master
  BY ThreadAssumption DEF Thread
<1>1. Shape'
  BY DEF Shape, MasterPC, WorkerPC
<1>2. Waiting' = Waiting /\ Counted' = Counted /\ Outstanding' = Outstanding
  BY DEF Waiting, Counted, Outstanding, Shape, BatchInv
<1>3. CountersExact'
  BY <1>2 DEF CountersExact
<1>4. ControlInv'
  BY <1>2 DEF ControlInv, Shape
<1>5. BatchInv'
  BY DEF BatchInv, Shape
<1>6. FailureInv'
  BY DEF FailureInv, Shape
<1>7. PoolInv'
  BY DEF PoolInv, Shape
<1>8. ControlLeavesClean'
  BY <1>2 DEF ControlLeavesClean, Shape
<1>9. VerdictExact'
  BY DEF VerdictExact, Shape
<1> QED BY <1>1, <1>3, <1>4, <1>5, <1>6, <1>7, <1>8, <1>9

\* nTodo is zero when no check is outstanding, so that every failure is in
\* fAllOk when the master returns it.
LEMMA ReturnIInv ==
  ASSUME IInv, NEW m \in Master, Return(m)
  PROVE  IInv'
<1> USE DEF IInv, Return, shared, local, caller, Goto
<1> m \in Thread /\ m \notin Worker /\ Thread = Worker \cup Master
  BY ThreadAssumption DEF Thread
<1>1. Shape'
  BY DEF Shape, MasterPC, WorkerPC
<1>2. /\ Counted' = Counted \ {m} /\ m \in Counted
      /\ Waiting' = Waiting /\ Outstanding' = Outstanding
  BY DEF Waiting, Counted, Outstanding, Shape, BatchInv
<1>3. Outstanding = {}
  BY FiniteCounts, FS_EmptySet DEF CountersExact
<1>4. \A t \in Thread : batch[t] = {}
  BY <1>3 DEF Outstanding, Shape
<1>5. control = m
  BY DEF ControlInv
<1>6. fAllOk <=> added[m] \cap Bad = {}
  BY <1>4, <1>5 DEF FailureInv, ControlInv, Shape
<1>7. CountersExact'
  BY <1>2, CountOne, FiniteCounts DEF CountersExact
<1>8. ControlInv'
  BY <1>2 DEF ControlInv, Shape
<1>9. BatchInv'
  BY DEF BatchInv, Shape
<1>10. FailureInv'
  BY <1>4, <1>5 DEF FailureInv, Shape, ControlInv
<1>11. PoolInv'
  BY DEF PoolInv, Shape
<1>12. ControlLeavesClean'
  BY <1>2, <1>3 DEF ControlLeavesClean, Shape
<1>13. VerdictExact'
  BY <1>6 DEF VerdictExact, Shape
<1> QED BY <1>1, <1>7, <1>8, <1>9, <1>10, <1>11, <1>12, <1>13

\* A worker leaves the loop without a batch.
LEMMA LeaveIInv ==
  ASSUME IInv, NEW w \in Worker, Leave(w)
  PROVE  IInv'
<1> USE DEF IInv, Leave, shared, local, caller, Goto
<1> w \in Thread /\ w \notin Master /\ Thread = Worker \cup Master
  BY ThreadAssumption DEF Thread
<1>1. Shape'
  BY DEF Shape, MasterPC, WorkerPC
<1>2. Waiting' = Waiting /\ Counted' = Counted /\ Outstanding' = Outstanding
  BY DEF Waiting, Counted, Outstanding, Shape, BatchInv
<1>3. CountersExact'
  BY <1>2 DEF CountersExact
<1>4. ControlInv'
  BY <1>2 DEF ControlInv, Shape
<1>5. BatchInv'
  BY DEF BatchInv, Shape
<1>6. FailureInv'
  BY DEF FailureInv, Shape
<1>7. PoolInv'
  BY DEF PoolInv, Shape
<1>8. ControlLeavesClean'
  BY <1>2 DEF ControlLeavesClean, Shape
<1>9. VerdictExact'
  BY DEF VerdictExact, Shape
<1> QED BY <1>1, <1>3, <1>4, <1>5, <1>6, <1>7, <1>8, <1>9

\* A batch is never empty, and the checks in it are outstanding as before.
LEMMA TakeIInv ==
  ASSUME IInv, NEW t \in Thread, Take(t)
  PROVE  IInv'
<1> USE DEF IInv, Take, shared, local, caller, Goto
<1> Thread = Worker \cup Master /\ Worker \cap Master = {} /\ NoOne \notin Master
  BY ThreadAssumption DEF Thread
<1>a. nNow \in Nat \ {0}
  <2>1. Cardinality(queue) \in Nat /\ nTotal \in Nat /\ nIdle \in Nat
    BY FiniteCounts, CheckAssumption, FS_Subset, FS_CardinalityType DEF Shape, CountersExact
  <2>2. Cardinality(queue) \div (nTotal + nIdle + 1) \in Nat
    BY <2>1
  <2> QED BY <2>2, CheckAssumption DEF nNow, AtLeast, AtMost
<1>b. PICK checks \in SUBSET queue :
        /\ checks # {}
        /\ batch' = [batch EXCEPT ![t] = checks]
        /\ queue' = queue \ checks
  BY <1>a, FS_EmptySet
<1>c. batch[t] = {}
  BY DEF BatchInv
<1>1. Shape'
  BY <1>b DEF Shape, MasterPC, WorkerPC
<1>2. Waiting' = Waiting /\ Counted' = Counted /\ Outstanding' = Outstanding
  BY <1>b, <1>c DEF Waiting, Counted, Outstanding, Shape
<1>3. CountersExact'
  BY <1>2 DEF CountersExact
<1>4. ControlInv'
  BY <1>2 DEF ControlInv, Shape
<1>5. BatchInv'
  BY <1>b, <1>c DEF BatchInv, Shape
<1>6. FailureInv'
  BY <1>b, <1>c DEF FailureInv, Shape
<1>7. PoolInv'
  BY DEF PoolInv, Shape
<1>8. ControlLeavesClean'
  BY <1>2 DEF ControlLeavesClean, Shape, Outstanding
<1>9. VerdictExact'
  BY DEF VerdictExact, Shape
<1> QED BY <1>1, <1>3, <1>4, <1>5, <1>6, <1>7, <1>8, <1>9

\* A check that fails leaves its trace in the thread's own verdict.
LEMMA ExecuteIInv ==
  ASSUME IInv, NEW t \in Thread, Execute(t)
  PROVE  IInv'
<1> USE DEF IInv, Execute, shared, local, caller, Goto
<1> Thread = Worker \cup Master /\ Worker \cap Master = {} /\ NoOne \notin Master
  BY ThreadAssumption DEF Thread
<1>1. Shape'
  BY DEF Shape, MasterPC, WorkerPC
<1>2. Waiting' = Waiting /\ Counted' = Counted /\ Outstanding' = Outstanding
  BY DEF Waiting, Counted, Outstanding, Shape, BatchInv
<1>3. batch[t] \cap Bad # {} => \E m \in Master : added[m] \cap Bad # {}
  BY DEF ControlInv, Outstanding, Shape
<1>4. CountersExact'
  BY <1>2 DEF CountersExact
<1>5. ControlInv'
  BY <1>2 DEF ControlInv, Shape
<1>6. BatchInv'
  BY DEF BatchInv, Shape
<1>7. FailureInv'
  BY <1>3 DEF FailureInv, Shape, BatchInv
<1>8. PoolInv'
  BY DEF PoolInv, Shape
<1>9. ControlLeavesClean'
  BY <1>2 DEF ControlLeavesClean, Shape
<1>10. VerdictExact'
  BY DEF VerdictExact, Shape
<1> QED BY <1>1, <1>4, <1>5, <1>6, <1>7, <1>8, <1>9, <1>10

\* Starting resets counters of a pool in which no thread is counted.
LEMMA StartWorkerThreadsIInv ==
  ASSUME IInv, StartWorkerThreads
  PROVE  IInv'
<1> USE DEF IInv, StartWorkerThreads, shared, local, caller, Goto
<1> Thread = Worker \cup Master /\ Worker \cap Master = {} /\ NoOne \notin Master
  BY ThreadAssumption DEF Thread
<1>a. \A t \in Thread : batch[t] = {}
  BY DEF ControlLeavesClean, Outstanding, Shape
<1>1. Shape'
  BY DEF Shape, MasterPC, WorkerPC
<1>2. Waiting' = {} /\ Counted' = {} /\ Outstanding' = Outstanding
  BY <1>a DEF Waiting, Counted, Outstanding, Shape, ControlInv
<1>3. CountersExact'
  BY <1>2, FS_EmptySet DEF CountersExact
<1>4. ControlInv'
  BY <1>2 DEF ControlInv, Shape
<1>5. BatchInv'
  BY <1>a DEF BatchInv, Shape, ControlInv
<1>6. FailureInv'
  BY <1>a DEF FailureInv, Shape, ControlInv
<1>7. PoolInv'
  BY DEF PoolInv, Shape
<1>8. ControlLeavesClean'
  BY <1>2 DEF ControlLeavesClean, Shape
<1>9. VerdictExact'
  BY DEF VerdictExact, Shape
<1> QED BY <1>1, <1>3, <1>4, <1>5, <1>6, <1>7, <1>8, <1>9

\* A stop is requested while no control is open.
LEMMA RequestStopIInv ==
  ASSUME IInv, RequestStop
  PROVE  IInv'
<1> USE DEF IInv, RequestStop, shared, local, caller, Goto
<1> Thread = Worker \cup Master /\ Worker \cap Master = {} /\ NoOne \notin Master
  BY ThreadAssumption DEF Thread
<1>1. Shape'
  BY DEF Shape, MasterPC, WorkerPC
<1>2. Waiting' = Waiting /\ Counted' = Counted /\ Outstanding' = Outstanding
  BY DEF Waiting, Counted, Outstanding, Shape
<1>3. CountersExact'
  BY <1>2 DEF CountersExact
<1>4. ControlInv'
  BY <1>2 DEF ControlInv, Shape
<1>5. BatchInv'
  BY DEF BatchInv, Shape
<1>6. FailureInv'
  BY DEF FailureInv, Shape
<1>7. PoolInv'
  BY DEF PoolInv, Shape
<1>8. ControlLeavesClean'
  BY <1>2 DEF ControlLeavesClean, Shape
<1>9. VerdictExact'
  BY DEF VerdictExact, Shape
<1> QED BY <1>1, <1>3, <1>4, <1>5, <1>6, <1>7, <1>8, <1>9

\* Notifying the workers of a stop moves them between waiting states.
LEMMA NotifyStopIInv ==
  ASSUME IInv, NotifyStop
  PROVE  IInv'
<1> USE DEF IInv, NotifyStop, WorkersWoken, shared, local, caller, Goto
<1> Thread = Worker \cup Master /\ Worker \cap Master = {} /\ NoOne \notin Master
  BY ThreadAssumption DEF Thread
<1>1. Shape'
  BY DEF Shape, MasterPC, WorkerPC
<1>2. Waiting' = Waiting /\ Counted' = Counted /\ Outstanding' = Outstanding
  BY DEF Waiting, Counted, Outstanding, Shape, BatchInv
<1>3. CountersExact'
  BY <1>2 DEF CountersExact
<1>4. ControlInv'
  BY <1>2 DEF ControlInv, Shape
<1>5. BatchInv'
  BY DEF BatchInv, Shape
<1>6. FailureInv'
  BY DEF FailureInv, Shape
<1>7. PoolInv'
  BY DEF PoolInv, Shape
<1>8. ControlLeavesClean'
  BY <1>2 DEF ControlLeavesClean, Shape
<1>9. VerdictExact'
  BY DEF VerdictExact, Shape
<1> QED BY <1>1, <1>3, <1>4, <1>5, <1>6, <1>7, <1>8, <1>9

\* Every worker has left when the pool is stopped.
LEMMA JoinWorkersIInv ==
  ASSUME IInv, JoinWorkers
  PROVE  IInv'
<1> USE DEF IInv, JoinWorkers, shared, local, caller, Goto
<1> Thread = Worker \cup Master /\ Worker \cap Master = {} /\ NoOne \notin Master
  BY ThreadAssumption DEF Thread
<1>1. Shape'
  BY DEF Shape, MasterPC, WorkerPC
<1>2. Waiting' = Waiting /\ Counted' = Counted /\ Outstanding' = Outstanding
  BY DEF Waiting, Counted, Outstanding, Shape
<1>3. CountersExact'
  BY <1>2 DEF CountersExact
<1>4. ControlInv'
  BY <1>2 DEF ControlInv, Shape
<1>5. BatchInv'
  BY DEF BatchInv, Shape
<1>6. FailureInv'
  BY DEF FailureInv, Shape
<1>7. PoolInv'
  BY DEF PoolInv, Shape
<1>8. ControlLeavesClean'
  BY <1>2 DEF ControlLeavesClean, Shape
<1>9. VerdictExact'
  BY DEF VerdictExact, Shape
<1> QED BY <1>1, <1>3, <1>4, <1>5, <1>6, <1>7, <1>8, <1>9

\* Accounting for a batch moves its failure to fAllOk.
LEMMA AccountBatchIInv ==
  ASSUME IInv, NEW t \in Thread, Account(t), batch[t] # {}
  PROVE  IInv'
<1> USE DEF IInv, Account, EnterLoop, MasterWoken, caller, Goto
<1> Thread = Worker \cup Master /\ Worker \cap Master = {} /\ NoOne \notin Master
  BY ThreadAssumption DEF Thread
<1>1. Shape'
  BY DEF Shape, MasterPC, WorkerPC
<1>2. /\ Waiting' = Waiting /\ Counted' = Counted
      /\ Outstanding' = Outstanding \ batch[t] /\ batch[t] \subseteq Outstanding
  <2>1. Waiting' = Waiting
    BY DEF Waiting, Shape
  <2>2. Counted' = Counted
    BY DEF Counted, Shape
  <2>3. Outstanding' = Outstanding \ batch[t] /\ batch[t] \subseteq Outstanding
    BY DEF Outstanding, Shape, BatchInv
  <2> QED BY <2>1, <2>2, <2>3
<1>3. IsFiniteSet(batch[t])
  BY CheckAssumption, FS_Subset DEF Shape
<1>a. \A m \in Master : pc'[m] = "done" <=> pc[m] = "done"
  BY DEF Shape
<1>4. CountersExact'
  <2>1. /\ nIdle' = nIdle /\ nTotal' = nTotal
        /\ nTodo' = nTodo - Cardinality(batch[t])
    OBVIOUS
  <2>2. Cardinality(Outstanding') = Cardinality(Outstanding) - Cardinality(batch[t])
    BY <1>2, <1>3, CountMany, FiniteCounts
  <2> QED BY <1>2, <2>1, <2>2 DEF CountersExact
<1>5. ControlInv'
  BY <1>2 DEF ControlInv, Shape
<1>6. BatchInv'
  BY DEF BatchInv, Shape
<1>7. FailureInv'
  <2>1. pc[t] = "lock"
    OBVIOUS
  <2>2. ~fAllOk' => \E m \in Master : added'[m] \cap Bad # {}
    BY DEF FailureInv, Shape
  <2>3. \A u \in Thread : batch'[u] # {} /\ ~fOk'[u] => \E m \in Master : added'[m] \cap Bad # {}
    BY DEF FailureInv, Shape
  <2>4. ASSUME NEW m \in Master, pc'[m] # "done", NEW c \in added[m] \cap Bad
        PROVE  \/ c \in queue'
               \/ ~fAllOk'
               \/ \E u \in Thread : c \in batch'[u] /\ (pc'[u] = "run" \/ ~fOk'[u])
    <3>1. \/ c \in queue
          \/ ~fAllOk
          \/ \E u \in Thread : c \in batch[u] /\ (pc[u] = "run" \/ ~fOk[u])
      BY <2>4, <1>a DEF FailureInv
    <3>2. ASSUME NEW u \in Thread, c \in batch[u], pc[u] = "run" \/ ~fOk[u]
          PROVE  \/ ~fAllOk'
                 \/ c \in batch'[u] /\ (pc'[u] = "run" \/ ~fOk'[u])
      BY <3>2, <2>1 DEF Shape
    <3> QED BY <3>1, <3>2
  <2> QED BY <2>2, <2>3, <2>4 DEF FailureInv
<1>8. PoolInv'
  BY DEF PoolInv, Shape
<1>9. ControlLeavesClean'
  BY <1>2 DEF ControlLeavesClean, Shape
<1>10. VerdictExact'
  <2>1. UNCHANGED <<added, verdict>>
    OBVIOUS
  <2> QED BY <1>a, <2>1 DEF VerdictExact
<1> QED BY <1>1, <1>4, <1>5, <1>6, <1>7, <1>8, <1>9, <1>10

\* The first iteration only counts the thread.
LEMMA AccountFirstIInv ==
  ASSUME IInv, NEW t \in Thread, Account(t), batch[t] = {}
  PROVE  IInv'
<1> USE DEF IInv, Account, EnterLoop, caller, Goto
<1> Thread = Worker \cup Master /\ Worker \cap Master = {} /\ NoOne \notin Master
  BY ThreadAssumption DEF Thread
<1>1. Shape'
  BY DEF Shape, MasterPC, WorkerPC
<1>2. /\ Waiting' = Waiting /\ Outstanding' = Outstanding
      /\ Counted' = Counted \cup {t} /\ t \notin Counted
  BY DEF Waiting, Counted, Outstanding, Shape
<1>3. CountersExact'
  BY <1>2, CountOne, FiniteCounts DEF CountersExact
<1>4. ControlInv'
  BY <1>2 DEF ControlInv, Shape
<1>5. BatchInv'
  BY DEF BatchInv, Shape
<1>6. FailureInv'
  BY DEF FailureInv, Shape
<1>7. PoolInv'
  BY DEF PoolInv, Shape
<1>8. ControlLeavesClean'
  BY <1>2 DEF ControlLeavesClean, Shape
<1>9. VerdictExact'
  BY DEF VerdictExact, Shape
<1> QED BY <1>1, <1>3, <1>4, <1>5, <1>6, <1>7, <1>8, <1>9

\* Steps that change nothing.
LEMMA StutterIInv ==
  ASSUME IInv, UNCHANGED vars
  PROVE  IInv'
BY DEF IInv, vars, shared, local, caller, Shape, CountersExact, ControlInv, BatchInv,
       FailureInv, PoolInv, ControlLeavesClean, VerdictExact, Waiting, Counted, Outstanding

-----------------------------------------------------------------------------

\* The invariant from which the theorems below follow.
THEOREM Invariance == Spec => []IInv
<1>1. IInv /\ [Next]_vars => IInv'
  <2> SUFFICES ASSUME IInv, [Next]_vars PROVE IInv'
    OBVIOUS
  <2>1. ASSUME NEW m \in Master, OpenControl(m) PROVE IInv'
    BY <2>1, OpenControlIInv
  <2>2. ASSUME NEW m \in Master, NEW checks \in (SUBSET Unused) \ {{}}, Add(m, checks)
        PROVE  IInv'
    BY <2>2, AddIInv
  <2>3. ASSUME NEW m \in Master, MasterStep(m) PROVE IInv'
    BY <2>3, NotifyOneIInv, NotifyAllIInv, WaitIInv, ReturnIInv, CloseControlIInv
    DEF MasterStep
  <2>4. ASSUME NEW w \in Worker, Leave(w) PROVE IInv'
    BY <2>4, LeaveIInv
  <2>5. ASSUME NEW t \in Thread, TakeMutex(t) PROVE IInv'
    BY <2>5, AccountBatchIInv, AccountFirstIInv, WakeupIInv DEF TakeMutex
  <2>6. ASSUME NEW t \in Thread, LoopStep(t) PROVE IInv'
    BY <2>6, SleepIInv, TakeIInv, ExecuteIInv DEF LoopStep
  <2>7. ASSUME NEW t \in Thread, SpuriousWakeup(t) PROVE IInv'
    BY <2>7, SpuriousWakeupIInv
  <2>8. CASE StartWorkerThreads
    BY <2>8, StartWorkerThreadsIInv
  <2>9. CASE RequestStop
    BY <2>9, RequestStopIInv
  <2>10. CASE StopStep
    BY <2>10, NotifyStopIInv, JoinWorkersIInv DEF StopStep
  <2>11. CASE UNCHANGED vars
    BY <2>11, StutterIInv
  <2> QED BY <2>1, <2>2, <2>3, <2>4, <2>5, <2>6, <2>7, <2>8, <2>9, <2>10, <2>11 DEF Next
<1> QED BY <1>1, InitIInv, PTL DEF Spec

\* The counters of CCheckQueue never leave the range of what they count, so
\* that neither nTodo nor a batch size wraps around.
THEOREM TypeCorrect == Spec => []TypeOK
<1>1. IInv => TypeOK
  BY FiniteCounts DEF IInv, TypeOK, CountersExact
<1> QED BY <1>1, Invariance, PTL

\* CCheckQueue::Wait answers with the verdict on the checks of its control,
\* for every number of threads and checks.
THEOREM VerdictIsExact == Spec => []VerdictExact
<1>1. IInv => VerdictExact
  BY DEF IInv
<1> QED BY <1>1, Invariance, PTL

\* No check outlives Wait and no failure reaches the next control.
THEOREM ControlsLeaveClean == Spec => []ControlLeavesClean
<1>1. IInv => ControlLeavesClean
  BY DEF IInv
<1> QED BY <1>1, Invariance, PTL

\* nIdle, nTotal and nTodo count what their comments say they count.
THEOREM CountersAreExact == Spec => []CountersExact
<1>1. IInv => CountersExact
  BY DEF IInv
<1> QED BY <1>1, Invariance, PTL
=============================================================================
