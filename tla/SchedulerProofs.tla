-------------------------- MODULE SchedulerProofs --------------------------
(***************************************************************************)
(* A SingleThreadedSchedulerClient executes its callbacks one at a time    *)
(* and in order, and forgets none, for any number of threads that serve    *)
(* the scheduler or add callbacks.                                         *)
(***************************************************************************)
EXTENDS Scheduler, FiniteSetTheorems, SequenceTheorems, TLAPS

\* Threads between the two updates of nThreadsServicingQueue.
Servicing == {t \in Thread : pc[t] \notin {"start", "left"}}

\* The flag is set exactly while one actor is inside callback().
RunningInv ==
  /\ m_are_callbacks_running <=> \E a \in Actor : pc[a] = "callback"
  /\ \A a, b \in Actor : pc[a] = "callback" /\ pc[b] = "callback" => a = b
  /\ \A a \in Actor : pc[a] = "callback" => callback[a] \in Caller

IInv ==
  /\ TypeOK
  /\ nThreadsServicingQueue = Cardinality(Servicing)
  /\ RunningInv
  /\ NoneForgotten

\* A step of the client, or of the scheduler around it, is a step of the
\* executor or none.
ExecutorStep == [Executor!Next]_(Executor!vars)

-----------------------------------------------------------------------------

\* Adding an element to a finite set, or removing one, moves its size by one.
LEMMA CountOne ==
  ASSUME NEW S, NEW T, NEW x, IsFiniteSet(S)
  PROVE  /\ x \notin S /\ T = S \cup {x} => Cardinality(T) = Cardinality(S) + 1
         /\ x \in S /\ T = S \ {x} => Cardinality(T) = Cardinality(S) - 1
BY FS_AddElement, FS_RemoveElement

\* The threads that serve the queue are some of the threads.
LEMMA CountThreads ==
  ASSUME NEW S \in SUBSET Thread
  PROVE  IsFiniteSet(S) /\ Cardinality(S) \in 0 .. Cardinality(Thread)
<1>1. IsFiniteSet(Thread) /\ Cardinality(Thread) \in Nat
  BY ActorAssumption, FS_CardinalityType
<1> QED BY <1>1, FS_Subset, FS_CardinalityType

\* The one actor in callback() is the one that Executing chooses.
LEMMA TheOne ==
  ASSUME NEW p, NEW a \in Actor, p[a] = "callback",
         \A b \in Actor : p[b] = "callback" => b = a
  PROVE  (CHOOSE b \in Actor : p[b] = "callback") = a
OBVIOUS

\* schedule keeps the tasks it finds, in order, and adds the new one.
LEMMA ScheduleAdds ==
  ASSUME TypeOK, NEW job \in {"process", "repeat"}, NEW time \in 0 .. Delta,
         Schedule(job, time)
  PROVE  /\ taskQueue' \in Seq(Task)
         /\ \A i, j \in 1 .. Len(taskQueue') : i <= j => taskQueue'[i].time <= taskQueue'[j].time
         /\ job = "process" => ProcessScheduled'
         /\ ProcessScheduled => ProcessScheduled'
<1> DEFINE x == [job |-> job, time |-> time]
           l == Len(taskQueue)
<1>1. PICK n \in 0 .. l :
        /\ \A i \in 1 .. n : taskQueue[i].time <= time
        /\ \A i \in n + 1 .. l : taskQueue[i].time > time
        /\ taskQueue' = [i \in 1 .. l + 1 |-> IF i <= n THEN taskQueue[i]
                                              ELSE IF i = n + 1 THEN x
                                              ELSE taskQueue[i - 1]]
  BY DEF Schedule
<1>2. l \in Nat /\ \A i \in 1 .. l : taskQueue[i] \in Task
  BY DEF TypeOK
<1>3. x \in Task /\ x.job = job /\ x.time = time
  BY DEF Task
<1>4. \A i \in 1 .. l + 1 : taskQueue'[i] \in Task
  BY <1>1, <1>2, <1>3
<1>5. taskQueue' \in [1 .. l + 1 -> Task]
  BY <1>1, <1>4
<1>6. taskQueue' \in Seq(Task) /\ Len(taskQueue') = l + 1
  BY <1>2, <1>5, SeqDef
<1>7. \A i, j \in 1 .. l : i <= j => taskQueue[i].time <= taskQueue[j].time
  BY DEF TypeOK
<1>8. ASSUME NEW i \in 1 .. l + 1, NEW j \in 1 .. l + 1, i <= j
      PROVE  taskQueue'[i].time <= taskQueue'[j].time
  <2> HIDE DEF x, l
  <2>1. \A k \in 1 .. l : taskQueue[k].time \in Int
    BY <1>2 DEF Task
  <2>2. \A k \in 1 .. l + 1 : k <= n => taskQueue'[k] = taskQueue[k] /\ k \in 1 .. l
    BY <1>1, <1>2
  <2>3. taskQueue'[n + 1] = x
    BY <1>1, <1>2
  <2>4. \A k \in 1 .. l + 1 : k > n + 1 => taskQueue'[k] = taskQueue[k - 1] /\ k - 1 \in n + 1 .. l
    BY <1>1, <1>2
  <2>5. CASE j <= n
    BY <1>8, <2>2, <2>5, <1>7, <1>1
  <2>6. CASE j = n + 1
    <3>1. CASE i <= n
      BY <1>8, <2>2, <2>3, <2>6, <3>1, <1>1, <1>3
    <3>2. CASE i = n + 1
      BY <2>3, <2>6, <3>2, <1>3
    <3> QED BY <1>8, <1>1, <2>6, <3>1, <3>2
  <2>7. CASE j > n + 1
    <3>1. CASE i <= n
      <4>1. i \in 1 .. l /\ j - 1 \in 1 .. l /\ i <= j - 1
        BY <3>1, <2>7, <1>1, <1>2
      <4> QED BY <4>1, <2>2, <2>4, <2>7, <3>1, <1>7
    <3>2. CASE i = n + 1
      <4>1. taskQueue[j - 1].time > time
        BY <2>4, <2>7, <1>1
      <4>2. taskQueue[j - 1].time \in Int
        BY <2>1, <2>4, <2>7, <1>1, <1>2
      <4> QED BY <4>1, <4>2, <2>3, <2>4, <2>7, <3>2, <1>3
    <3>3. CASE i > n + 1
      <4>1. i - 1 \in 1 .. l /\ j - 1 \in 1 .. l /\ i - 1 <= j - 1
        BY <3>3, <2>7, <1>1, <1>2, <1>8
      <4> QED BY <4>1, <2>4, <2>7, <3>3, <1>7
    <3> QED BY <1>1, <3>1, <3>2, <3>3
  <2> QED BY <1>1, <2>5, <2>6, <2>7
<1>9. job = "process" => ProcessScheduled'
  <2>1. n + 1 \in 1 .. l + 1 /\ taskQueue'[n + 1] = x
    BY <1>1, <1>2
  <2> QED BY <2>1, <1>3, <1>6 DEF ProcessScheduled
<1>10. ProcessScheduled => ProcessScheduled'
  <2> SUFFICES ASSUME NEW i \in 1 .. l, taskQueue[i].job = "process"
               PROVE  ProcessScheduled'
    BY DEF ProcessScheduled
  <2>1. CASE i <= n
    <3>1. i \in 1 .. l + 1 /\ taskQueue'[i] = taskQueue[i]
      BY <1>1, <1>2, <2>1
    <3> QED BY <3>1, <1>6 DEF ProcessScheduled
  <2>2. CASE i > n
    <3>1. i + 1 \in 1 .. l + 1 /\ taskQueue'[i + 1] = taskQueue[i]
      BY <1>1, <1>2, <2>2
    <3> QED BY <3>1, <1>6 DEF ProcessScheduled
  <2> QED BY <1>1, <2>1, <2>2
<1> QED BY <1>6, <1>8, <1>9, <1>10
-----------------------------------------------------------------------------
(* Each action preserves the invariant and is a step of the executor.  *)

\* An initial state.
LEMMA InitIInv == Init => IInv /\ Executor!Init
<1> SUFFICES ASSUME Init PROVE IInv /\ Executor!Init
  OBVIOUS
<1> USE ActorAssumption, BoundAssumption DEF Init
<1>1. TypeOK
  <2>1. [job |-> "repeat", time |-> Delta] \in Task
    BY DEF Task
  <2>2. taskQueue \in Seq(Task) /\ Len(taskQueue) = 1
    BY <2>1
  <2>3. \A i, j \in 1 .. Len(taskQueue) : i <= j => taskQueue[i].time <= taskQueue[j].time
    BY <2>1, <2>2
  <2>4. 0 \in 0 .. Cardinality(Thread)
    BY CountThreads, FS_EmptySet
  <2>5. /\ pc \in [Actor -> ThreadPC \cup CallerPC \cup MainPC]
        /\ \A t \in Thread : pc[t] \in ThreadPC
        /\ \A c \in Caller : pc[c] \in CallerPC
        /\ pc[Main] \in MainPC
    BY DEF Actor, ThreadPC, CallerPC, MainPC
  <2>6. waitFor \in [Thread -> 0 .. Delta] /\ m_callbacks_pending \in Seq(Caller)
    OBVIOUS
  <2> QED BY <2>2, <2>3, <2>4, <2>5, <2>6 DEF TypeOK
<1>2. nThreadsServicingQueue = Cardinality(Servicing)
  <2>1. Servicing = {}
    BY DEF Servicing, Actor
  <2> QED BY <2>1, FS_EmptySet
<1>3. RunningInv
  BY DEF RunningInv
<1>4. NoneForgotten
  BY DEF NoneForgotten, Actor
<1>5. Executor!Init
  BY DEF Executor!Init, Executing
<1> QED BY <1>1, <1>2, <1>3, <1>4, <1>5 DEF IInv

\* A step that neither begins nor ends a callback is no step of the executor.
LEMMA Quiet ==
  ASSUME RunningInv, UNCHANGED clientVars,
         \A a \in Actor : pc'[a] = "callback" <=> pc[a] = "callback"
  PROVE  RunningInv' /\ ExecutorStep
<1> USE DEF clientVars
<1>1. RunningInv'
  BY DEF RunningInv
<1>2. Executing' = Executing
  <2>1. CASE \E a \in Actor : pc[a] = "callback"
    <3>1. PICK a \in Actor : pc[a] = "callback"
      BY <2>1
    <3>2. (CHOOSE b \in Actor : pc[b] = "callback") = a
      BY <3>1, TheOne DEF RunningInv
    <3>3. (CHOOSE b \in Actor : pc'[b] = "callback") = a
      BY <1>1, <3>1, TheOne DEF RunningInv
    <3> QED BY <2>1, <3>2, <3>3 DEF Executing
  <2>2. CASE ~ \E a \in Actor : pc[a] = "callback"
    BY <2>2 DEF Executing
  <2> QED BY <2>1, <2>2
<1> QED BY <1>1, <1>2 DEF ExecutorStep, Executor!vars

\* A thread starts to serve the queue and is counted.
LEMMA EnterServiceQueueIInv ==
  ASSUME IInv, NEW t \in Thread, EnterServiceQueue(t)
  PROVE  IInv' /\ ExecutorStep
<1> USE DEF IInv, EnterServiceQueue, schedulerVars, clientVars, Goto
<1> /\ Actor = Thread \cup Caller \cup {Main}
    /\ Thread \cap Caller = {} /\ Main \notin Thread \cup Caller
  BY ActorAssumption DEF Actor
<1>2. nThreadsServicingQueue' = Cardinality(Servicing') /\ nThreadsServicingQueue' \in 0 .. Cardinality(Thread)
  <2>1. Servicing' = Servicing \cup {t} /\ t \notin Servicing
    BY DEF Servicing, TypeOK
  <2>2. Servicing \in SUBSET Thread /\ Servicing' \in SUBSET Thread
    BY DEF Servicing
  <2> QED BY <2>1, <2>2, CountOne, CountThreads
<1>1. TypeOK'
  BY <1>2 DEF TypeOK, ThreadPC, CallerPC, MainPC, ProcessPC, ClientPC
<1>3. RunningInv' /\ ExecutorStep
  <2>1. \A b \in Actor : pc'[b] = "callback" <=> pc[b] = "callback"
    BY DEF TypeOK
  <2> QED BY <2>1, Quiet DEF clientVars
<1>4. NoneForgotten'
  BY DEF NoneForgotten, ProcessScheduled, TypeOK
<1> QED BY <1>1, <1>2, <1>3, <1>4

\* A thread that stops is not counted any more.
LEMMA DecideStopsIInv ==
  ASSUME IInv, NEW t \in Thread, pc[t] \in {"woken", "timeout"}, shouldStop,
         Decide(t)
  PROVE  IInv' /\ ExecutorStep
<1> USE DEF IInv, Decide, Blocked, schedulerVars, clientVars, Goto
<1> /\ Actor = Thread \cup Caller \cup {Main}
    /\ Thread \cap Caller = {} /\ Main \notin Thread \cup Caller
  BY ActorAssumption DEF Actor
<1>2. nThreadsServicingQueue' = Cardinality(Servicing') /\ nThreadsServicingQueue' \in 0 .. Cardinality(Thread)
  <2>1. Servicing' = Servicing \ {t} /\ t \in Servicing
    BY DEF Servicing, TypeOK
  <2>2. Servicing \in SUBSET Thread /\ Servicing' \in SUBSET Thread
    BY DEF Servicing
  <2> QED BY <2>1, <2>2, CountOne, CountThreads
<1>1. TypeOK'
  BY <1>2 DEF TypeOK, ThreadPC, CallerPC, MainPC, ProcessPC, ClientPC
<1>3. RunningInv' /\ ExecutorStep
  <2>1. \A b \in Actor : pc'[b] = "callback" <=> pc[b] = "callback"
    BY DEF TypeOK
  <2> QED BY <2>1, Quiet DEF clientVars
<1>4. NoneForgotten'
  BY DEF NoneForgotten, ProcessScheduled, TypeOK
<1> QED BY <1>1, <1>2, <1>3, <1>4

\* A thread that waits keeps its place.
LEMMA DecideWaitsIInv ==
  ASSUME IInv, NEW t \in Thread, pc[t] \in {"woken", "timeout"}, ~shouldStop,
         Decide(t)
  PROVE  IInv' /\ ExecutorStep
<1> USE DEF IInv, Decide, schedulerVars, clientVars, Goto
<1> /\ Actor = Thread \cup Caller \cup {Main}
    /\ Thread \cap Caller = {} /\ Main \notin Thread \cup Caller
  BY ActorAssumption DEF Actor
<1>1. TypeOK'
  <2>1. taskQueue # <<>> => taskQueue[1].time \in 0 .. Delta
    <3>1. taskQueue \in Seq(Task)
      BY DEF TypeOK
    <3>2. taskQueue # <<>> => 1 \in 1 .. Len(taskQueue)
      BY <3>1, EmptySeq
    <3>3. taskQueue # <<>> => taskQueue[1] \in Task
      BY <3>1, <3>2, ElementOfSeq
    <3> QED BY <3>3 DEF Task
  <2> QED BY <2>1 DEF TypeOK, ThreadPC, CallerPC, MainPC, ProcessPC, ClientPC
<1>2. nThreadsServicingQueue' = Cardinality(Servicing')
  <2>1. Servicing' = Servicing
    BY DEF Servicing, TypeOK
  <2> QED BY <2>1
<1>3. RunningInv' /\ ExecutorStep
  <2>1. \A b \in Actor : pc'[b] = "callback" <=> pc[b] = "callback"
    BY DEF TypeOK
  <2> QED BY <2>1, Quiet DEF clientVars
<1>4. NoneForgotten'
  BY DEF NoneForgotten, ProcessScheduled, TypeOK
<1> QED BY <1>1, <1>2, <1>3, <1>4

\* Waking up changes no callback.
LEMMA SpuriousWakeupIInv ==
  ASSUME IInv, NEW t \in Thread, SpuriousWakeup(t)
  PROVE  IInv' /\ ExecutorStep
<1> USE DEF IInv, SpuriousWakeup, Blocked, schedulerVars, clientVars, Goto
<1> /\ Actor = Thread \cup Caller \cup {Main}
    /\ Thread \cap Caller = {} /\ Main \notin Thread \cup Caller
  BY ActorAssumption DEF Actor
<1>1. TypeOK'
  BY DEF TypeOK, ThreadPC, CallerPC, MainPC, ProcessPC, ClientPC
<1>2. nThreadsServicingQueue' = Cardinality(Servicing')
  <2>1. Servicing' = Servicing
    BY DEF Servicing, TypeOK
  <2> QED BY <2>1
<1>3. RunningInv' /\ ExecutorStep
  <2>1. \A b \in Actor : pc'[b] = "callback" <=> pc[b] = "callback"
    BY DEF TypeOK
  <2> QED BY <2>1, Quiet DEF clientVars
<1>4. NoneForgotten'
  BY DEF NoneForgotten, ProcessScheduled, TypeOK
<1> QED BY <1>1, <1>2, <1>3, <1>4

\* Timing out changes no callback.
LEMMA TimeoutIInv ==
  ASSUME IInv, NEW t \in Thread, Timeout(t)
  PROVE  IInv' /\ ExecutorStep
<1> USE DEF IInv, Timeout, schedulerVars, clientVars, Goto
<1> /\ Actor = Thread \cup Caller \cup {Main}
    /\ Thread \cap Caller = {} /\ Main \notin Thread \cup Caller
  BY ActorAssumption DEF Actor
<1>1. TypeOK'
  BY DEF TypeOK, ThreadPC, CallerPC, MainPC, ProcessPC, ClientPC
<1>2. nThreadsServicingQueue' = Cardinality(Servicing')
  <2>1. Servicing' = Servicing
    BY DEF Servicing, TypeOK
  <2> QED BY <2>1
<1>3. RunningInv' /\ ExecutorStep
  <2>1. \A b \in Actor : pc'[b] = "callback" <=> pc[b] = "callback"
    BY DEF TypeOK
  <2> QED BY <2>1, Quiet DEF clientVars
<1>4. NoneForgotten'
  BY DEF NoneForgotten, ProcessScheduled, TypeOK
<1> QED BY <1>1, <1>2, <1>3, <1>4

\* A ProcessQueue that is taken from the queue is in the hands of its thread.
LEMMA PopTaskIInv ==
  ASSUME IInv, NEW t \in Thread, ~shouldStop, taskQueue # <<>>,
         TakeTask(t)
  PROVE  IInv' /\ ExecutorStep
<1> USE DEF IInv, TakeTask, schedulerVars, clientVars, Goto
<1> /\ Actor = Thread \cup Caller \cup {Main}
    /\ Thread \cap Caller = {} /\ Main \notin Thread \cup Caller
  BY ActorAssumption DEF Actor
<1>a. taskQueue[1] \in Task /\ Tail(taskQueue) \in Seq(Task)
  BY DEF TypeOK
<1>b. /\ Len(taskQueue') = Len(taskQueue) - 1
      /\ \A i \in 1 .. Len(taskQueue') :
           taskQueue'[i] = taskQueue[i + 1] /\ i + 1 \in 1 .. Len(taskQueue)
  <2>1. taskQueue \in Seq(Task) /\ taskQueue' = Tail(taskQueue)
    BY DEF TypeOK
  <2>2. Len(taskQueue) \in Nat
    BY <2>1
  <2> QED BY <2>1, <2>2, HeadTailProperties
<1>c. \A i, j \in 1 .. Len(taskQueue') : i <= j => taskQueue'[i].time <= taskQueue'[j].time
  <2> SUFFICES ASSUME NEW i \in 1 .. Len(taskQueue'), NEW j \in 1 .. Len(taskQueue'), i <= j
               PROVE  taskQueue'[i].time <= taskQueue'[j].time
    OBVIOUS
  <2>1. i + 1 <= j + 1
    OBVIOUS
  <2> QED BY <1>b, <2>1 DEF TypeOK
<1>d. taskQueue[1].job \in {"process", "repeat"}
  BY <1>a DEF Task
<1>1. TypeOK'
  BY <1>a, <1>c, <1>d DEF TypeOK, ThreadPC, CallerPC, MainPC, ProcessPC, ClientPC
<1>2. nThreadsServicingQueue' = Cardinality(Servicing')
  <2>1. Servicing' = Servicing
    BY <1>d DEF Servicing, TypeOK
  <2> QED BY <2>1
<1>3. RunningInv' /\ ExecutorStep
  <2>1. \A b \in Actor : pc'[b] = "callback" <=> pc[b] = "callback"
    BY <1>d DEF TypeOK
  <2> QED BY <2>1, Quiet DEF clientVars
<1>4. NoneForgotten'
  <2>1. ProcessScheduled => ProcessScheduled' \/ pc'[t] = "process"
    <3> SUFFICES ASSUME NEW i \in 1 .. Len(taskQueue), taskQueue[i].job = "process"
                 PROVE  ProcessScheduled' \/ pc'[t] = "process"
      BY DEF ProcessScheduled
    <3>1. CASE i = 1
      BY <3>1 DEF TypeOK
    <3>2. CASE i # 1
      <4>1. i - 1 \in 1 .. Len(taskQueue') /\ taskQueue'[i - 1] = taskQueue[i]
        BY <1>b, <3>2 DEF TypeOK
      <4> QED BY <4>1 DEF ProcessScheduled
    <3> QED BY <3>1, <3>2
  <2> QED BY <2>1 DEF NoneForgotten, TypeOK
<1> QED BY <1>1, <1>2, <1>3, <1>4

\* The repeated task is scheduled again beside the others.
LEMMA RepeatIInv ==
  ASSUME IInv, NEW t \in Thread, Repeat(t)
  PROVE  IInv' /\ ExecutorStep
<1> USE DEF IInv, Repeat, schedulerVars, clientVars, Goto
<1> /\ Actor = Thread \cup Caller \cup {Main}
    /\ Thread \cap Caller = {} /\ Main \notin Thread \cup Caller
  BY ActorAssumption DEF Actor
<1>a. /\ taskQueue' \in Seq(Task)
      /\ \A i, j \in 1 .. Len(taskQueue') : i <= j => taskQueue'[i].time <= taskQueue'[j].time
      /\ ProcessScheduled => ProcessScheduled'
  BY ScheduleAdds, BoundAssumption
<1>1. TypeOK'
  BY <1>a DEF TypeOK, ThreadPC, CallerPC, MainPC, ProcessPC, ClientPC
<1>2. nThreadsServicingQueue' = Cardinality(Servicing')
  <2>1. Servicing' = Servicing
    BY DEF Servicing, TypeOK
  <2> QED BY <2>1
<1>3. RunningInv' /\ ExecutorStep
  <2>1. \A b \in Actor : pc'[b] = "callback" <=> pc[b] = "callback"
    BY DEF TypeOK
  <2> QED BY <2>1, Quiet DEF clientVars
<1>4. NoneForgotten'
  BY <1>a DEF NoneForgotten, TypeOK
<1> QED BY <1>1, <1>2, <1>3, <1>4

\* Time keeps the order of the tasks.
LEMMA TickIInv ==
  ASSUME IInv, Tick
  PROVE  IInv' /\ ExecutorStep
<1> USE DEF IInv, Tick, schedulerVars, clientVars, Goto
<1> /\ Actor = Thread \cup Caller \cup {Main}
    /\ Thread \cap Caller = {} /\ Main \notin Thread \cup Caller
  BY ActorAssumption DEF Actor
<1>a. \A n \in 0 .. Delta : Nearer(n) \in 0 .. Delta
  BY BoundAssumption DEF Nearer
<1>b. \A i \in 1 .. Len(taskQueue) : taskQueue[i] \in Task
  BY DEF TypeOK
<1>c. taskQueue' \in Seq(Task) /\ Len(taskQueue') = Len(taskQueue)
  <2>1. taskQueue' \in [1 .. Len(taskQueue) -> Task]
    BY <1>a, <1>b DEF Task
  <2>2. Len(taskQueue) \in Nat
    BY DEF TypeOK
  <2> QED BY <2>1, <2>2, SeqDef
<1>d. \A i, j \in 1 .. Len(taskQueue') : i <= j => taskQueue'[i].time <= taskQueue'[j].time
  <2> SUFFICES ASSUME NEW i \in 1 .. Len(taskQueue), NEW j \in 1 .. Len(taskQueue), i <= j
               PROVE  taskQueue'[i].time <= taskQueue'[j].time
    BY <1>c
  <2>1. /\ taskQueue'[i].time = Nearer(taskQueue[i].time)
        /\ taskQueue'[j].time = Nearer(taskQueue[j].time)
    OBVIOUS
  <2>2. taskQueue[i].time <= taskQueue[j].time
    BY DEF TypeOK
  <2>3. taskQueue[i].time \in Nat /\ taskQueue[j].time \in Nat
    BY <1>b DEF Task
  <2> QED BY <2>1, <2>2, <2>3 DEF Nearer
<1>1. TypeOK'
  BY <1>a, <1>c, <1>d DEF TypeOK
<1>2. nThreadsServicingQueue' = Cardinality(Servicing')
  <2>1. Servicing' = Servicing
    BY DEF Servicing, TypeOK
  <2> QED BY <2>1
<1>3. RunningInv' /\ ExecutorStep
  <2>1. \A b \in Actor : pc'[b] = "callback" <=> pc[b] = "callback"
    BY DEF TypeOK
  <2> QED BY <2>1, Quiet DEF clientVars
<1>4. NoneForgotten'
  <2>1. ProcessScheduled => ProcessScheduled'
    BY <1>c DEF ProcessScheduled
  <2> QED BY <2>1 DEF NoneForgotten
<1> QED BY <1>1, <1>2, <1>3, <1>4

\* An added callback is the last, and its caller looks after it.
LEMMA AddToProcessQueueIInv ==
  ASSUME IInv, NEW c \in Caller, AddToProcessQueue(c)
  PROVE  IInv' /\ ExecutorStep
<1> USE DEF IInv, AddToProcessQueue, schedulerVars, clientVars, Goto
<1> /\ Actor = Thread \cup Caller \cup {Main}
    /\ Thread \cap Caller = {} /\ Main \notin Thread \cup Caller
  BY ActorAssumption DEF Actor
<1>1. TypeOK'
  BY DEF TypeOK, ThreadPC, CallerPC, MainPC, ProcessPC, ClientPC
<1>2. nThreadsServicingQueue' = Cardinality(Servicing')
  <2>1. Servicing' = Servicing
    BY DEF Servicing, TypeOK
  <2> QED BY <2>1
<1>3. RunningInv' /\ ExecutorStep
  <2>1. \A b \in Actor : pc'[b] = "callback" <=> pc[b] = "callback"
    BY DEF TypeOK
  <2>2. RunningInv'
    BY <2>1 DEF RunningInv
  <2>3. Executing' = Executing
    <3>1. CASE \E a \in Actor : pc[a] = "callback"
      <4>1. PICK a \in Actor : pc[a] = "callback"
        BY <3>1
      <4>2. (CHOOSE b \in Actor : pc[b] = "callback") = a
        BY <4>1, TheOne DEF RunningInv
      <4>3. (CHOOSE b \in Actor : pc'[b] = "callback") = a
        BY <2>1, <2>2, <4>1, TheOne DEF RunningInv
      <4> QED BY <2>1, <3>1, <4>2, <4>3 DEF Executing
    <3>2. CASE ~ \E a \in Actor : pc[a] = "callback"
      BY <2>1, <3>2 DEF Executing
    <3> QED BY <3>1, <3>2
  <2>4. Executor!Add(c)
    BY <2>3 DEF Executor!Add
  <2> QED BY <2>2, <2>4 DEF ExecutorStep, Executor!Next
<1>4. NoneForgotten'
  BY DEF NoneForgotten, ProcessScheduled, TypeOK
<1> QED BY <1>1, <1>2, <1>3, <1>4

\* An actor leaves the callbacks to someone else only when one is running.
LEMMA MaybeScheduleProcessQueueIInv ==
  ASSUME IInv, NEW a \in Actor, MaybeScheduleProcessQueue(a)
  PROVE  IInv' /\ ExecutorStep
<1> USE DEF IInv, MaybeScheduleProcessQueue, After, schedulerVars, clientVars, Goto
<1> /\ Actor = Thread \cup Caller \cup {Main}
    /\ Thread \cap Caller = {} /\ Main \notin Thread \cup Caller
  BY ActorAssumption DEF Actor
<1>1. TypeOK'
  BY DEF TypeOK, ThreadPC, CallerPC, MainPC, ProcessPC, ClientPC
<1>2. nThreadsServicingQueue' = Cardinality(Servicing')
  <2>1. Servicing' = Servicing
    BY DEF Servicing, TypeOK
  <2> QED BY <2>1
<1>3. RunningInv' /\ ExecutorStep
  <2>1. \A b \in Actor : pc'[b] = "callback" <=> pc[b] = "callback"
    BY DEF TypeOK
  <2> QED BY <2>1, Quiet DEF clientVars
<1>4. NoneForgotten'
  BY DEF NoneForgotten, ProcessScheduled, TypeOK
<1> QED BY <1>1, <1>2, <1>3, <1>4

\* A ProcessQueue is scheduled.
LEMMA ScheduleProcessQueueIInv ==
  ASSUME IInv, NEW a \in Actor, ScheduleProcessQueue(a)
  PROVE  IInv' /\ ExecutorStep
<1> USE DEF IInv, ScheduleProcessQueue, schedulerVars, clientVars, Goto
<1> /\ Actor = Thread \cup Caller \cup {Main}
    /\ Thread \cap Caller = {} /\ Main \notin Thread \cup Caller
  BY ActorAssumption DEF Actor
<1>a. /\ taskQueue' \in Seq(Task)
      /\ \A i, j \in 1 .. Len(taskQueue') : i <= j => taskQueue'[i].time <= taskQueue'[j].time
      /\ ProcessScheduled'
  BY ScheduleAdds, BoundAssumption
<1>1. TypeOK'
  BY <1>a DEF TypeOK, ThreadPC, CallerPC, MainPC, ProcessPC, ClientPC
<1>2. nThreadsServicingQueue' = Cardinality(Servicing')
  <2>1. Servicing' = Servicing
    BY DEF Servicing, TypeOK
  <2> QED BY <2>1
<1>3. RunningInv' /\ ExecutorStep
  <2>1. \A b \in Actor : pc'[b] = "callback" <=> pc[b] = "callback"
    BY DEF TypeOK
  <2> QED BY <2>1, Quiet DEF clientVars
<1>4. NoneForgotten'
  BY <1>a DEF NoneForgotten, TypeOK
<1> QED BY <1>1, <1>2, <1>3, <1>4

\* A notification changes no callback.
LEMMA NotifyOneIInv ==
  ASSUME IInv, NEW a \in Actor, NotifyOne(a)
  PROVE  IInv' /\ ExecutorStep
<1> USE DEF IInv, NotifyOne, Blocked, After, schedulerVars, clientVars, Goto
<1> /\ Actor = Thread \cup Caller \cup {Main}
    /\ Thread \cap Caller = {} /\ Main \notin Thread \cup Caller
  BY ActorAssumption DEF Actor
<1>a. pc' \in [Actor -> ThreadPC \cup CallerPC \cup MainPC]
  BY DEF TypeOK, ThreadPC, CallerPC, MainPC, ProcessPC, ClientPC
<1>b. (\A t \in Thread : pc'[t] \in ThreadPC) /\ (\A c \in Caller : pc'[c] \in CallerPC)
  BY DEF TypeOK, ThreadPC, CallerPC, MainPC, ProcessPC, ClientPC
<1>c. pc'[Main] \in MainPC
  BY DEF TypeOK, ThreadPC, CallerPC, MainPC, ProcessPC, ClientPC
<1>1. TypeOK'
  BY <1>a, <1>b, <1>c DEF TypeOK
<1>2. nThreadsServicingQueue' = Cardinality(Servicing')
  <2>1. Servicing' = Servicing
    BY DEF Servicing, TypeOK
  <2> QED BY <2>1
<1>3. RunningInv' /\ ExecutorStep
  <2>1. \A b \in Actor : pc'[b] = "callback" <=> pc[b] = "callback"
    BY DEF TypeOK
  <2> QED BY <2>1, Quiet DEF clientVars
<1>4. NoneForgotten'
  BY DEF NoneForgotten, ProcessScheduled, TypeOK
<1> QED BY <1>1, <1>2, <1>3, <1>4

\* A ProcessQueue that finds a callback running, or none, leaves.
LEMMA ProcessQueueIdleIInv ==
  ASSUME IInv, NEW a \in Actor, m_are_callbacks_running \/ m_callbacks_pending = <<>>,
         ProcessQueue(a)
  PROVE  IInv' /\ ExecutorStep
<1> USE DEF IInv, ProcessQueue, BeginCallback, After, schedulerVars, clientVars, Goto
<1> /\ Actor = Thread \cup Caller \cup {Main}
    /\ Thread \cap Caller = {} /\ Main \notin Thread \cup Caller
  BY ActorAssumption DEF Actor
<1>1. TypeOK'
  BY DEF TypeOK, ThreadPC, CallerPC, MainPC, ProcessPC, ClientPC
<1>2. nThreadsServicingQueue' = Cardinality(Servicing')
  <2>1. Servicing' = Servicing
    BY DEF Servicing, TypeOK
  <2> QED BY <2>1
<1>3. RunningInv' /\ ExecutorStep
  <2>1. \A b \in Actor : pc'[b] = "callback" <=> pc[b] = "callback"
    BY DEF TypeOK
  <2> QED BY <2>1, Quiet DEF clientVars
<1>4. NoneForgotten'
  BY DEF NoneForgotten, ProcessScheduled, TypeOK
<1> QED BY <1>1, <1>2, <1>3, <1>4

\* Otherwise it begins the first callback, and no other runs.
LEMMA ProcessQueueBeginsIInv ==
  ASSUME IInv, NEW a \in Actor, ~m_are_callbacks_running, m_callbacks_pending # <<>>,
         ProcessQueue(a)
  PROVE  IInv' /\ ExecutorStep
<1> USE DEF IInv, ProcessQueue, BeginCallback, schedulerVars, clientVars, Goto
<1> /\ Actor = Thread \cup Caller \cup {Main}
    /\ Thread \cap Caller = {} /\ Main \notin Thread \cup Caller
  BY ActorAssumption DEF Actor
<1>a. Head(m_callbacks_pending) \in Caller /\ Tail(m_callbacks_pending) \in Seq(Caller)
  BY DEF TypeOK
<1>b. \A b \in Actor : pc'[b] = "callback" <=> b = a
  BY DEF TypeOK, RunningInv
<1>1. TypeOK'
  BY <1>a DEF TypeOK, ThreadPC, CallerPC, MainPC, ProcessPC, ClientPC
<1>2. nThreadsServicingQueue' = Cardinality(Servicing')
  <2>1. Servicing' = Servicing
    BY DEF Servicing, TypeOK
  <2> QED BY <2>1
<1>3. RunningInv' /\ ExecutorStep
  <2>1. RunningInv'
    BY <1>a, <1>b DEF RunningInv, TypeOK
  <2>2. Executing = Nobody
    BY DEF Executing, RunningInv
  <2>3. Executing' = Head(m_callbacks_pending)
    <3>1. (CHOOSE b \in Actor : pc'[b] = "callback") = a
      BY <1>b, TheOne
    <3>2. callback'[a] = Head(m_callbacks_pending)
      BY DEF TypeOK
    <3> QED BY <1>b, <3>1, <3>2 DEF Executing
  <2>4. Executor!Begin
    BY <2>2, <2>3 DEF Executor!Begin
  <2> QED BY <2>1, <2>4 DEF ExecutorStep, Executor!Next
<1>4. NoneForgotten'
  BY DEF NoneForgotten, ProcessScheduled, TypeOK
<1> QED BY <1>1, <1>2, <1>3, <1>4

\* The end of a callback leaves its actor to look for the next.
LEMMA EndCallbackIInv ==
  ASSUME IInv, NEW a \in Actor, EndCallback(a)
  PROVE  IInv' /\ ExecutorStep
<1> USE DEF IInv, EndCallback, schedulerVars, clientVars, Goto
<1> /\ Actor = Thread \cup Caller \cup {Main}
    /\ Thread \cap Caller = {} /\ Main \notin Thread \cup Caller
  BY ActorAssumption DEF Actor
<1>b. \A b \in Actor : pc'[b] # "callback"
  BY DEF TypeOK, RunningInv
<1>1. TypeOK'
  BY DEF TypeOK, ThreadPC, CallerPC, MainPC, ProcessPC, ClientPC
<1>2. nThreadsServicingQueue' = Cardinality(Servicing')
  <2>1. Servicing' = Servicing
    BY DEF Servicing, TypeOK
  <2> QED BY <2>1
<1>3. RunningInv' /\ ExecutorStep
  <2>1. RunningInv'
    BY <1>b DEF RunningInv
  <2>2. Executing = callback[a]
    <3>1. (CHOOSE b \in Actor : pc[b] = "callback") = a
      BY TheOne DEF RunningInv
    <3> QED BY <3>1 DEF Executing
  <2>3. Executing # Nobody
    BY <2>2, ActorAssumption DEF RunningInv
  <2>4. Executing' = Nobody
    BY <1>b DEF Executing
  <2>5. Executor!End
    BY <2>3, <2>4 DEF Executor!End
  <2> QED BY <2>1, <2>5 DEF ExecutorStep, Executor!Next
<1>4. NoneForgotten'
  BY DEF NoneForgotten, ProcessScheduled, TypeOK
<1> QED BY <1>1, <1>2, <1>3, <1>4

\* A stop changes no callback.
LEMMA StopIInv ==
  ASSUME IInv, Stop
  PROVE  IInv' /\ ExecutorStep
<1> USE DEF IInv, Stop, schedulerVars, clientVars, Goto
<1> /\ Actor = Thread \cup Caller \cup {Main}
    /\ Thread \cap Caller = {} /\ Main \notin Thread \cup Caller
  BY ActorAssumption DEF Actor
<1>1. TypeOK'
  BY DEF TypeOK, ThreadPC, CallerPC, MainPC, ProcessPC, ClientPC
<1>2. nThreadsServicingQueue' = Cardinality(Servicing')
  <2>1. Servicing' = Servicing
    BY DEF Servicing, TypeOK
  <2> QED BY <2>1
<1>3. RunningInv' /\ ExecutorStep
  <2>1. \A b \in Actor : pc'[b] = "callback" <=> pc[b] = "callback"
    BY DEF TypeOK
  <2> QED BY <2>1, Quiet DEF clientVars
<1>4. NoneForgotten'
  BY DEF NoneForgotten, ProcessScheduled, TypeOK
<1> QED BY <1>1, <1>2, <1>3, <1>4

\* Neither does its notification.
LEMMA StopNotifiesIInv ==
  ASSUME IInv, StopNotifies
  PROVE  IInv' /\ ExecutorStep
<1> USE DEF IInv, StopNotifies, Blocked, schedulerVars, clientVars, Goto
<1> /\ Actor = Thread \cup Caller \cup {Main}
    /\ Thread \cap Caller = {} /\ Main \notin Thread \cup Caller
  BY ActorAssumption DEF Actor
<1>1. TypeOK'
  BY DEF TypeOK, ThreadPC, CallerPC, MainPC, ProcessPC, ClientPC
<1>2. nThreadsServicingQueue' = Cardinality(Servicing')
  <2>1. Servicing' = Servicing
    BY DEF Servicing, TypeOK
  <2> QED BY <2>1
<1>3. RunningInv' /\ ExecutorStep
  <2>1. \A b \in Actor : pc'[b] = "callback" <=> pc[b] = "callback"
    BY DEF TypeOK
  <2> QED BY <2>1, Quiet DEF clientVars
<1>4. NoneForgotten'
  BY DEF NoneForgotten, ProcessScheduled, TypeOK
<1> QED BY <1>1, <1>2, <1>3, <1>4

\* The main thread takes over the callbacks.
LEMMA JoinIInv ==
  ASSUME IInv, Join
  PROVE  IInv' /\ ExecutorStep
<1> USE DEF IInv, Join, schedulerVars, clientVars, Goto
<1> /\ Actor = Thread \cup Caller \cup {Main}
    /\ Thread \cap Caller = {} /\ Main \notin Thread \cup Caller
  BY ActorAssumption DEF Actor
<1>1. TypeOK'
  BY DEF TypeOK, ThreadPC, CallerPC, MainPC, ProcessPC, ClientPC
<1>2. nThreadsServicingQueue' = Cardinality(Servicing')
  <2>1. Servicing' = Servicing
    BY DEF Servicing, TypeOK
  <2> QED BY <2>1
<1>3. RunningInv' /\ ExecutorStep
  <2>1. \A b \in Actor : pc'[b] = "callback" <=> pc[b] = "callback"
    BY DEF TypeOK
  <2> QED BY <2>1, Quiet DEF clientVars
<1>4. NoneForgotten'
  BY DEF NoneForgotten, ProcessScheduled, TypeOK
<1> QED BY <1>1, <1>2, <1>3, <1>4

\* EmptyQueue returns when no callback is left.
LEMMA EmptyQueueIInv ==
  ASSUME IInv, EmptyQueue
  PROVE  IInv' /\ ExecutorStep
<1> USE DEF IInv, EmptyQueue, schedulerVars, clientVars, Goto
<1> /\ Actor = Thread \cup Caller \cup {Main}
    /\ Thread \cap Caller = {} /\ Main \notin Thread \cup Caller
  BY ActorAssumption DEF Actor
<1>1. TypeOK'
  BY DEF TypeOK, ThreadPC, CallerPC, MainPC, ProcessPC, ClientPC
<1>2. nThreadsServicingQueue' = Cardinality(Servicing')
  <2>1. Servicing' = Servicing
    BY DEF Servicing, TypeOK
  <2> QED BY <2>1
<1>3. RunningInv' /\ ExecutorStep
  <2>1. \A b \in Actor : pc'[b] = "callback" <=> pc[b] = "callback"
    BY DEF TypeOK
  <2> QED BY <2>1, Quiet DEF clientVars
<1>4. NoneForgotten'
  BY DEF NoneForgotten, ProcessScheduled, TypeOK
<1> QED BY <1>1, <1>2, <1>3, <1>4

\* Steps that change nothing.
LEMMA StutterIInv ==
  ASSUME IInv, UNCHANGED vars
  PROVE  IInv' /\ ExecutorStep
<1> USE DEF IInv, vars, schedulerVars
<1>1. TypeOK'
  BY DEF TypeOK, clientVars
<1>2. nThreadsServicingQueue' = Cardinality(Servicing')
  BY DEF Servicing
<1>3. RunningInv' /\ ExecutorStep
  BY Quiet
<1>4. NoneForgotten'
  BY DEF NoneForgotten, ProcessScheduled, clientVars
<1> QED BY <1>1, <1>2, <1>3, <1>4

-----------------------------------------------------------------------------

\* Every step keeps the invariant and implements a step of the executor.
LEMMA NextIInv ==
  ASSUME IInv, [Next]_vars
  PROVE  IInv' /\ ExecutorStep
<1>1. ASSUME NEW t \in Thread, ServiceStep(t) PROVE IInv' /\ ExecutorStep
  <2>1. CASE EnterServiceQueue(t)
    BY <2>1, EnterServiceQueueIInv
  <2>2. CASE Resume(t)
    BY <2>2, DecideStopsIInv, DecideWaitsIInv DEF Resume
  <2>3. CASE Timeout(t)
    BY <2>3, TimeoutIInv
  <2>4. CASE TakeTask(t) /\ ~shouldStop /\ taskQueue # <<>>
    BY <2>4, PopTaskIInv
  <2>5. CASE TakeTask(t) /\ (shouldStop \/ taskQueue = <<>>)
    BY <2>5, DecideStopsIInv, DecideWaitsIInv DEF TakeTask
  <2>6. CASE Repeat(t)
    BY <2>6, RepeatIInv
  <2> QED BY <1>1, <2>1, <2>2, <2>3, <2>4, <2>5, <2>6 DEF ServiceStep
<1>2. ASSUME NEW t \in Thread, SpuriousWakeup(t) PROVE IInv' /\ ExecutorStep
  BY <1>2, SpuriousWakeupIInv
<1>3. ASSUME NEW c \in Caller, AddToProcessQueue(c) PROVE IInv' /\ ExecutorStep
  BY <1>3, AddToProcessQueueIInv
<1>4. ASSUME NEW a \in Actor, ClientStep(a) PROVE IInv' /\ ExecutorStep
  BY <1>4, MaybeScheduleProcessQueueIInv, ScheduleProcessQueueIInv, NotifyOneIInv,
     ProcessQueueIdleIInv, ProcessQueueBeginsIInv, EndCallbackIInv DEF ClientStep
<1>5. CASE Tick
  BY <1>5, TickIInv
<1>6. CASE Stop
  BY <1>6, StopIInv
<1>7. CASE ShutdownStep
  BY <1>7, StopNotifiesIInv, JoinIInv, EmptyQueueIInv DEF ShutdownStep
<1>8. CASE UNCHANGED vars
  BY <1>8, StutterIInv
<1> QED BY <1>1, <1>2, <1>3, <1>4, <1>5, <1>6, <1>7, <1>8 DEF Next

\* The invariant from which the theorems below follow.
THEOREM Invariance == Spec => []IInv
<1>1. IInv /\ [Next]_vars => IInv'
  BY NextIInv
<1>2. Init => IInv
  BY InitIInv
<1> QED BY <1>1, <1>2, PTL DEF Spec

\* The multimap of tasks stays ordered and the threads of serviceQueue are
\* counted within their number.
THEOREM TypeCorrect == Spec => []TypeOK
<1>1. IInv => TypeOK
  BY DEF IInv
<1> QED BY <1>1, Invariance, PTL

\* No callback is left without someone to run it.
THEOREM CallbacksNotForgotten == Spec => []NoneForgotten
<1>1. IInv => NoneForgotten
  BY DEF IInv
<1> QED BY <1>1, Invariance, PTL

\* SingleThreadedSchedulerClient implements a serial executor, whatever serves
\* its scheduler.
THEOREM ClientImplementsExecutor == Spec => ImplementsExecutor
<1>1. Init => Executor!Init
  BY InitIInv
<1>2. IInv /\ [Next]_vars => [Executor!Next]_(Executor!vars)
  BY NextIInv DEF ExecutorStep
<1> QED BY <1>1, <1>2, Invariance, PTL DEF Spec, ImplementsExecutor, Executor!Spec
=============================================================================
