------------------------ MODULE AlarmSchedulerProofs ------------------------
(***************************************************************************)
(* The thread pool under the alarm scheduler is safe for every number of   *)
(* workers, every queue size and every set of tasks and periods, wherever  *)
(* the kernel delivers SIGALRM.                                            *)
(***************************************************************************)
EXTENDS AlarmScheduler, SequenceTheorems, TLAPS

\* The slot k places after slot i.
LEMMA SlotAfter ==
  ASSUME NEW i \in Slots, NEW k \in 0 .. QUEUE_SIZE
  PROVE  /\ (i + k) % QUEUE_SIZE = IF i + k < QUEUE_SIZE THEN i + k ELSE i + k - QUEUE_SIZE
         /\ (i + k) % QUEUE_SIZE \in Slots
  <1>1. CASE i + k < QUEUE_SIZE
    BY <1>1, ThreadPoolAssumption, SMT DEF Slots
  <1>2. CASE i + k >= QUEUE_SIZE
    BY <1>2, ThreadPoolAssumption, SMT DEF Slots
  <1> QED
    BY <1>1, <1>2, ThreadPoolAssumption DEF Slots

\* A call under way has a task to push.
JobsAreTasks == \A c \in Callers : caller[c] # "idle" => job[c] \in Tasks

\* A worker does not hold the lock while its signal handler holds it.
HandlerApart == \A c \in Callers \intersect Workers : caller[c] = "pushing" => worker[c] # "check"

\* How far the shutdown is, and what it leaves for later: once the timer is disarmed no
\* signal reaches the main thread, and a worker that has exited runs no handler.
ShutdownInOrder ==
  /\ shutdown <=> destroyer \in {"joining", "freed"}
  /\ armed => destroyer = "up"
  /\ ~armed => ~sigalrm /\ ~InHandler(Main)
  /\ \A w \in Workers : worker[w] = "exited" => shutdown /\ ~InHandler(w)

IInv ==
  /\ AlarmTypeOK /\ ticks_left \in [Tasks -> Nat]
  /\ LockHeldByOwner /\ HandlerApart
  /\ JobsAreTasks /\ RingConsistent
  /\ SomeoneAwake
  /\ ShutdownInOrder /\ FreedIsUnused

\* What ticks do not touch: the part of the invariant that speaks of the ring only.
LEMMA RingUnchanged ==
  ASSUME RingConsistent, UNCHANGED ringVars
  PROVE  RingConsistent'
  BY DEF RingConsistent, ringVars

-----------------------------------------------------------------------------
(* One lemma per action. *)

\* The pool and the alarm scheduler begin in the invariant.
LEMMA InitHolds == Init => IInv
  <1> SUFFICES ASSUME Init PROVE IInv
    OBVIOUS
  <1> USE ThreadPoolAssumption, AlarmAssumption DEF Init, PoolInit
  <1>1. AlarmTypeOK /\ ticks_left \in [Tasks -> Nat]
    <2>1. 0 \in Slots /\ 0 \in 0 .. QUEUE_SIZE /\ 0 \in 0 .. LAST_TASK
      BY DEF Slots
    <2>2. \A i \in Tasks : Interval[i] \in 1 .. Interval[i] /\ Interval[i] \in Nat
      OBVIOUS
    <2>3. TypeOK
      BY <2>1 DEF TypeOK
    <2> QED
      BY <2>1, <2>2, <2>3 DEF AlarmTypeOK
  <1>2. RingConsistent
    <2>1. 0 % QUEUE_SIZE = 0
      BY SMT
    <2> QED
      BY <2>1 DEF RingConsistent
  <1>3. ShutdownInOrder /\ FreedIsUnused
    BY DEF ShutdownInOrder, FreedIsUnused, InHandler
  <1> QED
    BY <1>1, <1>2, <1>3 DEF IInv, LockHeldByOwner, HandlerApart, JobsAreTasks, SomeoneAwake

\* A period of the timer only raises SIGALRM: the pool is as it was.
LEMMA TickStep == IInv /\ Tick => IInv'
  <1> SUFFICES ASSUME IInv, Tick PROVE IInv'
    OBVIOUS
  <1> QED
    BY RingUnchanged DEF Tick, IInv, AlarmTypeOK, TypeOK, LockHeldByOwner, HandlerApart,
      JobsAreTasks, SomeoneAwake, ShutdownInOrder, FreedIsUnused, InHandler, poolVars, ringVars

\* SIGALRM interrupts a thread at a place where it holds no lock: the handler begins its scan.
LEMMA DeliverStep == ASSUME IInv, NEW c \in Callers, Deliver(c) PROVE IInv'
  <1> USE DEF IInv, Deliver, poolVars
  <1>1. AlarmTypeOK' /\ (ticks_left \in [Tasks -> Nat])'
    <2>1. 1 \in 0 .. LAST_TASK
      BY AlarmAssumption
    <2> QED
      BY <2>1 DEF AlarmTypeOK, TypeOK, ringVars
  <1>2. RingConsistent'
    BY RingUnchanged
  <1>3. ShutdownInOrder' /\ FreedIsUnused'
    BY DEF ShutdownInOrder, FreedIsUnused, InHandler, AlarmTypeOK
  <1> QED
    BY <1>1, <1>2, <1>3 DEF LockHeldByOwner, HandlerApart, JobsAreTasks, SomeoneAwake, ringVars

\* The handler's turn: at most a call of threadpool_add begins.
LEMMA ScanStep == ASSUME IInv, NEW c \in Callers, Scan(c) PROVE IInv'
  <1> USE DEF IInv
  <1> DEFINE i == scan[c]
  <1>1. i \in Tasks /\ Interval[i] \in Nat \ {0} /\ ticks_left[i] \in 1 .. Interval[i]
    BY AlarmAssumption DEF Scan, AlarmTypeOK
  <1>2. ticks_left' \in [Tasks -> Nat] /\ \A j \in Tasks : ticks_left'[j] \in 1 .. Interval[j]
    <2>1. CASE armed
      <3>1. CountDown(i) \in 1 .. Interval[i] /\ CountDown(i) \in Nat
        BY <1>1 DEF CountDown
      <3>2. ticks_left' = [ticks_left EXCEPT ![i] = CountDown(i)]
        BY <2>1 DEF Scan
      <3> QED
        BY <3>1, <3>2 DEF AlarmTypeOK
    <2>2. CASE ~armed
      BY <2>2 DEF Scan, AlarmTypeOK
    <2> QED
      BY <2>1, <2>2
  <1>3. scan' \in [Callers -> 0 .. LAST_TASK]
    BY <1>1, AlarmAssumption DEF Scan, AlarmTypeOK
  <1>4. AddBegin(c, i) \/ UNCHANGED poolVars
    BY DEF Scan
  <1>5. IInv'
    BY <1>1, <1>2, <1>3, <1>4, RingUnchanged
       DEF Scan, AddBegin, AlarmTypeOK, TypeOK, LockHeldByOwner, HandlerApart, JobsAreTasks,
           SomeoneAwake, ShutdownInOrder, FreedIsUnused, InHandler, poolVars, ringVars
  <1> QED
    BY <1>5

-----------------------------------------------------------------------------
(* threadpool_add and the workers. *)

\* A caller of threadpool_add takes the lock when it is free.
LEMMA AddLockStep == ASSUME IInv, NEW c \in Callers, AddLock(c), UNCHANGED alarmVars PROVE IInv'
  <1> USE DEF IInv, AddLock, alarmVars
  <1>1. AlarmTypeOK' /\ (ticks_left \in [Tasks -> Nat])'
    BY ThreadPoolAssumption DEF AlarmTypeOK, TypeOK, ringVars
  <1>2. LockHeldByOwner' /\ HandlerApart'
    BY ThreadPoolAssumption DEF LockHeldByOwner, HandlerApart, AlarmTypeOK, TypeOK
  <1>3. JobsAreTasks' /\ SomeoneAwake'
    BY DEF JobsAreTasks, SomeoneAwake, AlarmTypeOK, TypeOK, ringVars
  <1>4. ShutdownInOrder' /\ FreedIsUnused'
    BY DEF ShutdownInOrder, FreedIsUnused, InHandler, AlarmTypeOK, TypeOK
  <1> QED
    BY <1>1, <1>2, <1>3, <1>4, RingUnchanged

\* The caller of a critical section gives the lock back to nobody else.
LEMMA AddEndStep ==
  ASSUME IInv, NEW c \in Callers, caller[c] = "pushing", AddEnd(c),
         UNCHANGED <<shutdown, destroyer, alarmVars>>,
         \A w \in Workers : worker'[w] # worker[w] => worker[w] = "waiting" /\ worker'[w] = "woken"
  PROVE  LockHeldByOwner' /\ HandlerApart' /\ JobsAreTasks' /\ ShutdownInOrder' /\ FreedIsUnused'
  <1> USE DEF IInv, AddEnd, alarmVars, AlarmTypeOK, TypeOK
  <1>1. lock = c
    BY DEF LockHeldByOwner
  <1>2. \A w \in Workers : worker[w] # "check"
    BY <1>1 DEF LockHeldByOwner, HandlerApart
  <1>3. destroyer # "closing"
    BY <1>1 DEF LockHeldByOwner, ShutdownInOrder, InHandler
  <1>4. LockHeldByOwner' /\ HandlerApart'
    BY <1>1, <1>2, <1>3, ThreadPoolAssumption DEF LockHeldByOwner, HandlerApart
  <1>5. JobsAreTasks'
    BY DEF JobsAreTasks
  <1>6. ShutdownInOrder' /\ FreedIsUnused'
    BY DEF ShutdownInOrder, FreedIsUnused, InHandler
  <1> QED
    BY <1>4, <1>5, <1>6

\* A full queue or a pool that shuts down: threadpool_add gives the lock back and pushes nothing.
LEMMA AddRejectedStep ==
  ASSUME IInv, NEW c \in Callers, AddRejected(c), UNCHANGED alarmVars PROVE IInv'
  <1> USE DEF IInv, AddRejected, alarmVars
  <1>1. AlarmTypeOK' /\ (ticks_left \in [Tasks -> Nat])'
    BY DEF AlarmTypeOK, TypeOK, ringVars, AddEnd
  <1>2. SomeoneAwake'
    BY DEF SomeoneAwake, ringVars
  <1> QED
    BY <1>1, <1>2, AddEndStep, RingUnchanged

\* Pushing puts a task behind the waiting ones.
LEMMA PushKeepsRing ==
  ASSUME IInv, NEW c \in Callers, AddPush(c)
  PROVE  RingConsistent' /\ tail' \in Slots /\ count' \in 0 .. QUEUE_SIZE
  <1> USE DEF IInv, AlarmTypeOK, TypeOK, AddPush, QueueFull
  <1>1. count \in 0 .. QUEUE_SIZE - 1 /\ count' = count + 1 /\ head' = head
    BY ThreadPoolAssumption
  <1>2. tail = (head + count) % QUEUE_SIZE
    BY DEF RingConsistent
  <1>3. tail' = (head' + count') % QUEUE_SIZE /\ tail' \in Slots
    <2>1. tail' = IF tail + 1 < QUEUE_SIZE THEN tail + 1 ELSE tail + 1 - QUEUE_SIZE
      BY SlotAfter, ThreadPoolAssumption DEF Succ
    <2>2. (head + count) % QUEUE_SIZE =
            IF head + count < QUEUE_SIZE THEN head + count ELSE head + count - QUEUE_SIZE
      BY SlotAfter
    <2>3. count + 1 \in 0 .. QUEUE_SIZE
      BY <1>1, ThreadPoolAssumption
    <2>4. (head + (count + 1)) % QUEUE_SIZE =
            IF head + (count + 1) < QUEUE_SIZE THEN head + (count + 1)
                                               ELSE head + (count + 1) - QUEUE_SIZE
      BY <2>3, SlotAfter
    <2>5. tail = IF head + count < QUEUE_SIZE THEN head + count ELSE head + count - QUEUE_SIZE
      BY <1>2, <2>2
    <2>6. /\ tail' = IF head + (count + 1) < QUEUE_SIZE THEN head + (count + 1)
                                                        ELSE head + (count + 1) - QUEUE_SIZE
          /\ tail' \in Slots
      BY <1>1, <2>1, <2>5, ThreadPoolAssumption DEF Slots
    <2>7. head' + count' = head + (count + 1)
      BY <1>1
    <2> QED
      BY <2>4, <2>6, <2>7
  <1>4. job[c] \in Tasks
    BY DEF JobsAreTasks
  <1>5. ASSUME NEW k \in 0 .. count' - 1
        PROVE  queue'[(head' + k) % QUEUE_SIZE] \in Tasks
    <2>1. /\ k \in 0 .. QUEUE_SIZE
          /\ (head + k) % QUEUE_SIZE =
               IF head + k < QUEUE_SIZE THEN head + k ELSE head + k - QUEUE_SIZE
          /\ (head + k) % QUEUE_SIZE \in Slots
      BY <1>1, SlotAfter, ThreadPoolAssumption
    <2>2. CASE k = count
      BY <1>1, <1>2, <1>4, <2>2
    <2>3. CASE k < count
      <3>1. (head + k) % QUEUE_SIZE # tail
        <4>1. tail = IF head + count < QUEUE_SIZE THEN head + count ELSE head + count - QUEUE_SIZE
          BY <1>2, SlotAfter
        <4>2. (IF head + k < QUEUE_SIZE THEN head + k ELSE head + k - QUEUE_SIZE) # tail
          BY <1>1, <2>3, <4>1, ThreadPoolAssumption DEF Slots
        <4> QED
          BY <2>1, <4>2
      <3>2. queue[(head + k) % QUEUE_SIZE] \in Tasks
        BY <1>1, <2>3 DEF RingConsistent
      <3> QED
        BY <1>1, <2>1, <3>1, <3>2
    <2> QED
      BY <1>1, <2>2, <2>3
  <1> QED
    BY <1>1, <1>3, <1>5, ThreadPoolAssumption DEF RingConsistent

\* threadpool_add pushes its task and wakes one worker, if one waits.
LEMMA AddPushStep ==
  ASSUME IInv, NEW c \in Callers, AddPush(c), UNCHANGED alarmVars PROVE IInv'
  <1> USE DEF IInv, AddPush, alarmVars
  <1>1. /\ worker' \in [Workers -> {"acquire", "check", "waiting", "woken", "running", "exited"}]
        /\ \A w \in Workers : worker'[w] # worker[w] => worker[w] = "waiting" /\ worker'[w] = "woken"
        /\ \E w \in Workers : worker'[w] # "waiting"
    <2>1. CASE \E w \in Workers : worker[w] = "waiting"
      <3>1. PICK w \in Workers : worker[w] = "waiting" /\ worker' = [worker EXCEPT ![w] = "woken"]
        BY <2>1 DEF SignalOne
      <3> QED
        BY <3>1 DEF AlarmTypeOK, TypeOK
    <2>2. CASE ~\E w \in Workers : worker[w] = "waiting"
      BY <2>2, ThreadPoolAssumption DEF SignalOne, AlarmTypeOK, TypeOK
    <2> QED
      BY <2>1, <2>2
  <1>2. job[c] \in Tasks
    BY DEF JobsAreTasks
  <1>3. AlarmTypeOK' /\ (ticks_left \in [Tasks -> Nat])'
    BY <1>1, <1>2, PushKeepsRing DEF AlarmTypeOK, TypeOK, AddEnd
  <1>4. SomeoneAwake'
    BY <1>1 DEF SomeoneAwake
  <1>5. LockHeldByOwner' /\ HandlerApart' /\ JobsAreTasks' /\ ShutdownInOrder' /\ FreedIsUnused'
    BY <1>1, AddEndStep
  <1> QED
    BY <1>3, <1>4, <1>5, PushKeepsRing

\* Taking removes the first of the waiting ones.
LEMMA TakeKeepsRing ==
  ASSUME IInv, NEW w \in Workers, Take(w)
  PROVE  RingConsistent' /\ head' \in Slots /\ count' \in 0 .. QUEUE_SIZE
  <1> USE DEF IInv, AlarmTypeOK, TypeOK, Take
  <1>1. count \in 1 .. QUEUE_SIZE /\ count' = count - 1 /\ tail' = tail /\ queue' = queue
    BY ThreadPoolAssumption
  <1>2. head' = (IF head + 1 < QUEUE_SIZE THEN head + 1 ELSE head + 1 - QUEUE_SIZE) /\ head' \in Slots
    BY SlotAfter, ThreadPoolAssumption DEF Succ
  <1>3. ASSUME NEW k \in 0 .. count'
        PROVE  (head' + k) % QUEUE_SIZE = (head + (k + 1)) % QUEUE_SIZE
    <2>1. k \in 0 .. QUEUE_SIZE /\ k + 1 \in 0 .. QUEUE_SIZE
      BY <1>1, ThreadPoolAssumption
    <2>2. (head' + k) % QUEUE_SIZE =
            IF head' + k < QUEUE_SIZE THEN head' + k ELSE head' + k - QUEUE_SIZE
      BY <1>2, <2>1, SlotAfter
    <2>3. (head + (k + 1)) % QUEUE_SIZE =
            IF head + (k + 1) < QUEUE_SIZE THEN head + (k + 1) ELSE head + (k + 1) - QUEUE_SIZE
      BY <2>1, SlotAfter
    <2> QED
      BY <1>1, <1>2, <2>1, <2>2, <2>3, ThreadPoolAssumption DEF Slots
  <1>4. tail' = (head' + count') % QUEUE_SIZE
    BY <1>1, <1>3 DEF RingConsistent
  <1>5. ASSUME NEW k \in 0 .. count' - 1
        PROVE  queue'[(head' + k) % QUEUE_SIZE] \in Tasks
    <2>1. k \in 0 .. count' /\ k + 1 \in 0 .. count - 1
      BY <1>1
    <2>2. queue[(head + (k + 1)) % QUEUE_SIZE] \in Tasks
      BY <2>1 DEF RingConsistent
    <2> QED
      BY <1>1, <1>3, <2>1, <2>2
  <1> QED
    BY <1>1, <1>2, <1>4, <1>5, ThreadPoolAssumption DEF RingConsistent

\* A worker takes the task at the head and leaves the lock to run it.
LEMMA TakeStep ==
  ASSUME IInv, NEW w \in Workers, ~InHandler(w), Take(w), UNCHANGED alarmVars PROVE IInv'
  <1> USE DEF IInv, Take, alarmVars
  <1>1. queue[head] \in Tasks \union {NoTask}
    BY DEF AlarmTypeOK, TypeOK
  <1>2. AlarmTypeOK' /\ (ticks_left \in [Tasks -> Nat])'
    BY <1>1, TakeKeepsRing DEF AlarmTypeOK, TypeOK
  <1>3. LockHeldByOwner' /\ HandlerApart'
    BY ThreadPoolAssumption DEF LockHeldByOwner, HandlerApart, Interrupted, AlarmTypeOK, TypeOK
  <1>4. JobsAreTasks' /\ SomeoneAwake'
    BY DEF JobsAreTasks, SomeoneAwake, AlarmTypeOK, TypeOK
  <1>5. ShutdownInOrder' /\ FreedIsUnused'
    BY DEF ShutdownInOrder, FreedIsUnused, InHandler, AlarmTypeOK, TypeOK
  <1> QED
    BY <1>2, <1>3, <1>4, <1>5, TakeKeepsRing

\* The other steps of a worker leave the ring alone.
LEMMA WorkerStepHolds ==
  ASSUME IInv, NEW w \in Workers, ~InHandler(w),
         Acquire(w) \/ Wait(w) \/ Exit(w) \/ Finish(w), UNCHANGED alarmVars
  PROVE  IInv'
  <1> USE DEF IInv, alarmVars, Acquire, Wait, Exit, Finish
  <1>1. UNCHANGED <<ringVars, shutdown, caller, job, destroyer>>
    OBVIOUS
  <1>2. AlarmTypeOK' /\ (ticks_left \in [Tasks -> Nat])'
    BY DEF AlarmTypeOK, TypeOK, ringVars
  <1>3. LockHeldByOwner' /\ HandlerApart'
    BY ThreadPoolAssumption
       DEF LockHeldByOwner, HandlerApart, Interrupted, AlarmTypeOK, TypeOK
  <1>4. SomeoneAwake'
    BY DEF SomeoneAwake, AlarmTypeOK, TypeOK, ringVars
  <1>5. ShutdownInOrder' /\ FreedIsUnused'
    BY DEF ShutdownInOrder, FreedIsUnused, InHandler, AlarmTypeOK, TypeOK
  <1> QED
    BY <1>1, <1>2, <1>3, <1>4, <1>5, RingUnchanged DEF JobsAreTasks

\* A worker that wakes without a signal looks at the queue again: nothing else changes.
LEMMA SpuriousStep ==
  ASSUME IInv, NEW w \in Workers, SpuriousWakeup(w), UNCHANGED alarmVars PROVE IInv'
  <1> USE DEF IInv, alarmVars, SpuriousWakeup
  <1>1. AlarmTypeOK' /\ (ticks_left \in [Tasks -> Nat])'
    BY DEF AlarmTypeOK, TypeOK, ringVars
  <1>2. SomeoneAwake' /\ LockHeldByOwner' /\ HandlerApart' /\ JobsAreTasks'
    BY DEF SomeoneAwake, LockHeldByOwner, HandlerApart, JobsAreTasks, AlarmTypeOK, TypeOK, ringVars
  <1>3. ShutdownInOrder' /\ FreedIsUnused'
    BY DEF ShutdownInOrder, FreedIsUnused, InHandler, AlarmTypeOK, TypeOK
  <1> QED
    BY <1>1, <1>2, <1>3, RingUnchanged

\* alarm_scheduler_destroy stops the timer; no signal is pending for the main thread after it.
LEMMA DisarmStep == IInv /\ Disarm => IInv'
  <1> SUFFICES ASSUME IInv, Disarm PROVE IInv'
    OBVIOUS
  <1> USE DEF IInv, Disarm, poolVars
  <1>1. AlarmTypeOK' /\ (ticks_left \in [Tasks -> Nat])'
    BY DEF AlarmTypeOK, TypeOK, ringVars
  <1>2. ShutdownInOrder' /\ FreedIsUnused'
    BY DEF ShutdownInOrder, FreedIsUnused, InHandler
  <1> QED
    BY <1>1, <1>2, RingUnchanged DEF LockHeldByOwner, HandlerApart, JobsAreTasks, SomeoneAwake, ringVars

\* threadpool_destroy: shutdown under the lock, the wait for the workers, the freeing of the ring.
LEMMA DestroyStep == IInv /\ Destroy => IInv'
  <1> SUFFICES ASSUME IInv, Destroy PROVE IInv'
    OBVIOUS
  <1> USE ThreadPoolAssumption DEF IInv, Destroy, alarmVars
  <1>1. UNCHANGED <<ringVars, caller, job, running>>
    BY DEF Destroy, DestroyLock, DestroyClose, DestroyFree
  <1>2. CASE DestroyLock
    <2>1. AlarmTypeOK' /\ (ticks_left \in [Tasks -> Nat])' /\ LockHeldByOwner' /\ HandlerApart'
      BY <1>2 DEF DestroyLock, AlarmTypeOK, TypeOK, LockHeldByOwner, HandlerApart, ringVars
    <2>2. SomeoneAwake' /\ ShutdownInOrder' /\ FreedIsUnused'
      BY <1>2 DEF DestroyLock, SomeoneAwake, ShutdownInOrder, FreedIsUnused, InHandler, ringVars
    <2> QED
      BY <1>1, <2>1, <2>2, RingUnchanged DEF JobsAreTasks
  <1>3. CASE DestroyClose
    <2> USE <1>3 DEF DestroyClose, WakeAll
    <2>1. AlarmTypeOK' /\ (ticks_left \in [Tasks -> Nat])'
      BY DEF AlarmTypeOK, TypeOK, ringVars
    <2>2. LockHeldByOwner' /\ HandlerApart'
      <3>1. \A c \in Callers : caller[c] # "pushing"
        BY DEF LockHeldByOwner, ShutdownInOrder, InHandler
      <3> QED
        BY <3>1 DEF LockHeldByOwner, HandlerApart, AlarmTypeOK, TypeOK
    <2>3. ShutdownInOrder' /\ FreedIsUnused'
      BY DEF ShutdownInOrder, FreedIsUnused, InHandler, AlarmTypeOK, TypeOK
    <2> QED
      BY <1>1, <2>1, <2>2, <2>3, RingUnchanged DEF JobsAreTasks, SomeoneAwake
  <1>4. CASE DestroyFree
    <2> USE <1>4 DEF DestroyFree
    <2>1. AlarmTypeOK' /\ (ticks_left \in [Tasks -> Nat])' /\ LockHeldByOwner' /\ HandlerApart'
      BY DEF AlarmTypeOK, TypeOK, LockHeldByOwner, HandlerApart, ringVars
    <2>2. SomeoneAwake' /\ ShutdownInOrder'
      BY DEF SomeoneAwake, ShutdownInOrder, InHandler, ringVars
    <2>3. FreedIsUnused'
      BY DEF ShutdownInOrder, FreedIsUnused, InHandler
    <2> QED
      BY <1>1, <2>1, <2>2, <2>3, RingUnchanged DEF JobsAreTasks
  <1> QED
    BY <1>2, <1>3, <1>4

-----------------------------------------------------------------------------
(* The results. *)

\* Every step of the scheduler and the pool together keeps the invariant.
LEMMA InvariantStep == IInv /\ [AlarmNext]_vars => IInv'
  <1> SUFFICES ASSUME IInv, [AlarmNext]_vars PROVE IInv'
    OBVIOUS
  <1>1. CASE Tick
    BY <1>1, TickStep
  <1>2. ASSUME NEW c \in Callers, Deliver(c) \/ HandlerStep(c) PROVE IInv'
    BY <1>2, DeliverStep, ScanStep, AddLockStep, AddRejectedStep, AddPushStep
       DEF HandlerStep, CallerStep
  <1>3. ASSUME NEW w \in Workers, WorkerRuns(w) \/ (SpuriousWakeup(w) /\ UNCHANGED alarmVars)
        PROVE  IInv'
    BY <1>3, TakeStep, WorkerStepHolds, SpuriousStep DEF WorkerRuns, WorkerStep
  <1>4. CASE Disarm
    BY <1>4, DisarmStep
  <1>5. CASE Destroy
    BY <1>5, DestroyStep
  <1>6. CASE UNCHANGED vars
    <2> USE <1>6 DEF vars, poolVars, alarmVars, IInv
    <2>1. AlarmTypeOK' /\ (ticks_left \in [Tasks -> Nat])'
      BY DEF AlarmTypeOK, TypeOK, ringVars
    <2> QED
      BY <2>1, RingUnchanged DEF LockHeldByOwner, HandlerApart, JobsAreTasks, SomeoneAwake,
           ShutdownInOrder, FreedIsUnused, InHandler, ringVars
  <1> QED
    BY <1>1, <1>2, <1>3, <1>4, <1>5, <1>6 DEF AlarmNext

\* The invariant holds whenever the pool is used through the alarm scheduler.
THEOREM InvariantHolds == Spec => []IInv
  BY InitHolds, InvariantStep, PTL DEF Spec

\* The lock excludes, the ring holds tasks where count says, no wakeup is lost and what
\* threadpool_destroy frees is used by nobody, wherever SIGALRM is delivered.
THEOREM PoolIsSafe == Spec => []PoolSafe
  <1>1. IInv => PoolSafe
    BY DEF IInv, PoolSafe
  <1> QED
    BY <1>1, InvariantHolds, PTL

-----------------------------------------------------------------------------
(* The pool is a queue of tasks started in the order of submission. *)

\* A worker executes a task when it is in the task's function and only then.
RunningTasks ==
  \A w \in Workers : IF worker[w] = "running" THEN running[w] \in Tasks ELSE running[w] = NoTask

\* A worker that takes a task takes a real one.
LEMMA RunningStep == IInv /\ RunningTasks /\ [AlarmNext]_vars => RunningTasks'
  <1> SUFFICES ASSUME IInv, RunningTasks, [AlarmNext]_vars PROVE RunningTasks'
    OBVIOUS
  <1> USE DEF IInv, AlarmTypeOK, TypeOK, RunningTasks
  <1>1. CASE UNCHANGED <<worker, running>>
    BY <1>1
  <1>2. ASSUME NEW c \in Callers, AddPush(c) PROVE RunningTasks'
    <2>1. running' = running
      BY <1>2 DEF AddPush
    <2>2. /\ worker' \in [Workers -> {"acquire", "check", "waiting", "woken", "running", "exited"}]
          /\ \A w \in Workers : worker'[w] # worker[w] => worker[w] = "waiting" /\ worker'[w] = "woken"
      BY <1>2 DEF AddPush, SignalOne
    <2> QED
      BY <2>1, <2>2
  <1>3. ASSUME NEW w \in Workers, Take(w) PROVE RunningTasks'
    <2>1. 0 \in 0 .. count - 1 /\ (head + 0) % QUEUE_SIZE = head
      <3>1. 0 \in 0 .. QUEUE_SIZE /\ head + 0 < QUEUE_SIZE /\ head + 0 = head
        BY ThreadPoolAssumption DEF Slots
      <3>2. (head + 0) % QUEUE_SIZE = head
        BY <3>1, SlotAfter
      <3>3. 0 \in 0 .. count - 1
        BY <1>3, ThreadPoolAssumption DEF Take
      <3> QED
        BY <3>2, <3>3
    <2>2. queue[head] \in Tasks
      BY <2>1 DEF RingConsistent
    <2> QED
      BY <1>3, <2>2 DEF Take
  <1>4. ASSUME NEW w \in Workers,
               Acquire(w) \/ Wait(w) \/ Exit(w) \/ Finish(w) \/ SpuriousWakeup(w)
        PROVE  RunningTasks'
    BY <1>4 DEF Acquire, Wait, Exit, Finish, SpuriousWakeup
  <1>5. CASE DestroyClose
    BY <1>5 DEF DestroyClose, WakeAll
  <1> QED
    BY <1>1, <1>2, <1>3, <1>4, <1>5
       DEF AlarmNext, Tick, Deliver, HandlerStep, Scan, AddBegin, CallerStep, AddLock,
           AddRejected, WorkerRuns, WorkerStep, Disarm, Destroy, DestroyLock, DestroyFree,
           vars, poolVars

\* The waiting tasks form a sequence as long as the ring is filled.
LEMMA WaitingType ==
  ASSUME IInv
  PROVE  /\ WaitingTasks \in Seq(Tasks) /\ Len(WaitingTasks) = count
         /\ \A k \in 1 .. count : WaitingTasks[k] = queue[(head + (k - 1)) % QUEUE_SIZE]
  <1>1. count \in Nat /\ head \in Nat
    BY ThreadPoolAssumption DEF IInv, AlarmTypeOK, TypeOK, Slots
  <1>2. \A k \in 1 .. count : k - 1 \in 0 .. count - 1 /\ head + k - 1 = head + (k - 1)
    BY <1>1
  <1>3. \A k \in 1 .. count : queue[(head + (k - 1)) % QUEUE_SIZE] \in Tasks
    BY <1>2 DEF IInv, RingConsistent
  <1>4. WaitingTasks \in [1 .. count -> Tasks]
    BY <1>2, <1>3 DEF WaitingTasks
  <1>5. WaitingTasks \in Seq(Tasks) /\ Len(WaitingTasks) = count
    BY <1>1, <1>4, SeqDef, LenProperties
  <1> QED
    BY <1>2, <1>5 DEF WaitingTasks

\* threadpool_add appends.
LEMMA PushIsSubmit ==
  ASSUME IInv, NEW c \in Callers, AddPush(c)
  PROVE  Abstract!Next
  <1> USE DEF IInv, AlarmTypeOK, TypeOK, AddPush, QueueFull
  <1>1. count \in 0 .. QUEUE_SIZE - 1 /\ count' = count + 1 /\ head' = head
    BY ThreadPoolAssumption
  <1>2. job[c] \in Tasks /\ tail = (head + count) % QUEUE_SIZE
    BY DEF JobsAreTasks, RingConsistent
  <1>3. ASSUME NEW k \in 1 .. count + 1
        PROVE  queue'[(head + k - 1) % QUEUE_SIZE] = Append(WaitingTasks, job[c])[k]
    <2>1. /\ head + k - 1 = head + (k - 1) /\ k - 1 \in 0 .. count
          /\ k - 1 \in 0 .. QUEUE_SIZE /\ count \in 0 .. QUEUE_SIZE
      BY <1>1, ThreadPoolAssumption DEF Slots
    <2>2. /\ k = count + 1 => Append(WaitingTasks, job[c])[k] = job[c]
          /\ k \in 1 .. count => Append(WaitingTasks, job[c])[k] = WaitingTasks[k]
      BY <1>1, <1>2, WaitingType
    <2>3. CASE k = count + 1
      <3>1. k - 1 = count
        BY <1>1, <2>3
      <3> QED
        BY <1>2, <2>1, <2>2, <2>3, <3>1
    <2>4. CASE k # count + 1
      <3>1. k \in 1 .. count /\ k - 1 < count
        BY <1>1, <2>4
      <3>2. (head + (k - 1)) % QUEUE_SIZE # tail
        <4>1. /\ (head + (k - 1)) % QUEUE_SIZE =
                   IF head + (k - 1) < QUEUE_SIZE THEN head + (k - 1) ELSE head + (k - 1) - QUEUE_SIZE
              /\ (head + count) % QUEUE_SIZE =
                   IF head + count < QUEUE_SIZE THEN head + count ELSE head + count - QUEUE_SIZE
          BY <2>1, SlotAfter
        <4>2. (IF head + (k - 1) < QUEUE_SIZE THEN head + (k - 1) ELSE head + (k - 1) - QUEUE_SIZE)
                # (IF head + count < QUEUE_SIZE THEN head + count ELSE head + count - QUEUE_SIZE)
          BY <1>1, <2>1, <3>1, ThreadPoolAssumption DEF Slots
        <4> QED
          BY <1>2, <4>1, <4>2
      <3>3. (head + (k - 1)) % QUEUE_SIZE \in Slots
        BY <2>1, SlotAfter
      <3>4. queue'[(head + (k - 1)) % QUEUE_SIZE] = queue[(head + (k - 1)) % QUEUE_SIZE]
        BY <3>2, <3>3
      <3> QED
        BY <2>1, <2>2, <3>1, <3>4, WaitingType
    <2> QED
      BY <2>3, <2>4
  <1>4. WaitingTasks' = Append(WaitingTasks, job[c])
    <2>1. /\ Append(WaitingTasks, job[c]) \in Seq(Tasks)
          /\ Len(Append(WaitingTasks, job[c])) = count + 1
      <3>1. WaitingTasks \in Seq(Tasks) /\ Len(WaitingTasks) = count
        BY WaitingType
      <3> HIDE DEF IInv, AlarmTypeOK, TypeOK, AddPush, QueueFull
      <3> QED
        BY <1>2, <3>1, AppendProperties
    <2>2. Append(WaitingTasks, job[c]) = [k \in 1 .. count + 1 |-> Append(WaitingTasks, job[c])[k]]
      BY <2>1, LenProperties
    <2>3. WaitingTasks' = [k \in 1 .. count + 1 |-> queue'[(head + k - 1) % QUEUE_SIZE]]
      BY <1>1 DEF WaitingTasks
    <2> QED
      BY <1>3, <2>2, <2>3
  <1>5. ~shutdown /\ Len(WaitingTasks) < QUEUE_SIZE /\ UNCHANGED <<running, shutdown>>
    BY <1>1, WaitingType, ThreadPoolAssumption
  <1> QED
    BY <1>2, <1>4, <1>5 DEF Abstract!Next, Abstract!Submit

\* A worker starts the oldest task.
LEMMA TakeIsStart ==
  ASSUME IInv, RunningTasks, NEW w \in Workers, Take(w)
  PROVE  Abstract!Next
  <1> USE DEF IInv, AlarmTypeOK, TypeOK, Take
  <1>1. count \in 1 .. QUEUE_SIZE /\ count' = count - 1 /\ queue' = queue /\ head' = Succ(head)
    BY ThreadPoolAssumption
  <1>2. /\ WaitingTasks # <<>> /\ Tail(WaitingTasks) \in Seq(Tasks)
        /\ Len(Tail(WaitingTasks)) = count - 1
        /\ \A k \in 1 .. count - 1 : Tail(WaitingTasks)[k] = WaitingTasks[k + 1]
    <2>1. WaitingTasks # <<>>
      BY <1>1, WaitingType
    <2> QED
      BY <2>1, WaitingType, HeadTailProperties
  <1>3. ASSUME NEW k \in 1 .. count - 1
        PROVE  queue[(head' + k - 1) % QUEUE_SIZE] = Tail(WaitingTasks)[k]
    <2>1. head' \in Slots /\ head' = (IF head + 1 < QUEUE_SIZE THEN head + 1 ELSE head + 1 - QUEUE_SIZE)
      BY <1>1, SlotAfter, ThreadPoolAssumption DEF Succ
    <2>2. /\ k - 1 \in 0 .. QUEUE_SIZE /\ k \in 0 .. QUEUE_SIZE /\ k + 1 \in 1 .. count
          /\ head' + k - 1 = head' + (k - 1) /\ (k + 1) - 1 = k
      BY <1>1, <2>1, ThreadPoolAssumption DEF Slots
    <2>3. /\ (head' + (k - 1)) % QUEUE_SIZE =
               IF head' + (k - 1) < QUEUE_SIZE THEN head' + (k - 1) ELSE head' + (k - 1) - QUEUE_SIZE
          /\ (head + k) % QUEUE_SIZE =
               IF head + k < QUEUE_SIZE THEN head + k ELSE head + k - QUEUE_SIZE
      BY <2>1, <2>2, SlotAfter
    <2>4. (IF head' + (k - 1) < QUEUE_SIZE THEN head' + (k - 1) ELSE head' + (k - 1) - QUEUE_SIZE)
            = (IF head + k < QUEUE_SIZE THEN head + k ELSE head + k - QUEUE_SIZE)
      BY <1>1, <2>1, ThreadPoolAssumption DEF Slots
    <2>5. WaitingTasks[k + 1] = queue[(head + k) % QUEUE_SIZE]
      BY <2>2, WaitingType
    <2> QED
      BY <1>2, <2>2, <2>3, <2>4, <2>5
  <1>4. WaitingTasks' = Tail(WaitingTasks)
    <2>1. Tail(WaitingTasks) = [k \in 1 .. count - 1 |-> Tail(WaitingTasks)[k]]
      BY <1>2, LenProperties
    <2>2. WaitingTasks' = [k \in 1 .. count - 1 |-> queue[(head' + k - 1) % QUEUE_SIZE]]
      BY <1>1 DEF WaitingTasks
    <2> QED
      BY <1>3, <2>1, <2>2
  <1>5. Head(WaitingTasks) = queue[head]
    <2>1. 1 \in 1 .. count /\ 1 - 1 = 0
      BY <1>1
    <2>2. WaitingTasks[1] = queue[(head + (1 - 1)) % QUEUE_SIZE]
      BY <2>1, WaitingType
    <2>3. (head + 0) % QUEUE_SIZE = head
      <3>1. 0 \in 0 .. QUEUE_SIZE /\ head + 0 < QUEUE_SIZE /\ head + 0 = head
        BY ThreadPoolAssumption DEF Slots
      <3> QED
        BY <3>1, SlotAfter
    <2>4. Head(WaitingTasks) = WaitingTasks[1]
      OBVIOUS
    <2> QED
      BY <2>1, <2>2, <2>3, <2>4
  <1>6. running[w] = NoTask /\ ~shutdown /\ shutdown' = shutdown
    BY DEF RunningTasks
  <1> QED
    BY <1>2, <1>4, <1>5, <1>6 DEF Abstract!Next, Abstract!Start

\* Every other step leaves the queue of tasks as it is.
LEMMA OtherIsStutter ==
  ASSUME UNCHANGED <<ringVars, running, shutdown>>
  PROVE  UNCHANGED Abstract!vars
  BY DEF ringVars, WaitingTasks, Abstract!vars

\* Whatever thread the SIGALRM handler runs on, the pool starts the submitted tasks in the
\* order of submission, each once, and nothing after it was shut down.
THEOREM PoolImplementsWorkQueue == Spec => Abstract!Spec
  <1>1. Init => Abstract!Init /\ RunningTasks
    <2> SUFFICES ASSUME Init PROVE Abstract!Init /\ RunningTasks
      OBVIOUS
    <2>1. WaitingTasks = <<>>
      BY DEF Init, PoolInit, WaitingTasks
    <2> QED
      BY <2>1 DEF Init, PoolInit, Abstract!Init, RunningTasks
  <1>2. IInv /\ RunningTasks /\ [AlarmNext]_vars => [Abstract!Next]_(Abstract!vars)
    <2> SUFFICES ASSUME IInv, RunningTasks, [AlarmNext]_vars
                 PROVE  [Abstract!Next]_(Abstract!vars)
      OBVIOUS
    <2>1. CASE UNCHANGED <<ringVars, running, shutdown>>
      BY <2>1, OtherIsStutter
    <2>2. ASSUME NEW c \in Callers, AddPush(c) PROVE Abstract!Next
      BY <2>2, PushIsSubmit
    <2>3. ASSUME NEW w \in Workers, Take(w) PROVE Abstract!Next
      BY <2>3, TakeIsStart
    <2>4. ASSUME NEW w \in Workers, Finish(w) PROVE Abstract!Next
      <3>1. running[w] # NoTask /\ running' = [running EXCEPT ![w] = NoTask] /\ shutdown' = shutdown
        BY <2>4, ThreadPoolAssumption DEF Finish, RunningTasks
      <3>2. WaitingTasks' = WaitingTasks
        BY <2>4 DEF Finish, WaitingTasks, ringVars
      <3> QED
        BY <3>1, <3>2 DEF Abstract!Next, Abstract!Finish
    <2>5. CASE DestroyClose
      <3>1. WaitingTasks' = WaitingTasks /\ running' = running /\ shutdown'
        BY <2>5 DEF DestroyClose, WaitingTasks, ringVars
      <3> QED
        BY <3>1 DEF Abstract!Next, Abstract!Close
    <2> QED
      BY <2>1, <2>2, <2>3, <2>4, <2>5
         DEF AlarmNext, Tick, Deliver, HandlerStep, Scan, AddBegin, CallerStep, AddLock,
             AddRejected, WorkerRuns, WorkerStep, Acquire, Wait, Exit, SpuriousWakeup,
             Disarm, Destroy, DestroyLock, DestroyFree, vars, poolVars
  <1> QED
    BY <1>1, <1>2, RunningStep, InvariantHolds, PTL DEF Spec, Abstract!Spec
=============================================================================
