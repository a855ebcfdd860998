--------------------------- MODULE AlarmScheduler ---------------------------
(***************************************************************************)
(* alarm_scheduler.c on top of the thread pool: a one-second interval      *)
(* timer raises SIGALRM, whose handler counts the registered tasks down    *)
(* and submits the expired ones with threadpool_add.  The handler runs ON  *)
(* one of the threads in Callers, which is suspended meanwhile, and        *)
(* threadpool_add takes pool->lock in it.                                  *)
(***************************************************************************)
EXTENDS ThreadPool

CONSTANTS
  LAST_TASK,   \* the registered tasks are 1 .. LAST_TASK (at most 16)
  Interval     \* their periods in ticks

ASSUME AlarmAssumption ==
  /\ LAST_TASK \in Nat /\ LAST_TASK >= 1
  /\ Tasks = 1 .. LAST_TASK
  /\ Interval \in [Tasks -> Nat \ {0}]

VARIABLES
  armed,        \* the interval timer runs and the task table is filled
  ticks_left,   \* per task: ticks until it expires
  sigalrm,      \* SIGALRM is pending for the process
  scan          \* per thread: the next task its handler looks at, 0 if none

alarmVars == <<armed, ticks_left, sigalrm, scan>>
vars == <<poolVars, alarmVars>>

\* alarm_scheduler_init, alarm_scheduler_add_task and threadpool_create done.
Init ==
  /\ PoolInit
  /\ armed = TRUE
  /\ ticks_left = Interval
  /\ sigalrm = FALSE
  /\ scan = [c \in Callers |-> 0]

InHandler(t) == t \in Callers /\ (scan[t] # 0 \/ caller[t] # "idle")

\* The timer expires.  A second SIGALRM merges with a pending one.
Tick ==
  /\ armed
  /\ sigalrm' = TRUE
  /\ UNCHANGED <<poolVars, armed, ticks_left, scan>>

\* The kernel picks a thread; the signal is blocked there while it is handled.
Deliver(c) ==
  /\ sigalrm /\ ~InHandler(c)
  /\ c \in Workers => worker[c] # "exited"
  /\ sigalrm' = FALSE
  /\ scan' = [scan EXCEPT ![c] = 1]
  /\ UNCHANGED <<poolVars, armed, ticks_left>>

\* ticks_left--, reset to the interval when it reaches 0.
CountDown(i) == IF ticks_left[i] <= 1 THEN Interval[i] ELSE ticks_left[i] - 1

\* One turn of handle_sigalrm's loop; the tasks are gone once the scheduler has
\* been destroyed.
Scan(c) ==
  /\ scan[c] # 0 /\ caller[c] = "idle"
  /\ LET i == scan[c]
     IN  /\ scan' = [scan EXCEPT ![c] = IF i = LAST_TASK THEN 0 ELSE i + 1]
         /\ IF armed
              THEN /\ ticks_left' = [ticks_left EXCEPT ![i] = CountDown(i)]
                   /\ IF ticks_left[i] <= 1 THEN AddBegin(c, i) ELSE UNCHANGED poolVars
              ELSE UNCHANGED <<ticks_left, poolVars>>
  /\ UNCHANGED <<armed, sigalrm>>

HandlerStep(c) == Scan(c) \/ (CallerStep(c) /\ UNCHANGED alarmVars)

\* alarm_scheduler_destroy, the first step of an orderly shutdown.  The main
\* thread takes a pending SIGALRM before it returns from the system call.
Disarm ==
  /\ armed /\ ~sigalrm /\ ~InHandler(Main)
  /\ armed' = FALSE
  /\ UNCHANGED <<poolVars, ticks_left, sigalrm, scan>>

WorkerRuns(w) == ~InHandler(w) /\ WorkerStep(w) /\ UNCHANGED alarmVars

Destroy ==
  /\ ~armed
  /\ DestroyLock \/ DestroyClose \/ DestroyFree
  /\ UNCHANGED alarmVars

AlarmNext ==
  \/ Tick
  \/ \E c \in Callers : Deliver(c) \/ HandlerStep(c)
  \/ \E w \in Workers : WorkerRuns(w) \/ (SpuriousWakeup(w) /\ UNCHANGED alarmVars)
  \/ Disarm
  \/ Destroy

Spec == Init /\ [][AlarmNext]_vars

\* The timer keeps firing, a pending signal is delivered, handlers, workers and
\* the shutdown, once begun, run on, the lock is granted, tasks return.
Fairness ==
  /\ WF_vars(Tick)
  /\ WF_vars(\E c \in Callers : Deliver(c))
  /\ \A c \in Callers : WF_vars(HandlerStep(c)) /\ SF_vars(AddLock(c) /\ UNCHANGED alarmVars)
  /\ \A w \in Workers : WF_vars(WorkerRuns(w)) /\ SF_vars(Acquire(w) /\ UNCHANGED alarmVars)
  /\ SF_vars(Destroy)

FairSpec == Spec /\ Fairness

-----------------------------------------------------------------------------
\* Between two signals a task's countdown lies within its period.
AlarmTypeOK ==
  /\ TypeOK
  /\ armed \in BOOLEAN /\ sigalrm \in BOOLEAN
  /\ \A i \in Tasks : ticks_left[i] \in 1 .. Interval[i]
  /\ scan \in [Callers -> 0 .. LAST_TASK]

\* The pool under the scheduler: lock, ring and workers fit together, no wakeup is
\* lost, and what the shutdown frees is used by nobody.
PoolSafe == AlarmTypeOK /\ LockHeldByOwner /\ RingConsistent /\ SomeoneAwake /\ FreedIsUnused

\* alarm_scheduler.h: a registered task is periodic.  It starts again and again
\* until the scheduler is destroyed, unless the workers are so far behind that it
\* finds the queue full again and again.
TaskIsPeriodic ==
  \A i \in Tasks :
    \/ []<>(\E w \in Workers : running[w] = i)
    \/ []<>QueueFull
    \/ <>~armed

\* The shutdown joins the workers and frees the pool, whatever they are doing
\* when it starts.
ShutdownReturns == ~armed ~> destroyer = "freed"
=============================================================================
