----------------------------- MODULE ThreadPool -----------------------------
(***************************************************************************)
(* thread_pool.c: workers that sleep on a condition variable, a bounded    *)
(* ring of tasks, threadpool_add and threadpool_destroy.                   *)
(*                                                                         *)
(* A caller of threadpool_add is a thread in which it runs.  In the        *)
(* gateway the only call is made by the SIGALRM handler, so the caller is  *)
(* whatever thread the kernel chose for the signal: Callers may contain    *)
(* workers, and a worker that runs the handler is suspended where it was.  *)
(***************************************************************************)
EXTENDS Integers, Sequences, FiniteSets

CONSTANTS
  Workers,      \* the pool's threads (4)
  Callers,      \* threads in which threadpool_add may run
  Main,         \* the thread that destroys the pool
  QUEUE_SIZE,   \* capacity of the task ring (256)
  Tasks,        \* what may be submitted
  NoTask, Free  \* no task; the lock's value when nobody holds it

ASSUME ThreadPoolAssumption ==
  /\ Workers # {} /\ IsFiniteSet(Workers)
  /\ Main \notin Workers
  /\ Callers \subseteq Workers \union {Main}
  /\ QUEUE_SIZE \in Nat /\ QUEUE_SIZE >= 1
  /\ NoTask \notin Tasks
  /\ Free \notin Workers \union {Main}

VARIABLES
  lock,                     \* pool->lock: its holder, or Free
  queue, head, tail, count, \* the ring of tasks
  shutdown,                 \* pool->shutdown
  worker,                   \* where each worker is
  running,                  \* the task a worker executes
  caller, job,              \* where each call of threadpool_add is; its task
  destroyer                 \* where threadpool_destroy is

ringVars == <<queue, head, tail, count>>
poolVars == <<lock, ringVars, shutdown, worker, running, caller, job, destroyer>>

Slots == 0 .. QUEUE_SIZE - 1

\* (index + 1) % queue_size
Succ(i) == (i + 1) % QUEUE_SIZE

\* threadpool_create has returned: every worker is about to take the lock.
PoolInit ==
  /\ lock = Free
  /\ queue = [i \in Slots |-> NoTask]
  /\ head = 0 /\ tail = 0 /\ count = 0
  /\ shutdown = FALSE
  /\ worker = [w \in Workers |-> "acquire"]
  /\ running = [w \in Workers |-> NoTask]
  /\ caller = [c \in Callers |-> "idle"]
  /\ job = [c \in Callers |-> NoTask]
  /\ destroyer = "up"

\* A thread interrupted by the signal handler makes no progress of its own.
Interrupted(t) == t \in Callers /\ caller[t] # "idle"

-----------------------------------------------------------------------------
(* The workers. *)

\* pthread_mutex_lock at the top of the loop, or inside pthread_cond_wait once
\* the worker has been woken.
Acquire(w) ==
  /\ worker[w] \in {"acquire", "woken"} /\ ~Interrupted(w)
  /\ lock = Free
  /\ lock' = w
  /\ worker' = [worker EXCEPT ![w] = "check"]
  /\ UNCHANGED <<ringVars, shutdown, running, caller, job, destroyer>>

\* while (count == 0 && !shutdown) pthread_cond_wait: releases the lock.
Wait(w) ==
  /\ worker[w] = "check" /\ ~Interrupted(w)
  /\ count = 0 /\ ~shutdown
  /\ lock' = Free
  /\ worker' = [worker EXCEPT ![w] = "waiting"]
  /\ UNCHANGED <<ringVars, shutdown, running, caller, job, destroyer>>

SpuriousWakeup(w) ==
  /\ worker[w] = "waiting"
  /\ worker' = [worker EXCEPT ![w] = "woken"]
  /\ UNCHANGED <<lock, ringVars, shutdown, running, caller, job, destroyer>>

\* if (shutdown) unlock and pthread_exit, whatever is still in the queue.
Exit(w) ==
  /\ worker[w] = "check" /\ ~Interrupted(w)
  /\ shutdown
  /\ lock' = Free
  /\ worker' = [worker EXCEPT ![w] = "exited"]
  /\ UNCHANGED <<ringVars, shutdown, running, caller, job, destroyer>>

\* Take the task at the head, unlock, and call it.
Take(w) ==
  /\ worker[w] = "check" /\ ~Interrupted(w)
  /\ count > 0 /\ ~shutdown
  /\ running' = [running EXCEPT ![w] = queue[head]]
  /\ head' = Succ(head)
  /\ count' = count - 1
  /\ lock' = Free
  /\ worker' = [worker EXCEPT ![w] = "running"]
  /\ UNCHANGED <<queue, tail, shutdown, caller, job, destroyer>>

\* The task's function returns.
Finish(w) ==
  /\ worker[w] = "running" /\ ~Interrupted(w)
  /\ running' = [running EXCEPT ![w] = NoTask]
  /\ worker' = [worker EXCEPT ![w] = "acquire"]
  /\ UNCHANGED <<lock, ringVars, shutdown, caller, job, destroyer>>

WorkerStep(w) == Acquire(w) \/ Wait(w) \/ Exit(w) \/ Take(w) \/ Finish(w)

-----------------------------------------------------------------------------
(* threadpool_add. *)

\* The call begins; it has not touched the pool yet.
AddBegin(c, task) ==
  /\ caller[c] = "idle"
  /\ caller' = [caller EXCEPT ![c] = "locking"]
  /\ job' = [job EXCEPT ![c] = task]
  /\ UNCHANGED <<lock, ringVars, shutdown, worker, running, destroyer>>

AddLock(c) ==
  /\ caller[c] = "locking"
  /\ lock = Free
  /\ lock' = c
  /\ caller' = [caller EXCEPT ![c] = "pushing"]
  /\ UNCHANGED <<ringVars, shutdown, worker, running, job, destroyer>>

AddEndKeepsLock(c) ==
  /\ caller' = [caller EXCEPT ![c] = "idle"]
  /\ job' = [job EXCEPT ![c] = NoTask]
  /\ UNCHANGED lock

\* Unlock and return.
AddEnd(c) ==
  /\ lock' = Free
  /\ caller' = [caller EXCEPT ![c] = "idle"]
  /\ job' = [job EXCEPT ![c] = NoTask]

SignalNobody == UNCHANGED worker

\* pthread_cond_signal: one of the waiting workers, if there is one, wakes up.
SignalOne ==
  IF \E w \in Workers : worker[w] = "waiting"
    THEN \E w \in Workers : /\ worker[w] = "waiting"
                            /\ worker' = [worker EXCEPT ![w] = "woken"]
    ELSE UNCHANGED worker

\* count == queue_size
QueueFull == count = QUEUE_SIZE

\* The queue is full or the pool is being destroyed: -1.
AddRejected(c) ==
  /\ caller[c] = "pushing"
  /\ QueueFull \/ shutdown
  /\ AddEnd(c)
  /\ UNCHANGED <<ringVars, shutdown, worker, running, destroyer>>

AddPush(c) ==
  /\ caller[c] = "pushing"
  /\ ~QueueFull /\ ~shutdown
  /\ queue' = [queue EXCEPT ![tail] = job[c]]
  /\ tail' = Succ(tail)
  /\ count' = count + 1
  /\ SignalOne
  /\ AddEnd(c)
  /\ UNCHANGED <<head, shutdown, running, destroyer>>

CallerStep(c) == AddLock(c) \/ AddRejected(c) \/ AddPush(c)

-----------------------------------------------------------------------------
(* threadpool_destroy, called by Main once no new call can begin. *)

DestroyLock ==
  /\ destroyer = "up" /\ ~Interrupted(Main)
  /\ lock = Free
  /\ lock' = Main
  /\ destroyer' = "closing"
  /\ UNCHANGED <<ringVars, shutdown, worker, running, caller, job>>

WakeNobody == UNCHANGED worker

\* pthread_cond_broadcast
WakeAll == worker' = [w \in Workers |-> IF worker[w] = "waiting" THEN "woken" ELSE worker[w]]

\* shutdown = 1, broadcast, unlock.
DestroyClose ==
  /\ destroyer = "closing"
  /\ shutdown' = TRUE
  /\ WakeAll
  /\ lock' = Free
  /\ destroyer' = "joining"
  /\ UNCHANGED <<ringVars, running, caller, job>>

DestroyFreeUnjoined ==
  /\ destroyer = "joining"
  /\ destroyer' = "freed"
  /\ UNCHANGED <<lock, ringVars, shutdown, worker, running, caller, job>>

\* pthread_join of every worker, then the lock and the queue are freed.
DestroyFree ==
  /\ destroyer = "joining"
  /\ \A w \in Workers : worker[w] = "exited"
  /\ destroyer' = "freed"
  /\ UNCHANGED <<lock, ringVars, shutdown, worker, running, caller, job>>

-----------------------------------------------------------------------------
(* The pool on its own: any caller may add any task until it is destroyed. *)

Next ==
  \/ \E w \in Workers : WorkerStep(w) \/ SpuriousWakeup(w)
  \/ \E c \in Callers : \/ CallerStep(c)
                        \/ /\ destroyer = "up"
                           /\ c \in Workers => worker[c] # "exited"
                           /\ \E task \in Tasks : AddBegin(c, task)
  \/ DestroyLock \/ DestroyClose \/ DestroyFree

PoolSpec == PoolInit /\ [][Next]_poolVars

-----------------------------------------------------------------------------
TypeOK ==
  /\ lock \in Workers \union {Main, Free}
  /\ queue \in [Slots -> Tasks \union {NoTask}]
  /\ head \in Slots /\ tail \in Slots /\ count \in 0 .. QUEUE_SIZE
  /\ shutdown \in BOOLEAN
  /\ worker \in [Workers -> {"acquire", "check", "waiting", "woken", "running", "exited"}]
  /\ running \in [Workers -> Tasks \union {NoTask}]
  /\ caller \in [Callers -> {"idle", "locking", "pushing"}]
  /\ job \in [Callers -> Tasks \union {NoTask}]
  /\ destroyer \in {"up", "closing", "joining", "freed"}

\* The thread between lock and unlock is the holder of pool->lock, and there is
\* only one.
LockHeldByOwner ==
  /\ \A w \in Workers : worker[w] = "check" => lock = w
  /\ \A c \in Callers : caller[c] = "pushing" => lock = c
  /\ destroyer = "closing" => lock = Main

\* head, tail and count describe the same ring, whose waiting slots hold tasks.
RingConsistent ==
  /\ tail = (head + count) % QUEUE_SIZE
  /\ \A k \in 0 .. count - 1 : queue[(head + k) % QUEUE_SIZE] \in Tasks

\* No lost wakeup: while a task waits in an open pool, some worker is awake.
SomeoneAwake ==
  count > 0 /\ ~shutdown => \E w \in Workers : worker[w] # "waiting"

\* The pool is freed when no thread can touch it any more, not even a signal
\* handler that had begun its threadpool_add in a worker.
FreedIsUnused ==
  destroyer = "freed" =>
    /\ \A w \in Workers : worker[w] = "exited"
    /\ \A c \in Callers : caller[c] = "idle"

\* The waiting tasks in order of submission.
WaitingTasks == [k \in 1 .. count |-> queue[(head + k - 1) % QUEUE_SIZE]]

Abstract == INSTANCE WorkQueue WITH
              Worker <- Workers, Task <- Tasks, Capacity <- QUEUE_SIZE,
              waiting <- WaitingTasks, closed <- shutdown

\* The ring and its lock are a queue of tasks that are started in the order of
\* submission, each once, and while a worker is free the oldest one is
\* eventually started.
ImplementsFairWorkQueue == Abstract!FairSpec

\* thread_pool.h: the destruction waits until all tasks have been executed.
DestroyWaitsForTasks == destroyer = "freed" => count = 0
=============================================================================
