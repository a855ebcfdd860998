----------------------------- MODULE Lifecycle -----------------------------
(***************************************************************************)
(* Start and stop of the gateway as a daemon: main.c, daemon.c, the        *)
(* creation and the end of the process pool, and the threads that run      *)
(* meanwhile.                                                              *)
(*                                                                         *)
(* A program is one execution of main.  It takes its steps in the order of *)
(* the code, among its threads, its children and other executions of the   *)
(* same program, and may end at any moment by a signal.  A FIFO is named   *)
(* by the program that made it.                                            *)
(***************************************************************************)
EXTENDS Naturals, Sequences, FiniteSets

CONSTANTS
  Programs,  \* executions of the gateway, numbered in the order in which they begin
  Kids,      \* indices of the children: 1 .. 2
  None

ASSUME LifecycleAssumption == Kids \subseteq Nat /\ Programs \subseteq Nat /\ None \notin Programs

VARIABLES
  pc,         \* per program: 0 before it starts, an index into Script, or beyond its end
  lock,       \* who has the write lock on the pid file
  path,       \* the FIFO at TASK_FIFO
  fifo_write_fd,  \* per program: the FIFO it has open
  ipc,        \* the shared memory and the semaphore exist
  child,      \* per program and index: "none", "forked", "opening", "reading", "dead"
  reads,      \* per child: the FIFO it opens or reads
  inherited,  \* per child: a FIFO open in its parent when it was forked
  cloud,      \* per program, the cloud thread: "none", "working", "logging", "ended"
  cancelled,  \* per program: the cloud thread is asked to end
  log_mutex,  \* per program: nobody, the cloud thread, or a thread that is gone
  timer,      \* per program: the interval timer runs
  worker,     \* per program, a thread of the pool: "none", "idle", "logging", "submitting"
  stopping    \* per program: the thread pool is shut down

programVars == <<pc, lock>>
poolVars == <<path, fifo_write_fd, child, reads, inherited>>
threadVars == <<cloud, cancelled, log_mutex, timer, worker, stopping>>
vars == <<programVars, poolVars, ipc, threadVars>>

-----------------------------------------------------------------------------
(* main *)

OpenBeforeFork == <<"mkfifo", "open", "fork1", "fork2">>
process_pool_init == <<"mkfifo", "fork1", "fork2", "open">>

PoolLast ==
  <<"ipc", "timer", "workers", "cloud">> \o process_pool_init \o <<"loop">>
Startup ==
  <<"ipc">> \o process_pool_init \o <<"timer", "workers", "cloud", "loop">>

NothingKilled == <<"close", "unlink", "log">>
process_pool_destroy == <<"close", "kill", "unlink", "log">>

Cleanup ==
  <<"cancel", "join", "stop_timer">> \o process_pool_destroy \o <<"remove_ipc", "join_workers", "log">>

Script == Startup \o Cleanup
Ended == Len(Script) + 1    \* returned from main
Killed == Len(Script) + 2   \* ended by a signal or by exit

Running(p) == pc[p] \in 1 .. Len(Script)
At(p, step) == Running(p) /\ Script[pc[p]] = step

Init ==
  /\ pc = [p \in Programs |-> 0] /\ lock = None
  /\ path = None /\ fifo_write_fd = [p \in Programs |-> None] /\ ipc = FALSE
  /\ child = [p \in Programs |-> [k \in Kids |-> "none"]]
  /\ reads = [p \in Programs |-> [k \in Kids |-> None]]
  /\ inherited = [p \in Programs |-> [k \in Kids |-> None]]
  /\ cloud = [p \in Programs |-> "none"] /\ cancelled = [p \in Programs |-> FALSE]
  /\ log_mutex = [p \in Programs |-> "free"]
  /\ timer = [p \in Programs |-> FALSE] /\ worker = [p \in Programs |-> "none"]
  /\ stopping = [p \in Programs |-> FALSE]

\* The end of a process ends its threads, and nothing of it stays but what it made outside.
Vanish(p, how) ==
  /\ pc' = [pc EXCEPT ![p] = how]
  /\ lock' = IF lock = p THEN None ELSE lock
  /\ fifo_write_fd' = [fifo_write_fd EXCEPT ![p] = None]
  /\ cloud' = [cloud EXCEPT ![p] = "none"] /\ worker' = [worker EXCEPT ![p] = "none"]
  /\ log_mutex' = [log_mutex EXCEPT ![p] = "free"]
  /\ timer' = [timer EXCEPT ![p] = FALSE] /\ cancelled' = [cancelled EXCEPT ![p] = FALSE]
  /\ stopping' = [stopping EXCEPT ![p] = FALSE]
  /\ UNCHANGED <<path, ipc, child, reads, inherited>>

Advance(p) ==
  pc' = [pc EXCEPT ![p] = @ + 1]

\* daemonize: a second gateway ends here.
Lock(p) ==
  /\ pc[p] = 0 /\ \A q \in Programs : q < p => pc[q] # 0
  /\ IF lock = None
       THEN lock' = p /\ Advance(p) /\ UNCHANGED <<poolVars, ipc, threadVars>>
       ELSE Vanish(p, Killed)

InitIpc(p) ==
  /\ At(p, "ipc") /\ ipc' = TRUE /\ Advance(p)
  /\ UNCHANGED <<lock, poolVars, threadVars>>

Mkfifo(p) ==
  /\ At(p, "mkfifo") /\ path' = p /\ Advance(p)
  /\ UNCHANGED <<lock, fifo_write_fd, child, reads, inherited, ipc, threadVars>>

Fork(p, k) ==
  /\ At(p, IF k = 1 THEN "fork1" ELSE "fork2") /\ Advance(p)
  /\ child' = [child EXCEPT ![p][k] = "forked"]
  /\ inherited' = [inherited EXCEPT ![p][k] = fifo_write_fd[p]]
  /\ UNCHANGED <<lock, path, fifo_write_fd, reads, ipc, threadVars>>

\* O_RDWR: it does not wait for a reader.
Open(p) ==
  /\ At(p, "open") /\ Advance(p)
  /\ fifo_write_fd' = [fifo_write_fd EXCEPT ![p] = path]
  /\ UNCHANGED <<lock, path, child, reads, inherited, ipc, threadVars>>

StartThreads(p) ==
  /\ Advance(p)
  /\ \/ /\ At(p, "timer") /\ timer' = [timer EXCEPT ![p] = TRUE]
        /\ UNCHANGED <<cloud, worker>>
     \/ /\ At(p, "workers") /\ worker' = [worker EXCEPT ![p] = "idle"]
        /\ UNCHANGED <<cloud, timer>>
     \/ /\ At(p, "cloud") /\ cloud' = [cloud EXCEPT ![p] = "working"]
        /\ UNCHANGED <<timer, worker>>
  /\ UNCHANGED <<lock, poolVars, ipc, cancelled, log_mutex, stopping>>

\* g_running was cleared by a handler whose exit has not ended the process yet.
LoopEnds(p) ==
  /\ At(p, "loop") /\ Advance(p)
  /\ UNCHANGED <<lock, poolVars, ipc, threadVars>>

Cancel(p) ==
  /\ At(p, "cancel") /\ Advance(p) /\ cancelled' = [cancelled EXCEPT ![p] = TRUE]
  /\ UNCHANGED <<lock, poolVars, ipc, cloud, log_mutex, timer, worker, stopping>>

Join(p) ==
  /\ At(p, "join") /\ cloud[p] = "ended" /\ Advance(p)
  /\ UNCHANGED <<lock, poolVars, ipc, threadVars>>

StopTimer(p) ==
  /\ At(p, "stop_timer") /\ Advance(p) /\ timer' = [timer EXCEPT ![p] = FALSE]
  /\ UNCHANGED <<lock, poolVars, ipc, cloud, cancelled, log_mutex, worker, stopping>>

\* The variable keeps the number of the descriptor that is closed.
Close(p) ==
  /\ At(p, "close") /\ Advance(p)
  /\ fifo_write_fd' = [fifo_write_fd EXCEPT ![p] = None]
  /\ UNCHANGED <<lock, path, child, reads, inherited, ipc, threadVars>>

Kill(p) ==
  /\ At(p, "kill") /\ Advance(p)
  /\ child' = [child EXCEPT ![p] = [k \in Kids |-> IF @[k] = "none" THEN "none" ELSE "dead"]]
  /\ UNCHANGED <<lock, path, fifo_write_fd, reads, inherited, ipc, threadVars>>

Unlink(p) ==
  /\ At(p, "unlink") /\ Advance(p) /\ path' = None
  /\ UNCHANGED <<lock, fifo_write_fd, child, reads, inherited, ipc, threadVars>>

\* write_log
Log(p) ==
  /\ At(p, "log") /\ log_mutex[p] = "free"
  /\ IF pc[p] = Len(Script) THEN Vanish(p, Ended)
     ELSE Advance(p) /\ UNCHANGED <<lock, poolVars, ipc, threadVars>>

RemoveIpc(p) ==
  /\ At(p, "remove_ipc") /\ Advance(p) /\ ipc' = FALSE
  /\ UNCHANGED <<lock, poolVars, threadVars>>

\* threadpool_destroy: the threads are told to stop, then joined.
JoinWorkers(p) ==
  /\ At(p, "join_workers")
  /\ IF worker[p] = "none" THEN Advance(p) ELSE UNCHANGED pc
  /\ stopping' = [stopping EXCEPT ![p] = TRUE]
  /\ UNCHANGED <<lock, poolVars, ipc, cloud, cancelled, log_mutex, timer, worker>>

Main(p) ==
  \/ InitIpc(p) \/ Mkfifo(p) \/ (\E k \in Kids : Fork(p, k)) \/ Open(p)
  \/ StartThreads(p) \/ Cancel(p) \/ Join(p) \/ StopTimer(p) \/ Close(p) \/ Kill(p)
  \/ Unlink(p) \/ Log(p) \/ RemoveIpc(p) \/ JoinWorkers(p)

-----------------------------------------------------------------------------
(* Signals *)

\* SIGTERM, SIGINT: the handler clears g_running and calls exit on whatever thread it
\* interrupts; the others, main among them, may run on until the process is gone.
SignalHandler(p) == Running(p) /\ Vanish(p, Killed)

-----------------------------------------------------------------------------
(* The children: worker_process_logic *)

Living(state) == state \in {"forked", "opening", "reading"}

Writers(fifo) ==
  {p \in Programs : fifo_write_fd[p] = fifo}
    \union {p \in Programs : \E k \in Kids : Living(child[p][k]) /\ inherited[p][k] = fifo}

ChildOpens(p, k) ==
  /\ child[p][k] = "forked"
  /\ child' = [child EXCEPT ![p][k] = IF path = None THEN "dead" ELSE "opening"]
  /\ reads' = [reads EXCEPT ![p][k] = path]
  /\ UNCHANGED <<programVars, path, fifo_write_fd, inherited, ipc, threadVars>>

\* The open of a FIFO for reading waits for a writer.
ChildConnects(p, k) ==
  /\ child[p][k] = "opening" /\ Writers(reads[p][k]) # {}
  /\ child' = [child EXCEPT ![p][k] = "reading"]
  /\ UNCHANGED <<programVars, path, fifo_write_fd, reads, inherited, ipc, threadVars>>

\* read returns 0.
ChildSeesEnd(p, k) ==
  /\ child[p][k] = "reading" /\ Writers(reads[p][k]) = {}
  /\ child' = [child EXCEPT ![p][k] = "dead"]
  /\ UNCHANGED <<programVars, path, fifo_write_fd, reads, inherited, ipc, threadVars>>

Child(p, k) == ChildOpens(p, k) \/ ChildConnects(p, k) \/ ChildSeesEnd(p, k)

-----------------------------------------------------------------------------
(* The threads *)

Cloud(p, state, mutex) ==
  /\ cloud' = [cloud EXCEPT ![p] = state] /\ log_mutex' = [log_mutex EXCEPT ![p] = mutex]
  /\ UNCHANGED <<programVars, poolVars, ipc, cancelled, timer, worker, stopping>>

CloudLogs(p) == cloud[p] = "working" /\ log_mutex[p] = "free" /\ Cloud(p, "logging", "cloud")

CloudLogged(p) == cloud[p] = "logging" /\ Cloud(p, "working", "free")

NeverCancelled(p) == FALSE /\ Cloud(p, "ended", "free")

\* Wherever it waits; inside write_log it leaves the mutex locked.
CloudCancelled(p) ==
  /\ cancelled[p] /\ cloud[p] \in {"working", "logging"}
  /\ Cloud(p, "ended", IF cloud[p] = "logging" THEN "lost" ELSE log_mutex[p])

WorkerBecomes(p, state) ==
  /\ worker' = [worker EXCEPT ![p] = state]
  /\ UNCHANGED <<programVars, poolVars, ipc, cloud, cancelled, log_mutex, timer, stopping>>

\* heartbeat_task logs, then submits a command to the pool.
Heartbeat(p) == worker[p] = "idle" /\ timer[p] /\ WorkerBecomes(p, "logging")

Worker(p) ==
  \/ worker[p] = "logging" /\ log_mutex[p] = "free" /\ WorkerBecomes(p, "submitting")
  \/ worker[p] = "submitting" /\ WorkerBecomes(p, "idle")
  \/ worker[p] = "idle" /\ stopping[p] /\ WorkerBecomes(p, "none")

-----------------------------------------------------------------------------
Next ==
  \E p \in Programs :
    \/ Lock(p) \/ Main(p) \/ LoopEnds(p) \/ SignalHandler(p)
    \/ CloudLogs(p) \/ CloudLogged(p) \/ CloudCancelled(p) \/ Heartbeat(p) \/ Worker(p)
    \/ \E k \in Kids : Child(p, k)

Spec == Init /\ [][Next]_vars

\* Every thread and every process runs; a thread that waits for the log's mutex gets it
\* when it is free again and again.
Fairness ==
  \A p \in Programs :
    /\ WF_vars(Main(p)) /\ SF_vars(Worker(p))
    /\ WF_vars(CloudLogged(p)) /\ WF_vars(CloudCancelled(p))
    /\ \A k \in Kids : WF_vars(Child(p, k))

FairSpec == Spec /\ Fairness
-----------------------------------------------------------------------------
ChildStates == {"none", "forked", "opening", "reading", "dead"}

\* The values, and: the program that runs is the one that has the lock.
TypeOK ==
  /\ \A p \in Programs : Running(p) <=> lock = p
  /\ pc \in [Programs -> 0 .. Killed]
  /\ lock \in Programs \union {None} /\ path \in Programs \union {None} /\ ipc \in BOOLEAN
  /\ fifo_write_fd \in [Programs -> Programs \union {None}]
  /\ child \in [Programs -> [Kids -> ChildStates]]
  /\ reads \in [Programs -> [Kids -> Programs \union {None}]]
  /\ inherited \in [Programs -> [Kids -> Programs \union {None}]]
  /\ cloud \in [Programs -> {"none", "working", "logging", "ended"}]
  /\ log_mutex \in [Programs -> {"free", "cloud", "lost"}]
  /\ worker \in [Programs -> {"none", "idle", "logging", "submitting"}]
  /\ {cancelled, timer, stopping} \subseteq [Programs -> BOOLEAN]

\* Until the pool is destroyed a heartbeat finds its FIFO open, and it is the gateway's
\* own, whatever other gateways were started or ended meanwhile.
SubmitFindsFifo ==
  \A p \in Programs :
    worker[p] = "submitting" /\ pc[p] <= Len(Startup) => fifo_write_fd[p] = p

\* A gateway that returned from main leaves no child, no FIFO and no shared memory,
\* unless another one has begun, or one before it was killed.
CleanExitLeavesNothing ==
  /\ TypeOK
  /\ (\E p \in Programs : pc[p] = Ended) /\ (\A p \in Programs : pc[p] \in {0, Ended}) =>
       /\ path = None /\ ~ipc
       /\ \A p \in Programs, k \in Kids : child[p][k] \in {"none", "dead"}

\* A child that reads from its gateway ends when the gateway is gone, however it ended:
\* nobody else has the FIFO open for writing.
ChildrenEnd ==
  \A p \in Programs, k \in Kids :
    child[p][k] = "reading" /\ reads[p][k] = p /\ ~Running(p) ~> child[p][k] = "dead"

\* The clean-up ends, unless the cloud thread was cancelled while it held the log's mutex.
ShutdownEnds ==
  \A p \in Programs : At(p, "cancel") ~> ~Running(p) \/ log_mutex[p] = "lost"
=============================================================================
