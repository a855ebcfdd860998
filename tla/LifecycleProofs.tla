-------------------------- MODULE LifecycleProofs --------------------------
(***************************************************************************)
(* Start and stop for every number of executions: heartbeats find the FIFO *)
(* of their own gateway, and a clean end leaves nothing behind.            *)
(***************************************************************************)
EXTENDS Lifecycle, SequenceTheorems, TLAPS

Steps ==
  {"ipc", "mkfifo", "fork1", "fork2", "open", "timer", "workers", "cloud", "loop", "cancel",
   "join", "stop_timer", "close", "kill", "unlink", "log", "remove_ipc", "join_workers"}

\* main before its loop: ipc_modules_init, process_pool_init, then timer and threads.
LEMMA StartupIs ==
  /\ Startup \in Seq(Steps) /\ Len(Startup) = 9
  /\ Startup[1] = "ipc" /\ Startup[2] = "mkfifo" /\ Startup[3] = "fork1"
  /\ Startup[4] = "fork2" /\ Startup[5] = "open" /\ Startup[6] = "timer"
  /\ Startup[7] = "workers" /\ Startup[8] = "cloud" /\ Startup[9] = "loop"
  <1> DEFINE a == <<"ipc">>
             b == process_pool_init
             c == <<"timer", "workers", "cloud", "loop">>
             d == a \o b
  <1>1. a \in Seq(Steps) /\ Len(a) = 1 /\ a[1] = "ipc"
    BY DEF Steps
  <1>2. /\ b \in Seq(Steps) /\ Len(b) = 4
        /\ b[1] = "mkfifo" /\ b[2] = "fork1" /\ b[3] = "fork2" /\ b[4] = "open"
    BY DEF process_pool_init, Steps
  <1>3. /\ c \in Seq(Steps) /\ Len(c) = 4
        /\ c[1] = "timer" /\ c[2] = "workers" /\ c[3] = "cloud" /\ c[4] = "loop"
    BY DEF Steps
  <1>4. Startup = d \o c
    BY DEF Startup
  <1> HIDE DEF a, b, c
  <1>5. /\ d \in Seq(Steps) /\ Len(d) = 5
        /\ \A i \in 1 .. 5 : d[i] = IF i <= 1 THEN a[i] ELSE b[i - 1]
    <2>1. /\ a \o b \in Seq(Steps) /\ Len(a \o b) = Len(a) + Len(b)
          /\ \A i \in 1 .. Len(a) + Len(b) :
               (a \o b)[i] = IF i <= Len(a) THEN a[i] ELSE b[i - Len(a)]
      BY <1>1, <1>2, ConcatProperties
    <2> QED
      BY <1>1, <1>2, <2>1
  <1> HIDE DEF d
  <1>6. /\ Startup \in Seq(Steps) /\ Len(Startup) = 9
        /\ \A i \in 1 .. 9 : Startup[i] = IF i <= 5 THEN d[i] ELSE c[i - 5]
    <2>1. /\ d \o c \in Seq(Steps) /\ Len(d \o c) = Len(d) + Len(c)
          /\ \A i \in 1 .. Len(d) + Len(c) :
               (d \o c)[i] = IF i <= Len(d) THEN d[i] ELSE c[i - Len(d)]
      BY <1>3, <1>5, ConcatProperties
    <2>2. Len(d) = 5 /\ Len(c) = 4
      BY <1>3, <1>5
    <2> QED
      BY <1>4, <2>1, <2>2
  <1> QED
    BY <1>1, <1>2, <1>3, <1>5, <1>6

\* main after its loop.
LEMMA CleanupIs ==
  /\ Cleanup \in Seq(Steps) /\ Len(Cleanup) = 10
  /\ Cleanup[1] = "cancel" /\ Cleanup[2] = "join" /\ Cleanup[3] = "stop_timer"
  /\ Cleanup[4] = "close" /\ Cleanup[5] = "kill" /\ Cleanup[6] = "unlink"
  /\ Cleanup[7] = "log" /\ Cleanup[8] = "remove_ipc" /\ Cleanup[9] = "join_workers"
  /\ Cleanup[10] = "log"
  <1> DEFINE a == <<"cancel", "join", "stop_timer">>
             b == process_pool_destroy
             c == <<"remove_ipc", "join_workers", "log">>
             d == a \o b
  <1>1. a \in Seq(Steps) /\ Len(a) = 3 /\ a[1] = "cancel" /\ a[2] = "join" /\ a[3] = "stop_timer"
    BY DEF Steps
  <1>2. /\ b \in Seq(Steps) /\ Len(b) = 4
        /\ b[1] = "close" /\ b[2] = "kill" /\ b[3] = "unlink" /\ b[4] = "log"
    BY DEF process_pool_destroy, Steps
  <1>3. /\ c \in Seq(Steps) /\ Len(c) = 3
        /\ c[1] = "remove_ipc" /\ c[2] = "join_workers" /\ c[3] = "log"
    BY DEF Steps
  <1>4. Cleanup = d \o c
    BY DEF Cleanup
  <1> HIDE DEF a, b, c
  <1>5. /\ d \in Seq(Steps) /\ Len(d) = 7
        /\ \A i \in 1 .. 7 : d[i] = IF i <= 3 THEN a[i] ELSE b[i - 3]
    <2>1. /\ a \o b \in Seq(Steps) /\ Len(a \o b) = Len(a) + Len(b)
          /\ \A i \in 1 .. Len(a) + Len(b) :
               (a \o b)[i] = IF i <= Len(a) THEN a[i] ELSE b[i - Len(a)]
      BY <1>1, <1>2, ConcatProperties
    <2> QED
      BY <1>1, <1>2, <2>1
  <1> HIDE DEF d
  <1>6. /\ Cleanup \in Seq(Steps) /\ Len(Cleanup) = 10
        /\ \A i \in 1 .. 10 : Cleanup[i] = IF i <= 7 THEN d[i] ELSE c[i - 7]
    <2>1. /\ d \o c \in Seq(Steps) /\ Len(d \o c) = Len(d) + Len(c)
          /\ \A i \in 1 .. Len(d) + Len(c) :
               (d \o c)[i] = IF i <= Len(d) THEN d[i] ELSE c[i - Len(d)]
      BY <1>3, <1>5, ConcatProperties
    <2>2. Len(d) = 7 /\ Len(c) = 3
      BY <1>3, <1>5
    <2> QED
      BY <1>4, <2>1, <2>2
  <1> QED
    BY <1>1, <1>2, <1>3, <1>5, <1>6

\* The steps of main in the order of the code.
LEMMA ScriptIs ==
  /\ Len(Script) = 19 /\ Ended = 20 /\ Killed = 21 /\ Len(Startup) = 9
  /\ Script[1] = "ipc" /\ Script[2] = "mkfifo" /\ Script[3] = "fork1"
  /\ Script[4] = "fork2" /\ Script[5] = "open" /\ Script[6] = "timer"
  /\ Script[7] = "workers" /\ Script[8] = "cloud" /\ Script[9] = "loop"
  /\ Script[10] = "cancel" /\ Script[11] = "join" /\ Script[12] = "stop_timer"
  /\ Script[13] = "close" /\ Script[14] = "kill" /\ Script[15] = "unlink"
  /\ Script[16] = "log" /\ Script[17] = "remove_ipc" /\ Script[18] = "join_workers"
  /\ Script[19] = "log"
  <1>1. /\ Len(Script) = 19
        /\ \A i \in 1 .. 19 : Script[i] = IF i <= 9 THEN Startup[i] ELSE Cleanup[i - 9]
    <2>1. /\ Len(Startup \o Cleanup) = Len(Startup) + Len(Cleanup)
          /\ \A i \in 1 .. Len(Startup) + Len(Cleanup) :
               (Startup \o Cleanup)[i] =
                 IF i <= Len(Startup) THEN Startup[i] ELSE Cleanup[i - Len(Startup)]
      BY StartupIs, CleanupIs, ConcatProperties
    <2>2. Len(Startup) = 9 /\ Len(Cleanup) = 10
      BY StartupIs, CleanupIs
    <2>3. Script = Startup \o Cleanup
      BY DEF Script
    <2>4. \A i \in 1 .. 19 : Script[i] = IF i <= 9 THEN Startup[i] ELSE Cleanup[i - 9]
      <3> TAKE i \in 1 .. 19
      <3>1. i \in 1 .. Len(Startup) + Len(Cleanup)
        BY <2>2
      <3>2. Script[i] = IF i <= Len(Startup) THEN Startup[i] ELSE Cleanup[i - Len(Startup)]
        BY <2>1, <2>3, <3>1
      <3> QED
        BY <2>2, <3>2
    <2>5. Len(Script) = Len(Startup) + Len(Cleanup)
      BY <2>1, <2>3
    <2> QED
      BY <2>2, <2>4, <2>5
  <1> QED
    BY <1>1, StartupIs, CleanupIs DEF Ended, Killed

\* How many steps there are.
LEMMA ScriptLength == Len(Script) = 19 /\ Ended = 20 /\ Killed = 21 /\ Len(Startup) = 9
  BY ScriptIs

\* Where main is when it takes a step.
LEMMA Places ==
  ASSUME NEW p \in Programs, pc[p] \in 0 .. Killed
  PROVE  /\ Running(p) <=> pc[p] \in 1 .. 19
         /\ (At(p, "ipc") <=> pc[p] = 1) /\ (At(p, "mkfifo") <=> pc[p] = 2)
         /\ (At(p, "fork1") <=> pc[p] = 3) /\ (At(p, "fork2") <=> pc[p] = 4)
         /\ (At(p, "open") <=> pc[p] = 5) /\ (At(p, "timer") <=> pc[p] = 6)
         /\ (At(p, "workers") <=> pc[p] = 7) /\ (At(p, "cloud") <=> pc[p] = 8)
         /\ (At(p, "loop") <=> pc[p] = 9) /\ (At(p, "cancel") <=> pc[p] = 10)
         /\ (At(p, "join") <=> pc[p] = 11) /\ (At(p, "stop_timer") <=> pc[p] = 12)
         /\ (At(p, "close") <=> pc[p] = 13) /\ (At(p, "kill") <=> pc[p] = 14)
         /\ (At(p, "unlink") <=> pc[p] = 15) /\ (At(p, "remove_ipc") <=> pc[p] = 17)
         /\ (At(p, "join_workers") <=> pc[p] = 18)
         /\ At(p, "log") <=> pc[p] \in {16, 19}
  <1>1. Running(p) <=> pc[p] \in 1 .. 19
    BY ScriptIs DEF Running
  <1>2. CASE pc[p] \in 1 .. 19
    BY <1>1, <1>2, ScriptIs DEF At
  <1>3. CASE pc[p] \notin 1 .. 19
    BY <1>1, <1>3 DEF At
  <1> QED
    BY <1>2, <1>3

-----------------------------------------------------------------------------
(* The inductive invariant. *)

\* Between mkfifo and unlink the FIFO is the running gateway's own, between open and close
\* it has it open, and the threads of the pool exist after they were created.
Resources ==
  \A p \in Programs :
    /\ pc[p] \in 3 .. 15 => path = p
    /\ pc[p] \in 6 .. 13 => fifo_write_fd[p] = p
    /\ worker[p] # "none" => pc[p] \in 8 .. 19

\* What is left of a gateway is left by one that was killed, or has still to be removed.
Leftovers ==
  /\ path # None => pc[path] \in (3 .. 15) \union {Killed}
  /\ ipc => \E p \in Programs : pc[p] \in (2 .. 17) \union {Killed}
  /\ \A p \in Programs, k \in Kids : Living(child[p][k]) => pc[p] \in (4 .. 14) \union {Killed}

IInv == TypeOK /\ Resources /\ Leftovers

\* Before the first gateway starts there is nothing.
LEMMA InitHolds == Init => IInv
  <1> SUFFICES ASSUME Init PROVE IInv
    OBVIOUS
  <1> USE ScriptLength, LifecycleAssumption DEF Init
  <1>1. TypeOK
    <2>1. \A p \in Programs : Running(p) <=> lock = p
      BY DEF Running
    <2>7. 0 \in 0 .. Killed
      BY ScriptLength
    <2>2. pc \in [Programs -> 0 .. Killed]
      BY <2>7
    <2>8. /\ lock \in Programs \union {None} /\ path \in Programs \union {None}
          /\ ipc \in BOOLEAN /\ fifo_write_fd \in [Programs -> Programs \union {None}]
      OBVIOUS
    <2>3. child \in [Programs -> [Kids -> ChildStates]]
      BY DEF ChildStates
    <2>4. /\ reads \in [Programs -> [Kids -> Programs \union {None}]]
          /\ inherited \in [Programs -> [Kids -> Programs \union {None}]]
      OBVIOUS
    <2>5. /\ cloud \in [Programs -> {"none", "working", "logging", "ended"}]
          /\ log_mutex \in [Programs -> {"free", "cloud", "lost"}]
          /\ worker \in [Programs -> {"none", "idle", "logging", "submitting"}]
      OBVIOUS
    <2>6. {cancelled, timer, stopping} \subseteq [Programs -> BOOLEAN]
      OBVIOUS
    <2> QED
      BY <2>1, <2>2, <2>3, <2>4, <2>5, <2>6, <2>8 DEF TypeOK
  <1>2. Resources
    BY DEF Resources
  <1>3. Leftovers
    BY DEF Leftovers, Living
  <1> QED
    BY <1>1, <1>2, <1>3 DEF IInv

\* Only one gateway is between daemonize and its end.
LEMMA OneRuns ==
  ASSUME IInv, NEW p \in Programs, NEW q \in Programs, pc[p] \in 1 .. 19, pc[q] \in 1 .. 19
  PROVE  p = q
  BY ScriptLength DEF IInv, TypeOK, Running

\* The end of a process, from wherever it may come.
LEMMA VanishKeeps ==
  ASSUME IInv, NEW p \in Programs, NEW how \in {Ended, Killed}, Vanish(p, how),
         how = Ended => pc[p] = 19
  PROVE  IInv'
  <1> USE ScriptLength, LifecycleAssumption DEF IInv, Vanish
  <1>1. TypeOK'
    BY DEF TypeOK, Running
  <1>2. Resources'
    BY DEF TypeOK, Resources
  <1>3. Leftovers'
    <2>1. /\ pc' = [pc EXCEPT ![p] = how] /\ pc \in [Programs -> 0 .. Killed]
          /\ UNCHANGED <<path, ipc, child>> /\ path \in Programs \union {None}
      BY DEF TypeOK
    <2>2. \A q \in Programs : pc[q] \in (2 .. 17) \union {Killed} => pc'[q] \in (2 .. 17) \union {Killed}
      BY <2>1
    <2>3. \A q \in Programs : pc[q] \in (3 .. 15) \union {Killed} => pc'[q] \in (3 .. 15) \union {Killed}
      BY <2>1
    <2>4. \A q \in Programs : pc[q] \in (4 .. 14) \union {Killed} => pc'[q] \in (4 .. 14) \union {Killed}
      BY <2>1
    <2> QED
      BY <2>1, <2>2, <2>3, <2>4 DEF Leftovers
  <1> QED
    BY <1>1, <1>2, <1>3

\* The next step of main, what the step itself does left open.
OrderAfter(p) ==
  /\ pc' \in [Programs -> 0 .. Killed] /\ pc'[p] = pc[p] + 1
  /\ \A q \in Programs : Running(q)' <=> lock' = q
  /\ \A q \in Programs \ {p} : pc'[q] = pc[q] /\ pc[q] \notin 1 .. 19
  /\ lock = p /\ lock' = p

\* The other gateways are not running meanwhile.
LEMMA AdvanceKeepsOrder ==
  ASSUME IInv, NEW p \in Programs, pc[p] \in 1 .. 18, Advance(p), lock' = lock
  PROVE  OrderAfter(p)
  <1>1. pc \in [Programs -> 0 .. Killed] /\ Running(p)
    BY ScriptLength DEF IInv, TypeOK, Running
  <1>2. pc' \in [Programs -> 0 .. Killed] /\ pc'[p] = pc[p] + 1
    BY <1>1, ScriptLength DEF Advance
  <1>3. \A q \in Programs \ {p} : pc'[q] = pc[q] /\ pc[q] \notin 1 .. 19
    BY <1>1, OneRuns DEF Advance
  <1>4. lock = p
    BY <1>1 DEF IInv, TypeOK
  <1>5. \A q \in Programs : Running(q)' <=> lock' = q
    BY <1>2, <1>3, <1>4, ScriptLength DEF Running
  <1> QED
    BY <1>2, <1>3, <1>4, <1>5 DEF OrderAfter

\* A step of main keeps the invariant if it keeps the types and does to the resources what
\* its place in the order says.
LEMMA StepKeeps ==
  ASSUME IInv, NEW p \in Programs, pc[p] \in 1 .. 18, OrderAfter(p), TypeOK',
         pc'[p] \in 3 .. 15 => path' = p,
         pc'[p] \in 6 .. 13 => fifo_write_fd'[p] = p,
         worker'[p] # "none" => pc'[p] \in 8 .. 19,
         \A q \in Programs \ {p} : worker'[q] = worker[q],
         path' = path \/ (path' = p /\ pc'[p] \in 3 .. 15) \/ path' = None,
         path' = p => pc'[p] \in 3 .. 15,
         ipc' => pc'[p] \in 2 .. 17 \/ (ipc /\ pc[p] \notin 2 .. 17),
         \A q \in Programs \ {p}, k \in Kids : child'[q][k] = child[q][k],
         \A k \in Kids : Living(child'[p][k]) => pc'[p] \in 4 .. 14
  PROVE  IInv'
  <1>1. Resources'
    <2>1. \A q \in Programs \ {p} : pc'[q] \notin 1 .. 19
      BY DEF OrderAfter
    <2>2. \A q \in Programs \ {p} : worker'[q] = "none"
      <3> TAKE q \in Programs \ {p}
      <3> QED
        BY <2>1 DEF IInv, Resources, OrderAfter
    <2> QED
      BY <2>1, <2>2 DEF Resources
  <1>2. Leftovers'
    <2>1. path' # None => pc'[path'] \in (3 .. 15) \union {Killed}
      <3>1. CASE path' = p \/ path' = None
        BY <3>1
      <3>2. CASE path' # p /\ path' # None
        <4>1. path' = path /\ path \in Programs \ {p}
          BY <3>2 DEF IInv, TypeOK
        <4> QED
          BY <3>2, <4>1, ScriptLength DEF IInv, Leftovers, OrderAfter
      <3> QED
        BY <3>1, <3>2
    <2>2. ipc' => \E q \in Programs : pc'[q] \in (2 .. 17) \union {Killed}
      <3> SUFFICES ASSUME ipc', pc'[p] \notin 2 .. 17
                   PROVE  \E q \in Programs : pc'[q] \in (2 .. 17) \union {Killed}
        OBVIOUS
      <3>1. PICK q \in Programs : pc[q] \in (2 .. 17) \union {Killed}
        BY DEF IInv, Leftovers
      <3>2. q # p
        BY <3>1, ScriptLength
      <3> QED
        BY <3>1, <3>2 DEF OrderAfter
    <2>3. ASSUME NEW q \in Programs, NEW k \in Kids, Living(child'[q][k])
          PROVE  pc'[q] \in (4 .. 14) \union {Killed}
      BY <2>3 DEF IInv, Leftovers, OrderAfter
    <2> QED
      BY <2>1, <2>2, <2>3 DEF Leftovers
  <1> QED
    BY <1>1, <1>2 DEF IInv

-----------------------------------------------------------------------------
(* main *)

\* daemonize: the first gets the lock, the others end.
LEMMA LockKeeps == ASSUME IInv, NEW p \in Programs, Lock(p) PROVE IInv'
  <1>1. CASE lock = None
    <2> USE <1>1, ScriptLength, LifecycleAssumption DEF IInv, Lock, Advance, poolVars, threadVars
    <2>1. TypeOK'
      BY DEF TypeOK, Running
    <2>2. pc' = [pc EXCEPT ![p] = 1] /\ pc[p] = 0 /\ pc \in [Programs -> 0 .. Killed]
      BY DEF TypeOK
    <2>3. Resources'
      BY <2>2 DEF Resources
    <2>4. Leftovers'
      <3>1. path' = path /\ ipc' = ipc /\ child' = child /\ path \in Programs \union {None}
        BY DEF TypeOK
      <3>2. \A q \in Programs : pc[q] # 0 => q # p /\ pc'[q] = pc[q]
        BY <2>2
      <3> HIDE DEF Lock
      <3> QED
        BY <3>1, <3>2 DEF Leftovers
    <2> QED
      BY <2>1, <2>3, <2>4
  <1>2. CASE lock # None
    <2>1. Killed \in {Ended, Killed} /\ Killed # Ended
      BY ScriptLength
    <2> QED
      BY <1>2, <2>1, VanishKeeps DEF Lock
  <1> QED
    BY <1>1, <1>2

\* The shared memory and the semaphore exist from here on.
LEMMA InitIpcKeeps == ASSUME IInv, NEW p \in Programs, InitIpc(p) PROVE IInv'
  <1>1. pc[p] = 1
    BY Places DEF InitIpc, IInv, TypeOK
  <1>2. OrderAfter(p)
    BY <1>1, AdvanceKeepsOrder DEF InitIpc
  <1>3. TypeOK'
    BY <1>2 DEF InitIpc, IInv, TypeOK, OrderAfter, poolVars, threadVars
  <1> QED
    BY <1>1, <1>2, <1>3, StepKeeps, LifecycleAssumption
       DEF InitIpc, IInv, TypeOK, Resources, Leftovers, OrderAfter, poolVars, threadVars

\* mkfifo replaces what an earlier gateway left.
LEMMA MkfifoKeeps == ASSUME IInv, NEW p \in Programs, Mkfifo(p) PROVE IInv'
  <1>1. pc[p] = 2
    BY Places DEF Mkfifo, IInv, TypeOK
  <1>2. OrderAfter(p)
    BY <1>1, AdvanceKeepsOrder DEF Mkfifo
  <1>3. TypeOK'
    BY <1>2 DEF Mkfifo, IInv, TypeOK, OrderAfter, poolVars, threadVars
  <1> QED
    BY <1>1, <1>2, <1>3, StepKeeps, LifecycleAssumption
       DEF Mkfifo, IInv, TypeOK, Resources, Leftovers, OrderAfter, poolVars, threadVars

\* The FIFO that is opened is the one that was made.
LEMMA OpenKeeps == ASSUME IInv, NEW p \in Programs, Open(p) PROVE IInv'
  <1>1. pc[p] = 5
    BY Places DEF Open, IInv, TypeOK
  <1>2. OrderAfter(p)
    BY <1>1, AdvanceKeepsOrder DEF Open
  <1>3. TypeOK'
    BY <1>2 DEF Open, IInv, TypeOK, OrderAfter, poolVars, threadVars
  <1> QED
    BY <1>1, <1>2, <1>3, StepKeeps, LifecycleAssumption
       DEF Open, IInv, TypeOK, Resources, Leftovers, OrderAfter, poolVars, threadVars

\* The pool's descriptor is closed after the loop.
LEMMA CloseKeeps == ASSUME IInv, NEW p \in Programs, Close(p) PROVE IInv'
  <1>1. pc[p] = 13
    BY Places DEF Close, IInv, TypeOK
  <1>2. OrderAfter(p)
    BY <1>1, AdvanceKeepsOrder DEF Close
  <1>3. TypeOK'
    BY <1>2 DEF Close, IInv, TypeOK, OrderAfter, poolVars, threadVars
  <1> QED
    BY <1>1, <1>2, <1>3, StepKeeps, LifecycleAssumption
       DEF Close, IInv, TypeOK, Resources, Leftovers, OrderAfter, poolVars, threadVars

\* The FIFO is removed after its readers.
LEMMA UnlinkKeeps == ASSUME IInv, NEW p \in Programs, Unlink(p) PROVE IInv'
  <1>1. pc[p] = 15
    BY Places DEF Unlink, IInv, TypeOK
  <1>2. OrderAfter(p)
    BY <1>1, AdvanceKeepsOrder DEF Unlink
  <1>3. TypeOK'
    BY <1>2 DEF Unlink, IInv, TypeOK, OrderAfter, poolVars, threadVars
  <1> QED
    BY <1>1, <1>2, <1>3, StepKeeps, LifecycleAssumption
       DEF Unlink, IInv, TypeOK, Resources, Leftovers, OrderAfter, poolVars, threadVars

\* The shared memory and the semaphore are removed.
LEMMA RemoveIpcKeeps == ASSUME IInv, NEW p \in Programs, RemoveIpc(p) PROVE IInv'
  <1>1. pc[p] = 17
    BY Places DEF RemoveIpc, IInv, TypeOK
  <1>2. OrderAfter(p)
    BY <1>1, AdvanceKeepsOrder DEF RemoveIpc
  <1>3. TypeOK'
    BY <1>2 DEF RemoveIpc, IInv, TypeOK, OrderAfter, poolVars, threadVars
  <1> QED
    BY <1>1, <1>2, <1>3, StepKeeps, LifecycleAssumption
       DEF RemoveIpc, IInv, TypeOK, Resources, Leftovers, OrderAfter, poolVars, threadVars

\* A child is forked before the FIFO is opened.
LEMMA ForkKeeps == ASSUME IInv, NEW p \in Programs, NEW k \in Kids, Fork(p, k) PROVE IInv'
  <1>1. pc[p] \in 3 .. 4
    BY Places DEF Fork, IInv, TypeOK
  <1>2. OrderAfter(p)
    BY <1>1, AdvanceKeepsOrder DEF Fork
  <1>3. TypeOK'
    BY <1>2 DEF Fork, IInv, TypeOK, OrderAfter, threadVars, ChildStates
  <1>4. \A q \in Programs \ {p}, j \in Kids : child'[q][j] = child[q][j]
    BY DEF Fork, IInv, TypeOK
  <1> QED
    BY <1>1, <1>2, <1>3, <1>4, StepKeeps, LifecycleAssumption
       DEF Fork, IInv, TypeOK, Resources, Leftovers, OrderAfter, threadVars

\* The timer, the threads of the pool, the cloud thread.
LEMMA StartThreadsKeeps == ASSUME IInv, NEW p \in Programs, StartThreads(p) PROVE IInv'
  <1>1. /\ pc[p] \in 6 .. 8
        /\ worker' = worker \/ (pc[p] = 7 /\ worker' = [worker EXCEPT ![p] = "idle"])
    BY Places DEF StartThreads, IInv, TypeOK
  <1>2. OrderAfter(p)
    BY <1>1, AdvanceKeepsOrder DEF StartThreads
  <1>3. TypeOK'
    <2>1. /\ cloud' \in [Programs -> {"none", "working", "logging", "ended"}]
          /\ worker' \in [Programs -> {"none", "idle", "logging", "submitting"}]
          /\ timer' \in [Programs -> BOOLEAN]
      BY DEF StartThreads, IInv, TypeOK
    <2> QED
      BY <1>2, <2>1 DEF StartThreads, IInv, TypeOK, OrderAfter, poolVars
  <1>4. UNCHANGED <<path, fifo_write_fd, child, ipc>>
    BY DEF StartThreads, poolVars
  <1>5. worker'[p] # "none" => pc'[p] \in 8 .. 19
    <2>1. pc'[p] = pc[p] + 1
      BY <1>2 DEF OrderAfter, IInv, TypeOK
    <2>2. CASE worker' = worker
      BY <1>1, <2>1, <2>2 DEF IInv, Resources
    <2>3. CASE pc[p] = 7
      BY <2>1, <2>3
    <2> QED
      BY <1>1, <2>2, <2>3
  <1>6. \A q \in Programs \ {p} : worker'[q] = worker[q]
    BY <1>1 DEF IInv, TypeOK
  <1> QED
    BY <1>1, <1>2, <1>3, <1>4, <1>5, <1>6, StepKeeps, LifecycleAssumption
       DEF IInv, TypeOK, Resources, Leftovers, OrderAfter

\* The steps that take nothing and remove nothing of what the invariant speaks of.
LEMMA QuietStepKeeps ==
  ASSUME IInv, NEW p \in Programs,
         LoopEnds(p) \/ Cancel(p) \/ Join(p) \/ StopTimer(p) \/ (Log(p) /\ pc[p] # 19)
  PROVE  IInv'
  <1>1. pc[p] \in {9, 10, 11, 12, 16} /\ Advance(p) /\ lock' = lock
    BY Places, ScriptLength DEF LoopEnds, Cancel, Join, StopTimer, Log, IInv, TypeOK
  <1>2. OrderAfter(p)
    BY <1>1, AdvanceKeepsOrder
  <1>3. /\ UNCHANGED <<path, fifo_write_fd, child, reads, inherited>>
        /\ UNCHANGED <<ipc, cloud, log_mutex, worker, stopping>>
    BY ScriptLength DEF LoopEnds, Cancel, Join, StopTimer, Log, poolVars, threadVars
  <1>4. cancelled' \in [Programs -> BOOLEAN] /\ timer' \in [Programs -> BOOLEAN]
    BY ScriptLength DEF LoopEnds, Cancel, Join, StopTimer, Log, IInv, TypeOK, threadVars
  <1>5. TypeOK'
    BY <1>2, <1>3, <1>4 DEF IInv, TypeOK, OrderAfter
  <1> QED
    BY <1>1, <1>2, <1>3, <1>5, StepKeeps, LifecycleAssumption
       DEF IInv, TypeOK, Resources, Leftovers, OrderAfter

\* SIGKILL ends both children, whatever they are doing.
LEMMA KillKeeps == ASSUME IInv, NEW p \in Programs, Kill(p) PROVE IInv'
  <1>1. pc[p] = 14
    BY Places DEF Kill, IInv, TypeOK
  <1>2. OrderAfter(p)
    BY <1>1, AdvanceKeepsOrder DEF Kill
  <1>3. /\ child' \in [Programs -> [Kids -> ChildStates]]
        /\ \A q \in Programs \ {p}, k \in Kids : child'[q][k] = child[q][k]
        /\ \A k \in Kids : ~Living(child'[p][k])
    BY DEF Kill, IInv, TypeOK, ChildStates, Living
  <1>4. TypeOK'
    BY <1>2, <1>3 DEF Kill, IInv, TypeOK, OrderAfter, threadVars
  <1> QED
    BY <1>1, <1>2, <1>3, <1>4, StepKeeps, LifecycleAssumption
       DEF Kill, IInv, TypeOK, Resources, Leftovers, OrderAfter, threadVars

\* The threads are told to stop at once, and main goes on when they have.
LEMMA JoinWorkersKeeps == ASSUME IInv, NEW p \in Programs, JoinWorkers(p) PROVE IInv'
  <1> USE DEF JoinWorkers, poolVars
  <1>1. pc[p] = 18 /\ stopping' \in [Programs -> BOOLEAN]
    BY Places DEF IInv, TypeOK
  <1>2. CASE worker[p] = "none"
    <2>1. OrderAfter(p)
      BY <1>1, <1>2, AdvanceKeepsOrder
    <2>2. TypeOK'
      BY <1>1, <2>1 DEF IInv, TypeOK, OrderAfter
    <2> QED
      BY <1>1, <1>2, <2>1, <2>2, StepKeeps, LifecycleAssumption
         DEF IInv, TypeOK, Resources, Leftovers, OrderAfter
  <1>3. CASE worker[p] # "none"
    <2>1. TypeOK'
      BY <1>1, <1>3 DEF IInv, TypeOK, Running
    <2>2. Resources' /\ Leftovers'
      BY <1>3 DEF IInv, Resources, Leftovers
    <2> QED
      BY <2>1, <2>2 DEF IInv
  <1> QED
    BY <1>2, <1>3

-----------------------------------------------------------------------------
(* The children and the threads. *)

\* A child only goes on from a state in which it lives.
LEMMA ChildKeeps == ASSUME IInv, NEW p \in Programs, NEW k \in Kids, Child(p, k) PROVE IInv'
  <1>1. /\ child[p][k] \in {"forked", "opening", "reading"}
        /\ UNCHANGED <<programVars, path, fifo_write_fd, inherited, ipc, threadVars>>
    BY DEF Child, ChildOpens, ChildConnects, ChildSeesEnd
  <1>2. PICK state \in {"opening", "reading", "dead"} : child' = [child EXCEPT ![p][k] = state]
    BY DEF Child, ChildOpens, ChildConnects, ChildSeesEnd
  <1>3. reads' = reads \/ reads' = [reads EXCEPT ![p][k] = path]
    BY DEF Child, ChildOpens, ChildConnects, ChildSeesEnd
  <1>4. /\ child' \in [Programs -> [Kids -> ChildStates]]
        /\ reads' \in [Programs -> [Kids -> Programs \union {None}]]
    <2>1. child' \in [Programs -> [Kids -> ChildStates]]
      <3>1. child \in [Programs -> [Kids -> ChildStates]] /\ state \in ChildStates
        BY DEF IInv, TypeOK, ChildStates
      <3>2. [child[p] EXCEPT ![k] = state] \in [Kids -> ChildStates]
        BY <3>1
      <3> QED
        BY <1>2, <3>1, <3>2
    <2>2. reads' \in [Programs -> [Kids -> Programs \union {None}]]
      <3>1. /\ reads \in [Programs -> [Kids -> Programs \union {None}]]
            /\ path \in Programs \union {None}
        BY DEF IInv, TypeOK
      <3>2. [reads[p] EXCEPT ![k] = path] \in [Kids -> Programs \union {None}]
        BY <3>1
      <3> QED
        BY <1>3, <3>1, <3>2
    <2> QED
      BY <2>1, <2>2
  <1>5. TypeOK'
    BY <1>1, <1>4 DEF IInv, TypeOK, Running, programVars, threadVars
  <1>6. \A q \in Programs, j \in Kids : Living(child'[q][j]) => Living(child[q][j])
    BY <1>1, <1>2 DEF IInv, TypeOK, Living
  <1>7. Resources'
    BY <1>1 DEF IInv, Resources, programVars, threadVars
  <1>8. Leftovers'
    BY <1>1, <1>6 DEF IInv, Leftovers, programVars
  <1> QED
    BY <1>5, <1>7, <1>8 DEF IInv

\* The cloud thread touches the log's mutex only.
LEMMA CloudKeeps ==
  ASSUME IInv, NEW p \in Programs, CloudLogs(p) \/ CloudLogged(p) \/ CloudCancelled(p)
  PROVE  IInv'
  <1>1. PICK state \in {"none", "working", "logging", "ended"}, mutex \in {"free", "cloud", "lost"} :
          Cloud(p, state, mutex)
    BY DEF CloudLogs, CloudLogged, CloudCancelled, IInv, TypeOK
  <1> USE <1>1 DEF IInv, Cloud, programVars, poolVars
  <1>2. TypeOK'
    BY DEF TypeOK, Running
  <1>3. Resources' /\ Leftovers'
    BY DEF Resources, Leftovers
  <1> QED
    BY <1>2, <1>3

\* A thread of the pool goes on only where there is one.
LEMMA WorkerKeeps == ASSUME IInv, NEW p \in Programs, Heartbeat(p) \/ Worker(p) PROVE IInv'
  <1>1. worker[p] # "none"
    BY DEF Heartbeat, Worker
  <1>2. PICK state \in {"none", "idle", "logging", "submitting"} : WorkerBecomes(p, state)
    BY DEF Heartbeat, Worker
  <1> USE <1>1, <1>2 DEF IInv, WorkerBecomes, programVars, poolVars
  <1>3. TypeOK'
    BY DEF TypeOK, Running
  <1>4. Resources'
    BY DEF TypeOK, Resources
  <1>5. Leftovers'
    BY DEF Leftovers
  <1> QED
    BY <1>3, <1>4, <1>5

-----------------------------------------------------------------------------
(* The results. *)

\* Every step keeps the invariant.
LEMMA InvariantStep == IInv /\ [Next]_vars => IInv'
  <1> SUFFICES ASSUME IInv, [Next]_vars PROVE IInv'
    OBVIOUS
  <1>1. ASSUME NEW p \in Programs, Main(p) PROVE IInv'
    <2>1. CASE Log(p) /\ pc[p] = 19
      BY <2>1, VanishKeeps, ScriptLength DEF Log
    <2> QED
      BY <1>1, <2>1, InitIpcKeeps, MkfifoKeeps, ForkKeeps, OpenKeeps, StartThreadsKeeps,
         QuietStepKeeps, CloseKeeps, KillKeeps, UnlinkKeeps, RemoveIpcKeeps, JoinWorkersKeeps
         DEF Main
  <1>2. ASSUME NEW p \in Programs, Lock(p) \/ LoopEnds(p) PROVE IInv'
    BY <1>2, LockKeeps, QuietStepKeeps
  <1>3. ASSUME NEW p \in Programs, SignalHandler(p) PROVE IInv'
    <2>1. Killed \in {Ended, Killed} /\ Killed # Ended
      BY ScriptLength
    <2> QED
      BY <1>3, <2>1, VanishKeeps DEF SignalHandler
  <1>4. ASSUME NEW p \in Programs,
               \/ CloudLogs(p) \/ CloudLogged(p) \/ CloudCancelled(p) \/ Heartbeat(p) \/ Worker(p)
               \/ \E k \in Kids : Child(p, k)
        PROVE  IInv'
    BY <1>4, CloudKeeps, WorkerKeeps, ChildKeeps
  <1>5. CASE UNCHANGED vars
    <2> USE <1>5 DEF vars, programVars, poolVars, threadVars, IInv
    <2>1. TypeOK'
      BY DEF TypeOK, Running
    <2>2. Resources' /\ Leftovers'
      BY DEF Resources, Leftovers
    <2> QED
      BY <2>1, <2>2
  <1> QED
    BY <1>1, <1>2, <1>3, <1>4, <1>5 DEF Next

\* The invariant holds in every state.
THEOREM InvariantHolds == Spec => []IInv
  BY InitHolds, InvariantStep, PTL DEF Spec

\* Whatever other gateways are started, refused or killed, a heartbeat of this one finds
\* its own FIFO open until the pool is destroyed.
THEOREM HeartbeatFindsFifo == Spec => []SubmitFindsFifo
  <1>1. IInv => SubmitFindsFifo
    <2> SUFFICES ASSUME IInv, NEW p \in Programs, worker[p] = "submitting", pc[p] <= 9
                 PROVE  fifo_write_fd[p] = p
      BY ScriptLength DEF SubmitFindsFifo
    <2>1. pc[p] \in 8 .. 19
      BY DEF IInv, Resources
    <2>2. pc[p] \in 6 .. 13
      BY <2>1
    <2> QED
      BY <2>2 DEF IInv, Resources
  <1> QED
    BY <1>1, InvariantHolds, PTL

\* Gateways that all returned from main leave no child, no FIFO and no shared memory.
THEOREM NothingIsLeft == Spec => []CleanExitLeavesNothing
  <1>1. IInv => CleanExitLeavesNothing
    <2> SUFFICES ASSUME IInv, \A p \in Programs : pc[p] \in {0, Ended}
                 PROVE  /\ path = None /\ ~ipc
                        /\ \A p \in Programs, k \in Kids : child[p][k] \in {"none", "dead"}
      BY DEF IInv, CleanExitLeavesNothing
    <2>1. \A p \in Programs : pc[p] \notin (2 .. 17) \union {Killed}
      BY ScriptLength
    <2>2. path = None
      <3>1. path \in Programs => pc[path] \notin (3 .. 15) \union {Killed}
        BY <2>1
      <3> QED
        BY <3>1 DEF IInv, TypeOK, Leftovers
    <2>3. ~ipc
      BY <2>1 DEF IInv, Leftovers
    <2>4. ASSUME NEW p \in Programs, NEW k \in Kids PROVE child[p][k] \in {"none", "dead"}
      <3>1. pc[p] \notin (4 .. 14) \union {Killed}
        BY <2>1
      <3>2. ~Living(child[p][k]) /\ child[p][k] \in ChildStates
        BY <3>1 DEF IInv, TypeOK, Leftovers
      <3> QED
        BY <3>2 DEF Living, ChildStates
    <2> QED
      BY <2>2, <2>3, <2>4
  <1> QED
    BY <1>1, InvariantHolds, PTL
=============================================================================
