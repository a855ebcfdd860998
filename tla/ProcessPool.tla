---------------------------- MODULE ProcessPool ----------------------------
(***************************************************************************)
(* process_pool.c: worker threads of the gateway write commands into a     *)
(* FIFO, the children of the pool compete for reading it.                  *)
(*                                                                         *)
(* The FIFO is a stream: a read takes up to READ_MAX bytes, whatever their *)
(* number of commands, and the child executes what precedes the first      *)
(* newline.  The newline is the last byte of a command.  The gateway opens *)
(* the FIFO for reading as well, so it never loses its readers: a write    *)
(* waits while the pipe is full, even if no child is left.                 *)
(***************************************************************************)
EXTENDS Integers, Sequences, FiniteSets

CONSTANTS
  Children,    \* processes of the pool (2)
  Mortal,      \* those that may die before the pool is destroyed
  Threads,     \* threads that submit (the thread pool's 4)
  COMMAND,     \* bytes of a command with its newline (20)
  READ_MAX,    \* bytes of one read (255)
  PIPE_SIZE,   \* bytes the pipe holds (65536)
  MaxTasks     \* bound: tasks submitted

ASSUME ProcessPoolAssumption ==
  /\ Mortal \subseteq Children
  /\ COMMAND \in Nat \ {0} /\ READ_MAX \in Nat /\ READ_MAX >= COMMAND
  /\ PIPE_SIZE \in Nat /\ PIPE_SIZE >= COMMAND
  /\ MaxTasks \in Nat

VARIABLES
  fifo,       \* the bytes waiting: [task, byte], byte in 1 .. COMMAND
  writing,    \* per thread: the task it is writing, or NoTask
  submitted,  \* history: tasks submitted so far
  child,      \* per child: "reading", "busy" or "dead"
  buf,        \* per child: the text it executes, its buffer up to the newline
  executed,   \* history: per task, how often it was executed
  unknown,    \* history: some other text was executed
  backlog,    \* history: the longest the fifo has been
  death       \* history: a child has died

Tasks == 1 .. MaxTasks
NoTask == 0

poolVars == <<fifo, writing, submitted>>
history  == <<executed, unknown, backlog, death>>
vars == <<poolVars, child, buf, history>>

Command(task) == [b \in 1 .. COMMAND |-> [task |-> task, byte |-> b]]

\* process_pool_init has returned.
Init ==
  /\ fifo = <<>>
  /\ writing = [t \in Threads |-> NoTask] /\ submitted = 0
  /\ child = [c \in Children |-> "reading"]
  /\ buf = [c \in Children |-> <<>>]
  /\ executed = [t \in Tasks |-> 0]
  /\ unknown = FALSE /\ backlog = 0 /\ death = FALSE

-----------------------------------------------------------------------------
(* process_pool_submit_task *)

SubmitBegin(t) ==
  /\ writing[t] = NoTask /\ submitted < MaxTasks
  /\ submitted' = submitted + 1
  /\ writing' = [writing EXCEPT ![t] = submitted']
  /\ UNCHANGED <<fifo, child, buf, history>>

\* A write of a few bytes is atomic: it waits until there is room for all.
SubmitWrite(t) ==
  /\ writing[t] # NoTask
  /\ Len(fifo) + COMMAND <= PIPE_SIZE
  /\ fifo' = fifo \o Command(writing[t])
  /\ writing' = [writing EXCEPT ![t] = NoTask]
  /\ backlog' = IF Len(fifo') > backlog THEN Len(fifo') ELSE backlog
  /\ UNCHANGED <<submitted, child, buf, executed, unknown, death>>

-----------------------------------------------------------------------------
(* worker_process_logic *)

\* buf[strcspn(buf, "\r\n")] = 0: what precedes the first newline, here with it.
Text(bytes) ==
  LET ends == {k \in 1 .. Len(bytes) : bytes[k].byte = COMMAND}
  IN  IF ends = {} THEN bytes
      ELSE SubSeq(bytes, 1, CHOOSE k \in ends : \A j \in ends : k <= j)

ReadSizeOneShort == IF Len(fifo) < READ_MAX THEN Len(fifo) - 1 ELSE READ_MAX

\* A blocking read returns what there is, up to the size of the buffer.
ReadSize == IF Len(fifo) < READ_MAX THEN Len(fifo) ELSE READ_MAX

ConsumeNothing(n) == UNCHANGED fifo
ConsumeBytes(n) == fifo' = SubSeq(fifo, n + 1, Len(fifo))

Read(c) ==
  /\ child[c] = "reading" /\ fifo # <<>>
  /\ buf' = [buf EXCEPT ![c] = Text(SubSeq(fifo, 1, ReadSize))]
  /\ ConsumeBytes(ReadSize)
  /\ child' = [child EXCEPT ![c] = "busy"]
  /\ UNCHANGED <<writing, submitted, history>>

ExitAfterOne(c) == child' = [child EXCEPT ![c] = "dead"]

\* while (1)
ReadAgain(c) == child' = [child EXCEPT ![c] = "reading"]

\* CHECK_SENSOR_STATUS is recognised, every other text is only logged.
Execute(c) ==
  /\ child[c] = "busy"
  /\ IF \E t \in Tasks : buf[c] = Command(t)
       THEN /\ executed' = [executed EXCEPT ![buf[c][1].task] = @ + 1]
            /\ UNCHANGED unknown
       ELSE unknown' = TRUE /\ UNCHANGED executed
  /\ ReadAgain(c)
  /\ buf' = [buf EXCEPT ![c] = <<>>]
  /\ UNCHANGED <<poolVars, backlog, death>>

ChildDies(c) ==
  /\ c \in Mortal /\ child[c] # "dead"
  /\ child' = [child EXCEPT ![c] = "dead"]
  /\ buf' = [buf EXCEPT ![c] = <<>>]
  /\ death' = TRUE
  /\ UNCHANGED <<poolVars, executed, unknown, backlog>>

-----------------------------------------------------------------------------
Next ==
  \/ \E t \in Threads : SubmitBegin(t) \/ SubmitWrite(t)
  \/ \E c \in Children : Read(c) \/ Execute(c) \/ ChildDies(c)

Spec == Init /\ [][Next]_vars

\* A child that has not died reads, and executes what it read; the pipe serves
\* the threads that wait for room in turn.
Fairness ==
  /\ \A c \in Children : WF_vars(Read(c) \/ Execute(c))
  /\ \A t \in Threads : SF_vars(SubmitWrite(t))

FairSpec == Spec /\ Fairness

-----------------------------------------------------------------------------
Byte == [task : Tasks, byte : 1 .. COMMAND]

TypeOK ==
  /\ fifo \in Seq(Byte) /\ Len(fifo) <= PIPE_SIZE
  /\ writing \in [Threads -> Tasks \union {NoTask}] /\ submitted \in 0 .. MaxTasks
  /\ child \in [Children -> {"reading", "busy", "dead"}]
  /\ buf \in [Children -> Seq(Byte)]
  /\ \A c \in Children : Len(buf[c]) <= COMMAND /\ (child[c] = "busy" => buf[c] # <<>>)
  /\ executed \in [Tasks -> Nat] /\ unknown \in BOOLEAN
  /\ backlog \in 0 .. PIPE_SIZE /\ death \in BOOLEAN

\* A task is on its way while it is being written, waits whole in the pipe or is
\* in the hands of a child.
UnderWay(task) ==
  \/ \E t \in Threads : writing[t] = task
  \/ Cardinality({k \in 1 .. Len(fifo) : fifo[k].task = task}) = COMMAND
  \/ \E c \in Children : buf[c] = Command(task)

\* However the children compete, no task is executed twice, nor executed once
\* and still under way.
ExecutedOnce ==
  /\ TypeOK
  /\ \A task \in Tasks : executed[task] + (IF UnderWay(task) THEN 1 ELSE 0) <= 1

\* Text other than a command reaches a child only after more than one read's
\* worth of commands had piled up: then a read cuts a command in two.
GarbledOnlyByBacklog ==
  (unknown \/ \E c \in Children : child[c] = "busy" /\ ~\E t \in Tasks : buf[c] = Command(t))
    => backlog > READ_MAX

\* Nothing is garbled without a backlog, and as long as every command is read before
\* the next one is written and no child dies, no task is lost.
NoLossWithoutBacklog ==
  /\ GarbledOnlyByBacklog
  /\ backlog <= COMMAND /\ ~death =>
       \A task \in 1 .. submitted : executed[task] = 1 \/ UnderWay(task)

\* A thread of the thread pool is not stuck in write() as long as one child lives.
SubmitReturns == \A t \in Threads : writing[t] # NoTask ~> writing[t] = NoTask

\* process_pool.h: the task is handed to a child through the named pipe.
EveryTaskIsExecuted == \A task \in Tasks : submitted >= task ~> executed[task] > 0
=============================================================================
