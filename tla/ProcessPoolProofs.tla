------------------------- MODULE ProcessPoolProofs -------------------------
(***************************************************************************)
(* Theorems about ProcessPool, for every number of threads, children and   *)
(* tasks, every length of a command, a read and the pipe: no command is    *)
(* executed twice, and none is garbled or lost without a backlog.          *)
(***************************************************************************)
EXTENDS ProcessPool, FiniteSetTheorems, SequenceTheorems, WellFoundedInduction, TLAPS

\* A set of numbers that is not empty has a least element.
LEMMA LeastExists ==
  ASSUME NEW S \in SUBSET Nat, S # {}
  PROVE  \E k \in S : \A j \in S : k <= j
  <1>1. PICK k \in S : \A j \in S : <<j, k>> \notin OpToRel(<, Nat)
    BY NatLessThanWellFounded, WFMin
  <1>2. ASSUME NEW j \in S PROVE k <= j
    <2>1. k \in Nat /\ j \in Nat /\ ~(j < k)
      BY <1>1 DEF OpToRel
    <2> QED
      BY <2>1
  <1> QED
    BY <1>2

-----------------------------------------------------------------------------
(* The inductive invariant. *)

\* The bytes in the pipe are commands one after the other, but for a first one whose
\* beginning was read.
Stream ==
  /\ fifo # <<>> => fifo[Len(fifo)].byte = COMMAND
  /\ \A k \in 1 .. Len(fifo) - 1 :
       IF fifo[k].byte = COMMAND THEN fifo[k + 1].byte = 1
       ELSE fifo[k + 1] = [task |-> fifo[k].task, byte |-> fifo[k].byte + 1]
  /\ Len(fifo) <= backlog

\* Only a child that executes a text has one.
IdleIsEmpty == \A c \in Children : child[c] # "busy" => buf[c] = <<>>

\* A byte is in one place: once in the pipe, or in one child's buffer.
OnePlace ==
  /\ \A j, k \in 1 .. Len(fifo) : fifo[j] = fifo[k] => j = k
  /\ \A c \in Children : \A j \in 1 .. Len(buf[c]), k \in 1 .. Len(fifo) : buf[c][j] # fifo[k]
  /\ \A c, d \in Children : \A j \in 1 .. Len(buf[c]), k \in 1 .. Len(buf[d]) :
       buf[c][j] = buf[d][k] => c = d

\* Some byte of the task is in the pipe or in a buffer.
Present(task) ==
  \/ \E k \in 1 .. Len(fifo) : fifo[k].task = task
  \/ \E c \in Children : \E k \in 1 .. Len(buf[c]) : buf[c][k].task = task

\* A task that is not yet written, or not yet submitted, has left no trace; one that was
\* executed is gone.
Traces ==
  /\ \A t \in Threads, task \in Tasks : writing[t] = task =>
       task <= submitted /\ ~Present(task) /\ executed[task] = 0
  /\ \A t, u \in Threads : writing[t] = writing[u] /\ writing[t] # NoTask => t = u
  /\ \A task \in Tasks : task > submitted => ~Present(task) /\ executed[task] = 0
  /\ \A task \in Tasks : executed[task] \in 0 .. 1 /\ (executed[task] = 1 => ~Present(task))

\* As long as a read empties the pipe it begins with a command.
WholeCommands ==
  backlog <= READ_MAX =>
    /\ fifo # <<>> => fifo[1].byte = 1
    /\ ~unknown
    /\ \A c \in Children : child[c] = "busy" => \E t \in Tasks : buf[c] = Command(t)

\* Where a task is when every command is read before the next one is written.
NothingLost ==
  backlog <= COMMAND /\ ~death =>
    \A task \in 1 .. submitted :
      \/ executed[task] = 1
      \/ \E t \in Threads : writing[t] = task
      \/ fifo = Command(task)
      \/ \E c \in Children : buf[c] = Command(task)

IInv ==
  /\ TypeOK
  /\ Stream /\ IdleIsEmpty
  /\ OnePlace /\ Traces
  /\ WholeCommands /\ NothingLost

-----------------------------------------------------------------------------
(* Commands and reads. *)

\* A command is a sequence of bytes that ends with its newline.
LEMMA CommandIs ==
  ASSUME NEW task \in Tasks
  PROVE  /\ Command(task) \in Seq(Byte) /\ Len(Command(task)) = COMMAND
         /\ \A b \in 1 .. COMMAND : Command(task)[b] = [task |-> task, byte |-> b]
         /\ 1 \in 1 .. COMMAND
  <1>1. COMMAND \in Nat /\ 1 \in 1 .. COMMAND
    BY ProcessPoolAssumption
  <1>2. \A b \in 1 .. COMMAND : [task |-> task, byte |-> b] \in Byte
    BY DEF Byte
  <1>3. Command(task) \in [1 .. COMMAND -> Byte]
    BY <1>2 DEF Command
  <1> QED
    BY <1>1, <1>3, SeqDef, LenProperties DEF Command

\* A part of a sequence of bytes.
LEMMA PartIs ==
  ASSUME NEW s \in Seq(Byte), NEW a \in 1 .. Len(s) + 1, NEW b \in 0 .. Len(s), a <= b + 1
  PROVE  /\ SubSeq(s, a, b) \in Seq(Byte) /\ Len(SubSeq(s, a, b)) = b - a + 1
         /\ \A k \in 1 .. b - a + 1 : SubSeq(s, a, b)[k] = s[a + k - 1]
  <1>1. Len(s) \in Nat
    OBVIOUS
  <1>2. \A i \in a .. b : s[i] \in Byte
    BY <1>1, ElementOfSeq
  <1>3. a \in Int /\ b \in Int /\ (IF a <= b THEN b - a + 1 ELSE 0) = b - a + 1
    BY <1>1
  <1> QED
    BY <1>2, <1>3, SubSeqProperties

\* The beginning of a sequence of bytes.
LEMMA FirstPart ==
  ASSUME NEW s \in Seq(Byte), NEW b \in 0 .. Len(s)
  PROVE  /\ SubSeq(s, 1, b) \in Seq(Byte) /\ Len(SubSeq(s, 1, b)) = b
         /\ \A k \in 1 .. b : SubSeq(s, 1, b)[k] = s[k]
  <1>1. /\ 1 \in 1 .. Len(s) + 1 /\ 1 <= b + 1 /\ b - 1 + 1 = b
        /\ \A k \in 1 .. b : 1 + k - 1 = k
    OBVIOUS
  <1> QED
    BY <1>1, PartIs

\* Two commands differ.
LEMMA CommandsDiffer ==
  ASSUME NEW a \in Tasks, NEW b \in Tasks, Command(a) = Command(b)
  PROVE  a = b
  <1>1. [task |-> a, byte |-> 1] = [task |-> b, byte |-> 1]
    BY CommandIs
  <1> QED
    BY <1>1

\* The first newline in the pipe, and the bytes before it: the rest of one command.
LEMMA FirstNewline ==
  ASSUME TypeOK, Stream, fifo # <<>>
  PROVE  \E m \in 1 .. Len(fifo) :
           /\ fifo[m].byte = COMMAND /\ \A j \in 1 .. m - 1 : fifo[j].byte # COMMAND
           /\ \A j \in 1 .. m : fifo[j] = [task |-> fifo[1].task, byte |-> fifo[1].byte + j - 1]
           /\ m <= COMMAND /\ fifo[1].byte + m - 1 = COMMAND
  <1> DEFINE ends == {k \in 1 .. Len(fifo) : fifo[k].byte = COMMAND}
  <1>1. Len(fifo) \in Nat \ {0} /\ \A k \in 1 .. Len(fifo) : fifo[k] \in Byte
    BY DEF TypeOK
  <1>2. ends \subseteq Nat /\ Len(fifo) \in ends
    BY <1>1 DEF Stream
  <1>3. PICK m \in ends : \A j \in ends : m <= j
    BY <1>2, LeastExists
  <1>4. m \in 1 .. Len(fifo) /\ fifo[m].byte = COMMAND
    OBVIOUS
  <1>5. \A j \in 1 .. m - 1 : fifo[j].byte # COMMAND
    <2> SUFFICES ASSUME NEW j \in 1 .. m - 1, fifo[j].byte = COMMAND PROVE FALSE
      OBVIOUS
    <2>1. j \in ends
      BY <1>1, <1>4
    <2> QED
      BY <1>3, <1>4, <2>1
  <1> HIDE DEF ends
  <1>6. \A j \in 1 .. m : fifo[j] = [task |-> fifo[1].task, byte |-> fifo[1].byte + j - 1]
    <2> DEFINE wrong ==
          {j \in 1 .. m : fifo[j] # [task |-> fifo[1].task, byte |-> fifo[1].byte + j - 1]}
    <2> SUFFICES ASSUME wrong # {} PROVE FALSE
      OBVIOUS
    <2>1. wrong \subseteq Nat
      BY <1>4
    <2>2. PICK j \in wrong : \A k \in wrong : j <= k
      BY <2>1, LeastExists
    <2>3. j \in 1 .. m /\ fifo[j] # [task |-> fifo[1].task, byte |-> fifo[1].byte + j - 1]
      OBVIOUS
    <2>4. j # 1
      <3>1. fifo[1] \in Byte /\ fifo[1].byte + 1 - 1 = fifo[1].byte
        BY <1>1 DEF Byte, TypeOK
      <3>2. fifo[1] = [task |-> fifo[1].task, byte |-> fifo[1].byte]
        BY <3>1 DEF Byte
      <3> QED
        BY <2>3, <3>1, <3>2
    <2>5. j - 1 \in 1 .. m - 1 /\ j - 1 \in 1 .. m /\ j - 1 \in 1 .. Len(fifo) - 1 /\ ~(j <= j - 1)
      BY <1>1, <1>4, <2>3, <2>4
    <2>6. j - 1 \notin wrong
      BY <2>2, <2>5
    <2>7. fifo[j - 1] = [task |-> fifo[1].task, byte |-> fifo[1].byte + (j - 1) - 1]
      BY <2>5, <2>6
    <2>8. fifo[(j - 1) + 1] = [task |-> fifo[j - 1].task, byte |-> fifo[j - 1].byte + 1]
      BY <1>5, <2>5 DEF Stream
    <2>9. (j - 1) + 1 = j /\ fifo[1].byte + (j - 1) - 1 + 1 = fifo[1].byte + j - 1
      BY <1>1, <2>3 DEF Byte
    <2> QED
      BY <2>3, <2>7, <2>8, <2>9
  <1>7. fifo[1].byte \in 1 .. COMMAND /\ fifo[1].byte + m - 1 = COMMAND
    <2>1. fifo[m].byte = fifo[1].byte + m - 1
      <3>1. m \in 1 .. m
        BY <1>4
      <3>2. fifo[m] = [task |-> fifo[1].task, byte |-> fifo[1].byte + m - 1]
        BY <1>6, <3>1
      <3> QED
        BY <3>2
    <2> QED
      BY <1>1, <1>4, <2>1 DEF Byte
  <1>8. m <= COMMAND
    BY <1>4, <1>7, ProcessPoolAssumption
  <1> QED
    BY <1>4, <1>5, <1>6, <1>7, <1>8

\* What a read takes out of the pipe, and what of it the child executes: the rest of the
\* first command.
LEMMA ReadIs ==
  ASSUME IInv, NEW c \in Children, Read(c)
  PROVE  \E n \in 1 .. Len(fifo), m \in 1 .. Len(fifo) :
           /\ m <= n /\ m <= COMMAND /\ (Len(fifo) <= READ_MAX => n = Len(fifo))
           /\ fifo' \in Seq(Byte) /\ Len(fifo') = Len(fifo) - n
           /\ \A k \in 1 .. Len(fifo) - n : fifo'[k] = fifo[n + k]
           /\ buf' = [buf EXCEPT ![c] = SubSeq(fifo, 1, m)]
           /\ SubSeq(fifo, 1, m) \in Seq(Byte) /\ Len(SubSeq(fifo, 1, m)) = m
           /\ \A k \in 1 .. m : SubSeq(fifo, 1, m)[k] = fifo[k]
           /\ fifo[1].byte = 1 => SubSeq(fifo, 1, m) = Command(fifo[1].task)
  <1> DEFINE n == ReadSize
             bytes == SubSeq(fifo, 1, n)
  <1>1. /\ fifo \in Seq(Byte) /\ Len(fifo) \in Nat \ {0} /\ fifo # <<>>
        /\ n \in 1 .. Len(fifo) /\ (Len(fifo) <= READ_MAX => n = Len(fifo))
        /\ (n = Len(fifo) \/ n >= COMMAND)
    BY ProcessPoolAssumption DEF Read, IInv, TypeOK, ReadSize
  <1>2. PICK m \in 1 .. Len(fifo) :
           /\ fifo[m].byte = COMMAND /\ \A j \in 1 .. m - 1 : fifo[j].byte # COMMAND
           /\ \A j \in 1 .. m : fifo[j] = [task |-> fifo[1].task, byte |-> fifo[1].byte + j - 1]
           /\ m <= COMMAND /\ fifo[1].byte + m - 1 = COMMAND
    BY <1>1, FirstNewline DEF IInv
  <1>3. m <= n
    BY <1>1, <1>2, ProcessPoolAssumption
  <1> HIDE DEF n
  <1>4. bytes \in Seq(Byte) /\ Len(bytes) = n /\ \A k \in 1 .. n : bytes[k] = fifo[k]
    BY <1>1, FirstPart
  <1>5. Text(bytes) = SubSeq(bytes, 1, m)
    <2> DEFINE ends == {k \in 1 .. Len(bytes) : bytes[k].byte = COMMAND}
    <2>1. m \in ends
      BY <1>1, <1>2, <1>3, <1>4
    <2>2. \A j \in ends : m <= j
      BY <1>1, <1>2, <1>4
    <2>3. \A k \in ends : (\A j \in ends : k <= j) => k = m
      <3> SUFFICES ASSUME NEW k \in ends, \A j \in ends : k <= j PROVE k = m
        OBVIOUS
      <3>1. k <= m /\ m <= k /\ k \in Nat /\ m \in Nat
        BY <1>1, <1>2, <1>4, <2>1, <2>2
      <3> QED
        BY <3>1
    <2>4. Text(bytes) = IF ends = {} THEN bytes
                        ELSE SubSeq(bytes, 1, CHOOSE k \in ends : \A j \in ends : k <= j)
      BY DEF Text
    <2> HIDE DEF ends
    <2>5. (CHOOSE k \in ends : \A j \in ends : k <= j) = m
      BY <2>1, <2>2, <2>3
    <2> QED
      BY <2>1, <2>4, <2>5
  <1>6. /\ SubSeq(fifo, 1, m) \in Seq(Byte) /\ Len(SubSeq(fifo, 1, m)) = m
        /\ \A k \in 1 .. m : SubSeq(fifo, 1, m)[k] = fifo[k]
    BY <1>1, FirstPart
  <1>7. SubSeq(bytes, 1, m) = SubSeq(fifo, 1, m)
    <2>2. /\ SubSeq(bytes, 1, m) \in Seq(Byte) /\ Len(SubSeq(bytes, 1, m)) = m
          /\ \A k \in 1 .. m : SubSeq(bytes, 1, m)[k] = bytes[k]
      BY <1>1, <1>3, <1>4, FirstPart
    <2>3. \A k \in 1 .. m : SubSeq(bytes, 1, m)[k] = SubSeq(fifo, 1, m)[k]
      BY <1>1, <1>3, <1>4, <1>6, <2>2
    <2> QED
      BY <1>6, <2>2, <2>3, SeqEqual
  <1>8. buf' = [buf EXCEPT ![c] = SubSeq(fifo, 1, m)]
    BY <1>5, <1>7 DEF Read, n
  <1>9. /\ fifo' \in Seq(Byte) /\ Len(fifo') = Len(fifo) - n
        /\ \A k \in 1 .. Len(fifo) - n : fifo'[k] = fifo[n + k]
    <2>1. fifo' = SubSeq(fifo, n + 1, Len(fifo))
      BY DEF Read, ConsumeBytes, n
    <2>2. /\ n + 1 \in 1 .. Len(fifo) + 1 /\ Len(fifo) \in 0 .. Len(fifo) /\ n + 1 <= Len(fifo) + 1
          /\ Len(fifo) - (n + 1) + 1 = Len(fifo) - n
          /\ \A k \in 1 .. Len(fifo) - n : (n + 1) + k - 1 = n + k
      BY <1>1
    <2>3. /\ SubSeq(fifo, n + 1, Len(fifo)) \in Seq(Byte)
          /\ Len(SubSeq(fifo, n + 1, Len(fifo))) = Len(fifo) - (n + 1) + 1
          /\ \A k \in 1 .. Len(fifo) - (n + 1) + 1 :
               SubSeq(fifo, n + 1, Len(fifo))[k] = fifo[(n + 1) + k - 1]
      BY <1>1, <2>2, PartIs
    <2> QED
      BY <2>1, <2>2, <2>3
  <1>10. fifo[1].byte = 1 => SubSeq(fifo, 1, m) = Command(fifo[1].task)
    <2> SUFFICES ASSUME fifo[1].byte = 1 PROVE SubSeq(fifo, 1, m) = Command(fifo[1].task)
      OBVIOUS
    <2>1. m = COMMAND /\ fifo[1].task \in Tasks
      <3>1. fifo[1] \in Byte
        BY <1>1, ElementOfSeq
      <3>2. m \in Nat /\ 1 + m - 1 = m
        OBVIOUS
      <3> QED
        BY <1>2, <3>1, <3>2 DEF Byte
    <2>2. \A k \in 1 .. m : SubSeq(fifo, 1, m)[k] = Command(fifo[1].task)[k]
      <3> SUFFICES ASSUME NEW k \in 1 .. m
                   PROVE  SubSeq(fifo, 1, m)[k] = Command(fifo[1].task)[k]
        OBVIOUS
      <3>1. fifo[k] = [task |-> fifo[1].task, byte |-> 1 + k - 1] /\ 1 + k - 1 = k
        BY <1>2
      <3> QED
        BY <1>6, <2>1, <3>1, CommandIs
    <2> QED
      BY <1>6, <2>1, <2>2, CommandIs, SeqEqual
  <1> QED
    BY <1>1, <1>2, <1>3, <1>6, <1>8, <1>9, <1>10
-----------------------------------------------------------------------------
(* One lemma per action. *)

\* process_pool_init has returned: nothing is in the pipe.
LEMMA InitHolds == Init => IInv
  <1> SUFFICES ASSUME Init PROVE IInv
    OBVIOUS
  <1> USE DEF Init
  <1>1. fifo = <<>> /\ Len(fifo) = 0 /\ \A c \in Children : buf[c] = <<>> /\ Len(buf[c]) = 0
    OBVIOUS
  <1>2. \A task : ~Present(task)
    BY <1>1 DEF Present
  <1>3. TypeOK
    <2>1. /\ fifo \in Seq(Byte) /\ buf \in [Children -> Seq(Byte)]
          /\ Len(fifo) <= PIPE_SIZE /\ \A c \in Children : Len(buf[c]) <= COMMAND
      BY <1>1, ProcessPoolAssumption
    <2>2. submitted \in 0 .. MaxTasks /\ backlog \in 0 .. PIPE_SIZE
      BY ProcessPoolAssumption
    <2> QED
      BY <2>1, <2>2 DEF TypeOK, Tasks, NoTask
  <1>4. Stream /\ IdleIsEmpty /\ OnePlace
    BY <1>1 DEF Stream, IdleIsEmpty, OnePlace
  <1>5. Traces
    BY <1>2 DEF Traces, Tasks, NoTask
  <1>6. WholeCommands /\ NothingLost
    BY <1>1 DEF WholeCommands, NothingLost
  <1> QED
    BY <1>3, <1>4, <1>5, <1>6 DEF IInv

\* The task gets the next number; nothing of it is anywhere.
LEMMA SubmitBeginKeeps == ASSUME IInv, NEW t \in Threads, SubmitBegin(t) PROVE IInv'
  <1>1. /\ writing[t] = NoTask /\ submitted < MaxTasks /\ submitted' = submitted + 1
        /\ writing' = [writing EXCEPT ![t] = submitted + 1]
        /\ UNCHANGED <<fifo, child, buf, executed, unknown, backlog, death>>
        /\ submitted \in Nat /\ submitted + 1 \in Tasks
    BY ProcessPoolAssumption DEF SubmitBegin, history, IInv, TypeOK, Tasks
  <1>2. TypeOK'
    <2>1. writing' \in [Threads -> Tasks \union {NoTask}] /\ submitted' \in 0 .. MaxTasks
      BY <1>1, ProcessPoolAssumption DEF IInv, TypeOK
    <2> QED
      BY <1>1, <2>1 DEF IInv, TypeOK
  <1>3. Stream' /\ IdleIsEmpty' /\ OnePlace' /\ WholeCommands'
    BY <1>1 DEF IInv, Stream, IdleIsEmpty, OnePlace, WholeCommands
  <1>4. \A task : Present(task)' <=> Present(task)
    BY <1>1 DEF Present
  <1>5. Traces'
    <2>1. ~Present(submitted + 1) /\ executed[submitted + 1] = 0
      BY <1>1 DEF IInv, Traces
    <2>2. \A u \in Threads : u # t => writing'[u] = writing[u]
      BY <1>1 DEF IInv, TypeOK
    <2>3. writing'[t] = submitted + 1
      BY <1>1 DEF IInv, TypeOK
    <2>4. \A u \in Threads : writing[u] # NoTask => writing[u] \in Nat /\ writing[u] <= submitted
      BY DEF IInv, TypeOK, Tasks, Traces
    <2>5. \A u \in Threads, task \in Tasks : writing'[u] = task =>
            task <= submitted' /\ ~Present(task)' /\ executed'[task] = 0
      <3> SUFFICES ASSUME NEW u \in Threads, NEW task \in Tasks, writing'[u] = task
                   PROVE  task <= submitted + 1 /\ ~Present(task) /\ executed[task] = 0
        BY <1>1, <1>4
      <3>1. CASE u = t
        BY <1>1, <2>1, <2>3, <3>1
      <3>2. CASE u # t
        BY <1>1, <2>2, <3>2 DEF IInv, Traces, Tasks
      <3> QED
        BY <3>1, <3>2
    <2>6. \A u, v \in Threads : writing'[u] = writing'[v] /\ writing'[u] # NoTask => u = v
      <3> SUFFICES ASSUME NEW u \in Threads, NEW v \in Threads,
                          writing'[u] = writing'[v], writing'[u] # NoTask
                   PROVE  u = v
        OBVIOUS
      <3>1. CASE u # t /\ v # t
        BY <2>2, <3>1 DEF IInv, Traces
      <3>2. CASE u = t \/ v = t
        BY <1>1, <2>2, <2>3, <2>4, <3>2
      <3> QED
        BY <3>1, <3>2
    <2>7. \A task \in Tasks :
            /\ task > submitted' => ~Present(task)' /\ executed'[task] = 0
            /\ executed'[task] \in 0 .. 1 /\ (executed'[task] = 1 => ~Present(task)')
      BY <1>1, <1>4 DEF IInv, Traces, Tasks
    <2> QED
      BY <2>5, <2>6, <2>7 DEF Traces
  <1>6. NothingLost'
    <2> SUFFICES ASSUME backlog <= COMMAND, ~death, NEW task \in 1 .. submitted + 1
                 PROVE  \/ executed[task] = 1 \/ (\E u \in Threads : writing'[u] = task)
                        \/ fifo = Command(task) \/ \E c \in Children : buf[c] = Command(task)
      BY <1>1 DEF NothingLost
    <2>1. CASE task = submitted + 1
      BY <1>1, <2>1 DEF IInv, TypeOK
    <2>2. CASE task # submitted + 1
      <3>1. task \in 1 .. submitted /\ task # NoTask
        BY <1>1, <2>2 DEF NoTask
      <3>2. \A u \in Threads : writing[u] = task => writing'[u] = task
        BY <1>1, <3>1 DEF IInv, TypeOK
      <3> QED
        BY <3>1, <3>2 DEF IInv, NothingLost
    <2> QED
      BY <2>1, <2>2
  <1> QED
    BY <1>2, <1>3, <1>5, <1>6 DEF IInv

\* A whole command is added behind what waits.
LEMMA SubmitWriteKeeps == ASSUME IInv, NEW t \in Threads, SubmitWrite(t) PROVE IInv'
  <1> DEFINE new == writing[t]
             old == Len(fifo)
  <1>1. /\ new \in Tasks /\ new # NoTask /\ new <= submitted /\ ~Present(new) /\ executed[new] = 0
        /\ fifo' = fifo \o Command(new) /\ writing' = [writing EXCEPT ![t] = NoTask]
        /\ UNCHANGED <<submitted, child, buf, executed, unknown, death>>
        /\ fifo \in Seq(Byte) /\ old \in Nat /\ COMMAND \in Nat \ {0} /\ old + COMMAND <= PIPE_SIZE
    BY ProcessPoolAssumption DEF SubmitWrite, IInv, TypeOK, Traces
  <1>2. /\ fifo' \in Seq(Byte) /\ Len(fifo') = old + COMMAND
        /\ \A k \in 1 .. old : fifo'[k] = fifo[k]
        /\ \A k \in old + 1 .. old + COMMAND : fifo'[k] = [task |-> new, byte |-> k - old]
    <2>1. /\ fifo' \in Seq(Byte) /\ Len(fifo') = old + COMMAND
          /\ \A k \in 1 .. old + COMMAND :
               fifo'[k] = IF k <= old THEN fifo[k] ELSE Command(new)[k - old]
      <3>1. Command(new) \in Seq(Byte) /\ Len(Command(new)) = COMMAND
        BY <1>1, CommandIs
      <3>2. fifo \in Seq(Byte) /\ fifo' = fifo \o Command(new) /\ old = Len(fifo)
        BY <1>1
      <3> HIDE DEF new, old
      <3>3. \A s, u \in Seq(Byte) :
              /\ s \o u \in Seq(Byte) /\ Len(s \o u) = Len(s) + Len(u)
              /\ \A k \in 1 .. Len(s) + Len(u) :
                   (s \o u)[k] = IF k <= Len(s) THEN s[k] ELSE u[k - Len(s)]
        BY ConcatProperties
      <3> QED
        BY <3>1, <3>2, <3>3
    <2>2. \A k \in 1 .. old : k \in 1 .. old + COMMAND /\ k <= old
      BY <1>1
    <2>3. \A k \in old + 1 .. old + COMMAND :
            k \in 1 .. old + COMMAND /\ ~(k <= old) /\ k - old \in 1 .. COMMAND
      BY <1>1
    <2>4. \A b \in 1 .. COMMAND : Command(new)[b] = [task |-> new, byte |-> b]
      BY <1>1, CommandIs
    <2> HIDE DEF new, old
    <2> QED
      BY <2>1, <2>2, <2>3, <2>4
  <1>3. backlog \in Nat /\ backlog' \in 0 .. PIPE_SIZE /\ backlog <= backlog' /\ Len(fifo') <= backlog'
    BY <1>1, <1>2, ProcessPoolAssumption DEF SubmitWrite, IInv, TypeOK
  <1>4. /\ \A u \in Threads \ {t} : writing'[u] = writing[u]
        /\ writing'[t] = NoTask
        /\ writing' \in [Threads -> Tasks \union {NoTask}]
    BY <1>1 DEF IInv, TypeOK
  <1>5. TypeOK'
    BY <1>1, <1>2, <1>3, <1>4 DEF IInv, TypeOK
  <1> HIDE DEF new, old
  <1>6. \A k \in 1 .. Len(fifo') : k \in 1 .. old \/ k \in old + 1 .. old + COMMAND
    BY <1>1, <1>2
  <1>7. Stream'
    <2>1. fifo'[Len(fifo')].byte = COMMAND
      <3>1. old + COMMAND \in old + 1 .. old + COMMAND /\ (old + COMMAND) - old = COMMAND
        BY <1>1
      <3>2. fifo'[old + COMMAND] = [task |-> new, byte |-> (old + COMMAND) - old]
        BY <1>2, <3>1
      <3> QED
        BY <1>2, <3>1, <3>2
    <2>2. ASSUME NEW k \in 1 .. Len(fifo') - 1
          PROVE  IF fifo'[k].byte = COMMAND THEN fifo'[k + 1].byte = 1
                 ELSE fifo'[k + 1] = [task |-> fifo'[k].task, byte |-> fifo'[k].byte + 1]
      <3>1. CASE k < old
        <4>1. k \in 1 .. old - 1 /\ k \in 1 .. old /\ k + 1 \in 1 .. old
          BY <1>1, <1>2, <3>1
        <4> QED
          BY <1>2, <4>1 DEF IInv, Stream, old
      <3>2. CASE k = old
        <4>1. k \in 1 .. old /\ k + 1 \in old + 1 .. old + COMMAND /\ (k + 1) - old = 1
          BY <1>1, <1>2, <3>2
        <4>2. fifo[k].byte = COMMAND
          <5>1. fifo # <<>>
            BY <1>1, <4>1 DEF old
          <5> QED
            BY <3>2, <5>1 DEF IInv, Stream, old
        <4>3. fifo'[k + 1] = [task |-> new, byte |-> 1]
          BY <1>2, <4>1
        <4> QED
          BY <1>2, <4>1, <4>2, <4>3
      <3>3. CASE k > old
        <4>1. /\ k \in old + 1 .. old + COMMAND /\ k + 1 \in old + 1 .. old + COMMAND
              /\ (k + 1) - old = (k - old) + 1 /\ k - old # COMMAND
          BY <1>1, <1>2, <3>3
        <4>2. /\ fifo'[k] = [task |-> new, byte |-> k - old]
              /\ fifo'[k + 1] = [task |-> new, byte |-> (k - old) + 1]
          BY <1>2, <4>1
        <4> QED
          BY <4>1, <4>2
      <3> QED
        BY <1>1, <1>2, <3>1, <3>2, <3>3
    <2> QED
      BY <1>3, <2>1, <2>2 DEF Stream
  <1>8. \A k \in 1 .. old : fifo[k].task # new
    BY <1>1 DEF Present, old
  <1>9. \A c \in Children : \A k \in 1 .. Len(buf[c]) : buf[c][k].task # new
    BY <1>1 DEF Present
  <1>15. /\ \A k \in 1 .. old : fifo'[k] = fifo[k] /\ fifo'[k].task # new
         /\ \A k \in old + 1 .. old + COMMAND : fifo'[k].task = new /\ fifo'[k].byte = k - old
    <2>1. \A k \in 1 .. old : fifo'[k].task # new
      <3> SUFFICES ASSUME NEW k \in 1 .. old PROVE fifo'[k].task # new
        OBVIOUS
      <3>1. fifo'[k] = fifo[k] /\ fifo[k].task # new
        BY <1>2, <1>8
      <3> QED
        BY <3>1
    <2>2. \A k \in old + 1 .. old + COMMAND : fifo'[k].task = new /\ fifo'[k].byte = k - old
      <3> SUFFICES ASSUME NEW k \in old + 1 .. old + COMMAND
                   PROVE  fifo'[k].task = new /\ fifo'[k].byte = k - old
        OBVIOUS
      <3>1. fifo'[k] = [task |-> new, byte |-> k - old]
        BY <1>2
      <3> QED
        BY <3>1
    <2> QED
      BY <1>2, <2>1, <2>2
  <1>10. OnePlace'
    <2>1. ASSUME NEW j \in 1 .. Len(fifo'), NEW k \in 1 .. Len(fifo'), fifo'[j] = fifo'[k] PROVE j = k
      <3>1. CASE j \in 1 .. old /\ k \in 1 .. old
        BY <1>2, <2>1, <3>1 DEF IInv, OnePlace, old
      <3>2. CASE j \in old + 1 .. old + COMMAND /\ k \in old + 1 .. old + COMMAND
        <4>1. j - old = k - old
          BY <1>15, <2>1, <3>2
        <4> QED
          BY <1>1, <3>2, <4>1
      <3>3. CASE j \in 1 .. old /\ k \in old + 1 .. old + COMMAND
        BY <1>15, <2>1, <3>3
      <3>4. CASE k \in 1 .. old /\ j \in old + 1 .. old + COMMAND
        BY <1>15, <2>1, <3>4
      <3> QED
        BY <1>6, <3>1, <3>2, <3>3, <3>4
    <2>2. ASSUME NEW c \in Children, NEW j \in 1 .. Len(buf[c]), NEW k \in 1 .. Len(fifo')
          PROVE  buf[c][j] # fifo'[k]
      <3>1. CASE k \in 1 .. old
        BY <1>2, <3>1 DEF IInv, OnePlace, old
      <3>2. CASE k \in old + 1 .. old + COMMAND
        BY <1>9, <1>15, <3>2
      <3> QED
        BY <1>6, <3>1, <3>2
    <2>3. \A c, d \in Children : \A j \in 1 .. Len(buf[c]), k \in 1 .. Len(buf[d]) :
            buf[c][j] = buf[d][k] => c = d
      BY DEF IInv, OnePlace
    <2>4. buf' = buf
      BY <1>1
    <2>5. \A j, k \in 1 .. Len(fifo') : fifo'[j] = fifo'[k] => j = k
      BY <2>1
    <2>6. \A c \in Children : \A j \in 1 .. Len(buf'[c]), k \in 1 .. Len(fifo') : buf'[c][j] # fifo'[k]
      BY <2>2, <2>4
    <2>7. \A c, d \in Children : \A j \in 1 .. Len(buf'[c]), k \in 1 .. Len(buf'[d]) :
            buf'[c][j] = buf'[d][k] => c = d
      BY <2>3, <2>4
    <2> QED
      BY <2>5, <2>6, <2>7 DEF OnePlace
  <1>11. \A task : Present(task)' => Present(task) \/ task = new
    <2> SUFFICES ASSUME NEW task, Present(task)', task # new PROVE Present(task)
      OBVIOUS
    <2>1. CASE \E k \in 1 .. Len(fifo') : fifo'[k].task = task
      <3>1. PICK k \in 1 .. Len(fifo') : fifo'[k].task = task
        BY <2>1
      <3>2. k \in 1 .. old /\ fifo[k].task = task
        BY <1>6, <1>15, <3>1
      <3> QED
        BY <3>2 DEF Present, old
    <2>2. CASE \E c \in Children : \E k \in 1 .. Len(buf[c]) : buf[c][k].task = task
      BY <2>2 DEF Present
    <2> QED
      BY <1>1, <2>1, <2>2 DEF Present
  <1>12. Traces'
    <2>1. \A u \in Threads : u # t /\ writing[u] # NoTask => writing[u] # new
      BY <1>1 DEF IInv, Traces, new
    <2>2. \A u \in Threads, task \in Tasks : writing'[u] = task =>
            task <= submitted' /\ ~Present(task)' /\ executed'[task] = 0
      <3> SUFFICES ASSUME NEW u \in Threads, NEW task \in Tasks, writing'[u] = task
                   PROVE  task <= submitted /\ ~Present(task)' /\ executed[task] = 0
        BY <1>1
      <3>1. u # t /\ writing[u] = task /\ task # new
        BY <1>4, <2>1 DEF Tasks, NoTask
      <3> QED
        BY <1>11, <3>1 DEF IInv, Traces
    <2>3. \A u, v \in Threads : writing'[u] = writing'[v] /\ writing'[u] # NoTask => u = v
      BY <1>4 DEF IInv, Traces
    <2>4. \A task \in Tasks :
            /\ task > submitted' => ~Present(task)' /\ executed'[task] = 0
            /\ executed'[task] \in 0 .. 1 /\ (executed'[task] = 1 => ~Present(task)')
      <3> SUFFICES ASSUME NEW task \in Tasks
                   PROVE  /\ task > submitted => ~Present(task)' /\ executed[task] = 0
                          /\ executed[task] \in 0 .. 1 /\ (executed[task] = 1 => ~Present(task)')
        BY <1>1
      <3>1. CASE task = new
        <4>1. ~(task > submitted)
          BY <1>1, <3>1 DEF IInv, TypeOK, Tasks
        <4> QED
          BY <1>1, <3>1, <4>1
      <3>2. CASE task # new
        BY <1>11, <3>2 DEF IInv, Traces
      <3> QED
        BY <3>1, <3>2
    <2> QED
      BY <2>2, <2>3, <2>4 DEF Traces
  <1>13. WholeCommands'
    <2> SUFFICES ASSUME backlog' <= READ_MAX
                 PROVE  /\ fifo'[1].byte = 1 /\ ~unknown
                        /\ \A c \in Children : child[c] = "busy" => \E b \in Tasks : buf[c] = Command(b)
      BY <1>1 DEF WholeCommands
    <2>1. backlog <= READ_MAX
      BY <1>3, ProcessPoolAssumption
    <2>2. fifo'[1].byte = 1
      <3>1. CASE old = 0
        <4>1. 1 \in old + 1 .. old + COMMAND /\ 1 - old = 1
          BY <1>1, <3>1
        <4>2. fifo'[1] = [task |-> new, byte |-> 1]
          BY <1>2, <4>1
        <4> QED
          BY <4>2
      <3>2. CASE old # 0
        <4>1. 1 \in 1 .. old /\ fifo # <<>>
          BY <1>1, <3>2 DEF old
        <4> QED
          BY <1>2, <2>1, <4>1 DEF IInv, WholeCommands
      <3> QED
        BY <3>1, <3>2
    <2> QED
      BY <2>1, <2>2 DEF IInv, WholeCommands
  <1>14. NothingLost'
    <2> SUFFICES ASSUME backlog' <= COMMAND, ~death, NEW task \in 1 .. submitted
                 PROVE  \/ executed[task] = 1 \/ (\E u \in Threads : writing'[u] = task)
                        \/ fifo' = Command(task) \/ \E c \in Children : buf[c] = Command(task)
      BY <1>1 DEF NothingLost
    <2>1. old = 0 /\ backlog <= COMMAND
      BY <1>1, <1>2, <1>3
    <2>2. fifo' = Command(new)
      <3>1. fifo = <<>>
        BY <1>1, <2>1 DEF old
      <3> QED
        BY <1>1, <3>1, CommandIs, ConcatEmptySeq
    <2>3. task \in Tasks
      BY ProcessPoolAssumption DEF IInv, TypeOK, Tasks
    <2>4. fifo # Command(task)
      BY <1>1, <2>1, <2>3, CommandIs DEF old
    <2>5. CASE task = new
      BY <2>2, <2>5
    <2>6. CASE task # new
      <3>1. \A u \in Threads : writing[u] = task => writing'[u] = task
        BY <1>4, <2>6 DEF new
      <3> QED
        BY <2>1, <2>4, <3>1 DEF IInv, NothingLost
    <2> QED
      BY <2>5, <2>6
  <1> QED
    BY <1>1, <1>5, <1>7, <1>10, <1>12, <1>13, <1>14 DEF IInv, IdleIsEmpty

\* A read moves bytes from the pipe to the child, or drops them; none is copied.
LEMMA ReadKeeps == ASSUME IInv, NEW c \in Children, Read(c) PROVE IInv'
  <1> DEFINE text(m) == SubSeq(fifo, 1, m)
  <1>1. PICK n \in 1 .. Len(fifo), m \in 1 .. Len(fifo) :
           /\ m <= n /\ m <= COMMAND /\ (Len(fifo) <= READ_MAX => n = Len(fifo))
           /\ fifo' \in Seq(Byte) /\ Len(fifo') = Len(fifo) - n
           /\ \A k \in 1 .. Len(fifo) - n : fifo'[k] = fifo[n + k]
           /\ buf' = [buf EXCEPT ![c] = text(m)]
           /\ text(m) \in Seq(Byte) /\ Len(text(m)) = m
           /\ \A k \in 1 .. m : text(m)[k] = fifo[k]
           /\ fifo[1].byte = 1 => text(m) = Command(fifo[1].task)
    BY ReadIs
  <1>2. /\ child[c] = "reading" /\ buf[c] = <<>> /\ child' = [child EXCEPT ![c] = "busy"]
        /\ UNCHANGED <<writing, submitted, executed, unknown, backlog, death>>
        /\ fifo \in Seq(Byte) /\ fifo # <<>> /\ Len(fifo) \in Nat
    BY DEF Read, history, IInv, TypeOK, IdleIsEmpty
  <1> HIDE DEF text
  <1>3. /\ buf'[c] = text(m) /\ \A d \in Children \ {c} : buf'[d] = buf[d]
        /\ buf' \in [Children -> Seq(Byte)]
        /\ child'[c] = "busy" /\ \A d \in Children \ {c} : child'[d] = child[d]
        /\ child' \in [Children -> {"reading", "busy", "dead"}]
    BY <1>1, <1>2 DEF IInv, TypeOK
  <1>4. \A k \in 1 .. Len(fifo') :
          k \in 1 .. Len(fifo) - n /\ n + k \in 1 .. Len(fifo) /\ fifo'[k] = fifo[n + k]
    BY <1>1, <1>2
  <1>5. \A k \in 1 .. Len(buf'[c]) : k \in 1 .. m /\ k \in 1 .. Len(fifo) /\ buf'[c][k] = fifo[k]
    BY <1>1, <1>2, <1>3
  <1>6. TypeOK'
    <2>1. Len(fifo') <= PIPE_SIZE
      BY <1>1, <1>2, ProcessPoolAssumption DEF IInv, TypeOK
    <2>2. \A d \in Children : Len(buf'[d]) <= COMMAND /\ (child'[d] = "busy" => buf'[d] # <<>>)
      <3>1. Len(buf'[c]) <= COMMAND /\ buf'[c] # <<>>
        BY <1>1, <1>3
      <3> QED
        BY <1>3, <3>1 DEF IInv, TypeOK
    <2> QED
      BY <1>1, <1>2, <1>3, <2>1, <2>2 DEF IInv, TypeOK
  <1>7. Stream'
    <2>1. fifo' # <<>> => fifo'[Len(fifo')].byte = COMMAND
      <3> SUFFICES ASSUME fifo' # <<>> PROVE fifo'[Len(fifo')].byte = COMMAND
        OBVIOUS
      <3>1. Len(fifo') \in 1 .. Len(fifo') /\ n + Len(fifo') = Len(fifo)
        <4>1. Len(fifo') # 0 /\ Len(fifo') \in Nat
          BY <1>1
        <4> QED
          BY <1>1, <1>2, <4>1
      <3>2. fifo'[Len(fifo')] = fifo[Len(fifo)]
        BY <1>4, <3>1
      <3>3. fifo[Len(fifo)].byte = COMMAND
        <4>1. Stream
          BY DEF IInv
        <4> QED
          BY <1>2, <4>1 DEF Stream
      <3> QED
        BY <3>2, <3>3
    <2>2. ASSUME NEW k \in 1 .. Len(fifo') - 1
          PROVE  IF fifo'[k].byte = COMMAND THEN fifo'[k + 1].byte = 1
                 ELSE fifo'[k + 1] = [task |-> fifo'[k].task, byte |-> fifo'[k].byte + 1]
      <3>1. /\ k \in 1 .. Len(fifo') /\ k + 1 \in 1 .. Len(fifo')
            /\ n + k \in 1 .. Len(fifo) - 1 /\ n + (k + 1) = (n + k) + 1
        <4>1. n \in Nat /\ Len(fifo) \in Nat /\ Len(fifo') = Len(fifo) - n /\ n <= Len(fifo)
          BY <1>1, <1>2
        <4>2. k \in Nat /\ 1 <= k /\ k <= Len(fifo') - 1
          BY <4>1
        <4> QED
          BY <4>1, <4>2
      <3>2. fifo'[k] = fifo[n + k] /\ fifo'[k + 1] = fifo[(n + k) + 1]
        BY <1>4, <3>1
      <3> QED
        BY <3>1, <3>2 DEF IInv, Stream
    <2>3. Len(fifo') <= backlog'
      BY <1>1, <1>2 DEF IInv, TypeOK, Stream
    <2> QED
      BY <2>1, <2>2, <2>3 DEF Stream
  <1>8. OnePlace'
    <2>4. \A j, k \in 1 .. Len(fifo) : fifo[j] = fifo[k] => j = k
      BY DEF IInv, OnePlace
    <2>5. \A d \in Children : \A j \in 1 .. Len(buf[d]), k \in 1 .. Len(fifo) : buf[d][j] # fifo[k]
      BY DEF IInv, OnePlace
    <2>6. \A d, e \in Children : \A j \in 1 .. Len(buf[d]), k \in 1 .. Len(buf[e]) :
            buf[d][j] = buf[e][k] => d = e
      BY DEF IInv, OnePlace
    <2>1. ASSUME NEW j \in 1 .. Len(fifo'), NEW k \in 1 .. Len(fifo'), fifo'[j] = fifo'[k] PROVE j = k
      <3>1. n + j = n + k
        BY <1>4, <2>1, <2>4
      <3> QED
        BY <1>1, <3>1
    <2>2. ASSUME NEW d \in Children, NEW j \in 1 .. Len(buf'[d]), NEW k \in 1 .. Len(fifo'),
                 buf'[d][j] = fifo'[k]
          PROVE  FALSE
      <3>1. CASE d = c
        <4>1. j \in 1 .. m /\ buf'[c][j] = fifo[j] /\ j = n + k
          <5>1. j \in 1 .. m /\ j \in 1 .. Len(fifo) /\ buf'[c][j] = fifo[j]
            BY <1>5, <2>2, <3>1
          <5>2. n + k \in 1 .. Len(fifo) /\ fifo[j] = fifo[n + k]
            BY <1>4, <2>2, <3>1, <5>1
          <5> QED
            BY <2>4, <5>1, <5>2
        <4> QED
          BY <1>1, <1>2, <4>1
      <3>2. CASE d # c
        <4>1. buf'[d] = buf[d] /\ n + k \in 1 .. Len(fifo) /\ fifo'[k] = fifo[n + k]
          BY <1>3, <1>4, <3>2
        <4> QED
          BY <2>2, <2>5, <4>1
      <3> QED
        BY <3>1, <3>2
    <2>3. ASSUME NEW d \in Children, NEW e \in Children,
                 NEW j \in 1 .. Len(buf'[d]), NEW k \in 1 .. Len(buf'[e]), buf'[d][j] = buf'[e][k]
          PROVE  d = e
      <3>1. CASE d # c /\ e # c
        <4>1. buf'[d] = buf[d] /\ buf'[e] = buf[e]
          BY <1>3, <3>1
        <4> QED
          BY <2>3, <2>6, <4>1
      <3>2. CASE d = c /\ e # c
        <4>1. buf'[e] = buf[e] /\ j \in 1 .. Len(fifo) /\ buf'[d][j] = fifo[j]
          BY <1>3, <1>5, <3>2
        <4> QED
          BY <2>3, <2>5, <4>1
      <3>3. CASE e = c /\ d # c
        <4>1. buf'[d] = buf[d] /\ k \in 1 .. Len(fifo) /\ buf'[e][k] = fifo[k]
          BY <1>3, <1>5, <3>3
        <4> QED
          BY <2>3, <2>5, <4>1
      <3> QED
        BY <3>1, <3>2, <3>3
    <2> QED
      BY <2>1, <2>2, <2>3 DEF OnePlace
  <1>9. \A task : Present(task)' => Present(task)
    <2> SUFFICES ASSUME NEW task, Present(task)' PROVE Present(task)
      OBVIOUS
    <2>1. CASE \E k \in 1 .. Len(fifo') : fifo'[k].task = task
      BY <1>4, <2>1 DEF Present
    <2>2. CASE \E k \in 1 .. Len(buf'[c]) : buf'[c][k].task = task
      BY <1>5, <2>2 DEF Present
    <2>3. CASE \E d \in Children \ {c} : \E k \in 1 .. Len(buf'[d]) : buf'[d][k].task = task
      BY <1>3, <2>3 DEF Present
    <2> QED
      BY <2>1, <2>2, <2>3 DEF Present
  <1>10. Traces'
    BY <1>2, <1>9 DEF IInv, Traces
  <1>11. fifo[1].byte = 1 => fifo[1].task \in Tasks /\ buf'[c] = Command(fifo[1].task)
    <2>1. fifo[1] \in Byte
      BY <1>1, <1>2, ElementOfSeq
    <2> QED
      BY <1>1, <1>3, <2>1 DEF Byte
  <1>12. WholeCommands'
    <2> SUFFICES ASSUME backlog <= READ_MAX
                 PROVE  /\ fifo' = <<>> /\ ~unknown
                        /\ \A d \in Children : child'[d] = "busy" => \E t \in Tasks : buf'[d] = Command(t)
      BY <1>2 DEF WholeCommands
    <2>1. fifo' = <<>>
      <3>1. Len(fifo) <= READ_MAX
        BY <1>2, ProcessPoolAssumption DEF IInv, TypeOK, Stream
      <3> QED
        BY <1>1, <1>2, <3>1
    <2>2. fifo[1].byte = 1
      BY <1>2 DEF IInv, WholeCommands
    <2> QED
      BY <1>3, <1>11, <2>1, <2>2 DEF IInv, WholeCommands
  <1>13. NothingLost'
    <2> SUFFICES ASSUME backlog <= COMMAND, ~death, NEW task \in 1 .. submitted
                 PROVE  \/ executed[task] = 1 \/ (\E u \in Threads : writing[u] = task)
                        \/ fifo' = Command(task) \/ \E d \in Children : buf'[d] = Command(task)
      BY <1>2 DEF NothingLost
    <2>1. task \in Tasks
      BY ProcessPoolAssumption DEF IInv, TypeOK, Tasks
    <2>2. CASE fifo = Command(task)
      <3>1. fifo[1] = [task |-> task, byte |-> 1]
        BY <2>1, <2>2, CommandIs
      <3> QED
        BY <1>11, <3>1
    <2>3. ASSUME NEW d \in Children, buf[d] = Command(task) PROVE buf'[d] = Command(task)
      <3>1. buf[d] # <<>>
        BY <2>1, <2>3, CommandIs
      <3> QED
        BY <1>2, <1>3, <2>3, <3>1
    <2> QED
      BY <2>2, <2>3 DEF IInv, NothingLost
  <1> QED
    BY <1>3, <1>6, <1>7, <1>8, <1>10, <1>12, <1>13 DEF IInv, IdleIsEmpty

\* A child's text is gone when it was executed, or when the child dies.
LEMMA BufferEmptied ==
  ASSUME IInv, NEW c \in Children, buf' = [buf EXCEPT ![c] = <<>>], fifo' = fifo
  PROVE  /\ OnePlace' /\ buf' \in [Children -> Seq(Byte)]
         /\ buf'[c] = <<>> /\ \A d \in Children \ {c} : buf'[d] = buf[d]
         /\ \A d \in Children : Len(buf'[d]) <= COMMAND
         /\ \A task : Present(task)' => Present(task)
  <1>1. /\ buf'[c] = <<>> /\ Len(buf'[c]) = 0 /\ buf' \in [Children -> Seq(Byte)]
        /\ \A d \in Children \ {c} : buf'[d] = buf[d]
    BY DEF IInv, TypeOK
  <1>2. \A d \in Children : \A k \in 1 .. Len(buf'[d]) : d # c /\ buf'[d] = buf[d]
    BY <1>1
  <1>3. OnePlace'
    BY <1>2 DEF IInv, OnePlace
  <1>4. \A task : Present(task)' => Present(task)
    BY <1>2 DEF Present
  <1>5. \A d \in Children : Len(buf'[d]) <= COMMAND
    BY <1>1, ProcessPoolAssumption DEF IInv, TypeOK
  <1> QED
    BY <1>1, <1>3, <1>4, <1>5

\* The text is executed, as a command if it is one, and its bytes are gone.
LEMMA ExecuteKeeps == ASSUME IInv, NEW c \in Children, Execute(c) PROVE IInv'
  <1>1. /\ child[c] = "busy" /\ child' = [child EXCEPT ![c] = "reading"]
        /\ buf' = [buf EXCEPT ![c] = <<>>]
        /\ UNCHANGED <<fifo, writing, submitted, backlog, death>>
    BY DEF Execute, ReadAgain, poolVars
  <1>2. /\ OnePlace' /\ buf' \in [Children -> Seq(Byte)]
        /\ buf'[c] = <<>> /\ \A d \in Children \ {c} : buf'[d] = buf[d]
        /\ \A d \in Children : Len(buf'[d]) <= COMMAND
        /\ \A task : Present(task)' => Present(task)
    BY <1>1, BufferEmptied
  <1>3. /\ child'[c] = "reading" /\ \A d \in Children \ {c} : child'[d] = child[d]
        /\ child' \in [Children -> {"reading", "busy", "dead"}]
    BY <1>1 DEF IInv, TypeOK
  <1>4. Stream' /\ IdleIsEmpty'
    BY <1>1, <1>2, <1>3 DEF IInv, Stream, IdleIsEmpty
  <1>5. CASE \E t \in Tasks : buf[c] = Command(t)
    <2>1. PICK t \in Tasks : buf[c] = Command(t)
      BY <1>5
    <2>2. /\ Len(buf[c]) = COMMAND /\ 1 \in 1 .. Len(buf[c]) /\ buf[c][1].task = t
          /\ \A b \in 1 .. COMMAND : buf[c][b] = [task |-> t, byte |-> b]
      <3>1. buf[c][1] = [task |-> t, byte |-> 1]
        BY <2>1, CommandIs
      <3> QED
        BY <2>1, <3>1, CommandIs
    <2>3. Present(t)
      BY <2>2 DEF Present
    <2>4. executed[t] = 0 /\ t <= submitted /\ \A u \in Threads : writing[u] # t
      <3>1. executed[t] \in 0 .. 1 /\ executed[t] # 1
        BY <2>3 DEF IInv, Traces
      <3>2. t <= submitted
        BY <2>3 DEF IInv, TypeOK, Tasks, Traces
      <3> QED
        BY <2>3, <3>1, <3>2 DEF IInv, Traces
    <2>5. /\ executed' = [executed EXCEPT ![t] = executed[t] + 1] /\ unknown' = unknown
      BY <1>5, <2>2 DEF Execute
    <2>6. /\ executed'[t] = 1 /\ \A task \in Tasks \ {t} : executed'[task] = executed[task]
          /\ executed' \in [Tasks -> Nat]
      BY <2>4, <2>5 DEF IInv, TypeOK
    <2>7. ~Present(t)'
      <3>1. ASSUME NEW k \in 1 .. Len(fifo), fifo[k].task = t PROVE FALSE
        <4>1. fifo[k] \in Byte
          BY ElementOfSeq DEF IInv, TypeOK
        <4>2. fifo[k].byte \in 1 .. COMMAND /\ fifo[k] = [task |-> t, byte |-> fifo[k].byte]
          BY <3>1, <4>1 DEF Byte
        <4>3. buf[c][fifo[k].byte] = fifo[k] /\ fifo[k].byte \in 1 .. Len(buf[c])
          BY <2>2, <4>2
        <4> QED
          BY <4>3 DEF IInv, OnePlace
      <3>2. ASSUME NEW d \in Children, NEW k \in 1 .. Len(buf'[d]), buf'[d][k].task = t PROVE FALSE
        <4>1. d # c /\ buf'[d] = buf[d] /\ k \in 1 .. Len(buf[d])
          BY <1>2
        <4>2. buf[d][k] \in Byte
          <5>1. buf[d] \in Seq(Byte)
            BY DEF IInv, TypeOK
          <5> QED
            BY <4>1, <5>1, ElementOfSeq
        <4>3. buf[d][k].byte \in 1 .. COMMAND /\ buf[d][k] = [task |-> t, byte |-> buf[d][k].byte]
          BY <3>2, <4>1, <4>2 DEF Byte
        <4>4. buf[c][buf[d][k].byte] = buf[d][k] /\ buf[d][k].byte \in 1 .. Len(buf[c])
          BY <2>2, <4>3
        <4> QED
          BY <4>1, <4>4 DEF IInv, OnePlace
      <3> QED
        BY <1>1, <3>1, <3>2 DEF Present
    <2>8. TypeOK'
      BY <1>1, <1>2, <1>3, <2>5, <2>6 DEF IInv, TypeOK
    <2>9. Traces'
      <3>1. \A u \in Threads, task \in Tasks : writing[u] = task =>
              task <= submitted /\ ~Present(task)' /\ executed'[task] = 0
        BY <1>2, <2>4, <2>6 DEF IInv, Traces
      <3>2. \A task \in Tasks : task > submitted => ~Present(task)' /\ executed'[task] = 0
        <4>1. ~(t > submitted)
          BY <2>4 DEF IInv, TypeOK, Tasks
        <4> QED
          BY <1>2, <2>6, <4>1 DEF IInv, Traces
      <3>3. \A task \in Tasks : executed'[task] \in 0 .. 1 /\ (executed'[task] = 1 => ~Present(task)')
        BY <1>2, <2>6, <2>7 DEF IInv, Traces
      <3> QED
        BY <1>1, <3>1, <3>2, <3>3 DEF IInv, Traces
    <2>10. WholeCommands'
      BY <1>1, <1>2, <1>3, <2>5 DEF IInv, WholeCommands
    <2>11. NothingLost'
      <3> SUFFICES ASSUME backlog <= COMMAND, ~death, NEW task \in 1 .. submitted
                   PROVE  \/ executed'[task] = 1 \/ (\E u \in Threads : writing[u] = task)
                          \/ fifo = Command(task) \/ \E d \in Children : buf'[d] = Command(task)
        BY <1>1 DEF NothingLost
      <3>1. task \in Tasks
        BY ProcessPoolAssumption DEF IInv, TypeOK, Tasks
      <3>2. CASE task = t
        BY <2>6, <3>2
      <3>3. CASE task # t
        <4>1. buf[c] # Command(task)
          BY <2>1, <3>1, <3>3, CommandsDiffer
        <4>2. \A d \in Children : buf[d] = Command(task) => buf'[d] = Command(task)
          BY <1>2, <4>1
        <4> QED
          BY <2>6, <3>1, <3>3, <4>2 DEF IInv, NothingLost
      <3> QED
        BY <3>2, <3>3
    <2> QED
      BY <1>2, <1>4, <2>8, <2>9, <2>10, <2>11 DEF IInv
  <1>6. CASE ~\E t \in Tasks : buf[c] = Command(t)
    <2>1. unknown' = TRUE /\ executed' = executed
      BY <1>6 DEF Execute
    <2>2. TypeOK'
      BY <1>1, <1>2, <1>3, <2>1 DEF IInv, TypeOK
    <2>3. Traces'
      BY <1>1, <1>2, <2>1 DEF IInv, Traces
    <2>4. backlog' > READ_MAX /\ ~(backlog' <= READ_MAX) /\ ~(backlog' <= COMMAND)
      <3>1. ~(backlog <= READ_MAX) /\ backlog \in Nat
        BY <1>1, <1>6, ProcessPoolAssumption DEF IInv, TypeOK, WholeCommands
      <3> QED
        BY <1>1, <3>1, ProcessPoolAssumption
    <2>5. WholeCommands' /\ NothingLost'
      BY <2>4 DEF WholeCommands, NothingLost
    <2> QED
      BY <1>2, <1>4, <2>2, <2>3, <2>5 DEF IInv
  <1> QED
    BY <1>5, <1>6

\* A child that dies takes its text with it.
LEMMA ChildDiesKeeps == ASSUME IInv, NEW c \in Children, ChildDies(c) PROVE IInv'
  <1>1. /\ child' = [child EXCEPT ![c] = "dead"] /\ buf' = [buf EXCEPT ![c] = <<>>] /\ death'
        /\ UNCHANGED <<fifo, writing, submitted, executed, unknown, backlog>> /\ death' \in BOOLEAN
    BY DEF ChildDies, poolVars
  <1>2. /\ OnePlace' /\ buf' \in [Children -> Seq(Byte)]
        /\ buf'[c] = <<>> /\ \A d \in Children \ {c} : buf'[d] = buf[d]
        /\ \A d \in Children : Len(buf'[d]) <= COMMAND
        /\ \A task : Present(task)' => Present(task)
    BY <1>1, BufferEmptied
  <1>3. /\ child'[c] = "dead" /\ \A d \in Children \ {c} : child'[d] = child[d]
        /\ child' \in [Children -> {"reading", "busy", "dead"}]
    BY <1>1 DEF IInv, TypeOK
  <1>4. TypeOK'
    BY <1>1, <1>2, <1>3 DEF IInv, TypeOK
  <1>5. Stream' /\ IdleIsEmpty' /\ WholeCommands' /\ NothingLost'
    BY <1>1, <1>2, <1>3 DEF IInv, Stream, IdleIsEmpty, WholeCommands, NothingLost
  <1>6. Traces'
    BY <1>1, <1>2 DEF IInv, Traces
  <1> QED
    BY <1>2, <1>4, <1>5, <1>6 DEF IInv

-----------------------------------------------------------------------------
(* The results. *)

\* Every step of the submitters and of the children keeps the invariant.
LEMMA InvariantStep == IInv /\ [Next]_vars => IInv'
  <1> SUFFICES ASSUME IInv, [Next]_vars PROVE IInv'
    OBVIOUS
  <1>1. CASE \E t \in Threads : SubmitBegin(t) \/ SubmitWrite(t)
    BY <1>1, SubmitBeginKeeps, SubmitWriteKeeps
  <1>2. CASE \E c \in Children : Read(c) \/ Execute(c) \/ ChildDies(c)
    BY <1>2, ReadKeeps, ExecuteKeeps, ChildDiesKeeps
  <1>3. CASE UNCHANGED vars
    <2> USE <1>3 DEF vars, poolVars, history, IInv
    <2>1. TypeOK'
      BY DEF TypeOK
    <2>2. \A task : Present(task)' <=> Present(task)
      BY DEF Present
    <2>3. Traces'
      BY <2>2 DEF Traces
    <2> QED
      BY <2>1, <2>3 DEF Stream, IdleIsEmpty, OnePlace, WholeCommands, NothingLost
  <1> QED
    BY <1>1, <1>2, <1>3 DEF Next

\* The invariant holds in every state.
THEOREM InvariantHolds == Spec => []IInv
  BY InitHolds, InvariantStep, PTL DEF Spec

\* However the children of the pool compete for the pipe, whatever a read cuts and whichever
\* child dies, no task is executed twice, nor executed and still under way.
THEOREM NoTaskTwice == Spec => []ExecutedOnce
  <1>1. IInv => ExecutedOnce
    <2> SUFFICES ASSUME IInv, NEW task \in Tasks
                 PROVE  executed[task] + (IF UnderWay(task) THEN 1 ELSE 0) <= 1
      BY DEF IInv, ExecutedOnce
    <2> DEFINE waiting == {k \in 1 .. Len(fifo) : fifo[k].task = task}
    <2>1. executed[task] \in 0 .. 1
      BY DEF IInv, Traces
    <2>2. CASE executed[task] = 1
      <3>1. ~Present(task) /\ \A t \in Threads : writing[t] # task
        BY <2>2 DEF IInv, Traces
      <3>2. Cardinality(waiting) # COMMAND
        <4>1. waiting = {}
          BY <3>1 DEF Present
        <4> QED
          BY <4>1, FS_EmptySet, ProcessPoolAssumption
      <3>3. \A c \in Children : buf[c] # Command(task)
        <4> SUFFICES ASSUME NEW c \in Children, buf[c] = Command(task) PROVE FALSE
          OBVIOUS
        <4>1. buf[c][1] = [task |-> task, byte |-> 1] /\ 1 \in 1 .. Len(buf[c])
          BY CommandIs
        <4>2. buf[c][1].task = task
          BY <4>1
        <4> QED
          BY <3>1, <4>1, <4>2 DEF Present
      <3> QED
        BY <2>2, <3>1, <3>2, <3>3 DEF UnderWay
    <2>3. CASE executed[task] = 0
      BY <2>3
    <2> QED
      BY <2>1, <2>2, <2>3
  <1> QED
    BY <1>1, InvariantHolds, PTL

\* A text is garbled, and a task lost, only when commands had piled up in the pipe or a
\* child has died.
THEOREM NoLossUnlessBacklog == Spec => []NoLossWithoutBacklog
  <1>1. IInv => GarbledOnlyByBacklog
    <2> SUFFICES ASSUME IInv,
                        unknown \/ \E c \in Children :
                          child[c] = "busy" /\ ~\E t \in Tasks : buf[c] = Command(t)
                 PROVE  backlog > READ_MAX
      BY DEF GarbledOnlyByBacklog
    <2>1. ~(backlog <= READ_MAX) /\ backlog \in Nat
      BY ProcessPoolAssumption DEF IInv, TypeOK, WholeCommands
    <2> QED
      BY <2>1, ProcessPoolAssumption
  <1>2. IInv => (backlog <= COMMAND /\ ~death =>
                   \A task \in 1 .. submitted : executed[task] = 1 \/ UnderWay(task))
    <2> SUFFICES ASSUME IInv, backlog <= COMMAND, ~death, NEW task \in 1 .. submitted
                 PROVE  executed[task] = 1 \/ UnderWay(task)
      OBVIOUS
    <2>1. task \in Tasks
      BY ProcessPoolAssumption DEF IInv, TypeOK, Tasks
    <2>2. CASE fifo = Command(task)
      <3>1. {k \in 1 .. Len(fifo) : fifo[k].task = task} = 1 .. COMMAND
        <4>1. Len(fifo) = COMMAND /\ \A k \in 1 .. COMMAND : fifo[k] = [task |-> task, byte |-> k]
          BY <2>1, <2>2, CommandIs
        <4> QED
          BY <4>1
      <3>2. Cardinality(1 .. COMMAND) = COMMAND
        <4>1. 1 \in Int /\ COMMAND \in Int /\ ~(1 > COMMAND) /\ COMMAND - 1 + 1 = COMMAND
          BY ProcessPoolAssumption
        <4> QED
          BY <4>1, FS_Interval
      <3> QED
        BY <3>1, <3>2 DEF UnderWay
    <2>3. CASE fifo # Command(task)
      BY <2>3 DEF IInv, NothingLost, UnderWay
    <2> QED
      BY <2>2, <2>3
  <1>3. IInv => NoLossWithoutBacklog
    BY <1>1, <1>2 DEF NoLossWithoutBacklog
  <1> QED
    BY <1>3, InvariantHolds, PTL
=============================================================================
