------------------------------ MODULE Pipeline ------------------------------
(***************************************************************************)
(* The gateway's data path.  The main thread (the poll event loop) turns   *)
(* UDP datagrams and IPC client messages into readings and pushes them     *)
(* into the ring `data_queue`; the cloud thread takes them out in batches  *)
(* and uploads each batch in one HTTP request.                             *)
(*                                                                         *)
(* The two threads share the ring, `queue_mutex` (which guards the ring's  *)
(* slots and indices) and the counting semaphore `data_sem`, which is      *)
(* posted AFTER the mutex is released and is consumed BEFORE the mutex is  *)
(* taken (sem_wait) or while it is held (sem_trywait).  Nothing in the     *)
(* code compares queue_head with queue_tail before taking a record: that   *)
(* the ring is not empty follows from the semaphore alone.                 *)
(***************************************************************************)
EXTENDS Integers, Sequences, FiniteSets

CONSTANTS
  MAX_QUEUE_SIZE,   \* slots of data_queue (gateway.h: 1024)
  BATCH_MAX,        \* records uploaded in one request (50)
  Sensors,          \* sensor ids; 0, a free entry's id, is Blackboard's subject
  TEMP_ID, HUM_ID,  \* 16790 and 16789, the ids of a combined datagram
  Values,           \* readings a sensor may report
  NoValue,          \* -999.0, what the blackboard answers for an unknown id
  MAX_SENSORS,      \* entries of the blackboard (100)
  MaxAccepted       \* bound: records accepted into the ring in a behaviour

Reading == [id : Sensors, data : Values]

\* A slot of the zero-initialised global array that was never written.
ZeroReading == [id |-> 0, data |-> 0]

ASSUME PipelineAssumption ==
  /\ MAX_QUEUE_SIZE \in Nat /\ MAX_QUEUE_SIZE >= 2
  /\ BATCH_MAX \in Nat /\ BATCH_MAX >= 1
  /\ TEMP_ID \in Sensors /\ HUM_ID \in Sensors
  /\ NoValue \notin Values
  /\ MAX_SENSORS \in Nat
  /\ MaxAccepted \in Nat
  /\ IsFiniteSet(Sensors) /\ 0 \notin Sensors

VARIABLES
  data_queue, queue_head, queue_tail,   \* the ring
  queue_mutex,                          \* the thread that holds it, or "free"
  data_sem,                             \* value of the counting semaphore
  pcMain,                               \* where the event loop is
  pending,                              \* readings of the event being handled
  via,                                  \* the event's source, "udp" or "ipc"
  pcCloud,                              \* where the cloud thread is
  batch,                                \* its local array batch[0..count-1]
  shared_mem,                           \* the blackboard: latest value per id
  accepted,                             \* history: records pushed, in order
  taken                                 \* history: records dequeued so far

mainVars  == <<pcMain, pending, via>>
cloudVars == <<pcCloud, batch>>
ringVars  == <<data_queue, queue_head, queue_tail>>
syncVars  == <<queue_mutex, data_sem>>
history   == <<accepted, taken>>
vars == <<ringVars, syncVars, mainVars, cloudVars, shared_mem, history>>

Slots == 0 .. MAX_QUEUE_SIZE - 1

\* (index + 1) % MAX_QUEUE_SIZE
Succ(i) == (i + 1) % MAX_QUEUE_SIZE

Init ==
  /\ data_queue = [i \in Slots |-> ZeroReading]
  /\ queue_head = 0 /\ queue_tail = 0
  /\ queue_mutex = "free" /\ data_sem = 0
  /\ pcMain = "poll" /\ pending = <<>> /\ via = "udp"
  /\ pcCloud = "wait" /\ batch = <<>>
  /\ shared_mem = [s \in Sensors |-> NoValue]
  /\ accepted = <<>> /\ taken = 0

-----------------------------------------------------------------------------
(* The operations on the shared objects, each preceded by a mutant of it. *)

Lock(thread) == queue_mutex = "free" /\ queue_mutex' = thread
Unlock       == queue_mutex' = "free"

\* sem_post(&data_sem)
Post == data_sem' = data_sem + 1

UnitNotTaken == UNCHANGED data_sem

\* What sem_wait waits for and sem_trywait tries.
TakeUnit == data_sem > 0 /\ data_sem' = data_sem - 1

\* next_head == queue_tail
Full == Succ(queue_head) = queue_tail

\* Write the slot at the head, then advance the head.
Store(r) ==
  /\ data_queue' = [data_queue EXCEPT ![queue_head] = r]
  /\ queue_head' = Succ(queue_head)
  /\ UNCHANGED queue_tail

FetchAfterAdvance ==
  /\ queue_tail' = Succ(queue_tail)
  /\ batch' = Append(batch, data_queue[Succ(queue_tail)])
  /\ taken' = taken + 1
  /\ UNCHANGED <<data_queue, queue_head>>

\* batch[count++] = data_queue[queue_tail], then advance the tail.
Fetch ==
  /\ batch' = Append(batch, data_queue[queue_tail])
  /\ queue_tail' = Succ(queue_tail)
  /\ taken' = taken + 1
  /\ UNCHANGED <<data_queue, queue_head>>

\* Ids the blackboard holds a value for.
Known == {s \in Sensors : shared_mem[s] # NoValue}

\* update_shared_sensor_data: replace the entry, or add one while there is room.
UpdateBlackboard(r) ==
  shared_mem' = IF r.id \in Known \/ Cardinality(Known) < MAX_SENSORS
                  THEN [shared_mem EXCEPT ![r.id] = r.data]
                  ELSE shared_mem

-----------------------------------------------------------------------------
(* The main thread. *)

\* What a datagram parses to: both readings of the combined JSON form, one
\* reading of the older forms, nothing when the format is unknown.
Datagrams ==
  {<<>>}
  \union {<<r>> : r \in Reading}
  \union {<<[id |-> TEMP_ID, data |-> t], [id |-> HUM_ID, data |-> h]>> :
             t \in Values, h \in Values}

\* Where the handler goes once `rest` is what is left to push.
Continue(rest) ==
  /\ pending' = rest
  /\ pcMain' = IF rest = <<>> THEN "poll" ELSE "lock"

\* handle_udp_read: recvfrom, the token bucket's verdict, the parse.
HandleUdpRead(datagram, allowed) ==
  /\ pcMain = "poll"
  /\ Len(accepted) + Len(datagram) <= MaxAccepted
  /\ via' = "udp"
  /\ Continue(IF allowed THEN datagram ELSE <<>>)
  /\ UNCHANGED <<ringVars, syncVars, cloudVars, shared_mem, history>>

\* A message read from an IPC client.  A read shorter than the structure leaves
\* the rest of it uninitialised, so the reading may be any one.
HandleClientRead(reading) ==
  /\ pcMain = "poll"
  /\ Len(accepted) + 1 <= MaxAccepted
  /\ via' = "ipc"
  /\ Continue(<<reading>>)
  /\ UNCHANGED <<ringVars, syncVars, cloudVars, shared_mem, history>>

MainLock ==
  /\ pcMain = "lock"
  /\ Lock("main")
  /\ pcMain' = "push"
  /\ UNCHANGED <<ringVars, data_sem, pending, via, cloudVars, shared_mem, history>>

Enqueue ==
  /\ pcMain = "push"
  /\ ~Full
  /\ Store(Head(pending))
  /\ accepted' = Append(accepted, [reading |-> Head(pending), via |-> via])
  /\ pcMain' = "unlock"
  /\ UNCHANGED <<syncVars, pending, via, cloudVars, shared_mem, taken>>

RefuseSpins == pcMain = "push" /\ Full /\ UNCHANGED vars

\* The ring is full: the record is dropped, and so is its publication.
Refuse ==
  /\ pcMain = "push"
  /\ Full
  /\ Unlock
  /\ Continue(Tail(pending))
  /\ UNCHANGED <<ringVars, data_sem, via, cloudVars, shared_mem, history>>

MainUnlock ==
  /\ pcMain = "unlock"
  /\ Unlock
  /\ pcMain' = "post"
  /\ UNCHANGED <<ringVars, data_sem, pending, via, cloudVars, shared_mem, history>>

PublishesAlways == TRUE

\* Only the UDP handler goes on to the blackboard.
Publishes == via = "udp"

SemPost ==
  /\ pcMain = "post"
  /\ Post
  /\ IF Publishes THEN pcMain' = "publish" /\ UNCHANGED pending
                  ELSE Continue(Tail(pending))
  /\ UNCHANGED <<ringVars, queue_mutex, via, cloudVars, shared_mem, history>>

Publish ==
  /\ pcMain = "publish"
  /\ UpdateBlackboard(Head(pending))
  /\ Continue(Tail(pending))
  /\ UNCHANGED <<ringVars, syncVars, via, cloudVars, history>>

MainStep == MainLock \/ Enqueue \/ Refuse \/ MainUnlock \/ SemPost \/ Publish

-----------------------------------------------------------------------------
(* The cloud thread. *)

SemWait ==
  /\ pcCloud = "wait"
  /\ TakeUnit
  /\ pcCloud' = "lock"
  /\ UNCHANGED <<ringVars, queue_mutex, mainVars, batch, shared_mem, history>>

\* SIGHUP is caught without SA_RESTART: delivered to the cloud thread while it
\* sleeps in sem_wait, the call fails with EINTR, and its result is ignored.
SemWaitInterrupted ==
  /\ pcCloud = "wait"
  /\ data_sem = 0
  /\ pcCloud' = "lock"
  /\ UNCHANGED <<ringVars, syncVars, mainVars, batch, shared_mem, history>>

CloudLock ==
  /\ pcCloud = "lock"
  /\ Lock("cloud")
  /\ pcCloud' = "first"
  /\ UNCHANGED <<ringVars, data_sem, mainVars, batch, shared_mem, history>>

\* The record that sem_wait announced is taken unconditionally.
TakeFirst ==
  /\ pcCloud = "first"
  /\ Fetch
  /\ pcCloud' = "drain"
  /\ UNCHANGED <<syncVars, mainVars, shared_mem, accepted>>

RoomForOneMore == Len(batch) <= BATCH_MAX

\* count < 50
Room == Len(batch) < BATCH_MAX

\* One turn of: while (count < 50 && sem_trywait(&data_sem) == 0)
Drain ==
  /\ pcCloud = "drain"
  /\ Room
  /\ TakeUnit
  /\ Fetch
  /\ UNCHANGED <<queue_mutex, pcCloud, mainVars, shared_mem, accepted>>

CloudUnlock ==
  /\ pcCloud = "drain"
  /\ ~Room \/ data_sem = 0
  /\ Unlock
  /\ pcCloud' = "connect"
  /\ UNCHANGED <<ringVars, data_sem, mainVars, batch, shared_mem, history>>

\* A step of the upload, which touches nothing the main thread uses.
Upload(from, to) ==
  /\ pcCloud = from /\ pcCloud' = to
  /\ UNCHANGED <<ringVars, syncVars, mainVars, shared_mem, accepted, taken>>

\* `continue` or the end of the loop's body: the next batch starts empty.
SocketFails  == Upload("connect", "wait")     /\ batch' = <<>>
ConnectFails == Upload("connect", "backoff")  /\ UNCHANGED batch
BackoffEnds  == Upload("backoff", "wait")     /\ batch' = <<>>
WriteFails   == Upload("connect", "check")    /\ UNCHANGED batch
WriteRequest == Upload("connect", "response") /\ UNCHANGED batch

\* read() returns: 200 OK, another status or nothing; all three end in close.
ReadResponse == Upload("response", "check")   /\ UNCHANGED batch

\* queue_head == queue_tail is read without the mutex: sleep(2) when equal.
CheckIdle ==
  /\ Upload("check", IF queue_head = queue_tail THEN "sleep" ELSE "wait")
  /\ batch' = <<>>

SleepEnds == Upload("sleep", "wait") /\ UNCHANGED batch

CloudStep ==
  \/ SemWait \/ CloudLock \/ TakeFirst \/ Drain \/ CloudUnlock
  \/ SocketFails \/ ConnectFails \/ BackoffEnds \/ WriteRequest \/ WriteFails
  \/ ReadResponse \/ CheckIdle \/ SleepEnds

-----------------------------------------------------------------------------
Next ==
  \/ \E d \in Datagrams, allowed \in BOOLEAN : HandleUdpRead(d, allowed)
  \/ \E r \in Reading : HandleClientRead(r)
  \/ MainStep
  \/ CloudStep

Spec == Init /\ [][Next]_vars

\* The same system when the kernel may choose the cloud thread for a SIGHUP.
SpecWithSighup == Init /\ [][Next \/ SemWaitInterrupted]_vars

\* Both threads keep running; a thread that waits for the mutex gets it if the
\* mutex becomes free again and again; connect() and read() return.
Fairness ==
  /\ WF_vars(MainStep) /\ SF_vars(MainLock)
  /\ WF_vars(CloudStep) /\ SF_vars(CloudLock)

FairSpec == Spec /\ Fairness

-----------------------------------------------------------------------------
(* What must hold. *)

TypeOK ==
  /\ data_queue \in [Slots -> Reading \union {ZeroReading}]
  /\ queue_head \in Slots /\ queue_tail \in Slots
  /\ queue_mutex \in {"free", "main", "cloud"}
  /\ data_sem \in Nat
  /\ pcMain \in {"poll", "lock", "push", "unlock", "post", "publish"}
  /\ pending \in Seq(Reading)
  /\ via \in {"udp", "ipc"}
  /\ pcCloud \in {"wait", "lock", "first", "drain", "connect", "backoff",
                  "response", "check", "sleep"}
  /\ batch \in Seq(Reading \union {ZeroReading})
  /\ shared_mem \in [Sensors -> Values \union {NoValue}]
  /\ accepted \in Seq([reading : Reading, via : {"udp", "ipc"}])
  /\ taken \in Nat

\* Records between the tail and the head.
RingLength ==
  IF queue_head >= queue_tail THEN queue_head - queue_tail
                              ELSE queue_head - queue_tail + MAX_QUEUE_SIZE

\* A record pushed whose sem_post is still to come, and a unit of the semaphore
\* taken whose record is still in the ring.
Unposted == IF pcMain \in {"unlock", "post"} THEN 1 ELSE 0
Claimed  == IF pcCloud \in {"lock", "first"} THEN 1 ELSE 0

\* The mutex is held by the thread that is between lock and unlock, so the two
\* are never both there.
MutexHeldByOwner ==
  /\ (queue_mutex = "main")  <=> (pcMain \in {"push", "unlock"})
  /\ (queue_mutex = "cloud") <=> (pcCloud \in {"first", "drain"})

\* The semaphore and the ring agree: every record in the ring is announced by a
\* unit of the semaphore, is about to be, or was claimed by the cloud thread.
\* The code relies on it when it dequeues without looking at the head.
SemaphoreCountsRing == RingLength = data_sem + Unposted + Claimed

\* The cloud thread never takes a record out of an empty ring: what it took was
\* pushed before, and the ring holds exactly the rest.
NeverTakesUnpushed ==
  /\ taken <= Len(accepted)
  /\ RingLength = Len(accepted) - taken

\* No slot is overwritten while its record waits: the k-th waiting record is in
\* the k-th slot from the tail, in the order of arrival.
WaitingRecordsIntact ==
  \A k \in 0 .. RingLength - 1 :
    data_queue[(queue_tail + k) % MAX_QUEUE_SIZE] = accepted[taken + k + 1].reading

\* The batch on its way to the cloud is the last records taken, in order, each
\* once and none torn or stale.
BatchFaithful ==
  /\ Len(batch) <= BATCH_MAX
  /\ Len(batch) <= taken
  /\ \A k \in 1 .. Len(batch) : batch[k] = accepted[taken - Len(batch) + k].reading

\* Locks, semaphore, ring and batch fit together, whatever the two threads are doing.
RingSafe ==
  /\ TypeOK /\ MutexHeldByOwner
  /\ SemaphoreCountsRing /\ NeverTakesUnpushed
  /\ WaitingRecordsIntact /\ BatchFaithful

\* The last value pushed for sensor s by one of the given sources.
LastPushed(s, sources) ==
  LET pushes == {i \in 1 .. Len(accepted) :
                   accepted[i].reading.id = s /\ accepted[i].via \in sources}
  IN  IF pushes = {} THEN NoValue
      ELSE accepted[CHOOSE i \in pushes : \A j \in pushes : j <= i].reading.data

\* Between two events the blackboard shows, for each sensor it has an entry for,
\* the last reading that the UDP handler pushed: neither a reading the ring
\* refused nor an older one.  A sensor is missing only if it was never pushed or
\* found the blackboard full.
BlackboardFollowsUdp ==
  pcMain = "poll" =>
    \A s \in Sensors :
      \/ shared_mem[s] = LastPushed(s, {"udp"})
      \/ s \notin Known /\ Cardinality(Known) = MAX_SENSORS

\* A record is dropped only when MAX_QUEUE_SIZE - 1 records are really waiting.
Dropped == pcMain = "push" /\ pcMain' # "push" /\ accepted' = accepted
DropOnlyWhenFull ==
  [][Dropped => Len(accepted) - taken = MAX_QUEUE_SIZE - 1]_vars

\* The event loop always comes back to poll: no lock or semaphore operation
\* keeps it away for ever, whatever the cloud thread is doing.
MainReturnsToPoll == []<>(pcMain = "poll")

\* The ring between the threads is a bounded FIFO queue read in batches.
Waiting == [k \in 1 .. RingLength |-> data_queue[(queue_tail + k - 1) % MAX_QUEUE_SIZE]]

Fifo == INSTANCE BatchedFifo WITH
          Item <- Reading, Capacity <- MAX_QUEUE_SIZE - 1, BatchMax <- BATCH_MAX,
          waiting <- Waiting, batch <- batch

ImplementsFifo == Fifo!Spec

\* ... and a fair one: a record that waits is taken, also when the cloud thread
\* decided to sleep on a stale look at the ring, and a batch is disposed of.
ImplementsFairFifo == Fifo!FairSpec

-----------------------------------------------------------------------------
(* What a comment claims and the code, interrupted, does not do. *)

\* cloud_client.c: the thread sleeps as long as the queue holds no data.
SleepsWhileEmpty == pcCloud = "first" => RingLength > 0
=============================================================================
