# IoT edge gateway: TLA+ models, model checking and proofs

This directory holds formal models of the product's three programs (the gateway in
`src/gateway`, the firmware in `src/stm32`, the desktop and the MQTT client it is built on in
`src/loginpro`), the TLC configurations that check them and the proofs that TLAPS checks. The
models follow the code, not its documentation; where a comment of the code promises something
else, section 6 says so.

## 1. The system

Three programs form the product:

* **Firmware** (`src/stm32`): an STM32F103 samples a DHT11 about once a second and
  multicasts the readings over an ESP8266 Wi-Fi module as UDP datagrams.
* **Gateway** (`src/gateway`): a Linux process receives the datagrams, limits their
  rate, queues the readings, uploads them in batches over HTTP, and keeps the latest
  value of each sensor in shared memory for a pool of child processes.
* **Desktop** (`src/loginpro`): a Qt program logs in over TCP, subscribes over MQTT and
  shows values, alarms and trends, which it stores in SQLite. Its MQTT client, qtmqtt, is part
  of the repository.

### 1.1 Inventory of the gateway

| Component | State | Operations | Interacts with |
|---|---|---|---|
| Data path (`udp_server.c`, `cloud_client.c`) | ring `data_queue`, `queue_head`, `queue_tail`, `queue_mutex`, `data_sem` | handle a datagram or a client message; take and upload a batch | token bucket, blackboard, event loop |
| Event loop (`io_multiplexing.c`, `ipc_server.c`) | `fds[]`, `nfds` | poll, accept, read, remove | kernel sockets, data path |
| Token bucket (`token_bucket.c`) | `tb_tokens`, `tb_last_time_ms` | init, consume | wall clock |
| Blackboard (`ipc_modules.c`) | shared table, System V semaphore | update, read, lock, unlock | event loop (writes), children (read) |
| Thread pool (`thread_pool.c`) | ring of tasks, lock, condition, `shutdown` | create, add, worker, destroy | alarm scheduler, tasks |
| Alarm scheduler (`alarm_scheduler.c`) | task table, interval timer | init, add_task, SIGALRM handler, destroy | thread pool |
| Process pool (`process_pool.c`) | named pipe, child pids | init, submit, child loop, destroy | thread pool's tasks, blackboard |
| Start and stop (`main.c`, `daemon.c`) | `is_running` | start in order, SIGTERM/SIGHUP handlers, destroy in order | everything |
| Logger, configuration, password, base64 | log file and `log_mutex`; configuration | write a line; parse | everything |

A reading travels: firmware → UDP socket → event loop → token bucket → parse → ring →
cloud thread → HTTP. On the way the UDP handler writes it to the blackboard. Once per
period the SIGALRM handler adds the heartbeat task to the thread pool; a worker writes a
command into the named pipe; some child reads it and reads the blackboard twice.

### 1.2 What is hard, and what makes each component correct

* *Data path.* The consumer dequeues without comparing head and tail. Right: the
  semaphore, posted outside the mutex, counts the ring exactly; no record is lost, repeated,
  torn or invented; a record is dropped only when the ring is really full.
* *Event loop.* The array is compacted by moving its last slot over the removed one while the
  scan runs over it. Right: it always holds exactly the open descriptors, no descriptor that
  poll reported is passed over, only ready ones are read, a pass ends.
* *Token bucket.* Time is the wall clock. Right: every interval is bounded by a full bucket and
  its refill, and a sender who keeps to the rate is served.
* *Blackboard.* Entries are written field by field, readers may be killed anywhere, signals
  interrupt `semop`. Right: mutual exclusion, atomic reads, an update returns.
* *Thread pool.* Lost wakeups, spurious wakeups, shutdown while tasks wait, freeing. Right: a
  waiting task keeps a worker awake, tasks start in order and once, nothing is used after free.
* *Alarm scheduler.* A signal handler takes a mutex. Right: the handler returns, tasks recur.
* *Process pool.* A pipe has no message boundaries and many readers. Right: a command runs at
  most once; when it is lost or garbled there was a backlog; a submitter is not stuck for ever.
* *Start and stop.* `exit(0)` inside the SIGTERM handler, cancellation of a thread that may hold
  `log_mutex`, the process pool destroyed before the thread pool whose tasks use it.

The complete list, with the line where each hazard bites and the properties that cover it,
is in `PROJECT.json` under `hazards`.

### 1.3 Firmware and desktop

| Component | State | Operations | Hard, and what makes it right |
|---|---|---|---|
| ESP8266 driver (`esp8266.c`, `usart2.c`) | `ok_flag`, `data_flag`, `len_buf`, index | the USART interrupt takes a character; the main loop sends and waits | busy waits without a limit against an interrupt: the handshake and the frames stay in step, the loop goes on unless a character is lost or the module refuses |
| Main loop (`user/main.c`, `dht.c`) | last readings | read the sensor, send temperature, send humidity | what a failed reading leaves behind: what is sent is the last good reading |
| MQTT client (`qmqttconnection.cpp`, `qmqttclient.cpp`) | states of client and connection, four tables by packet identifier, active subscriptions, ping timer, bytes still missing | connect, disconnect, publish, subscribe, unsubscribe; every packet; timer; end of the transport | tables that outlive a connection, packets cut by its end, a peer that vanishes: identifiers have one use, what is subscribed is held by the broker, messages find their subscription, dead peers are noticed |
| Main window (`mainwidget.cpp`) | handlers of the four subscriptions | slots of the client's and the pages' signals | every connection subscribes again: one handler each, pages agree with the client, limits converge |
| Pages (`overviewpage.cpp`, `alarmpage.cpp`, `trendpage.cpp`, `settingspage.cpp`) | needles, lamps, limits, tables, label, chart, data base | values, status, limits, alarms, buttons | any order of status, alarms and clears: the label is true, the chart is current |
| Login (`widget.cpp`, `registerwidget.cpp`) | one socket | request and answer | - |

## 2. Modules

| Module | What it is |
|---|---|
| `Pipeline` | the data path: event loop as producer, cloud thread as consumer |
| `BatchedFifo` | abstract: a bounded FIFO queue read in batches |
| `PipelineProofs` | theorems about `Pipeline` |
| `EventLoop` | the poll loop and its clients |
| `TokenBucket` | the limiter |
| `ReceiverProofs` | theorems about the loop and the limiter |
| `Blackboard`, `BlackboardProofs` | the shared table and its semaphore, and theorems about them |
| `LatestValues` | abstract: a table updated and read atomically |
| `ThreadPool` | workers, `threadpool_add`, `threadpool_destroy` |
| `WorkQueue` | abstract: tasks started in order until the pool is closed |
| `AlarmScheduler`, `AlarmSchedulerProofs` | SIGALRM handler composed with `ThreadPool` (EXTENDS it), and theorems about both |
| `ProcessPool`, `ProcessPoolProofs` | submitters, the pipe, the children, and theorems about them |
| `Lifecycle`, `LifecycleProofs` | start and clean-up of the gateway, signals, children and restarts, and theorems about them |
| `MqttConnection`, `MqttConnectionProofs` | the MQTT client, a broker and the network between, and theorems about them |
| `MqttSession` | abstract: what the client promises its application |
| `DeviceData` | sensors, values and limits, shared by the desktop's pages |
| `OverviewPage`, `AlarmPage`, `TrendPage` | the state and the slots of one page each |
| `Desktop` | the main window: composes the pages (EXTENDS) with `MqttSession` (INSTANCE), a cloud and a user |
| `Esp8266` | the interrupt's recognisers and the Wi-Fi module |
| `Firmware` | `main` of the firmware, composed with `Esp8266` (EXTENDS) |
| `EndpointProofs` | theorems about the two ends of the data path, `Desktop` and `Firmware` |
| `MC*` | the small instances TLC checks |

The correspondence of every definition with lines of the source is `map` in `PROJECT.json`.
In short:

* **Pipeline.** `pcMain` and `pcCloud` are the program counters of the two threads between
  operations on shared objects; a run of code that touches only local data is part of the
  step before it. `HandleUdpRead` stands for `recvfrom`, the token bucket's verdict and the
  parse: a datagram is the sequence of readings it parses to (none, one, or temperature and
  humidity). `HandleClientRead` is the IPC branch of the event loop, which pushes in the same
  way but does not go to the blackboard (`Publishes`). `Full`, `Store`, `Fetch`, `Post`,
  `TakeUnit` are the lines of the ring and the semaphore. `accepted` and `taken` are history
  variables. The cloud thread's upload keeps every early exit (socket, connect, write, read)
  and the unlocked comparison that decides whether it sleeps (`CheckIdle`).
* **EventLoop.** `fds` is the array with each slot's descriptor and POLLIN flag, `i` the scan's
  index. The kernel's side (a client connects, sends, leaves; a datagram arrives) is
  independent of the loop. A slot filled by `accept` keeps the flag its last owner left.
* **TokenBucket.** Tokens in thousandths, so that RATE tokens a second are RATE thousandths
  a millisecond; the code's double differs by rounding only. The clock passes, and is adjusted
  by the amounts in `Steps`.
* **Blackboard.** One action per access of an entry's field under the lock. `sem` and `undo` are
  the semaphore and the kernel's semadj. A report with id 0 is possible (an unknown id
  parses to 0) and is written into the first free entry, which stays free. The time stamp,
  which nothing reads, is omitted. A child's memory is reset when a command is done or it dies.
* **ThreadPool.** One action per critical section: it is entered by an action of its own
  (`Acquire`, `AddLock`, `DestroyLock`), so that what another thread does between is seen. A
  worker or the main thread that runs a signal handler is suspended (`Interrupted`).
* **AlarmScheduler.** `Tick` raises SIGALRM, `Deliver` picks the thread, `Scan` is one turn of
  the handler's loop, `Disarm` and `Destroy` are the shutdown. The constant `Callers` says to
  which threads the kernel may deliver.
* **ProcessPool.** The pipe is a sequence of bytes, each marked with its command and position;
  a read takes up to `READ_MAX` of them and is cut at the first newline.
* **Lifecycle.** `Script` is `main` from the daemon's start to its return as a sequence of
  steps, `pc` where each execution is in it. A lock is held by its process, the FIFO's path,
  its descriptors and the shared memory outlive it; `child` follows each child through the
  `open` that waits for a writer, `reads` and `inherited` say on which FIFO it reads and which
  write end it got from its parent. `SignalHandler` is `exit(0)` at any step. The cloud thread
  and a worker are reduced to what the start and the end meet: a thread that logs, a thread
  that submits.
* **MqttConnection.** A handler runs to its end before the next event, so there is one action
  per call of the application, per packet, per timer tick and per event of the socket. A packet
  is a header and a body, read one at a time: every segmentation of the stream. The identifiers
  wrap at `MaxId`. The tables by identifier, the subscriptions and the ping counter are as in
  `QMqttConnection`; `restored` is the flag of CONNACK. The broker and the network are external:
  the broker answers in order, may refuse, may continue a session and then repeats what was not
  acknowledged; the transport may end or fall silent at any moment. The error code the client
  reports is left out.
* **Desktop.** One action per slot. The client is `MqttSession`, which `MqttConnection` is shown
  to implement. `toCloud` and `toDesktop` are the threshold messages on their way; the cloud
  retains the last one. `handlers` lists the slots that are connected to the subscription object
  of each topic; `Hung` is a disconnect that could not be sent.
* **Pages.** `Animate` is one tick of the gauge's timer, `Drawn` what one reading does to the chart,
  whose seconds are the wall clock's; `Second` lets it pass and `ClockSetBack` puts it back, which the
  history variable `setBack` remembers until the chart is emptied. `Rotated` is the data base's limit,
  `Alarms` the alarm and history tables.
* **Firmware.** `Program` is the list of the calls `main` makes, flattened into sends, clears of
  `ok_flag`, waits, delays and the sensor's reading; `pc` is the place in it. The interrupt is
  `dataHandler`, character by character; characters no comparison names are one character. The
  module is external and answers as the driver expects, or refuses; a character may be lost. A
  datagram may be longer than `data_buf`: a character stored behind a buffer sets `overflow` and ends
  the behaviour, since nothing is known of the memory it fell on.

## 3. Runs

All runs use breadth-first search over the complete state space. `PROJECT.json` lists for each
property a mutated definition under which TLC finds it violated.

| Run | Instance | States | What it shows |
|---|---|---|---|
| `pipeline` | ring of 4, batch of 2, 2 sensors, 1 value, blackboard of 1, 5 records | 349 247 | mutual exclusion, exact semaphore, nothing phantom, torn or repeated (`RingSafe`); the blackboard follows UDP; a fair bounded FIFO, so nothing is dropped without need; main always returns to poll |
| `event_loop` | 3 clients, array of 4, 1 unread message each | 63 651 | array exact, every reported descriptor served, every pass ends |
| `alarm_scheduler` | 2 workers, 2 tasks (periods 2 and 3), queue of 2 | 46 514 | lock, ring, no lost wakeup, no use after free (`PoolSafe`); order; tasks recur; shutdown ends |
| `token_bucket` | 2 tokens, 0.4 tokens a ms, 12 ms, 7 datagrams, clock steps −6, −2, 1, 6 | 461 570 | rate bound under any adjustment; only excess refused until the clock is put back |
| `blackboard` | 2 children that may die, 3 sensors and id 0, table of 2, 2 values | 65 080 | one inside, no lost update (`BoardSafe`); atomic table; updates return |
| `process_pool` | 2 submitters, 2 children (one may die), commands of 2 bytes, reads of 5, pipe of 7, 5 commands | 11 983 | at most once, loss and garbling need a backlog, submitters return while a child lives |
| `lifecycle` | 2 executions, 2 children each | 33 966 | heartbeats find their own FIFO; a clean end leaves nothing; orphans end; the clean-up ends unless the log's mutex is lost |
| `mqtt` | 1 topic, QoS 1 and 2, 3 identifiers, 2 connections, 2 exchanges, 1 incoming message, with and without a clean session | 423 258 | packets in step; one use per identifier; `messageSent` only for what the broker has; subscribed means held; messages are heard; dead peers noticed; a session to the application |
| `desktop` | 2 topics, 2 configurations (one names a topic twice), 2 connections, 2 messages, 1 edit, a clock of 2 seconds that may be put back | 1 957 268 | pages agree; one handler each; limits converge; chart current; label true |
| `firmware` | a payload that begins like an answer and one that is too long, buffers of 5 and 2, 2 values and a wrong checksum | 3 705 116 | handshake and frames in step; datagrams alternate and carry the last good reading; the loop goes on |
| `event_loop_stale`, `thread_pool_destroy` | the instances of `event_loop`, and of the pool alone | | counterexamples, see section 6 |

**Why the bounds are enough.** The ring of 4 slots holds 3 records, becomes full, wraps and is
refilled by 5 records; the limit of 2 records a batch cuts a longer queue and is also left short.
Records are told apart by their sensor; that a later reading replaces an earlier one is left to
`blackboard`, which has two values. Two sensors and a blackboard of one entry meet the full table.
The array of 4 has the two listening sockets and room for 2 of the 3 clients, so that a client is
turned away and the moved slot is another client. Two workers and a queue of 2 meet the full
queue, the empty queue and two sleepers. The clock is put back by more than it takes to fill the
bucket. Reads of 5 bytes over commands of 2 end inside a command, and the pipe of 7 is full with 3
commands. Two executions of the gateway meet every pair of what one leaves and what the next does.
Three identifiers wrap and collide with the table of an earlier connection as soon as a subscription,
its end and a message are under way; two connections meet a restored session, a lost one and a cut
packet. The desktop's second configuration names the same topic for both sensors; one alarm fills the
alarm table, two points the chart, one row the data base, and a limit above the spin box's range is
among those the cloud may set. The clock of two seconds is put back between two
points, which then stand in the wrong order; that a full chart reaches back further than a window takes
a third message, which only the theorem covers. The firmware's data buffer of 2 is filled by one payload
to its last place and overrun by the other, and `LEN_BUF` is the code's.
`MaxAccepted`, `MaxClock`, `MaxPassed`, `MaxTasks`, `MaxUnread` and `MaxDatagrams` only
make behaviours finite; the theorems of section 5 do not depend on them.

`CHECK_DEADLOCK FALSE` stands where the system may stop: the pool is destroyed, the bound on
time, datagrams, connections or messages is reached, all commands have been submitted, both
executions have ended, the firmware waits for a character that was lost. In `pipeline` and
`event_loop` deadlock is checked: some thread can always go on.

## 4. Fairness

* Threads that can run do run (weak fairness of each thread's step): nothing in the code
  suspends them, and the scheduler of Linux serves every runnable thread.
* A thread that asks for a mutex or a semaphore again and again gets it (strong fairness of the
  lock steps): waiters on futexes and System V semaphores are queued. The code relies on it.
* `connect` and `read` of the cloud thread return, by success or failure. The socket has no
  timeout: this is an assumption on the peer (hazard `cloud_client.c:96`).
* The timer keeps firing while it is armed; tasks return.
* The ping timer of the MQTT client fires while it runs; nothing else of the client, the broker or
  the network is fair. `Desktop` states no fairness: its properties are safety properties.
* Firmware: the processor runs, the interrupt is taken, the module answers what it was asked.
* `Lifecycle`: every thread and every child runs; a worker that waits for the log's mutex gets it
  if it becomes free again and again.
* The environment (datagrams, clients, deaths, SIGHUP, clock adjustments) is never fair:
  nothing must arrive. In `EventLoop` only the loop itself is fair.
* Signals that interrupt a system call are in variant specifications of their own
  (`SpecWithSighup`, `SpecWithSigalrm`, `MCAnyThread`); section 6 says what they break.

## 5. Proofs

**`PipelineProofs`** (for every ring size, batch size, set of sensors and values). None of the
properties is inductive alone. The inductive invariant is the conjunction of type correctness,
which program counters go with which local data, mutual exclusion, the accounting
`RingLength = data_sem + Unposted + Claimed`, `RingLength = Len(accepted) - taken`, the
positions of the waiting records and the content of the batch. The accounting is the centre: it
says that the cloud thread's `sem_wait` has claimed a record that is still in the ring, hence
that `Fetch` reads a waiting slot; the positions then say which record it is. The proof has one
step per action; the two that move the ring (`EnqueueStep`, `FetchStep`) rest on lemmas about
walking a circle (`SuccInSlots`, `SlotAfter`, `HeadSlot`). Theorems: `TypeCorrect`,
`MutualExclusion`, `SemaphoreIsExact`, `RingIsSafe`, `NoPhantomRecord`, `ConsumerFindsRecord`,
`RecordsIntact`, `BatchesFaithful`, `DropsOnlyWhenFull`, and `RingImplementsFifo`, the refinement
of `BatchedFifo!Spec`. `ConsumerFindsRecord` is what fails once `sem_wait` may be interrupted
(`SpecWithSighup`). `BlackboardIsCurrent` is a second invariant on top of this one (`BoardInv`): of
the readings the UDP handler pushed for a sensor the blackboard shows the last, and the only one it
may still miss is the reading the main thread has pushed and, with the lock given back, not yet
published. A sensor that is not on a full blackboard never gets onto it.

**`ReceiverProofs`** covers the loop and the limiter its UDP handler asks. *The loop*, for every set of
clients and every length of the array: what poll reported and
the scan has not reached is in a flagged slot at the scan's index or behind it (`ReportedIsAhead`);
with the compact array (`ArrayCompact`) this is inductive. `ReadEndKeeps` is the case the code could
get wrong: the last slot moves to the index, which must be looked at again. Theorems:
`ArrayIsExact`, `NobodyIsPassedOver`.

*The limiter*, for every capacity, rate and set of adjustments: `RateBound` forgets how
many tokens are left; the invariant `Covered` says that what passed since any datagram, plus
the level after the refill that is due, stays within the supply. `Exact` says that, until the
clock is put back, some datagram meets this with equality unless the bucket is full; it gives
`RefusesOnlyExcess`. Theorems: `BucketTypeCorrect`, `RateIsBounded`, `OnlyExcessIsRefused`.

**`AlarmSchedulerProofs`** (for every number of workers and tasks, every period, every queue size,
and every set of threads to which SIGALRM may be delivered). `PoolSafe` needs three facts more to be
inductive: a call of `threadpool_add` carries a task (`JobsAreTasks`), a worker does not hold the lock
while its own handler does (`HandlerApart`), and how far the shutdown is decides what may still happen
(`ShutdownInOrder`: once the timer is disarmed the main thread gets no signal, and a worker that has
exited runs no handler). The steps that turn the ring use that `%` over one turn is a subtraction
(`SlotAfter`). `PoolImplementsWorkQueue` is the refinement of `WorkQueue!Spec` with the waiting tasks
read off the ring from `head`: a push appends, a worker's turn takes the first, the rest stutters; it
needs that a task runs only at a worker that is running (`RunningTasks`). `DestroyStep` is where the
order in `threadpool_destroy` matters: the joins precede the freeing.

**`BlackboardProofs`** (for every table size, set of sensors, values and readers, any of which may die).
The invariant of `BoardSafe` adds that the kernel's undo count is 1 exactly for who is inside
(`UndoOfHolders`; it makes the death of a holder give back one unit and no more), what the writer
knows between its steps (`MainKnows`) and that the entry a reader has found is still its sensor's
(`ChildrenKnow`). The search returns the least entry, which exists by well-foundedness (`FirstFinds`).
`BoardImplementsLatestValues` is the refinement of `LatestValues`: writing the value is the update,
the id written before it changes nothing visible, the copy in the reader is the read. That a table
with a fresh entry has room for its sensor is a count: the first entries of the known sensors are an
injection into the other slots (`RoomIsLeft`).

**`LifecycleProofs`** (for every number of executions and children). One program runs, the one that has
the lock of the pid file; its place in `Script` says what it has made (`Resources`) and whatever exists
was made by one that runs or was killed (`Leftovers`). The proof has one lemma per step of `main`
(`StepKeeps` does what they share); `ScriptIs` computes `Script` once. Theorems:
`HeartbeatFindsFifo`, `NothingIsLeft`.

**`ProcessPoolProofs`** (for every number of threads, children and tasks, every length of a command and
of the pipe, every read that holds a command). The pipe's bytes count up to a newline and start
again (`Stream`), so that what precedes the first newline is the end of one command
(`FirstNewline`, which takes the least one by well-foundedness). Each byte is in one place, the pipe or
one child's buffer (`OnePlace`), and a task leaves no byte behind when it was executed
(`Traces`); hence `NoTaskTwice`, whoever reads and whoever dies. While all that waits fits into one read
the pipe begins with a whole command (`WholeCommands`), and while at most one command waits the read
drops nothing (`NothingLost`); hence `NoLossUnlessBacklog`.

**`MqttConnectionProofs`** (for every number of identifiers above one, of connections, messages and
subscriptions, and every set of topics). The argument has four layers, each inductive over the one
before it.

1. *Types* of all variables and of the packets in the two streams (`TypesStep`, an inductive invariant
   by itself), with `Apart`: an identifier is put into a table only when none has it
   (`UnusedIsFreeIfAny`, which covers the wrap of the counter), and PUBREC moves it from one table to
   another. This gives `OneUse`.
2. *`Base`*: state, internal state and socket agree (`Phases`); the stream is headers followed by their
   bodies, cut after a header exactly when `missing` (`Framed`); CONNECT and CONNACK come once and
   first (`Handshake`). This gives the refinement of `MqttSession` (`ClientIsSession`).
3. *Counting.* `Traffic` counts the requests with an identifier on their way to the broker and the
   answers on their way back. It never exceeds one, and none is under way for an identifier whose
   table entry is empty (`Exchanges`): a request is written with a fresh identifier, the broker turns it
   into one answer, the answer empties the entry, and the loss of the connection empties the streams
   but not the tables. PINGREQ and PINGRESP under way are at most `pingTimeout` (`PingsCounted`), so
   that the counter never falls below zero. This gives `InStep` and `TypeCorrect`.
4. *What the counts mean for the data.* Each message is under way or received at most once in all
   (`DeliversOnce`), and an acknowledgement, its table entry and its release belong to a message the
   broker has (`Linked`): `Delivered`. Each topic the broker holds and each message under way has an
   active subscription that no UNSUBACK ahead of it ends (`Heard`): `MessagesHeard`; it starts with a
   broker that has answered CONNECT with an empty session (`FreshSession`). Of the subscriptions to a
   topic one at most stands, and no UNSUBSCRIBE to its topic is under way behind its own SUBSCRIBE
   (`Held`): `SubscribedHeld`.

Layers 3 and 4 hold until an identifier had to be given out while all were in use (`exhausted`): with
65535 of them the condition of the properties, and one the code does not check.

**`EndpointProofs`** covers the desktop and the firmware. *The desktop*, for every set of topics and
configurations, including one topic for both sensors; every limit, window and number of rows; any number of connections, messages and edits. Four layers
again. *`Wired`*: the handlers are those of one connection (`Once`, from one `connect` to the next in
`ConnectedOnce`; none while not connected), and of the pages only the button differs from the client, and only while it
hangs: with `Labelled` (no alarm is shown without a connection) and `Charted` this gives `PagesKnow`, and
`HandlersAreSingle`. *`LimitsInStep`*: until the cloud has taken the subscription it is the
first message under way and nothing comes back; afterwards what comes back last carries what the cloud
keeps, and if nothing is under way the desktop has it. An edit, here or elsewhere, a retained message and
the end of a connection each keep this: `LimitsConverge`. *`Displayed`*: ranges, and the label turns with
the first alarm (`AlarmsShown`): `NormalIsTrue`. *`Charted`*: whatever the clock does, the points dropped are those at
the front, and the newest always stays (`InWindowIs`, which takes the first point in the window by
well-foundedness): hence no gap, and the first point is within the window of the newest unless the chart
is full (`ChartOf`). As long as the clock is not put back no point is of the future, so that the next one
is appended in order and all are in the window (`InOrder`); `ShownIs` has both for one reading. Of the rows that the
rotation of the data base keeps the oldest has fewer than `DB_MAX` newer ones (`RotatedIs`, a count):
`ChartIsOfNow`. All of it gives `TypeCorrect`.

est has fewer
than `DB_MAX` newer ones (`RotatedIs`, a count): `ChartIsOfNow`. All of it gives `TypeCorrect`.

*The firmware*, for every set of readings and of payloads and any length of the line. `ProgramIs` and
`Places` say which of the 33 instructions is which. Two invariants over the types (`Typed`: where the
index and the length stand in each state of the parser), independent of each other:

* *`FramesWhole`*, for the frames. Between two characters the parser may be anywhere in a frame, so
  that `FramesInStep` is not inductive. What is: as long as no character was lost there is a run of
  the parser over everything that is still on the line, back to the state
  between two frames (`Reads`), which leaves a buffer nowhere but at the place of `data_buf` that a
  longer datagram reaches first (`Overrun`). The interrupt takes the first step of the run (`ReadsFirst`,
  `FrameFollows`); each text of the module goes from one such state to another, so that the run is
  extended (`ReadsJoin`, `AnswersRead`; `DatagramReads` with `AtoiIs` for the length):
  `FirmwareFramesInStep`. The sizes of the buffers are arbitrary, payloads have up to nine characters, so
  that a length is one digit; only a length and its ':' have a place
  in `len_buf` (`Esp8266Assumption`; four digits in 5 characters in the code).
* *`Handshake`*, for the exchange. For each instruction it says which command the module may be
  working on and what the line still holds of the two characters that end a wait, 'K' and '>'. Such a
  character is on the line only while the program is going to wait for it, and the wait takes it:
  after the OK of CIPSEND no 'K' is left and the '>', if it was said, is last (`Prompting`); after the
  '>' the line is empty (`ReadyForData`). One lemma says what a character taken from the line does to
  these conditions, by the interrupt or by noise (`TakenKeeps`), one each for the module's answers
  (`AnswerKeeps`, `LeavesKeeps`) and for datagrams (`DatagramKeeps`). The instruction's condition says
  that the module is ready for what is sent: `FirmwareHandshakeInStep`, whatever is lost or refused.
  The datagram leaves only at the last wait of a message (`LeavesWhere`), and `Current` says that a
  reading that failed leaves the buffer or nothing of it behind: `FirmwareDatagramsAlternate`. Both
  assume that no payload holds one of the two characters (`Unmistakable`), which the code cannot tell
  from an answer (section 6).

The assumptions used are `PipelineAssumption`, `TokenBucketAssumption`, `ThreadPoolAssumption`,
`AlarmAssumption`, `BlackboardAssumption`, `LifecycleAssumption`, `EventLoopAssumption`,
`ProcessPoolAssumption` (a read holds at least one command: 255 bytes against 20), `MqttAssumption`
(there are two identifiers at least) and those of the desktop's modules (`DesktopAssumption`: the sensors'
topics are not those of alarms and limits; limits
and values are within the model's bound on values, which leaves room for the reading above the limit
that the test button makes), and of the firmware (`Esp8266Assumption`, `FirmwareAssumption`: a wrong checksum is not a
reading), which TLC evaluates in the runs. `Unmistakable` is a hypothesis of two theorems; the payloads of
the run satisfy it.

**Only model-checked.** Every liveness property and the fair part of a refinement (`ImplementsFairFifo`,
`MainReturnsToPoll`, `PassEnds`, `ImplementsFairWorkQueue`, `TaskIsPeriodic`,
`ShutdownReturns`, `UpdateReturns`, `SubmitReturns`, `ChildrenEnd`, `ShutdownEnds`,
`DeadPeerNoticed`, `KeepsSending`): liveness under fairness is beyond the
prover. Every safety property and every action property a passing run checks is proved.

## 6. Divergences

Found while modelling, each with a counterexample of a run:

| Run | The code | What it says |
|---|---|---|
| `event_loop_stale` | a client accepted into a slot with an old POLLIN flag is read although it sent nothing; the read blocks the loop | `io_multiplexing.c:56` visits the sockets on which an event occurred |
| `thread_pool_destroy` | workers leave at shutdown whatever is queued | `thread_pool.h:36` waits for all tasks |

Known, with a variant of the specification or a property in the module that shows it, but without
a run of its own:

* `sem_wait` returns on SIGHUP and the result is ignored: a record is taken from an empty ring
  (`cloud_client.c:24` sleeps as long as there is no data). `Pipeline`: `SpecWithSighup` does not
  keep `SleepsWhileEmpty`, which `Spec` keeps (theorem `ConsumerFindsRecord`).
* The SIGALRM handler locks a mutex that the interrupted thread may hold (`alarm_scheduler.h:15`
  promises a periodic task). `AlarmScheduler` with `Callers <- MCAnyThread` does not keep
  `TaskIsPeriodic`. Linux delivers to another thread than the main one only when the main one
  already has a signal pending; the same holds for the SIGHUP above.
* `semop` returns EINTR on SIGALRM and the writer goes on without the lock (`ipc_modules.c:88` says
  that no half-written data is read). `Blackboard`: `SpecWithSigalrm` does not keep
  `NeverHalfWritten`.
* Commands that wait together in the pipe are read together and all but the first dropped
  (`process_pool.h:14` hands a task to a child). `ProcessPool`: `EveryTaskIsExecuted` does not hold.

Known from reading, without a run:

* *Gateway.* A batch whose connection fails is gone (`cloud_client.c:87` says that it tries again).
  The reading of a local program does not reach the blackboard (`io_multiplexing.c:96`). After the
  clock is put back the limiter refuses everything until the old time is reached
  (`token_bucket.c:35`), hence the condition of `RefusesOnlyExcess`. The handler of SIGTERM calls
  `exit(0)`: `main` does not clean up, children, FIFO, shared memory and semaphore stay
  (`daemon.c:18` speaks of a safe exit that frees resources), hence the condition of
  `CleanExitLeavesNothing`. A heartbeat after `process_pool_destroy` writes to a closed descriptor,
  or one that was given to something else. A child of a dead gateway that had not opened the FIFO
  may open the next gateway's, or wait for ever, which is why `ChildrenEnd` speaks of children that
  read. A restart sets the semaphore to 1 although an old child may hold it (`ipc_modules.c:76`).
  SIGCHLD is ignored only with `-d`, `process_pool.c:95` relies on it always; without `-d` nothing
  keeps two gateways apart. `process_pool_destroy` signals the pids it forked, which may be
  another process's by then (`process_pool.c:121`).
* *MQTT client.* Identifiers of unfinished messages stay reserved and the messages are not sent
  again after a reconnection; with all identifiers taken a used one is given out, hence `exhausted`
  in the properties: the end of one subscription may then be taken for that of another, whose
  messages go unheard. A message of QoS 2 that a restored session repeats is handed over twice. A
  DISCONNECT that cannot be written leaves the client `Connected` over a connection that is
  `BrokerDisconnected`. A subscription keeps the state `Subscribed` after a disconnect. There is no
  limit on the time in `Connecting`. The client pings, although `docs/MQTT-Usage-Guide.md:852` counts
  the missing heartbeat among the pitfalls.
* *Desktop.* A limit that changes moves the lamp according to the animated needle instead of the
  value (`overviewpage.cpp:71`). The label stays "offline" after a reconnection until the next alarm
  or clear. The first message of one sensor is stored with the other's 0.0, although
  `docs/MQTT-Usage-Guide.md:492` assures two values. A limit edited offline is not sent and the
  retained one overwrites it (the guide's line 213 says that limits must arrive).
  After the clock is put back newer points of the chart lie to the left of older ones (`trendpage.cpp:370`
  says that the newest grows), hence the condition in `ChartIsCurrent`. A failed DISCONNECT
  leaves the settings page disconnected and the client connected (`Hung`); `PagesAgree` says that the
  other pages stay right. The spin boxes cut limits
  above their range. `onAlarmDataReceived` is never called.
* *Firmware.* The watchdog is never started (`README.md:137` promises a reset), so every wait may
  last for ever after a lost character or a refusal. `KeepsSending` names them as exceptions, with a
  sensor that dies, an answer that comes too late and a datagram that is too long. The contents of a datagram may satisfy a wait. An answer later
  than the delay shifts the handshake (`untimely`). A datagram of more than 512 characters overruns `data_buf`
  with nothing lost (`esp8266.c:79`), as `FramesInStep` says; a lost ':' overruns `len_buf`. A datagram
  without content, whose end `i == len` never comes, is not modelled. `ok_flag` is not
  volatile. Before the first good reading zeros are sent. "OOK" does not match.

## 7. Not modelled, and why

* Failure paths of the start (allocation, socket creation): the program exits.
* Configuration, password check, base64, the HTTP text: sequential, no shared state.
* Login and registration: one connection, one request at a time, ended when the main window opens;
  the server is not in this repository. The real-time clock: linked, never called.
* Bit timing and registers of the firmware's peripherals, the functions of the driver that nothing
  calls (TCP server and client modes), the sensors `main` does not use.
* Of qtmqtt: protocol 5 and its properties, authentication exchanges, TLS, web sockets, wildcards in
  filters, the tests and examples of that tree.
* CMSIS and the ST library, the SDK demo, generated files. They are most of the repository's lines;
  none has behaviour of its own that a property could be about.
* Painting, layout, axes, tooltips and wording of the desktop.
* A client's partial write of a structure: any reading may come out of it (`HandleClientRead`).

## 8. Plan

1. *Done*: all modules of section 2, with the proofs of section 5.
2. *Heartbeat*: `AlarmScheduler`, `ProcessPool` and `Blackboard` composed end to end.
3. The restart of `Lifecycle` over the semaphore of `Blackboard`: who holds it when it is set to 1.
4. Pure algorithms against a reference definition: topic filters with wildcards (`qmqtttopicfilter`),
   the variable length of a packet, the date conversion of `rtc.c`.
