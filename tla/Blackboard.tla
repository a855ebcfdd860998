----------------------------- MODULE Blackboard -----------------------------
(***************************************************************************)
(* ipc_modules.c: a table of sensor values in System V shared memory, with *)
(* a System V semaphore as its lock.  The gateway's main thread updates    *)
(* it; the children of the process pool read temperature and humidity for  *)
(* every CHECK_SENSOR_STATUS.  Both operations of the semaphore carry      *)
(* SEM_UNDO, so that the kernel releases the lock of a child that dies.    *)
(*                                                                         *)
(* An entry is written field by field.  An entry whose sensor_id is 0 is   *)
(* free: a report with id 0 is therefore written into the first free entry *)
(* and leaves it free.                                                     *)
(***************************************************************************)
EXTENDS Integers, FiniteSets

CONSTANTS
  Children,          \* processes of the pool (2)
  Main,              \* the gateway process
  Ids,               \* sensor ids that are reported
  TEMP_ID, HUM_ID,   \* 16790 and 16789, which the children ask for
  Values,            \* readings
  NoValue,           \* -999.0
  MAX_SENSORS        \* entries (100)

ASSUME BlackboardAssumption ==
  /\ Main \notin Children
  /\ MAX_SENSORS \in Nat /\ MAX_SENSORS >= 1
  /\ TEMP_ID \notin {0, HUM_ID} /\ HUM_ID # 0 /\ {TEMP_ID, HUM_ID} \subseteq Ids
  /\ NoValue \notin Values \union {0}

VARIABLES
  shared_mem,            \* the table
  sem, undo,             \* value of the semaphore; semadj of each process
  pcMain, report,        \* where update_shared_sensor_data is; its arguments
  write_idx, fresh,      \* the entry it writes; history: the entry was free
  pc, ask, found,        \* per child: where it is, the id it reads, its entry
  answer                 \* per child: what it was told for its command so far

mainVars  == <<pcMain, report, write_idx, fresh>>
childVars == <<pc, ask, found, answer>>
vars == <<shared_mem, sem, undo, mainVars, childVars>>

Entries == 1 .. MAX_SENSORS
NoEntry == 0
Processes == Children \union {Main}

\* What `report` is between two calls of the update.
NoReport == [id |-> 0, data |-> 0]

\* What a child knows before the first read of a command and after the last.
NoAnswer == [id |-> 0, data |-> NoValue]

Init ==
  /\ shared_mem = [i \in Entries |-> [sensor_id |-> 0, latest_data |-> 0]]
  /\ sem = 1 /\ undo = [p \in Processes |-> 0]
  /\ pcMain = "idle" /\ report = NoReport
  /\ write_idx = NoEntry /\ fresh = FALSE
  /\ pc = [c \in Children |-> "idle"]
  /\ ask = [c \in Children |-> TEMP_ID]
  /\ found = [c \in Children |-> NoEntry]
  /\ answer = [c \in Children |-> NoAnswer]

-----------------------------------------------------------------------------
(* The lock. *)

SemopWithoutUndo(p, n) == sem' = sem + n /\ UNCHANGED undo

\* semop() of one process with SEM_UNDO.
Semop(p, n) == sem' = sem + n /\ undo' = [undo EXCEPT ![p] = @ - n]

LockAlways(p) == Semop(p, -1)

\* sem_lock waits for the semaphore to be positive.
Lock(p) == sem > 0 /\ Semop(p, -1)
Unlock(p) == Semop(p, 1)

-----------------------------------------------------------------------------
(* update_shared_sensor_data *)

\* The first entry with this id.
First(id) ==
  LET same == {i \in Entries : shared_mem[i].sensor_id = id}
  IN  IF same = {} THEN NoEntry ELSE CHOOSE i \in same : \A j \in same : i <= j

EntryPrefersFree(id) == IF First(0) # NoEntry THEN First(0) ELSE First(id)
\* The entry of a sensor that has one, otherwise the first free entry.
EntryFor(id) == IF First(id) # NoEntry THEN First(id) ELSE First(0)

UpdateBegin(id, data) ==
  /\ pcMain = "idle"
  /\ report' = [id |-> id, data |-> data]
  /\ pcMain' = "lock"
  /\ UNCHANGED <<shared_mem, sem, undo, write_idx, fresh, childVars>>

MainLock ==
  /\ pcMain = "lock"
  /\ Lock(Main)
  /\ pcMain' = "find"
  /\ UNCHANGED <<shared_mem, report, write_idx, fresh, childVars>>

\* semop() is never restarted after a signal handler, SA_RESTART or not: when
\* SIGALRM interrupts the wait it fails with EINTR, which sem_lock ignores.
MainLockInterrupted ==
  /\ pcMain = "lock"
  /\ sem = 0
  /\ pcMain' = "find"
  /\ UNCHANGED <<shared_mem, sem, undo, report, write_idx, fresh, childVars>>

MainFind ==
  /\ pcMain = "find"
  /\ write_idx' = EntryFor(report.id)
  /\ fresh' = (First(report.id) = NoEntry)
  /\ pcMain' = IF write_idx' = NoEntry THEN "unlock" ELSE "id"
  /\ UNCHANGED <<shared_mem, sem, undo, report, childVars>>

WriteId ==
  /\ pcMain = "id"
  /\ shared_mem' = [shared_mem EXCEPT ![write_idx].sensor_id = report.id]
  /\ pcMain' = "data"
  /\ UNCHANGED <<sem, undo, report, write_idx, fresh, childVars>>

\* The entry's time stamp, which nothing reads, is written here as well.
WriteData ==
  /\ pcMain = "data"
  /\ shared_mem' = [shared_mem EXCEPT ![write_idx].latest_data = report.data]
  /\ pcMain' = "unlock"
  /\ UNCHANGED <<sem, undo, report, write_idx, fresh, childVars>>

MainUnlock ==
  /\ pcMain = "unlock"
  /\ Unlock(Main)
  /\ pcMain' = "idle"
  /\ report' = NoReport /\ write_idx' = NoEntry /\ fresh' = FALSE
  /\ UNCHANGED <<shared_mem, childVars>>

MainStep == MainLock \/ MainFind \/ WriteId \/ WriteData \/ MainUnlock

-----------------------------------------------------------------------------
(* read_shared_sensor_data, called twice for each command. *)

Goto(c, label) == pc' = [pc EXCEPT ![c] = label]

CheckSensorStatus(c) ==
  /\ pc[c] = "idle"
  /\ Goto(c, "lock")
  /\ UNCHANGED <<shared_mem, sem, undo, mainVars, ask, found, answer>>

ChildLock(c) ==
  /\ pc[c] = "lock"
  /\ Lock(c)
  /\ Goto(c, "find")
  /\ UNCHANGED <<shared_mem, mainVars, ask, found, answer>>

Answer(c, data) == answer' = [answer EXCEPT ![c] = [id |-> ask[c], data |-> data]]

ChildFind(c) ==
  /\ pc[c] = "find"
  /\ found' = [found EXCEPT ![c] = First(ask[c])]
  /\ IF found'[c] = NoEntry THEN Answer(c, NoValue) /\ Goto(c, "unlock")
                            ELSE UNCHANGED answer /\ Goto(c, "fetch")
  /\ UNCHANGED <<shared_mem, sem, undo, mainVars, ask>>

ChildFetch(c) ==
  /\ pc[c] = "fetch"
  /\ Answer(c, shared_mem[found[c]].latest_data)
  /\ Goto(c, "unlock")
  /\ UNCHANGED <<shared_mem, sem, undo, mainVars, ask, found>>

\* The humidity is read after the temperature, under a lock of its own; then both
\* are logged and the child waits for the next command.
ChildUnlock(c) ==
  /\ pc[c] = "unlock"
  /\ Unlock(c)
  /\ IF ask[c] = TEMP_ID
       THEN ask' = [ask EXCEPT ![c] = HUM_ID] /\ Goto(c, "lock") /\ UNCHANGED answer
       ELSE /\ ask' = [ask EXCEPT ![c] = TEMP_ID] /\ Goto(c, "idle")
            /\ answer' = [answer EXCEPT ![c] = NoAnswer]
  /\ found' = [found EXCEPT ![c] = NoEntry]
  /\ UNCHANGED <<shared_mem, mainVars>>

ChildStep(c) == ChildLock(c) \/ ChildFind(c) \/ ChildFetch(c) \/ ChildUnlock(c)

\* A child dies anywhere, and its memory with it; the kernel applies its semadj.
ChildDies(c) ==
  /\ pc[c] # "dead"
  /\ Goto(c, "dead")
  /\ sem' = sem + undo[c]
  /\ undo' = [undo EXCEPT ![c] = 0]
  /\ ask' = [ask EXCEPT ![c] = TEMP_ID]
  /\ found' = [found EXCEPT ![c] = NoEntry]
  /\ answer' = [answer EXCEPT ![c] = NoAnswer]
  /\ UNCHANGED <<shared_mem, mainVars>>

-----------------------------------------------------------------------------
Next ==
  \/ \E id \in Ids, v \in Values : UpdateBegin(id, v)
  \/ MainStep
  \/ \E c \in Children : CheckSensorStatus(c) \/ ChildStep(c) \/ ChildDies(c)

Spec == Init /\ [][Next]_vars

\* The same with the SIGALRM of the alarm scheduler, once a second.
SpecWithSigalrm == Init /\ [][Next \/ MainLockInterrupted]_vars

\* Processes run, and the kernel serves those that wait for a semaphore in turn.
Fairness ==
  /\ WF_vars(MainStep) /\ SF_vars(MainLock)
  /\ \A c \in Children : WF_vars(ChildStep(c)) /\ SF_vars(ChildLock(c))

FairSpec == Spec /\ Fairness

-----------------------------------------------------------------------------
TypeOK ==
  /\ shared_mem \in [Entries -> [sensor_id : Ids \union {0}, latest_data : Values \union {0}]]
  /\ sem \in 0 .. 1 /\ undo \in [Processes -> 0 .. 1]
  /\ pcMain \in {"idle", "lock", "find", "id", "data", "unlock"}
  /\ report \in [id : Ids \union {0}, data : Values \union {0}]
  /\ write_idx \in Entries \union {NoEntry} /\ fresh \in BOOLEAN
  /\ pc \in [Children -> {"idle", "lock", "find", "fetch", "unlock", "dead"}]
  /\ ask \in [Children -> {TEMP_ID, HUM_ID}]
  /\ found \in [Children -> Entries \union {NoEntry}]
  /\ answer \in [Children -> [id : {0, TEMP_ID, HUM_ID}, data : Values \union {0, NoValue}]]

\* The processes between sem_lock and sem_unlock.
Inside ==
  {c \in Children : pc[c] \in {"find", "fetch", "unlock"}}
    \union (IF pcMain \in {"find", "id", "data", "unlock"} THEN {Main} ELSE {})

\* At most one process is inside, and the lock is free when none is, whichever
\* children have died and wherever they were.
OneInside ==
  /\ \A p, q \in Inside : p = q
  /\ sem = 1 <=> Inside = {}

\* A sensor's value as the holders of the lock see it: an entry that was just
\* claimed does not count before its value is written.
Visible(id) ==
  LET i == First(id)
  IN  IF i = NoEntry \/ (pcMain = "data" /\ fresh /\ i = write_idx)
        THEN NoValue ELSE shared_mem[i].latest_data

Abstract == INSTANCE LatestValues WITH
              Sensor <- Ids \ {0}, Value <- Values, None <- NoValue,
              Reader <- Children, Capacity <- MAX_SENSORS,
              latest <- [id \in Ids \ {0} |-> Visible(id)], answer <- answer

\* The table is atomic to its users: a child is told the value written last for
\* the sensor it asks for, or that there is none, never a mixture of two
\* reports and never what a report with id 0 left in a free entry.
ImplementsLatestValues == Abstract!Spec

\* An update is not lost: when it is done a reader would be told its value, unless
\* the table is full of other sensors.
UpdateTakesEffect ==
  pcMain = "unlock" /\ report.id # 0 =>
    \/ Visible(report.id) = report.data
    \/ \A i \in Entries : shared_mem[i].sensor_id \notin {0, report.id}

\* The lock excludes, and every update that went through it is there.
BoardSafe == TypeOK /\ OneInside /\ UpdateTakesEffect

\* An update returns although children die while they hold the lock.
UpdateReturns == pcMain = "lock" ~> pcMain = "idle"

\* ipc_modules.c: the lock keeps other processes from reading an entry that is
\* half written.
NeverHalfWritten ==
  \A c \in Children : ~(pc[c] = "fetch" /\ pcMain = "data" /\ found[c] = write_idx)
=============================================================================
