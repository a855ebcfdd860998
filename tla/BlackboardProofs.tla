-------------------------- MODULE BlackboardProofs --------------------------
(***************************************************************************)
(* The blackboard for every set of children and sensors and every size of  *)
(* the table: its semaphore excludes, its updates take effect, and it is   *)
(* atomic to the processes that share it.                                  *)
(***************************************************************************)
EXTENDS Blackboard, FiniteSetTheorems, WellFoundedInduction, TLAPS

\* A set of natural numbers has a least element.
LEMMA LeastExists ==
  ASSUME NEW S \in SUBSET Nat, S # {}
  PROVE  \E i \in S : \A j \in S : i <= j
  <1>1. PICK i \in S : \A j \in S : <<j, i>> \notin OpToRel(<, Nat)
    BY NatLessThanWellFounded, WFMin
  <1>2. ASSUME NEW j \in S PROVE i <= j
    <2>1. i \in Nat /\ j \in Nat
      OBVIOUS
    <2>2. ~(j < i)
      BY <1>1, <2>1 DEF OpToRel
    <2> QED
      BY <2>1, <2>2
  <1> QED
    BY <1>2

\* What the search of update_shared_sensor_data and read_shared_sensor_data returns.
FindsFirst(id) ==
  \/ First(id) = NoEntry /\ \A i \in Entries : shared_mem[i].sensor_id # id
  \/ /\ First(id) \in Entries /\ shared_mem[First(id)].sensor_id = id
     /\ \A i \in Entries : shared_mem[i].sensor_id = id => First(id) <= i

\* The search finds the first entry of a sensor that has one.
LEMMA FirstFinds == \A id : FindsFirst(id)
  <1> TAKE id
  <1> DEFINE same == {i \in Entries : shared_mem[i].sensor_id = id}
  <1>1. CASE same = {}
    BY <1>1 DEF First, FindsFirst
  <1>2. CASE same # {}
    <2>1. same \in SUBSET Nat
      BY BlackboardAssumption DEF Entries
    <2>2. \E i \in same : \A j \in same : i <= j
      BY <1>2, <2>1, LeastExists
    <2>3. First(id) = CHOOSE i \in same : \A j \in same : i <= j
      BY <1>2 DEF First
    <2> HIDE DEF same
    <2>4. First(id) \in same /\ \A j \in same : First(id) <= j
      BY <2>2, <2>3
    <2> QED
      BY <2>4 DEF same, FindsFirst
  <1> QED
    BY <1>1, <1>2

\* After a step as well.
LEMMA FirstFindsNext == (\A id : FindsFirst(id))'
  BY FirstFinds, PTL

\* The -1 of an unsuccessful search is not an index of the table.
LEMMA NoEntryIsNone == NoEntry \notin Entries
  BY BlackboardAssumption DEF NoEntry, Entries

-----------------------------------------------------------------------------
(* The inductive invariant. *)

\* The semadj of a process is what it holds: the kernel gives back exactly that.
UndoOfHolders == \A p \in Processes : undo[p] = IF p \in Inside THEN 1 ELSE 0

\* What the main thread knows of the table between the steps of an update.
MainKnows ==
  /\ pcMain # "idle" => report.id \in Ids /\ report.data \in Values
  /\ pcMain = "id" =>
       /\ write_idx \in Entries /\ write_idx = EntryFor(report.id)
       /\ fresh = (First(report.id) = NoEntry)
  /\ pcMain = "data" =>
       /\ write_idx \in Entries /\ shared_mem[write_idx].sensor_id = report.id
       /\ report.id # 0 => First(report.id) = write_idx

\* The entry a child has found is still the sensor's when the child reads it.
ChildrenKnow == \A c \in Children : pc[c] = "fetch" => found[c] = First(ask[c]) /\ found[c] # NoEntry

IInv ==
  /\ TypeOK /\ OneInside /\ UndoOfHolders
  /\ MainKnows /\ ChildrenKnow /\ UpdateTakesEffect

MainInside == pcMain \in {"find", "id", "data", "unlock"}
ChildInside(c) == pc[c] \in {"find", "fetch", "unlock"}

\* Mutual exclusion, process by process.
LEMMA InsideIs ==
  /\ Main \in Inside <=> MainInside
  /\ \A c \in Children : c \in Inside <=> ChildInside(c)
  /\ Inside \subseteq Processes
  BY BlackboardAssumption DEF Inside, MainInside, ChildInside, Processes

\* At most one process is between sem_lock and sem_unlock.
LEMMA Exclusion ==
  ASSUME OneInside
  PROVE  /\ MainInside => \A c \in Children : ~ChildInside(c)
         /\ \A c, d \in Children : ChildInside(c) /\ ChildInside(d) => c = d
  BY InsideIs, BlackboardAssumption DEF OneInside

\* The table as the search sees it.
LEMMA FirstUnchanged ==
  ASSUME NEW id, UNCHANGED shared_mem
  PROVE  First(id)' = First(id)
  BY DEF First

\* A search depends on the ids only.
LEMMA SameSearch ==
  ASSUME NEW id,
         \A k \in Entries : shared_mem'[k].sensor_id = id <=> shared_mem[k].sensor_id = id
  PROVE  First(id)' = First(id)
  <1> DEFINE before == {k \in Entries : shared_mem[k].sensor_id = id}
             after == {k \in Entries : shared_mem'[k].sensor_id = id}
  <1>1. before = after
    OBVIOUS
  <1>2. /\ First(id) = IF before = {} THEN NoEntry ELSE CHOOSE k \in before : \A j \in before : k <= j
        /\ First(id)' = IF after = {} THEN NoEntry ELSE CHOOSE k \in after : \A j \in after : k <= j
    BY DEF First
  <1> HIDE DEF before, after
  <1> QED
    BY <1>1, <1>2

\* The semaphore is 1, the table empty, nobody asks.
LEMMA InitHolds == Init => IInv
  <1> SUFFICES ASSUME Init PROVE IInv
    OBVIOUS
  <1> USE BlackboardAssumption DEF Init
  <1>1. Inside = {}
    BY DEF Inside
  <1>2. TypeOK
    <2>1. NoReport \in [id : Ids \union {0}, data : Values \union {0}]
      BY DEF NoReport
    <2>2. NoAnswer \in [id : {0, TEMP_ID, HUM_ID}, data : Values \union {0, NoValue}]
      BY DEF NoAnswer
    <2>3. shared_mem \in [Entries -> [sensor_id : Ids \union {0}, latest_data : Values \union {0}]]
      OBVIOUS
    <2>4. sem \in 0 .. 1 /\ undo \in [Processes -> 0 .. 1]
      OBVIOUS
    <2> QED
      BY <2>1, <2>2, <2>3, <2>4 DEF TypeOK
  <1>3. OneInside /\ UndoOfHolders
    BY <1>1 DEF OneInside, UndoOfHolders
  <1>4. MainKnows /\ ChildrenKnow /\ UpdateTakesEffect
    BY DEF MainKnows, ChildrenKnow, UpdateTakesEffect
  <1> QED
    BY <1>2, <1>3, <1>4 DEF IInv

-----------------------------------------------------------------------------
(* The lock, whoever takes it and gives it back. *)

\* The children after one has moved between two places outside of the lock, or two inside.
LEMMA MovesWithin ==
  ASSUME IInv, Inside' = Inside, UNCHANGED <<sem, undo>>
  PROVE  OneInside' /\ UndoOfHolders'
  BY DEF IInv, OneInside, UndoOfHolders

\* sem_lock with SEM_UNDO: who takes the unit is inside, alone, and the kernel notes it.
LEMMA TakesLock ==
  ASSUME IInv, NEW p \in Processes, Lock(p), Inside' = Inside \union {p}
  PROVE  /\ sem' \in 0 .. 1 /\ undo' \in [Processes -> 0 .. 1]
         /\ OneInside' /\ UndoOfHolders'
  <1>1. sem = 1 /\ Inside = {} /\ sem' = 0 /\ undo' = [undo EXCEPT ![p] = undo[p] + 1]
    <2>1. sem > 0 /\ sem' = sem + -1 /\ undo' = [undo EXCEPT ![p] = undo[p] - -1]
      BY DEF Lock, Semop
    <2>2. sem \in 0 .. 1 /\ undo[p] \in 0 .. 1
      BY DEF IInv, TypeOK
    <2>3. sem = 1 /\ sem' = 0 /\ undo[p] - -1 = undo[p] + 1
      BY <2>1, <2>2
    <2> QED
      BY <2>1, <2>3 DEF IInv, OneInside
  <1>2. undo[p] = 0
    BY <1>1 DEF IInv, UndoOfHolders
  <1>3. undo' = [undo EXCEPT ![p] = 1] /\ undo' \in [Processes -> 0 .. 1]
    BY <1>1, <1>2 DEF IInv, TypeOK
  <1>4. UndoOfHolders'
    BY <1>1, <1>3 DEF IInv, TypeOK, UndoOfHolders
  <1>5. OneInside'
    BY <1>1 DEF OneInside
  <1> QED
    BY <1>1, <1>3, <1>4, <1>5

\* The unit comes back, by sem_unlock or by the kernel for one that died inside.
LEMMA LeavesLock ==
  ASSUME IInv, NEW p \in Inside, Inside' = Inside \ {p},
         sem' = sem + 1, undo' = [undo EXCEPT ![p] = 0]
  PROVE  /\ sem' \in 0 .. 1 /\ undo' \in [Processes -> 0 .. 1]
         /\ OneInside' /\ UndoOfHolders'
  <1>1. Inside = {p} /\ sem = 0 /\ p \in Processes
    BY InsideIs DEF IInv, OneInside, TypeOK
  <1>2. Inside' = {} /\ sem' = 1
    BY <1>1
  <1>3. undo' \in [Processes -> 0 .. 1] /\ UndoOfHolders'
    BY <1>1, <1>2 DEF IInv, TypeOK, UndoOfHolders
  <1> QED
    BY <1>2, <1>3 DEF OneInside

\* What Unlock does to a process inside.
LEMMA UnlockIs ==
  ASSUME IInv, NEW p \in Inside, Unlock(p)
  PROVE  sem' = sem + 1 /\ undo' = [undo EXCEPT ![p] = 0]
  <1>1. p \in Processes /\ undo[p] = 1
    BY InsideIs DEF IInv, UndoOfHolders
  <1>2. undo[p] - 1 = 0
    BY <1>1
  <1> QED
    BY <1>2 DEF Unlock, Semop

\* A step of a child leaves what the main thread knows as it is.
LEMMA MainUndisturbed ==
  ASSUME MainKnows, UpdateTakesEffect, UNCHANGED <<shared_mem, mainVars>>
  PROVE  MainKnows' /\ UpdateTakesEffect'
  BY DEF MainKnows, UpdateTakesEffect, mainVars, EntryFor, Visible, First

\* A step of the main thread while no child is inside leaves what children know as it is.
LEMMA ChildrenUndisturbed ==
  ASSUME ChildrenKnow, UNCHANGED childVars,
         UNCHANGED shared_mem \/ \A c \in Children : pc[c] # "fetch"
  PROVE  ChildrenKnow'
  BY DEF ChildrenKnow, childVars, First

-----------------------------------------------------------------------------
(* The actions of the main thread. *)

\* A report reaches update_shared_sensor_data: the caller has not locked yet.
LEMMA UpdateBeginKeeps ==
  ASSUME IInv, NEW id \in Ids, NEW v \in Values, UpdateBegin(id, v)
  PROVE  IInv'
  <1> USE DEF UpdateBegin
  <1>1. TypeOK'
    BY DEF IInv, TypeOK, childVars
  <1>2. Inside' = Inside
    BY DEF Inside, childVars
  <1>3. OneInside' /\ UndoOfHolders'
    BY <1>2, MovesWithin
  <1>4. MainKnows' /\ UpdateTakesEffect'
    BY DEF MainKnows, UpdateTakesEffect
  <1>5. ChildrenKnow'
    BY ChildrenUndisturbed DEF IInv
  <1> QED
    BY <1>1, <1>3, <1>4, <1>5 DEF IInv

\* update_shared_sensor_data takes the semaphore.
LEMMA MainLockKeeps ==
  ASSUME IInv, MainLock
  PROVE  IInv'
  <1> USE DEF MainLock
  <1>1. Inside' = Inside \union {Main} /\ Main \in Processes
    BY DEF Inside, childVars, Processes
  <1>2. sem' \in 0 .. 1 /\ undo' \in [Processes -> 0 .. 1] /\ OneInside' /\ UndoOfHolders'
    BY <1>1, TakesLock
  <1>3. TypeOK'
    BY <1>2 DEF IInv, TypeOK, childVars
  <1>4. MainKnows' /\ UpdateTakesEffect'
    BY DEF IInv, MainKnows, UpdateTakesEffect
  <1>5. ChildrenKnow'
    BY ChildrenUndisturbed DEF IInv
  <1> QED
    BY <1>2, <1>3, <1>4, <1>5 DEF IInv

\* The search under the lock; with no entry and none free the update ends there.
LEMMA MainFindKeeps ==
  ASSUME IInv, MainFind
  PROVE  IInv'
  <1> USE DEF MainFind
  <1>1. EntryFor(report.id) \in Entries \union {NoEntry}
    BY FirstFinds DEF FindsFirst, EntryFor
  <1>2. TypeOK'
    BY <1>1 DEF IInv, TypeOK, childVars
  <1>3. Inside' = Inside
    BY DEF Inside, childVars
  <1>4. OneInside' /\ UndoOfHolders'
    BY <1>3, MovesWithin
  <1>5. MainKnows'
    BY <1>1, FirstUnchanged DEF IInv, MainKnows, EntryFor
  <1>6. UpdateTakesEffect'
    <2> SUFFICES ASSUME pcMain' = "unlock"
                 PROVE  \A i \in Entries : shared_mem[i].sensor_id \notin {0, report.id}
      BY DEF UpdateTakesEffect
    <2>1. EntryFor(report.id) = NoEntry
      OBVIOUS
    <2>2. First(report.id) = NoEntry /\ First(0) = NoEntry
      BY <2>1 DEF EntryFor
    <2> QED
      BY <2>2, FirstFinds, NoEntryIsNone DEF FindsFirst
  <1>7. ChildrenKnow'
    BY ChildrenUndisturbed DEF IInv
  <1> QED
    BY <1>2, <1>4, <1>5, <1>6, <1>7 DEF IInv

\* While the main thread is inside no child reads the table.
LEMMA NobodyFetches ==
  ASSUME IInv, MainInside
  PROVE  \A c \in Children : pc[c] # "fetch"
  BY Exclusion DEF IInv, ChildInside

\* The id is written first: the entry is now the first of its sensor.
LEMMA WriteIdKeeps ==
  ASSUME IInv, WriteId
  PROVE  IInv'
  <1> USE DEF WriteId
  <1>1. TypeOK /\ write_idx \in Entries /\ write_idx = EntryFor(report.id)
    BY DEF IInv, MainKnows
  <1>2. /\ shared_mem' \in [Entries -> [sensor_id : Ids \union {0}, latest_data : Values \union {0}]]
        /\ shared_mem'[write_idx].sensor_id = report.id
        /\ \A i \in Entries \ {write_idx} : shared_mem'[i] = shared_mem[i]
    BY <1>1 DEF TypeOK
  <1>3. TypeOK'
    BY <1>2 DEF IInv, TypeOK, childVars
  <1>4. Inside' = Inside
    BY DEF Inside, childVars
  <1>5. OneInside' /\ UndoOfHolders'
    BY <1>4, MovesWithin
  <1>6. First(report.id)' = write_idx
    <2>1. \A i \in Entries : shared_mem'[i].sensor_id = report.id => write_idx <= i
      <3>1. CASE First(report.id) # NoEntry
        <4>1. \A i \in Entries : shared_mem[i].sensor_id = report.id => write_idx <= i
          BY <1>1, <3>1, FirstFinds DEF EntryFor, FindsFirst
        <4> QED
          BY <1>2, <4>1 DEF Entries
      <3>2. CASE First(report.id) = NoEntry
        <4>1. \A i \in Entries : shared_mem[i].sensor_id # report.id
          BY <3>2, FirstFinds, NoEntryIsNone DEF FindsFirst
        <4> QED
          BY <1>1, <1>2, <4>1, BlackboardAssumption DEF Entries
      <3> QED
        BY <3>1, <3>2
    <2>2. FindsFirst(report.id)'
      BY FirstFindsNext DEF FindsFirst
    <2> QED
      BY <1>1, <1>2, <2>1, <2>2, BlackboardAssumption, NoEntryIsNone DEF Entries, FindsFirst
  <1>7. MainKnows'
    BY <1>1, <1>2, <1>6 DEF IInv, MainKnows
  <1>8. UpdateTakesEffect'
    BY DEF UpdateTakesEffect
  <1>9. ChildrenKnow'
    BY NobodyFetches, ChildrenUndisturbed DEF IInv, MainInside
  <1> QED
    BY <1>3, <1>5, <1>7, <1>8, <1>9 DEF IInv

\* The value is written into the entry that the search found.
LEMMA WriteDataKeeps ==
  ASSUME IInv, WriteData
  PROVE  IInv'
  <1> USE DEF WriteData
  <1>1. /\ TypeOK /\ write_idx \in Entries /\ shared_mem[write_idx].sensor_id = report.id
        /\ report.id # 0 => First(report.id) = write_idx
    BY DEF IInv, MainKnows
  <1>2. /\ shared_mem' \in [Entries -> [sensor_id : Ids \union {0}, latest_data : Values \union {0}]]
        /\ \A j \in Entries : shared_mem'[j].sensor_id = shared_mem[j].sensor_id
        /\ shared_mem'[write_idx].latest_data = report.data
    BY <1>1 DEF TypeOK
  <1>3. TypeOK'
    BY <1>2 DEF IInv, TypeOK, childVars
  <1>4. Inside' = Inside
    BY DEF Inside, childVars
  <1>5. OneInside' /\ UndoOfHolders'
    BY <1>4, MovesWithin
  <1>6. MainKnows'
    BY DEF IInv, MainKnows
  <1>7. \A id : First(id)' = First(id)
    BY <1>2, SameSearch
  <1>8. UpdateTakesEffect'
    BY <1>1, <1>2, <1>7, NoEntryIsNone DEF UpdateTakesEffect, Visible
  <1>9. ChildrenKnow'
    BY NobodyFetches, ChildrenUndisturbed DEF IInv, MainInside
  <1> QED
    BY <1>3, <1>5, <1>6, <1>8, <1>9 DEF IInv

\* update_shared_sensor_data gives the semaphore back.
LEMMA MainUnlockKeeps ==
  ASSUME IInv, MainUnlock
  PROVE  IInv'
  <1> USE DEF MainUnlock
  <1>1. Main \in Inside /\ Inside' = Inside \ {Main}
    BY BlackboardAssumption DEF Inside, childVars
  <1>2. sem' \in 0 .. 1 /\ undo' \in [Processes -> 0 .. 1] /\ OneInside' /\ UndoOfHolders'
    BY <1>1, UnlockIs, LeavesLock
  <1>3. TypeOK'
    <2>1. NoReport \in [id : Ids \union {0}, data : Values \union {0}]
      BY DEF NoReport
    <2> QED
      BY <1>2, <2>1 DEF IInv, TypeOK, childVars
  <1>4. MainKnows' /\ UpdateTakesEffect'
    BY DEF MainKnows, UpdateTakesEffect
  <1>5. ChildrenKnow'
    BY ChildrenUndisturbed DEF IInv
  <1> QED
    BY <1>2, <1>3, <1>4, <1>5 DEF IInv

-----------------------------------------------------------------------------
(* The actions of the children. *)

\* A child asks for a sensor: it has not locked yet.
LEMMA CheckSensorStatusKeeps ==
  ASSUME IInv, NEW c \in Children, CheckSensorStatus(c)
  PROVE  IInv'
  <1> USE DEF CheckSensorStatus, Goto
  <1>1. TypeOK'
    BY DEF IInv, TypeOK, mainVars
  <1>2. Inside' = Inside
    BY <1>1 DEF IInv, TypeOK, Inside, mainVars
  <1>3. OneInside' /\ UndoOfHolders'
    BY <1>2, MovesWithin
  <1>4. MainKnows' /\ UpdateTakesEffect'
    BY MainUndisturbed DEF IInv
  <1>5. ChildrenKnow'
    BY DEF IInv, TypeOK, ChildrenKnow, First
  <1> QED
    BY <1>1, <1>3, <1>4, <1>5 DEF IInv

\* read_shared_sensor_data takes the semaphore.
LEMMA ChildLockKeeps ==
  ASSUME IInv, NEW c \in Children, ChildLock(c)
  PROVE  IInv'
  <1> USE DEF ChildLock, Goto
  <1>1. Inside' = Inside \union {c} /\ c \in Processes
    BY DEF IInv, TypeOK, Inside, mainVars, Processes
  <1>2. sem' \in 0 .. 1 /\ undo' \in [Processes -> 0 .. 1] /\ OneInside' /\ UndoOfHolders'
    BY <1>1, TakesLock
  <1>3. TypeOK'
    BY <1>2 DEF IInv, TypeOK, mainVars
  <1>4. MainKnows' /\ UpdateTakesEffect'
    BY MainUndisturbed DEF IInv
  <1>5. ChildrenKnow'
    BY DEF IInv, TypeOK, ChildrenKnow, First
  <1> QED
    BY <1>2, <1>3, <1>4, <1>5 DEF IInv

\* The child finds the first entry of its sensor, or none.
LEMMA ChildFindKeeps ==
  ASSUME IInv, NEW c \in Children, ChildFind(c)
  PROVE  IInv'
  <1> USE DEF ChildFind, Goto
  <1>1. First(ask[c]) \in Entries \union {NoEntry}
    BY FirstFinds DEF FindsFirst
  <1>2. TypeOK'
    <2>1. [id |-> ask[c], data |-> NoValue] \in [id : {0, TEMP_ID, HUM_ID}, data : Values \union {0, NoValue}]
      BY DEF IInv, TypeOK
    <2>2. answer' \in [Children -> [id : {0, TEMP_ID, HUM_ID}, data : Values \union {0, NoValue}]]
      BY <2>1 DEF IInv, TypeOK, Answer
    <2> QED
      BY <1>1, <2>2 DEF IInv, TypeOK, mainVars
  <1>3. Inside' = Inside
    <2>1. /\ \A d \in Children : pc'[d] \in {"find", "fetch", "unlock"} <=> pc[d] \in {"find", "fetch", "unlock"}
          /\ pcMain' = pcMain
      BY DEF IInv, TypeOK, mainVars
    <2> QED
      BY <2>1 DEF Inside
  <1>4. OneInside' /\ UndoOfHolders'
    BY <1>3, MovesWithin
  <1>5. MainKnows' /\ UpdateTakesEffect'
    BY MainUndisturbed DEF IInv
  <1>6. ChildrenKnow'
    <2>1. \A id : First(id)' = First(id)
      BY FirstUnchanged
    <2> QED
      BY <2>1 DEF IInv, TypeOK, ChildrenKnow
  <1> QED
    BY <1>2, <1>4, <1>5, <1>6 DEF IInv

\* The child copies the value out of the entry it has found.
LEMMA ChildFetchKeeps ==
  ASSUME IInv, NEW c \in Children, ChildFetch(c)
  PROVE  IInv'
  <1> USE DEF ChildFetch, Goto
  <1>1. found[c] \in Entries
    BY FirstFinds DEF IInv, ChildrenKnow, FindsFirst
  <1>2. TypeOK'
    <2>1. [id |-> ask[c], data |-> shared_mem[found[c]].latest_data]
            \in [id : {0, TEMP_ID, HUM_ID}, data : Values \union {0, NoValue}]
      BY <1>1 DEF IInv, TypeOK
    <2>2. answer' \in [Children -> [id : {0, TEMP_ID, HUM_ID}, data : Values \union {0, NoValue}]]
      BY <2>1 DEF IInv, TypeOK, Answer
    <2> QED
      BY <2>2 DEF IInv, TypeOK, mainVars
  <1>3. Inside' = Inside
    <2>1. /\ \A d \in Children : pc'[d] \in {"find", "fetch", "unlock"} <=> pc[d] \in {"find", "fetch", "unlock"}
          /\ pcMain' = pcMain
      BY DEF IInv, TypeOK, mainVars
    <2> QED
      BY <2>1 DEF Inside
  <1>4. OneInside' /\ UndoOfHolders'
    BY <1>3, MovesWithin
  <1>5. MainKnows' /\ UpdateTakesEffect'
    BY MainUndisturbed DEF IInv
  <1>6. ChildrenKnow'
    BY DEF IInv, TypeOK, ChildrenKnow, First
  <1> QED
    BY <1>2, <1>4, <1>5, <1>6 DEF IInv

\* read_shared_sensor_data gives the semaphore back and returns.
LEMMA ChildUnlockKeeps ==
  ASSUME IInv, NEW c \in Children, ChildUnlock(c)
  PROVE  IInv'
  <1> USE DEF ChildUnlock, Goto
  <1>1. c \in Inside /\ Inside' = Inside \ {c}
    BY BlackboardAssumption DEF IInv, TypeOK, Inside, mainVars
  <1>2. sem' \in 0 .. 1 /\ undo' \in [Processes -> 0 .. 1] /\ OneInside' /\ UndoOfHolders'
    BY <1>1, UnlockIs, LeavesLock
  <1>3. TypeOK'
    <2>1. NoAnswer \in [id : {0, TEMP_ID, HUM_ID}, data : Values \union {0, NoValue}]
      BY DEF NoAnswer
    <2> QED
      BY <1>2, <2>1 DEF IInv, TypeOK, mainVars
  <1>4. MainKnows' /\ UpdateTakesEffect'
    BY MainUndisturbed DEF IInv
  <1>5. ChildrenKnow'
    <2>1. \A id : First(id)' = First(id)
      BY FirstUnchanged
    <2> SUFFICES ASSUME NEW d \in Children, pc'[d] = "fetch"
                 PROVE  found'[d] = First(ask'[d]) /\ found'[d] # NoEntry
      BY <2>1 DEF ChildrenKnow
    <2>2. d # c /\ pc[d] = "fetch" /\ found'[d] = found[d] /\ ask'[d] = ask[d]
      BY DEF IInv, TypeOK
    <2> QED
      BY <2>2 DEF IInv, ChildrenKnow
  <1> QED
    BY <1>2, <1>3, <1>4, <1>5 DEF IInv

\* SEM_UNDO: the kernel gives back what the child held.
LEMMA ChildDiesKeeps ==
  ASSUME IInv, NEW c \in Children, ChildDies(c)
  PROVE  IInv'
  <1> USE DEF ChildDies, Goto
  <1>1. sem' \in 0 .. 1 /\ undo' \in [Processes -> 0 .. 1] /\ OneInside' /\ UndoOfHolders'
    <2>1. CASE c \in Inside
      <3>1. Inside' = Inside \ {c} /\ undo[c] = 1
        BY <2>1, InsideIs, BlackboardAssumption DEF IInv, TypeOK, UndoOfHolders, Inside, mainVars
      <3> QED
        BY <2>1, <3>1, LeavesLock
    <2>2. CASE c \notin Inside
      <3>1. Inside' = Inside
        BY <2>2, BlackboardAssumption DEF IInv, TypeOK, Inside, mainVars
      <3>2. undo[c] = 0 /\ sem \in 0 .. 1 /\ undo \in [Processes -> 0 .. 1]
        BY <2>2 DEF IInv, TypeOK, UndoOfHolders, Processes
      <3>3. sem' = sem /\ undo' = undo
        BY <3>2
      <3> QED
        BY <3>1, <3>2, <3>3, MovesWithin
    <2> QED
      BY <2>1, <2>2
  <1>2. TypeOK'
    <2>1. NoAnswer \in [id : {0, TEMP_ID, HUM_ID}, data : Values \union {0, NoValue}]
      BY DEF NoAnswer
    <2> QED
      BY <1>1, <2>1 DEF IInv, TypeOK, mainVars
  <1>3. MainKnows' /\ UpdateTakesEffect'
    BY MainUndisturbed DEF IInv
  <1>4. ChildrenKnow'
    <2>1. \A id : First(id)' = First(id)
      BY FirstUnchanged
    <2> SUFFICES ASSUME NEW d \in Children, pc'[d] = "fetch"
                 PROVE  found'[d] = First(ask'[d]) /\ found'[d] # NoEntry
      BY <2>1 DEF ChildrenKnow
    <2>2. d # c /\ pc[d] = "fetch" /\ found'[d] = found[d] /\ ask'[d] = ask[d]
      BY DEF IInv, TypeOK
    <2> QED
      BY <2>2 DEF IInv, ChildrenKnow
  <1> QED
    BY <1>1, <1>2, <1>3, <1>4 DEF IInv

-----------------------------------------------------------------------------
\* Every step of the main thread, of the children and of the kernel keeps the invariant.
LEMMA InvariantStep == IInv /\ [Next]_vars => IInv'
  <1> SUFFICES ASSUME IInv, [Next]_vars PROVE IInv'
    OBVIOUS
  <1>1. CASE UNCHANGED vars
    <2>1. Inside' = Inside
      BY <1>1 DEF vars, mainVars, childVars, Inside
    <2>2. OneInside' /\ UndoOfHolders'
      BY <1>1, <2>1, MovesWithin DEF vars
    <2>3. MainKnows' /\ UpdateTakesEffect'
      BY <1>1, MainUndisturbed DEF IInv, vars
    <2>4. ChildrenKnow'
      BY <1>1, ChildrenUndisturbed DEF IInv, vars
    <2> QED
      BY <1>1, <2>2, <2>3, <2>4 DEF IInv, TypeOK, vars, mainVars, childVars
  <1>2. CASE \E id \in Ids, v \in Values : UpdateBegin(id, v)
    BY <1>2, UpdateBeginKeeps
  <1>3. CASE MainStep
    BY <1>3, MainLockKeeps, MainFindKeeps, WriteIdKeeps, WriteDataKeeps, MainUnlockKeeps
       DEF MainStep
  <1>4. CASE \E c \in Children : CheckSensorStatus(c) \/ ChildStep(c) \/ ChildDies(c)
    BY <1>4, CheckSensorStatusKeeps, ChildLockKeeps, ChildFindKeeps, ChildFetchKeeps,
       ChildUnlockKeeps, ChildDiesKeeps DEF ChildStep
  <1> QED
    BY <1>1, <1>2, <1>3, <1>4 DEF Next

\* The invariant holds in every state.
THEOREM InvariantHolds == Spec => []IInv
  BY InitHolds, InvariantStep, PTL DEF Spec

\* Never two processes inside, the lock free when nobody is, whichever children die and
\* wherever; and an update that is done is what a reader would be told.
THEOREM BoardIsSafe == Spec => []BoardSafe
  <1>1. IInv => BoardSafe
    BY DEF IInv, BoardSafe
  <1> QED
    BY <1>1, InvariantHolds, PTL

-----------------------------------------------------------------------------
(* The table is atomic to its users. *)

Sensors == Ids \ {0}
View == [id \in Sensors |-> Visible(id)]

\* A step that changes no sensor's value and no child's answer is a stutter.
LEMMA Stutters ==
  ASSUME \A id \in Sensors : Visible(id)' = Visible(id), UNCHANGED answer
  PROVE  UNCHANGED Abstract!vars
  <1>1. View' = View
    BY DEF View
  <1> QED
    BY <1>1 DEF Abstract!vars, View, Sensors

\* Only the write of a value and the writing of a fresh id touch what is visible.
LEMMA VisibleUnchanged ==
  ASSUME NEW id, UNCHANGED shared_mem,
         UNCHANGED <<pcMain, fresh, write_idx>> \/ (pcMain # "data" /\ pcMain' # "data")
  PROVE  Visible(id)' = Visible(id)
  BY DEF Visible, First

\* The abstract table counts as the lemmas about finite sets do.
LEMMA SameCardinality == \A S : Abstract!Cardinality(S) = Cardinality(S)
  BY DEF Abstract!Cardinality, Cardinality

\* A sensor whose first entry is being claimed has no value yet: the others fit into the
\* rest of the table.
LEMMA RoomIsLeft ==
  ASSUME IInv, pcMain = "data", fresh
  PROVE  Cardinality(Abstract!Known) < MAX_SENSORS
  <1> DEFINE others == Entries \ {write_idx}
             entry == [s \in Abstract!Known |-> First(s)]
  <1>1. write_idx \in Entries
    BY DEF IInv, MainKnows
  <1>2. IsFiniteSet(others) /\ Cardinality(others) = MAX_SENSORS - 1
    <2>1. IsFiniteSet(Entries) /\ Cardinality(Entries) = MAX_SENSORS
      <3>1. 1 \in Int /\ MAX_SENSORS \in Int /\ ~(1 > MAX_SENSORS) /\ MAX_SENSORS - 1 + 1 = MAX_SENSORS
        BY BlackboardAssumption
      <3> QED
        BY <3>1, FS_Interval DEF Entries
    <2> QED
      BY <1>1, <2>1, FS_RemoveElement
  <1>3. Abstract!Known \subseteq Sensors /\ \A s \in Abstract!Known : Visible(s) # NoValue
    BY DEF Abstract!Known, Sensors
  <1>4. \A s \in Abstract!Known : First(s) \in others /\ shared_mem[First(s)].sensor_id = s
    BY <1>3, FirstFinds DEF Visible, FindsFirst
  <1>5. entry \in [Abstract!Known -> others]
    BY <1>4
  <1>6. \A a, b \in Abstract!Known : entry[a] = entry[b] => a = b
    BY <1>4
  <1>7. entry \in Injection(Abstract!Known, others)
    BY <1>5, <1>6 DEF Injection, IsInjective
  <1> HIDE DEF entry, others
  <1>8. Cardinality(Abstract!Known) <= Cardinality(others) /\ IsFiniteSet(Abstract!Known)
    BY <1>2, <1>7, FS_Injection
  <1> QED
    BY <1>2, <1>8, FS_CardinalityType, BlackboardAssumption

\* Writing the id of an entry changes no value: a fresh one does not count yet.
LEMMA WriteIdIsHidden ==
  ASSUME IInv, WriteId, NEW id \in Sensors
  PROVE  Visible(id)' = Visible(id)
  <1>1. /\ TypeOK /\ write_idx \in Entries /\ write_idx = EntryFor(report.id)
        /\ fresh = (First(report.id) = NoEntry) /\ pcMain = "id" /\ pcMain' = "data"
        /\ write_idx' = write_idx /\ fresh' = fresh /\ report' = report
    BY DEF IInv, MainKnows, WriteId
  <1>2. /\ shared_mem'[write_idx].sensor_id = report.id
        /\ shared_mem'[write_idx].latest_data = shared_mem[write_idx].latest_data
        /\ \A i \in Entries \ {write_idx} : shared_mem'[i] = shared_mem[i]
    BY <1>1 DEF WriteId, TypeOK
  <1>3. CASE id = report.id
    <2>1. First(id)' = write_idx
      BY <1>1, <1>3, WriteIdKeeps DEF IInv, MainKnows, Sensors, First
    <2>2. CASE fresh
      BY <1>1, <1>3, <2>1, <2>2 DEF Visible
    <2>3. CASE ~fresh
      BY <1>1, <1>2, <1>3, <2>1, <2>3, NoEntryIsNone DEF Visible, EntryFor
    <2> QED
      BY <2>2, <2>3
  <1>4. CASE id # report.id
    <2>1. shared_mem[write_idx].sensor_id # id /\ shared_mem'[write_idx].sensor_id # id
      BY <1>1, <1>2, <1>4, FirstFinds, NoEntryIsNone DEF EntryFor, FindsFirst, Sensors
    <2>2. \A i \in Entries : shared_mem'[i].sensor_id = id <=> shared_mem[i].sensor_id = id
      BY <1>2, <2>1
    <2>3. First(id)' = First(id)
      BY <2>2, SameSearch
    <2>4. First(id) # write_idx
      BY <1>1, <2>1, FirstFinds, NoEntryIsNone DEF FindsFirst
    <2>5. First(id) \in Entries => shared_mem'[First(id)] = shared_mem[First(id)]
      BY <1>2, <2>4
    <2> QED
      BY <1>1, <2>3, <2>4, <2>5, FirstFinds DEF FindsFirst, Visible
  <1> QED
    BY <1>3, <1>4

\* Writing the value is the update; a report with id 0 is none.
LEMMA WriteDataIsUpdate ==
  ASSUME IInv, WriteData
  PROVE  [Abstract!Next]_(Abstract!vars)
  <1>1. /\ TypeOK /\ write_idx \in Entries /\ shared_mem[write_idx].sensor_id = report.id
        /\ report.id # 0 => First(report.id) = write_idx
        /\ report.id \in Ids /\ report.data \in Values
        /\ pcMain = "data" /\ pcMain' = "unlock" /\ answer' = answer
    BY DEF IInv, MainKnows, WriteData, childVars
  <1>2. /\ \A i \in Entries : shared_mem'[i].sensor_id = shared_mem[i].sensor_id
        /\ shared_mem'[write_idx].latest_data = report.data
        /\ \A i \in Entries \ {write_idx} : shared_mem'[i] = shared_mem[i]
    BY <1>1 DEF WriteData, TypeOK
  <1>3. \A id : First(id)' = First(id)
    BY <1>2, SameSearch
  <1>4. ASSUME NEW id \in Sensors, id # report.id
        PROVE  Visible(id)' = Visible(id)
    <2>1. First(id) # write_idx
      BY <1>1, <1>4, FirstFinds, NoEntryIsNone DEF FindsFirst
    <2>2. First(id) \in Entries => shared_mem'[First(id)] = shared_mem[First(id)]
      BY <1>2, <2>1
    <2> QED
      BY <1>1, <1>3, <2>1, <2>2, FirstFinds DEF FindsFirst, Visible
  <1>5. CASE report.id = 0
    BY <1>1, <1>4, <1>5, Stutters DEF Sensors
  <1>6. CASE report.id # 0
    <2>1. report.id \in Sensors /\ Visible(report.id)' = report.data
      <3>1. report' = report /\ First(report.id)' = write_idx
        BY <1>1, <1>3, <1>6 DEF WriteData
      <3> QED
        BY <1>1, <1>2, <1>6, <3>1, NoEntryIsNone DEF Visible, Sensors
    <2>2. report' = report
      BY DEF WriteData
    <2>3. View' = [View EXCEPT ![report.id] = report.data]
      BY <1>4, <2>1, <2>2 DEF View
    <2>4. report.id \in Abstract!Known \/ Cardinality(Abstract!Known) < MAX_SENSORS
      <3>1. CASE fresh
        BY <1>1, <3>1, RoomIsLeft
      <3>2. CASE ~fresh
        <4>1. Visible(report.id) = shared_mem[write_idx].latest_data
          BY <1>1, <1>6, <3>2, NoEntryIsNone DEF Visible
        <4>2. Visible(report.id) # NoValue
          BY <1>1, <4>1, BlackboardAssumption DEF TypeOK
        <4> QED
          BY <2>1, <4>2 DEF Abstract!Known, Sensors
      <3> QED
        BY <3>1, <3>2
    <2> QED
      BY <1>1, <2>1, <2>3, <2>4, SameCardinality DEF Abstract!Next, Abstract!Update, View, Sensors
  <1> QED
    BY <1>5, <1>6

\* What a child is told is what the table showed at that moment; an answer it is done
\* with, or that died with it, is forgotten.
LEMMA ChildReads ==
  ASSUME IInv, NEW c \in Children,
         CheckSensorStatus(c) \/ ChildStep(c) \/ ChildDies(c)
  PROVE  [Abstract!Next]_(Abstract!vars)
  <1>1. UNCHANGED <<shared_mem, pcMain, fresh, write_idx>>
    BY DEF CheckSensorStatus, ChildStep, ChildLock, ChildFind, ChildFetch, ChildUnlock,
           ChildDies, mainVars
  <1>2. (\A id \in Sensors : Visible(id)' = Visible(id)) /\ View' = View
    BY <1>1, VisibleUnchanged DEF View
  <1>3. CASE answer' = answer
    BY <1>2, <1>3, Stutters
  <1>4. CASE answer' = [answer EXCEPT ![c] = NoAnswer]
    BY <1>2, <1>4
       DEF Abstract!Next, Abstract!Forget, Abstract!Nothing, NoAnswer, View, Sensors
  <1>5. CASE /\ ask[c] \in Sensors
             /\ answer' = [answer EXCEPT ![c] = [id |-> ask[c], data |-> Visible(ask[c])]]
    <2>1. View[ask[c]] = Visible(ask[c])
      BY <1>5 DEF View
    <2> QED
      BY <1>2, <1>5, <2>1 DEF Abstract!Next, Abstract!Read, View, Sensors
  <1>6. ask[c] \in Sensors
    BY BlackboardAssumption DEF IInv, TypeOK, Sensors
  <1>7. CASE ChildFind(c)
    <2>1. pcMain # "data"
      BY <1>7, Exclusion DEF IInv, ChildFind, ChildInside, MainInside
    <2>2. CASE First(ask[c]) = NoEntry
      <3>1. Visible(ask[c]) = NoValue
        BY <2>2 DEF Visible
      <3> QED
        BY <1>5, <1>6, <1>7, <2>2, <3>1 DEF ChildFind, Answer, IInv, TypeOK
    <2>3. CASE First(ask[c]) # NoEntry
      BY <1>3, <1>7, <2>3 DEF ChildFind, IInv, TypeOK
    <2> QED
      BY <2>2, <2>3
  <1>8. CASE ChildFetch(c)
    <2>1. pcMain # "data"
      BY <1>8, Exclusion DEF IInv, ChildFetch, ChildInside, MainInside
    <2>2. found[c] = First(ask[c]) /\ found[c] # NoEntry
      BY <1>8 DEF IInv, ChildrenKnow, ChildFetch
    <2>3. Visible(ask[c]) = shared_mem[found[c]].latest_data
      BY <2>1, <2>2 DEF Visible
    <2> QED
      BY <1>5, <1>6, <1>8, <2>3 DEF ChildFetch, Answer
  <1> QED
    BY <1>3, <1>4, <1>7, <1>8
       DEF CheckSensorStatus, ChildStep, ChildLock, ChildUnlock, ChildDies

\* To its users the table is atomic: a child is told the value written last for the sensor
\* it asks for, or that there is none, for every number of children and sensors.
THEOREM BoardImplementsLatestValues == Spec => ImplementsLatestValues
  <1>1. Init => Abstract!Init
    <2> SUFFICES ASSUME Init PROVE Abstract!Init
      OBVIOUS
    <2>1. ASSUME NEW id \in Sensors PROVE Visible(id) = NoValue
      <3>1. First(id) = NoEntry
        BY FirstFinds, BlackboardAssumption DEF FindsFirst, Init, Sensors
      <3> QED
        BY <3>1 DEF Visible
    <2> QED
      BY <2>1 DEF Init, Abstract!Init, Abstract!Nothing, NoAnswer, Sensors
  <1>2. IInv /\ [Next]_vars => [Abstract!Next]_(Abstract!vars)
    <2> SUFFICES ASSUME IInv, [Next]_vars PROVE [Abstract!Next]_(Abstract!vars)
      OBVIOUS
    <2>1. CASE (\E id \in Ids, v \in Values : UpdateBegin(id, v)) \/ MainLock \/ MainFind
               \/ MainUnlock \/ UNCHANGED vars
      BY <2>1, VisibleUnchanged, Stutters
         DEF UpdateBegin, MainLock, MainFind, MainUnlock, vars, mainVars, childVars
    <2>2. CASE WriteId
      BY <2>2, WriteIdIsHidden, Stutters DEF WriteId, childVars
    <2>3. CASE WriteData
      BY <2>3, WriteDataIsUpdate
    <2>4. CASE \E c \in Children : CheckSensorStatus(c) \/ ChildStep(c) \/ ChildDies(c)
      BY <2>4, ChildReads
    <2> QED
      BY <2>1, <2>2, <2>3, <2>4 DEF Next, MainStep
  <1> QED
    BY <1>1, <1>2, InvariantHolds, PTL DEF Spec, ImplementsLatestValues, Abstract!Spec
=============================================================================
