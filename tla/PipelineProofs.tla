--------------------------- MODULE PipelineProofs ---------------------------
(***************************************************************************)
(* The data path is correct for every ring size, batch size, set of        *)
(* sensors and number of records, as long as SIGHUP does not reach the     *)
(* cloud thread (Spec, not SpecWithSighup).                                *)
(***************************************************************************)
EXTENDS Pipeline, FiniteSetTheorems, SequenceTheorems, WellFoundedInduction, TLAPS

\* Succ walks the slots in a circle.
LEMMA SuccInSlots ==
  ASSUME NEW i \in Slots
  PROVE  /\ Succ(i) \in Slots
         /\ Succ(i) = IF i = MAX_QUEUE_SIZE - 1 THEN 0 ELSE i + 1
  <1>1. CASE i = MAX_QUEUE_SIZE - 1
    BY <1>1, PipelineAssumption, SMT DEF Succ, Slots
  <1>2. CASE i # MAX_QUEUE_SIZE - 1
    BY <1>2, PipelineAssumption, SMT DEF Succ, Slots
  <1> QED BY <1>1, <1>2

\* The slot k places after slot i.
LEMMA SlotAfter ==
  ASSUME NEW i \in Slots, NEW k \in Nat, k <= MAX_QUEUE_SIZE
  PROVE  (i + k) % MAX_QUEUE_SIZE =
           IF i + k < MAX_QUEUE_SIZE THEN i + k ELSE i + k - MAX_QUEUE_SIZE
  <1>1. CASE i + k < MAX_QUEUE_SIZE
    BY <1>1, PipelineAssumption, SMT DEF Slots
  <1>2. CASE i + k >= MAX_QUEUE_SIZE
    BY <1>2, PipelineAssumption, SMT DEF Slots
  <1> QED BY <1>1, <1>2, PipelineAssumption DEF Slots

\* What is left of an event while it is handled, and when the batch is empty.
LocalState ==
  /\ pcMain # "poll" => pending # <<>>
  /\ pcCloud \in {"wait", "lock", "first", "sleep"} => batch = <<>>

IInv ==
  /\ TypeOK
  /\ LocalState
  /\ MutexHeldByOwner
  /\ SemaphoreCountsRing
  /\ NeverTakesUnpushed
  /\ WaitingRecordsIntact
  /\ BatchFaithful

-----------------------------------------------------------------------------
(* Type correctness. *)

\* The threads start with an empty ring, outside the critical sections.
LEMMA InitType == Init => TypeOK /\ LocalState
  BY PipelineAssumption DEF Init, TypeOK, LocalState, Slots, Reading, ZeroReading

\* An event is a sequence of readings.
LEMMA DatagramsType == \A d \in Datagrams : d \in Seq(Reading)
  <1>1. \A r \in Reading : <<r>> \in Seq(Reading)
    OBVIOUS
  <1>2. \A r1, r2 \in Reading : <<r1, r2>> \in Seq(Reading)
    OBVIOUS
  <1>3. \A t \in Values, h \in Values :
          /\ [id |-> TEMP_ID, data |-> t] \in Reading
          /\ [id |-> HUM_ID, data |-> h] \in Reading
    BY PipelineAssumption DEF Reading
  <1>4. <<>> \in Seq(Reading)
    OBVIOUS
  <1>5. ASSUME NEW d \in Datagrams PROVE d \in Seq(Reading)
    <2>1. CASE d \in {<<>>}
      BY <2>1, <1>4
    <2>2. CASE d \in {<<r>> : r \in Reading}
      BY <2>2, <1>1
    <2>3. CASE d \in {<<[id |-> TEMP_ID, data |-> t], [id |-> HUM_ID, data |-> h]>> :
                        t \in Values, h \in Values}
      <3>1. PICK t \in Values, h \in Values :
              d = <<[id |-> TEMP_ID, data |-> t], [id |-> HUM_ID, data |-> h]>>
        BY <2>3
      <3>2. /\ [id |-> TEMP_ID, data |-> t] \in Reading
            /\ [id |-> HUM_ID, data |-> h] \in Reading
        BY <1>3
      <3>3. <<[id |-> TEMP_ID, data |-> t], [id |-> HUM_ID, data |-> h]>> \in Seq(Reading)
        BY <3>2, <1>2
      <3> QED
        BY <3>1, <3>3
    <2> QED
      BY <1>5, <2>1, <2>2, <2>3 DEF Datagrams
  <1> QED
    BY <1>5

\* The handler comes back to poll exactly when nothing is left to push.
LEMMA ContinueType ==
  ASSUME NEW rest \in Seq(Reading), Continue(rest)
  PROVE  /\ pending' \in Seq(Reading)
         /\ pcMain' \in {"poll", "lock"}
         /\ pcMain' # "poll" => pending' # <<>>
  BY DEF Continue

\* No step of either thread breaks a type.
LEMMA TypeStep == TypeOK /\ LocalState /\ [Next]_vars => TypeOK' /\ LocalState'
  <1> SUFFICES ASSUME TypeOK, LocalState, [Next]_vars
               PROVE  TypeOK' /\ LocalState'
    OBVIOUS
  <1> USE PipelineAssumption DEF TypeOK, LocalState
  <1>1. ASSUME NEW d \in Datagrams, NEW allowed \in BOOLEAN, HandleUdpRead(d, allowed)
        PROVE  TypeOK' /\ LocalState'
    <2>1. (IF allowed THEN d ELSE <<>>) \in Seq(Reading)
      BY DatagramsType
    <2> QED
      BY <1>1, <2>1, ContinueType
         DEF HandleUdpRead, ringVars, syncVars, cloudVars, history
  <1>2. ASSUME NEW r \in Reading, HandleClientRead(r)
        PROVE  TypeOK' /\ LocalState'
    <2>1. <<r>> \in Seq(Reading)
      OBVIOUS
    <2> QED
      BY <1>2, <2>1, ContinueType
         DEF HandleClientRead, ringVars, syncVars, cloudVars, history
  <1>3. CASE MainLock
    BY <1>3 DEF MainLock, Lock, ringVars, cloudVars, history
  <1>4. CASE Enqueue
    <2>1. Head(pending) \in Reading
      BY <1>4 DEF Enqueue
    <2>2. queue_head' \in Slots /\ queue_tail' = queue_tail
      BY <1>4, SuccInSlots DEF Enqueue, Store
    <2>3. data_queue' \in [Slots -> Reading \union {ZeroReading}]
      BY <1>4, <2>1 DEF Enqueue, Store
    <2>4. accepted' \in Seq([reading : Reading, via : {"udp", "ipc"}])
      BY <1>4, <2>1 DEF Enqueue
    <2> QED
      BY <1>4, <2>2, <2>3, <2>4 DEF Enqueue, syncVars, cloudVars
  <1>5. CASE Refuse
    <2>1. Tail(pending) \in Seq(Reading)
      BY <1>5 DEF Refuse
    <2> QED
      BY <1>5, <2>1, ContinueType DEF Refuse, Unlock, ringVars, cloudVars, history
  <1>6. CASE MainUnlock
    BY <1>6 DEF MainUnlock, Unlock, ringVars, cloudVars, history
  <1>7. CASE SemPost
    <2>1. Tail(pending) \in Seq(Reading)
      BY <1>7 DEF SemPost
    <2>2. data_sem' \in Nat
      BY <1>7 DEF SemPost, Post
    <2>3. /\ pending' \in Seq(Reading)
          /\ pcMain' \in {"poll", "lock", "publish"}
          /\ pcMain' # "poll" => pending' # <<>>
      <3>1. CASE Publishes
        BY <1>7, <3>1 DEF SemPost
      <3>2. CASE ~Publishes
        BY <1>7, <3>2, <2>1, ContinueType DEF SemPost
      <3> QED BY <3>1, <3>2
    <2> QED
      BY <1>7, <2>2, <2>3 DEF SemPost, ringVars, cloudVars, history
  <1>8. CASE Publish
    <2>1. Tail(pending) \in Seq(Reading) /\ Head(pending) \in Reading
      BY <1>8 DEF Publish
    <2>2. shared_mem' \in [Sensors -> Values \union {NoValue}]
      BY <1>8, <2>1 DEF Publish, UpdateBlackboard, Reading
    <2> QED
      BY <1>8, <2>1, <2>2, ContinueType
         DEF Publish, ringVars, syncVars, cloudVars, history
  <1>9. CASE SemWait
    BY <1>9 DEF SemWait, TakeUnit, ringVars, mainVars, history
  <1>10. CASE CloudLock
    BY <1>10 DEF CloudLock, Lock, ringVars, mainVars, history
  <1>11. CASE Fetch /\ UNCHANGED <<queue_mutex, mainVars, shared_mem, accepted>>
              /\ data_sem' \in Nat /\ pcCloud' = "drain"
    <2>1. queue_tail' \in Slots
      BY <1>11, SuccInSlots DEF Fetch
    <2>2. batch' \in Seq(Reading \union {ZeroReading})
      BY <1>11 DEF Fetch
    <2> QED
      BY <1>11, <2>1, <2>2 DEF Fetch, mainVars
  <1>12. CASE TakeFirst
    BY <1>11, <1>12 DEF TakeFirst, syncVars
  <1>13. CASE Drain
    BY <1>11, <1>13 DEF Drain, TakeUnit
  <1>14. CASE CloudUnlock
    BY <1>14 DEF CloudUnlock, Unlock, ringVars, mainVars, history
  <1>15. ASSUME NEW from, NEW to \in {"wait", "backoff", "check", "response", "sleep"},
                Upload(from, to), batch' \in {batch, <<>>},
                to \in {"wait", "sleep"} => batch' = <<>>
         PROVE  TypeOK' /\ LocalState'
    <2>1. batch' \in Seq(Reading \union {ZeroReading})
      <3>1. batch' = batch \/ batch' = <<>>
        BY <1>15
      <3>2. <<>> \in Seq(Reading \union {ZeroReading})
        OBVIOUS
      <3> QED
        BY <3>1, <3>2
    <2>2. /\ pcCloud' \in {"wait", "lock", "first", "drain", "connect", "backoff",
                           "response", "check", "sleep"}
          /\ pcCloud' \in {"wait", "lock", "first", "sleep"} => batch' = <<>>
      BY <1>15 DEF Upload
    <2>3. UNCHANGED <<ringVars, syncVars, mainVars, shared_mem, accepted, taken>>
      BY <1>15 DEF Upload
    <2> QED
      BY <2>1, <2>2, <2>3 DEF ringVars, syncVars, mainVars
  <1>16. CASE \/ SocketFails \/ ConnectFails \/ BackoffEnds \/ WriteRequest
              \/ WriteFails \/ ReadResponse \/ CheckIdle \/ SleepEnds
    BY <1>15, <1>16 DEF SocketFails, ConnectFails, BackoffEnds, WriteRequest,
                        WriteFails, ReadResponse, CheckIdle, SleepEnds, Upload
  <1>17. CASE UNCHANGED vars
    BY <1>17 DEF vars, ringVars, syncVars, mainVars, cloudVars, history
  <1> QED
    BY <1>1, <1>2, <1>3, <1>4, <1>5, <1>6, <1>7, <1>8, <1>9, <1>10, <1>12, <1>13,
       <1>14, <1>16, <1>17 DEF Next, MainStep, CloudStep

\* Every variable keeps its type, in particular the ring's indices stay slots.
THEOREM TypeCorrect == Spec => []TypeOK
  <1>1. TypeOK /\ LocalState /\ [Next]_vars => (TypeOK /\ LocalState)'
    BY TypeStep
  <1> QED
    BY <1>1, InitType, PTL DEF Spec

-----------------------------------------------------------------------------
(* The geometry of the ring. *)

\* One slot of the ring always stays empty.
LEMMA RingLengthType ==
  ASSUME TypeOK
  PROVE  RingLength \in 0 .. MAX_QUEUE_SIZE - 1
  BY PipelineAssumption DEF TypeOK, Slots, RingLength

\* The ring is full when all slots but one wait.
LEMMA FullLength ==
  ASSUME TypeOK
  PROVE  Full <=> RingLength = MAX_QUEUE_SIZE - 1
  BY PipelineAssumption, SuccInSlots DEF TypeOK, Slots, RingLength, Full

\* The head is RingLength places after the tail, and the waiting records are in
\* the slots before it.
LEMMA HeadSlot ==
  ASSUME TypeOK
  PROVE  /\ (queue_tail + RingLength) % MAX_QUEUE_SIZE = queue_head
         /\ \A k \in 0 .. RingLength - 1 :
              /\ (queue_tail + k) % MAX_QUEUE_SIZE \in Slots
              /\ (queue_tail + k) % MAX_QUEUE_SIZE # queue_head
  <1>1. /\ queue_tail \in Slots /\ queue_head \in Slots
        /\ MAX_QUEUE_SIZE \in Nat /\ MAX_QUEUE_SIZE >= 2
    BY PipelineAssumption DEF TypeOK
  <1>2. (queue_tail + RingLength) % MAX_QUEUE_SIZE = queue_head
    <2>1. RingLength \in Nat /\ RingLength <= MAX_QUEUE_SIZE
      BY RingLengthType, <1>1
    <2>2. (queue_tail + RingLength) % MAX_QUEUE_SIZE =
            IF queue_tail + RingLength < MAX_QUEUE_SIZE
              THEN queue_tail + RingLength ELSE queue_tail + RingLength - MAX_QUEUE_SIZE
      BY <1>1, <2>1, SlotAfter
    <2> QED
      BY <1>1, <2>2 DEF RingLength, Slots
  <1>3. ASSUME NEW k \in 0 .. RingLength - 1
        PROVE  /\ (queue_tail + k) % MAX_QUEUE_SIZE \in Slots
               /\ (queue_tail + k) % MAX_QUEUE_SIZE # queue_head
    <2>1. k \in Nat /\ k <= MAX_QUEUE_SIZE /\ k < RingLength
      BY RingLengthType, <1>1
    <2>2. (queue_tail + k) % MAX_QUEUE_SIZE =
            IF queue_tail + k < MAX_QUEUE_SIZE
              THEN queue_tail + k ELSE queue_tail + k - MAX_QUEUE_SIZE
      BY <1>1, <2>1, SlotAfter
    <2> QED
      BY <1>1, <2>1, <2>2 DEF RingLength, Slots
  <1> QED
    BY <1>2, <1>3

\* A push into a ring that is not full adds one record.
LEMMA StoreGrows ==
  ASSUME TypeOK, ~Full, queue_head' = Succ(queue_head), queue_tail' = queue_tail
  PROVE  RingLength' = RingLength + 1
  <1>1. /\ queue_tail \in Slots /\ queue_head \in Slots
        /\ MAX_QUEUE_SIZE \in Nat /\ MAX_QUEUE_SIZE >= 2
    BY PipelineAssumption DEF TypeOK
  <1>2. /\ queue_head' = IF queue_head = MAX_QUEUE_SIZE - 1 THEN 0 ELSE queue_head + 1
        /\ queue_head' # queue_tail
    BY <1>1, SuccInSlots DEF Full
  <1> QED
    BY <1>1, <1>2 DEF Slots, RingLength

\* A record taken from a ring that is not empty is one less.
LEMMA FetchShrinks ==
  ASSUME TypeOK, RingLength > 0,
         queue_tail' = Succ(queue_tail), queue_head' = queue_head
  PROVE  /\ RingLength' = RingLength - 1
         /\ queue_tail = (queue_tail + 0) % MAX_QUEUE_SIZE
         /\ \A k \in 0 .. RingLength - 2 :
              (queue_tail' + k) % MAX_QUEUE_SIZE = (queue_tail + (k + 1)) % MAX_QUEUE_SIZE
  <1>1. /\ queue_tail \in Slots /\ queue_head \in Slots
        /\ MAX_QUEUE_SIZE \in Nat /\ MAX_QUEUE_SIZE >= 2
    BY PipelineAssumption DEF TypeOK
  <1>2. RingLength' = RingLength - 1
    <2>1. queue_tail' = IF queue_tail = MAX_QUEUE_SIZE - 1 THEN 0 ELSE queue_tail + 1
      BY <1>1, SuccInSlots
    <2> QED
      BY <1>1, <2>1 DEF Slots, RingLength
  <1>3. queue_tail = (queue_tail + 0) % MAX_QUEUE_SIZE
    <2>1. 0 \in Nat /\ 0 <= MAX_QUEUE_SIZE
      BY <1>1
    <2>2. (queue_tail + 0) % MAX_QUEUE_SIZE =
            IF queue_tail + 0 < MAX_QUEUE_SIZE
              THEN queue_tail + 0 ELSE queue_tail + 0 - MAX_QUEUE_SIZE
      BY <1>1, <2>1, SlotAfter
    <2> QED
      BY <1>1, <2>2 DEF Slots
  <1>4. ASSUME NEW k \in 0 .. RingLength - 2
        PROVE  (queue_tail' + k) % MAX_QUEUE_SIZE = (queue_tail + (k + 1)) % MAX_QUEUE_SIZE
    <2>1. k \in Nat /\ k + 1 \in Nat /\ k + 1 <= MAX_QUEUE_SIZE /\ k <= MAX_QUEUE_SIZE
      BY RingLengthType, <1>1
    <2>2. queue_tail' \in Slots
      BY <1>1, SuccInSlots
    <2>3. (queue_tail' + k) % MAX_QUEUE_SIZE =
            IF queue_tail' + k < MAX_QUEUE_SIZE THEN queue_tail' + k
                                                ELSE queue_tail' + k - MAX_QUEUE_SIZE
      BY <2>1, <2>2, SlotAfter
    <2>4. (queue_tail + (k + 1)) % MAX_QUEUE_SIZE =
            IF queue_tail + (k + 1) < MAX_QUEUE_SIZE
              THEN queue_tail + (k + 1) ELSE queue_tail + (k + 1) - MAX_QUEUE_SIZE
      BY <1>1, <2>1, SlotAfter
    <2>5. k <= MAX_QUEUE_SIZE - 3
      BY RingLengthType, <1>1
    <2> QED
      BY <1>1, <2>1, <2>3, <2>4, <2>5, SuccInSlots DEF Slots
  <1> QED
    BY <1>2, <1>3, <1>4

-----------------------------------------------------------------------------
(* The invariant. *)

\* At the start nothing waits and nothing is announced.
LEMMA InitInvariant == Init => IInv
  <1> SUFFICES ASSUME Init PROVE IInv
    OBVIOUS
  <1>1. TypeOK /\ LocalState
    BY InitType
  <1>2. RingLength = 0
    BY PipelineAssumption DEF Init, RingLength
  <1>3. MutexHeldByOwner /\ SemaphoreCountsRing
    BY <1>2 DEF Init, MutexHeldByOwner, SemaphoreCountsRing, Unposted, Claimed
  <1>4. NeverTakesUnpushed /\ WaitingRecordsIntact
    BY <1>2 DEF Init, NeverTakesUnpushed, WaitingRecordsIntact
  <1>5. BatchFaithful
    BY PipelineAssumption DEF Init, BatchFaithful
  <1> QED
    BY <1>1, <1>3, <1>4, <1>5 DEF IInv

\* The mutex is exclusive.
LEMMA MutexStep ==
  TypeOK /\ MutexHeldByOwner /\ [Next]_vars => MutexHeldByOwner'
  <1> SUFFICES ASSUME TypeOK, MutexHeldByOwner, [Next]_vars
               PROVE  MutexHeldByOwner'
    OBVIOUS
  <1> USE DEF MutexHeldByOwner
  <1>1. CASE \/ \E d \in Datagrams, allowed \in BOOLEAN : HandleUdpRead(d, allowed)
             \/ \E r \in Reading : HandleClientRead(r)
    BY <1>1 DEF HandleUdpRead, HandleClientRead, Continue, syncVars, cloudVars
  <1>2. CASE MainLock \/ MainUnlock \/ Enqueue
    BY <1>2 DEF MainLock, Lock, MainUnlock, Unlock, Enqueue, syncVars, cloudVars
  <1>3. CASE Refuse \/ SemPost \/ Publish
    BY <1>3 DEF Refuse, Unlock, SemPost, Publish, Continue, syncVars, cloudVars
  <1>4. CASE SemWait \/ CloudLock \/ TakeFirst \/ Drain \/ CloudUnlock
    BY <1>4 DEF SemWait, CloudLock, Lock, TakeFirst, Drain, CloudUnlock, Unlock,
                syncVars, mainVars
  <1>5. CASE \/ SocketFails \/ ConnectFails \/ BackoffEnds \/ WriteRequest
             \/ WriteFails \/ ReadResponse \/ CheckIdle \/ SleepEnds
    BY <1>5 DEF SocketFails, ConnectFails, BackoffEnds, WriteRequest, WriteFails,
                ReadResponse, CheckIdle, SleepEnds, Upload, syncVars, mainVars
  <1>6. CASE UNCHANGED vars
    BY <1>6 DEF vars, syncVars, mainVars, cloudVars
  <1> QED
    BY <1>1, <1>2, <1>3, <1>4, <1>5, <1>6 DEF Next, MainStep, CloudStep

\* A step that leaves the ring and the histories alone, and the batch too or
\* drops it, keeps what relates them.
LEMMA RingUntouched ==
  ASSUME TypeOK, NeverTakesUnpushed, WaitingRecordsIntact, BatchFaithful,
         UNCHANGED <<ringVars, accepted, taken>>, batch' \in {batch, <<>>}
  PROVE  /\ RingLength' = RingLength
         /\ NeverTakesUnpushed' /\ WaitingRecordsIntact' /\ BatchFaithful'
  <1>1. RingLength' = RingLength
    BY DEF ringVars, RingLength
  <1>2. NeverTakesUnpushed' /\ WaitingRecordsIntact'
    BY <1>1 DEF ringVars, NeverTakesUnpushed, WaitingRecordsIntact
  <1>3. BatchFaithful'
    <2>1. CASE batch' = batch
      BY <2>1 DEF BatchFaithful
    <2>2. CASE batch' = <<>>
      BY <2>2, PipelineAssumption DEF BatchFaithful, TypeOK
    <2> QED
      BY <2>1, <2>2
  <1> QED
    BY <1>1, <1>2, <1>3

\* A push adds the record behind the waiting ones and touches none of them.
LEMMA EnqueueStep ==
  ASSUME IInv, Enqueue
  PROVE  /\ SemaphoreCountsRing' /\ NeverTakesUnpushed'
         /\ WaitingRecordsIntact' /\ BatchFaithful'
  <1> USE DEF IInv
  <1>1. TypeOK /\ ~Full /\ queue_tail' = queue_tail /\ queue_head' = Succ(queue_head)
    BY DEF Enqueue, Store
  <1>2. RingLength' = RingLength + 1
    BY <1>1, StoreGrows
  <1>3. /\ RingLength \in Nat /\ Len(accepted) \in Nat /\ taken \in Nat
        /\ taken' = taken /\ batch' = batch /\ pcCloud' = pcCloud
        /\ data_sem' = data_sem /\ data_sem \in Nat
    BY RingLengthType, PipelineAssumption DEF Enqueue, TypeOK, syncVars, cloudVars
  <1>4. Head(pending) \in Reading
    BY DEF Enqueue, TypeOK, LocalState
  <1>5. /\ Len(accepted') = Len(accepted) + 1
        /\ \A i \in 1 .. Len(accepted) : accepted'[i] = accepted[i]
        /\ accepted'[Len(accepted) + 1].reading = Head(pending)
    BY <1>4 DEF Enqueue, TypeOK
  <1>6. SemaphoreCountsRing'
    BY <1>2, <1>3 DEF Enqueue, SemaphoreCountsRing, Unposted, Claimed
  <1>7. NeverTakesUnpushed'
    BY <1>2, <1>3, <1>5 DEF NeverTakesUnpushed
  <1>8. ASSUME NEW k \in 0 .. RingLength' - 1
        PROVE  data_queue'[(queue_tail' + k) % MAX_QUEUE_SIZE]
                 = accepted'[taken' + k + 1].reading
    <2>1. CASE k = RingLength
      <3>1. (queue_tail' + k) % MAX_QUEUE_SIZE = queue_head
        BY <1>1, <2>1, HeadSlot
      <3>2. data_queue'[queue_head] = Head(pending)
        BY DEF Enqueue, Store, TypeOK
      <3>3. taken' + k + 1 = Len(accepted) + 1
        BY <1>3, <2>1 DEF NeverTakesUnpushed
      <3> QED
        BY <1>5, <3>1, <3>2, <3>3
    <2>2. CASE k # RingLength
      <3>1. k \in 0 .. RingLength - 1
        BY <1>2, <1>3, <2>2
      <3>2. data_queue'[(queue_tail + k) % MAX_QUEUE_SIZE]
              = data_queue[(queue_tail + k) % MAX_QUEUE_SIZE]
        BY <1>1, <3>1, HeadSlot DEF Enqueue, Store, TypeOK
      <3>3. taken + k + 1 \in 1 .. Len(accepted)
        BY <1>3, <3>1 DEF NeverTakesUnpushed
      <3> QED
        BY <1>1, <1>3, <1>5, <3>1, <3>2, <3>3 DEF WaitingRecordsIntact
    <2> QED
      BY <2>1, <2>2
  <1>9. WaitingRecordsIntact'
    BY <1>8 DEF WaitingRecordsIntact
  <1>10. BatchFaithful'
    <2>1. ASSUME NEW k \in 1 .. Len(batch)
          PROVE  taken - Len(batch) + k \in 1 .. Len(accepted)
      BY <1>3 DEF BatchFaithful, NeverTakesUnpushed, TypeOK
    <2> QED
      BY <1>3, <1>5, <2>1 DEF BatchFaithful
  <1> QED
    BY <1>6, <1>7, <1>9, <1>10

\* Taking a record that waits removes the oldest one and appends it to the batch.
LEMMA FetchStep ==
  ASSUME IInv, Fetch, RingLength > 0, Len(batch) < BATCH_MAX, accepted' = accepted
  PROVE  /\ RingLength' = RingLength - 1
         /\ NeverTakesUnpushed' /\ WaitingRecordsIntact' /\ BatchFaithful'
  <1> USE DEF IInv
  <1>1. /\ TypeOK /\ queue_tail' = Succ(queue_tail) /\ queue_head' = queue_head
        /\ data_queue' = data_queue /\ taken' = taken + 1
        /\ batch' = Append(batch, data_queue[queue_tail])
    BY DEF Fetch
  <1>2. RingLength \in Nat /\ taken \in Nat /\ Len(accepted) \in Nat /\ Len(batch) \in Nat
    BY RingLengthType, PipelineAssumption DEF TypeOK
  <1>3. RingLength' = RingLength - 1
    BY <1>1, FetchShrinks
  <1>4. NeverTakesUnpushed'
    BY <1>1, <1>2, <1>3 DEF NeverTakesUnpushed
  <1>5. WaitingRecordsIntact'
    <2>1. ASSUME NEW k \in 0 .. RingLength' - 1
          PROVE  data_queue'[(queue_tail' + k) % MAX_QUEUE_SIZE]
                   = accepted'[taken' + k + 1].reading
      <3>1. k \in 0 .. RingLength - 2 /\ k + 1 \in 0 .. RingLength - 1
        BY <1>2, <1>3
      <3>2. (queue_tail' + k) % MAX_QUEUE_SIZE = (queue_tail + (k + 1)) % MAX_QUEUE_SIZE
        BY <1>1, <3>1, FetchShrinks
      <3>3. data_queue[(queue_tail + (k + 1)) % MAX_QUEUE_SIZE]
              = accepted[taken + (k + 1) + 1].reading
        BY <3>1 DEF WaitingRecordsIntact
      <3>4. taken' + k + 1 = taken + (k + 1) + 1
        BY <1>1, <1>2, <3>1
      <3> QED
        BY <1>1, <3>2, <3>3, <3>4
    <2> QED
      BY <2>1 DEF WaitingRecordsIntact
  <1>6. BatchFaithful'
    <2>1. data_queue[queue_tail] = accepted[taken + 1].reading
      <3>1. 0 \in 0 .. RingLength - 1 /\ taken + 0 + 1 = taken + 1
        BY <1>2
      <3>2. queue_tail = (queue_tail + 0) % MAX_QUEUE_SIZE
        BY <1>1, FetchShrinks
      <3>3. data_queue[(queue_tail + 0) % MAX_QUEUE_SIZE] = accepted[taken + 0 + 1].reading
        BY <3>1 DEF WaitingRecordsIntact
      <3> QED
        BY <3>1, <3>2, <3>3
    <2>2. /\ Len(batch') = Len(batch) + 1
          /\ \A k \in 1 .. Len(batch) : batch'[k] = batch[k]
          /\ batch'[Len(batch) + 1] = accepted[taken + 1].reading
      <3>1. data_queue[queue_tail] \in Reading \union {ZeroReading}
        BY DEF TypeOK
      <3> QED
        BY <1>1, <2>1, <3>1 DEF TypeOK
    <2>3. Len(batch') <= BATCH_MAX /\ Len(batch') <= taken'
      BY <1>1, <1>2, <2>2, PipelineAssumption DEF BatchFaithful
    <2>4. ASSUME NEW k \in 1 .. Len(batch')
          PROVE  batch'[k] = accepted'[taken' - Len(batch') + k].reading
      <3>1. taken' - Len(batch') + k = taken - Len(batch) + k
        BY <1>1, <1>2, <2>2
      <3>2. CASE k = Len(batch) + 1
        BY <1>2, <2>2, <3>1, <3>2
      <3>3. CASE k # Len(batch) + 1
        <4>1. k \in 1 .. Len(batch)
          BY <1>2, <2>2, <3>3
        <4> QED
          BY <2>2, <3>1, <4>1 DEF BatchFaithful
      <3> QED
        BY <3>2, <3>3
    <2> QED
      BY <2>3, <2>4 DEF BatchFaithful
  <1> QED
    BY <1>3, <1>4, <1>5, <1>6

\* Every other step keeps the ring and accounts for the unit of the semaphore
\* it moves.
LEMMA InvariantStep == IInv /\ [Next]_vars => IInv'
  <1> SUFFICES ASSUME IInv, [Next]_vars PROVE IInv'
    OBVIOUS
  <1> USE DEF IInv
  <1>1. TypeOK' /\ LocalState'
    BY TypeStep
  <1>2. MutexHeldByOwner'
    BY MutexStep
  <1>3. ASSUME UNCHANGED <<ringVars, accepted, taken>>, batch' \in {batch, <<>>},
               data_sem' + Unposted' + Claimed' = data_sem + Unposted + Claimed
        PROVE  IInv'
    <2>1. /\ RingLength' = RingLength
          /\ NeverTakesUnpushed' /\ WaitingRecordsIntact' /\ BatchFaithful'
      BY <1>3, RingUntouched
    <2> QED
      BY <1>1, <1>2, <1>3, <2>1 DEF SemaphoreCountsRing
  <1> USE DEF Unposted, Claimed, TypeOK
  <1>4. CASE \/ \E d \in Datagrams, allowed \in BOOLEAN : HandleUdpRead(d, allowed)
             \/ \E r \in Reading : HandleClientRead(r)
    BY <1>3, <1>4 DEF HandleUdpRead, HandleClientRead, Continue, syncVars, cloudVars, history
  <1>5. CASE MainLock \/ MainUnlock
    BY <1>3, <1>5 DEF MainLock, MainUnlock, cloudVars, history
  <1>6. CASE Enqueue
    BY <1>1, <1>2, <1>6, EnqueueStep
  <1>7. CASE Refuse
    BY <1>3, <1>7 DEF Refuse, Continue, cloudVars, history
  <1>8. CASE SemPost
    BY <1>3, <1>8 DEF SemPost, Post, Continue, cloudVars, history
  <1>9. CASE Publish
    BY <1>3, <1>9 DEF Publish, Continue, syncVars, cloudVars, history
  <1>10. CASE SemWait
    BY <1>3, <1>10 DEF SemWait, TakeUnit, mainVars, history
  <1>11. CASE CloudLock \/ CloudUnlock
    BY <1>3, <1>11 DEF CloudLock, CloudUnlock, mainVars, history
  <1>12. CASE TakeFirst
    <2>1. RingLength > 0 /\ Len(batch) < BATCH_MAX
      BY <1>12, PipelineAssumption DEF TakeFirst, SemaphoreCountsRing, LocalState
    <2>2. /\ RingLength' = RingLength - 1
          /\ NeverTakesUnpushed' /\ WaitingRecordsIntact' /\ BatchFaithful'
      BY <1>12, <2>1, FetchStep DEF TakeFirst
    <2>3. SemaphoreCountsRing'
      BY <1>12, <2>2 DEF TakeFirst, SemaphoreCountsRing, syncVars, mainVars
    <2> QED
      BY <1>1, <1>2, <2>2, <2>3
  <1>13. CASE Drain
    <2>1. RingLength > 0 /\ Len(batch) < BATCH_MAX
      BY <1>13 DEF Drain, TakeUnit, Room, SemaphoreCountsRing
    <2>2. /\ RingLength' = RingLength - 1
          /\ NeverTakesUnpushed' /\ WaitingRecordsIntact' /\ BatchFaithful'
      BY <1>13, <2>1, FetchStep DEF Drain
    <2>3. SemaphoreCountsRing'
      BY <1>13, <2>2 DEF Drain, TakeUnit, SemaphoreCountsRing, mainVars
    <2> QED
      BY <1>1, <1>2, <2>2, <2>3
  <1>14. CASE \/ SocketFails \/ ConnectFails \/ BackoffEnds \/ WriteRequest
              \/ WriteFails \/ ReadResponse \/ CheckIdle \/ SleepEnds
    BY <1>3, <1>14 DEF SocketFails, ConnectFails, BackoffEnds, WriteRequest,
                       WriteFails, ReadResponse, CheckIdle, SleepEnds, Upload,
                       syncVars, mainVars
  <1>15. CASE UNCHANGED vars
    BY <1>3, <1>15 DEF vars, syncVars, mainVars, cloudVars, history
  <1> QED
    BY <1>4, <1>5, <1>6, <1>7, <1>8, <1>9, <1>10, <1>11, <1>12, <1>13, <1>14, <1>15
       DEF Next, MainStep, CloudStep

\* The invariant holds in every reachable state.
LEMMA InvariantHolds == Spec => []IInv
  BY InitInvariant, InvariantStep, PTL DEF Spec

-----------------------------------------------------------------------------
(* The results. *)

\* Only one thread is between pthread_mutex_lock and pthread_mutex_unlock.
THEOREM MutualExclusion == Spec => []MutexHeldByOwner
  BY InvariantHolds, PTL DEF IInv

\* Between the threads nothing comes apart: types, mutex, semaphore, ring and batch.
THEOREM RingIsSafe == Spec => []RingSafe
  <1>1. IInv => RingSafe
    BY DEF IInv, RingSafe
  <1> QED
    BY <1>1, InvariantHolds, PTL

\* The units of data_sem and the records of the ring never drift apart, although
\* the semaphore is posted and waited for outside the mutex.
THEOREM SemaphoreIsExact == Spec => []SemaphoreCountsRing
  BY InvariantHolds, PTL DEF IInv

\* The dequeue without a look at the head is safe: sem_wait returned, so the ring
\* holds a record when the cloud thread takes it.
THEOREM NoPhantomRecord == Spec => []NeverTakesUnpushed
  BY InvariantHolds, PTL DEF IInv

\* As long as no signal interrupts sem_wait the cloud thread, which dequeues without
\* looking, never meets an empty ring.
THEOREM ConsumerFindsRecord == Spec => []SleepsWhileEmpty
  <1>1. IInv => SleepsWhileEmpty
    BY DEF IInv, SleepsWhileEmpty, SemaphoreCountsRing, Claimed, Unposted, TypeOK
  <1> QED
    BY <1>1, InvariantHolds, PTL

\* A record that waits in the ring is never overwritten.
THEOREM RecordsIntact == Spec => []WaitingRecordsIntact
  BY InvariantHolds, PTL DEF IInv

\* What is uploaded is what was pushed, in order and each record once.
THEOREM BatchesFaithful == Spec => []BatchFaithful
  BY InvariantHolds, PTL DEF IInv

\* A record is given up only when all usable slots are taken.
THEOREM DropsOnlyWhenFull == Spec => DropOnlyWhenFull
  <1>1. IInv /\ [Next]_vars => [Dropped => Len(accepted) - taken = MAX_QUEUE_SIZE - 1]_vars
    <2> SUFFICES ASSUME IInv, [Next]_vars, Dropped
                 PROVE  Len(accepted) - taken = MAX_QUEUE_SIZE - 1
      OBVIOUS
    <2>1. pcMain = "push" /\ pcMain' # "push" /\ accepted' = accepted
      BY DEF Dropped
    <2>2. ~Enqueue
      <3> SUFFICES ASSUME Enqueue PROVE FALSE
        OBVIOUS
      <3>1. Len(accepted') = Len(accepted) + 1 /\ Len(accepted) \in Nat
        BY DEF Enqueue, IInv, TypeOK, LocalState
      <3> QED
        BY <2>1, <3>1
    <2>3. Full
      BY <2>1, <2>2
         DEF Next, MainStep, CloudStep, HandleUdpRead, HandleClientRead, MainLock,
             Refuse, MainUnlock, SemPost, Publish, SemWait, CloudLock, TakeFirst,
             Drain, CloudUnlock, SocketFails, ConnectFails, BackoffEnds,
             WriteRequest, WriteFails, ReadResponse, CheckIdle, SleepEnds, Upload,
             mainVars, vars
    <2> QED
      BY <2>3, FullLength DEF IInv, NeverTakesUnpushed, TypeOK
  <1> QED
    BY <1>1, InvariantHolds, PTL DEF Spec, DropOnlyWhenFull

-----------------------------------------------------------------------------
(* The ring implements the bounded FIFO queue. *)

\* The waiting records form a sequence as long as the ring is.
LEMMA WaitingType ==
  ASSUME IInv
  PROVE  /\ Waiting \in Seq(Reading \union {ZeroReading})
         /\ Len(Waiting) = RingLength
         /\ \A k \in 1 .. RingLength :
              Waiting[k] = data_queue[(queue_tail + k - 1) % MAX_QUEUE_SIZE]
  <1>1. TypeOK /\ RingLength \in Nat
    BY RingLengthType, PipelineAssumption DEF IInv
  <1>2. ASSUME NEW k \in 1 .. RingLength
        PROVE  data_queue[(queue_tail + k - 1) % MAX_QUEUE_SIZE]
                 \in Reading \union {ZeroReading}
    <2>1. k - 1 \in 0 .. RingLength - 1 /\ queue_tail + k - 1 = queue_tail + (k - 1)
      BY <1>1, PipelineAssumption DEF TypeOK, Slots
    <2>2. (queue_tail + (k - 1)) % MAX_QUEUE_SIZE \in Slots
      BY <1>1, <2>1, HeadSlot
    <2> QED
      BY <1>1, <2>1, <2>2 DEF TypeOK
  <1>3. Waiting \in [1 .. RingLength -> Reading \union {ZeroReading}]
    BY <1>2 DEF Waiting
  <1>4. Waiting \in Seq(Reading \union {ZeroReading}) /\ Len(Waiting) = RingLength
    BY <1>1, <1>3, SeqDef, LenProperties
  <1> QED
    BY <1>4 DEF Waiting

\* A push is a Put of the abstract queue.
LEMMA EnqueueIsPut ==
  ASSUME IInv, Enqueue
  PROVE  Fifo!Next
  <1>1. TypeOK /\ ~Full /\ queue_tail' = queue_tail /\ queue_head' = Succ(queue_head)
    BY DEF IInv, Enqueue, Store
  <1>2. RingLength' = RingLength + 1 /\ RingLength \in 0 .. MAX_QUEUE_SIZE - 1
    BY <1>1, StoreGrows, RingLengthType
  <1>3. RingLength < MAX_QUEUE_SIZE - 1
    BY <1>1, <1>2, FullLength, PipelineAssumption
  <1>4. Head(pending) \in Reading
    BY DEF Enqueue, IInv, TypeOK, LocalState
  <1>5. Waiting' = [k \in 1 .. RingLength + 1 |->
                      data_queue'[(queue_tail + k - 1) % MAX_QUEUE_SIZE]]
    BY <1>1, <1>2 DEF Waiting
  <1>6. ASSUME NEW k \in 1 .. RingLength + 1
        PROVE  data_queue'[(queue_tail + k - 1) % MAX_QUEUE_SIZE]
                 = Append(Waiting, Head(pending))[k]
    <2>1. queue_tail + k - 1 = queue_tail + (k - 1) /\ k - 1 \in 0 .. RingLength
      BY <1>1, <1>2, PipelineAssumption DEF TypeOK, Slots
    <2>2. /\ k = RingLength + 1 => Append(Waiting, Head(pending))[k] = Head(pending)
          /\ k \in 1 .. RingLength => Append(Waiting, Head(pending))[k] = Waiting[k]
      BY <1>2, <1>4, WaitingType
    <2>3. CASE k = RingLength + 1
      <3>1. (queue_tail + (k - 1)) % MAX_QUEUE_SIZE = queue_head
        BY <1>1, <1>2, <2>3, HeadSlot
      <3> QED
        BY <2>1, <2>2, <2>3, <3>1 DEF Enqueue, Store, IInv, TypeOK
    <2>4. CASE k # RingLength + 1
      <3>1. k \in 1 .. RingLength /\ k - 1 \in 0 .. RingLength - 1
        BY <1>2, <2>4
      <3>2. (queue_tail + (k - 1)) % MAX_QUEUE_SIZE # queue_head
        BY <1>1, <3>1, HeadSlot
      <3>3. (queue_tail + (k - 1)) % MAX_QUEUE_SIZE \in Slots
        BY <1>1, <3>1, HeadSlot
      <3>4. data_queue'[(queue_tail + (k - 1)) % MAX_QUEUE_SIZE]
              = data_queue[(queue_tail + (k - 1)) % MAX_QUEUE_SIZE]
        BY <3>2, <3>3 DEF Enqueue, Store, IInv, TypeOK
      <3> QED
        BY <2>1, <2>2, <3>1, <3>4, WaitingType
    <2> QED
      BY <2>3, <2>4
  <1>7. Waiting' = Append(Waiting, Head(pending))
    <2>1. /\ Append(Waiting, Head(pending)) \in Seq(Reading \union {ZeroReading})
          /\ Len(Append(Waiting, Head(pending))) = RingLength + 1
      BY <1>4, WaitingType
    <2>2. Append(Waiting, Head(pending))
            = [k \in 1 .. RingLength + 1 |-> Append(Waiting, Head(pending))[k]]
      BY <2>1, LenProperties
    <2> QED
      BY <1>5, <1>6, <2>2
  <1>8. batch' = batch
    BY DEF Enqueue, cloudVars
  <1> QED
    BY <1>3, <1>4, <1>7, <1>8, WaitingType DEF Fifo!Next, Fifo!Put

\* Taking the record at the tail is a Take of the abstract queue.
LEMMA FetchIsTake ==
  ASSUME IInv, Fetch, RingLength > 0, Len(batch) < BATCH_MAX
  PROVE  Fifo!Next
  <1>1. /\ TypeOK /\ queue_tail' = Succ(queue_tail) /\ queue_head' = queue_head
        /\ data_queue' = data_queue
        /\ batch' = Append(batch, data_queue[queue_tail])
    BY DEF IInv, Fetch
  <1>2. RingLength \in Nat /\ RingLength' = RingLength - 1
    BY <1>1, FetchShrinks, RingLengthType, PipelineAssumption
  <1>3. Waiting' = [k \in 1 .. RingLength - 1 |->
                      data_queue[(queue_tail' + k - 1) % MAX_QUEUE_SIZE]]
    BY <1>1, <1>2 DEF Waiting
  <1>4. /\ Waiting # <<>> /\ Tail(Waiting) \in Seq(Reading \union {ZeroReading})
        /\ Len(Tail(Waiting)) = RingLength - 1
        /\ \A k \in 1 .. RingLength - 1 : Tail(Waiting)[k] = Waiting[k + 1]
    <2>1. Waiting # <<>>
      BY <1>2, WaitingType
    <2> QED
      BY <2>1, WaitingType, HeadTailProperties
  <1>5. ASSUME NEW k \in 1 .. RingLength - 1
        PROVE  data_queue[(queue_tail' + k - 1) % MAX_QUEUE_SIZE] = Tail(Waiting)[k]
    <2>1. /\ k - 1 \in 0 .. RingLength - 2 /\ k + 1 \in 1 .. RingLength
          /\ (k - 1) + 1 = k
      BY <1>2
    <2>2. queue_tail' + k - 1 = queue_tail' + (k - 1) /\ queue_tail + (k + 1) - 1 = queue_tail + k
      BY <1>1, SuccInSlots, PipelineAssumption DEF TypeOK, Slots
    <2>3. (queue_tail' + (k - 1)) % MAX_QUEUE_SIZE = (queue_tail + k) % MAX_QUEUE_SIZE
      BY <1>1, <2>1, FetchShrinks
    <2>4. Waiting[k + 1] = data_queue[(queue_tail + (k + 1) - 1) % MAX_QUEUE_SIZE]
      BY <2>1, WaitingType
    <2> QED
      BY <1>4, <2>2, <2>3, <2>4
  <1>6. Waiting' = Tail(Waiting)
    <2>1. Tail(Waiting) = [k \in 1 .. RingLength - 1 |-> Tail(Waiting)[k]]
      BY <1>4, LenProperties
    <2> QED
      BY <1>3, <1>5, <2>1
  <1>7. Head(Waiting) = data_queue[queue_tail]
    <2>1. 1 \in 1 .. RingLength /\ queue_tail + 1 - 1 = queue_tail + 0
      BY <1>1, <1>2, PipelineAssumption DEF TypeOK, Slots
    <2>2. Waiting[1] = data_queue[(queue_tail + 1 - 1) % MAX_QUEUE_SIZE]
      BY <2>1, WaitingType
    <2>3. queue_tail = (queue_tail + 0) % MAX_QUEUE_SIZE
      BY <1>1, FetchShrinks
    <2>4. Head(Waiting) = Waiting[1]
      OBVIOUS
    <2> QED
      BY <2>1, <2>2, <2>3, <2>4
  <1> QED
    BY <1>1, <1>4, <1>6, <1>7 DEF Fifo!Next, Fifo!Take

\* A step that leaves the ring alone is a stutter of the queue, or disposes of
\* the batch.
LEMMA OtherIsDispose ==
  ASSUME UNCHANGED <<ringVars>>, batch' \in {batch, <<>>}
  PROVE  [Fifo!Next]_(Fifo!vars)
  <1>1. Waiting' = Waiting
    BY DEF ringVars, Waiting, RingLength
  <1>2. CASE batch' = batch
    BY <1>1, <1>2 DEF Fifo!vars
  <1>3. CASE batch' # batch
    BY <1>1, <1>3 DEF Fifo!Next, Fifo!Dispose
  <1> QED
    BY <1>2, <1>3

\* For the uploader and the event loop the ring, its mutex and its semaphore are
\* a bounded FIFO queue read in batches of at most BATCH_MAX.
THEOREM RingImplementsFifo == Spec => ImplementsFifo
  <1>1. Init => Fifo!Init
    <2> SUFFICES ASSUME Init PROVE Fifo!Init
      OBVIOUS
    <2>1. RingLength = 0 /\ batch = <<>>
      BY PipelineAssumption DEF Init, RingLength
    <2>2. Waiting = <<>>
      BY <2>1 DEF Waiting
    <2> QED
      BY <2>1, <2>2 DEF Fifo!Init
  <1>2. IInv /\ [Next]_vars => [Fifo!Next]_(Fifo!vars)
    <2> SUFFICES ASSUME IInv, [Next]_vars PROVE [Fifo!Next]_(Fifo!vars)
      OBVIOUS
    <2>1. CASE Enqueue
      BY <2>1, EnqueueIsPut
    <2>2. CASE TakeFirst
      <3>1. RingLength > 0 /\ Len(batch) < BATCH_MAX
        BY <2>2, PipelineAssumption
           DEF IInv, TypeOK, TakeFirst, SemaphoreCountsRing, LocalState, Claimed, Unposted
      <3> QED
        BY <2>2, <3>1, FetchIsTake DEF TakeFirst
    <2>3. CASE Drain
      <3>1. RingLength > 0 /\ Len(batch) < BATCH_MAX
        BY <2>3 DEF IInv, TypeOK, Drain, TakeUnit, Room, SemaphoreCountsRing,
                    Claimed, Unposted
      <3> QED
        BY <2>3, <3>1, FetchIsTake DEF Drain
    <2>4. CASE \/ \E d \in Datagrams, allowed \in BOOLEAN : HandleUdpRead(d, allowed)
               \/ \E r \in Reading : HandleClientRead(r)
               \/ MainLock \/ Refuse \/ MainUnlock \/ SemPost \/ Publish
      BY <2>4, OtherIsDispose
         DEF HandleUdpRead, HandleClientRead, MainLock, Refuse, MainUnlock, SemPost,
             Publish, cloudVars
    <2>5. CASE \/ SemWait \/ CloudLock \/ CloudUnlock
               \/ SocketFails \/ ConnectFails \/ BackoffEnds \/ WriteRequest
               \/ WriteFails \/ ReadResponse \/ CheckIdle \/ SleepEnds
      BY <2>5, OtherIsDispose
         DEF SemWait, CloudLock, CloudUnlock, SocketFails, ConnectFails, BackoffEnds,
             WriteRequest, WriteFails, ReadResponse, CheckIdle, SleepEnds, Upload
    <2>6. CASE UNCHANGED vars
      BY <2>6, OtherIsDispose DEF vars, cloudVars
    <2> QED
      BY <2>1, <2>2, <2>3, <2>4, <2>5, <2>6 DEF Next, MainStep, CloudStep
  <1> QED
    BY <1>1, <1>2, InvariantHolds, PTL DEF Spec, ImplementsFifo, Fifo!Spec

-----------------------------------------------------------------------------
(* The blackboard. *)

\* The pushes of sensor s by the UDP handler among the first n, and the value of the last.
UdpPushes(log, s, n) ==
  {i \in 1 .. n : log[i].reading.id = s /\ log[i].via \in {"udp"}}

LastOf(S) == CHOOSE i \in S : \A j \in S : j <= i

LastUdp(log, s, n) ==
  IF UdpPushes(log, s, n) = {} THEN NoValue ELSE log[LastOf(UdpPushes(log, s, n))].reading.data

\* The last push is not yet on the blackboard.
Unpublished == pcMain \in {"unlock", "post", "publish"} /\ via = "udp"

Published == IF Unpublished THEN Len(accepted) - 1 ELSE Len(accepted)

\* The blackboard shows the pushes that were published, as long as there was room.
BoardInv ==
  /\ pcMain \in {"unlock", "post", "publish"} =>
       /\ accepted # <<>>
       /\ accepted[Len(accepted)] = [reading |-> Head(pending), via |-> via]
  /\ pcMain = "publish" => via = "udp"
  /\ Cardinality(Known) <= MAX_SENSORS
  /\ \A s \in Sensors :
       \/ shared_mem[s] = LastUdp(accepted, s, Published)
       \/ s \notin Known /\ Cardinality(Known) = MAX_SENSORS

\* A set of positions that is not empty has a last one.
LEMMA LastExists ==
  ASSUME NEW n \in Nat, NEW S \in SUBSET (1 .. n), S # {}
  PROVE  \E m \in S : \A j \in S : j <= m
  <1> DEFINE distances == {n - j : j \in S}
  <1>1. distances \in SUBSET Nat /\ distances # {}
    <2>1. \A j \in S : n - j \in Nat
      OBVIOUS
    <2> QED
      BY <2>1
  <1>2. PICK d \in distances : \A e \in distances : <<e, d>> \notin OpToRel(<, Nat)
    <2> HIDE DEF distances
    <2> QED
      BY <1>1, NatLessThanWellFounded, WFMin
  <1>3. \A e \in distances : e \in Nat /\ d \in Nat /\ ~(e < d)
    BY <1>1, <1>2 DEF OpToRel
  <1>4. PICK m \in S : d = n - m
    BY <1>2
  <1>5. ASSUME NEW j \in S PROVE j <= m
    <2>1. n - j \in distances
      OBVIOUS
    <2>2. ~(n - j < n - m)
      BY <1>3, <1>4, <2>1
    <2> QED
      BY <2>2
  <1> QED
    BY <1>5

\* One push more: it is its sensor's last one if the UDP handler made it, and changes nothing
\* for any other sensor.
LEMMA LastUdpOfNext ==
  ASSUME NEW log, NEW s, NEW n \in Nat
  PROVE  LastUdp(log, s, n + 1) =
           IF log[n + 1].reading.id = s /\ log[n + 1].via = "udp"
             THEN log[n + 1].reading.data ELSE LastUdp(log, s, n)
  <1>1. CASE log[n + 1].reading.id = s /\ log[n + 1].via = "udp"
    <2>1. /\ n + 1 \in UdpPushes(log, s, n + 1)
          /\ \A j \in UdpPushes(log, s, n + 1) : j \in Int /\ j <= n + 1
      BY <1>1 DEF UdpPushes
    <2>2. LastOf(UdpPushes(log, s, n + 1)) = n + 1
      <3>1. \A i \in UdpPushes(log, s, n + 1) :
              (\A j \in UdpPushes(log, s, n + 1) : j <= i) => i = n + 1
        BY <2>1
      <3> QED
        BY <2>1, <3>1 DEF LastOf
    <2> QED
      BY <1>1, <2>1, <2>2 DEF LastUdp
  <1>2. CASE ~(log[n + 1].reading.id = s /\ log[n + 1].via = "udp")
    <2>1. UdpPushes(log, s, n + 1) = UdpPushes(log, s, n)
      BY <1>2 DEF UdpPushes
    <2>2. LastUdp(log, s, n + 1) = LastUdp(log, s, n)
      BY <2>1 DEF LastUdp
    <2> QED
      BY <1>2, <2>2
  <1> QED
    BY <1>1, <1>2

\* A longer log agrees with a shorter one on what is in both.
LEMMA LastUdpOfLonger ==
  ASSUME NEW log, NEW longer, NEW s, NEW n \in Nat, \A i \in 1 .. n : longer[i] = log[i]
  PROVE  LastUdp(longer, s, n) = LastUdp(log, s, n)
  <1>1. UdpPushes(longer, s, n) = UdpPushes(log, s, n)
    BY DEF UdpPushes
  <1>2. CASE UdpPushes(log, s, n) = {}
    BY <1>1, <1>2 DEF LastUdp
  <1>3. CASE UdpPushes(log, s, n) # {}
    <2>1. UdpPushes(log, s, n) \in SUBSET (1 .. n)
      BY DEF UdpPushes
    <2>2. \E m \in UdpPushes(log, s, n) : \A j \in UdpPushes(log, s, n) : j <= m
      BY <1>3, <2>1, LastExists
    <2>3. LastOf(UdpPushes(log, s, n)) \in UdpPushes(log, s, n)
      BY <2>2 DEF LastOf
    <2>4. longer[LastOf(UdpPushes(log, s, n))] = log[LastOf(UdpPushes(log, s, n))]
      BY <2>1, <2>3
    <2> QED
      BY <1>1, <1>3, <2>4 DEF LastUdp
  <1> QED
    BY <1>2, <1>3

\* Nothing was pushed, and the blackboard is empty.
LEMMA BoardInit == Init => BoardInv
  <1> SUFFICES ASSUME Init PROVE BoardInv
    OBVIOUS
  <1>1. Known = {} /\ Cardinality(Known) = 0
    <2>1. Known = {}
      BY DEF Init, Known
    <2> QED
      BY <2>1, FS_EmptySet
  <1>2. \A s \in Sensors : UdpPushes(accepted, s, 0) = {}
    BY DEF UdpPushes
  <1>3. Published = 0
    BY DEF Init, Published, Unpublished
  <1>4. \A s \in Sensors : shared_mem[s] = LastUdp(accepted, s, Published)
    BY <1>2, <1>3 DEF Init, LastUdp
  <1> QED
    BY <1>1, <1>4, PipelineAssumption DEF Init, BoardInv

\* The sensors on the blackboard are finitely many.
LEMMA KnownFinite == Cardinality(Known) \in Nat /\ IsFiniteSet(Known)
  BY PipelineAssumption, FS_Subset, FS_CardinalityType DEF Known

\* A step that pushes nothing and leaves the blackboard and what is published alone.
LEMMA BoardUntouched ==
  ASSUME BoardInv, UNCHANGED <<accepted, shared_mem>>, Published' = Published,
         \/ pcMain' \notin {"unlock", "post", "publish"}
         \/ /\ pcMain \in {"unlock", "post", "publish"} /\ UNCHANGED <<pending, via>>
            /\ pcMain' = "publish" => via = "udp"
  PROVE  BoardInv'
  <1>1. Known' = Known
    BY DEF Known
  <1>2. \A s \in Sensors : LastUdp(accepted', s, Published') = LastUdp(accepted, s, Published)
    OBVIOUS
  <1> QED
    BY <1>1, <1>2 DEF BoardInv

\* A reading is pushed: until it is published the blackboard is behind by it.
LEMMA BoardEnqueue ==
  ASSUME IInv, IInv', BoardInv, Enqueue PROVE BoardInv'
  <1> DEFINE r == [reading |-> Head(pending), via |-> via]
  <1>1. /\ accepted' = Append(accepted, r) /\ pcMain = "push" /\ pcMain' = "unlock"
        /\ UNCHANGED <<pending, via, shared_mem>>
    BY DEF Enqueue, syncVars, cloudVars
  <1>2. /\ accepted \in Seq([reading : Reading, via : {"udp", "ipc"}]) /\ Len(accepted) \in Nat
        /\ accepted' \in Seq([reading : Reading, via : {"udp", "ipc"}])
        /\ Len(accepted') = Len(accepted) + 1 /\ accepted'[Len(accepted')] = r
        /\ accepted' # <<>> /\ via \in {"udp", "ipc"}
    BY <1>1 DEF IInv, TypeOK
  <1>3. Published = Len(accepted)
    BY <1>1 DEF Published, Unpublished
  <1>4. \A i \in 1 .. Len(accepted) : accepted'[i] = accepted[i]
    BY <1>1, <1>2
  <1>5. \A s \in Sensors : LastUdp(accepted', s, Published') = LastUdp(accepted, s, Published)
    <2> SUFFICES ASSUME NEW s \in Sensors
                 PROVE  LastUdp(accepted', s, Published') = LastUdp(accepted, s, Published)
      OBVIOUS
    <2>1. LastUdp(accepted', s, Len(accepted)) = LastUdp(accepted, s, Len(accepted))
      BY <1>2, <1>4, LastUdpOfLonger
    <2>2. CASE via = "udp"
      <3>1. Published' = Len(accepted)
        BY <1>1, <1>2, <2>2 DEF Published, Unpublished
      <3> QED
        BY <1>3, <2>1, <3>1
    <2>3. CASE via # "udp"
      <3>1. Published' = Len(accepted) + 1
        BY <1>1, <1>2, <2>3 DEF Published, Unpublished
      <3>2. accepted'[Len(accepted) + 1].via # "udp"
        BY <1>2, <2>3
      <3>3. LastUdp(accepted', s, Len(accepted) + 1) = LastUdp(accepted', s, Len(accepted))
        BY <1>2, <3>2, LastUdpOfNext
      <3> QED
        BY <1>3, <2>1, <3>1, <3>3
    <2> QED
      BY <2>2, <2>3
  <1>6. Known' = Known
    BY <1>1 DEF Known
  <1> QED
    BY <1>1, <1>2, <1>5, <1>6 DEF BoardInv

\* The reading is published: it becomes its sensor's value if the sensor has an entry or
\* there is room for one.
LEMMA BoardPublish ==
  ASSUME IInv, IInv', BoardInv, Publish PROVE BoardInv'
  <1> DEFINE r == Head(pending)
             n == Len(accepted) - 1
  <1>1. /\ pcMain = "publish" /\ pcMain' \in {"poll", "lock"} /\ UNCHANGED <<accepted, via>>
        /\ UpdateBlackboard(r)
    BY DEF Publish, Continue, history
  <1>2. /\ accepted # <<>> /\ accepted[Len(accepted)] = [reading |-> r, via |-> "udp"] /\ via = "udp"
        /\ Len(accepted) \in Nat
    BY <1>1 DEF BoardInv, IInv, TypeOK
  <1>3. r \in Reading /\ r.id \in Sensors /\ r.data \in Values /\ r.data # NoValue
    <2>1. pending \in Seq(Reading) /\ pending # <<>>
      BY <1>1 DEF IInv, TypeOK, LocalState
    <2>2. r \in Reading
      BY <2>1
    <2> HIDE DEF r
    <2> QED
      BY <2>2, PipelineAssumption DEF Reading
  <1>4. n \in Nat /\ n + 1 \in 1 .. Len(accepted) /\ n + 1 = Len(accepted)
    BY <1>2 DEF IInv, TypeOK
  <1> HIDE DEF r, n
  <1>5. Published = n /\ Published' = n + 1
    BY <1>1, <1>2, <1>4 DEF Published, Unpublished, n
  <1>6. ASSUME NEW s \in Sensors
        PROVE  LastUdp(accepted, s, n + 1) = IF r.id = s THEN r.data ELSE LastUdp(accepted, s, n)
    <2>1. accepted[n + 1] = [reading |-> r, via |-> "udp"]
      BY <1>2, <1>4
    <2>2. accepted[n + 1].reading = r /\ accepted[n + 1].via = "udp"
      BY <2>1
    <2>3. LastUdp(accepted, s, n + 1) =
            IF accepted[n + 1].reading.id = s /\ accepted[n + 1].via = "udp"
              THEN accepted[n + 1].reading.data ELSE LastUdp(accepted, s, n)
      BY <1>4, LastUdpOfNext
    <2> QED
      BY <2>2, <2>3
  <1>7. \A s \in Sensors : LastUdp(accepted', s, Published') = LastUdp(accepted, s, n + 1)
    BY <1>1, <1>5
  <1>8. shared_mem \in [Sensors -> Values \union {NoValue}]
    BY DEF IInv, TypeOK
  <1>9. \A s \in Sensors : shared_mem[s] = LastUdp(accepted, s, n) \/ (s \notin Known /\ Cardinality(Known) = MAX_SENSORS)
    BY <1>5 DEF BoardInv
  <1>10. Cardinality(Known) \in Nat /\ MAX_SENSORS \in Nat /\ Cardinality(Known) <= MAX_SENSORS
    BY KnownFinite, PipelineAssumption DEF BoardInv
  <1>11. CASE r.id \in Known
    <2>1. shared_mem' = [shared_mem EXCEPT ![r.id] = r.data]
      BY <1>1, <1>11 DEF UpdateBlackboard
    <2>2. Known' = Known
      BY <1>3, <1>8, <1>11, <2>1 DEF Known
    <2>3. \A s \in Sensors : \/ shared_mem'[s] = LastUdp(accepted, s, n + 1)
                             \/ s \notin Known /\ Cardinality(Known) = MAX_SENSORS
      BY <1>3, <1>6, <1>8, <1>9, <2>1
    <2> QED
      BY <1>1, <1>7, <1>10, <2>2, <2>3 DEF BoardInv
  <1>12. CASE r.id \notin Known /\ Cardinality(Known) < MAX_SENSORS
    <2>1. shared_mem' = [shared_mem EXCEPT ![r.id] = r.data]
      BY <1>1, <1>12 DEF UpdateBlackboard
    <2>2. Known' = Known \union {r.id}
      BY <1>3, <1>8, <2>1 DEF Known
    <2>3. Cardinality(Known') = Cardinality(Known) + 1
      BY <1>12, <2>2, KnownFinite, FS_AddElement
    <2>4. \A s \in Sensors : shared_mem'[s] = LastUdp(accepted, s, n + 1)
      <3>1. \A s \in Sensors : shared_mem[s] = LastUdp(accepted, s, n)
        BY <1>9, <1>10, <1>12
      <3> QED
        BY <1>3, <1>6, <1>8, <2>1, <3>1
    <2> QED
      BY <1>1, <1>7, <1>10, <1>12, <2>3, <2>4 DEF BoardInv
  <1>13. CASE r.id \notin Known /\ Cardinality(Known) >= MAX_SENSORS
    <2>1. shared_mem' = shared_mem /\ Known' = Known /\ Cardinality(Known) = MAX_SENSORS
      BY <1>1, <1>10, <1>13 DEF UpdateBlackboard, Known
    <2>2. \A s \in Sensors : \/ shared_mem'[s] = LastUdp(accepted, s, n + 1)
                             \/ s \notin Known /\ Cardinality(Known) = MAX_SENSORS
      BY <1>6, <1>9, <1>13, <2>1
    <2> QED
      BY <1>1, <1>7, <2>1, <2>2, <1>10 DEF BoardInv
  <1> QED
    BY <1>10, <1>11, <1>12, <1>13

\* Every step of both threads.
LEMMA BoardStep == IInv /\ IInv' /\ BoardInv /\ [Next]_vars => BoardInv'
  <1> SUFFICES ASSUME IInv, IInv', BoardInv, [Next]_vars PROVE BoardInv'
    OBVIOUS
  <1> USE DEF Published, Unpublished
  <1>1. CASE \/ \E d \in Datagrams, allowed \in BOOLEAN : HandleUdpRead(d, allowed)
             \/ \E r \in Reading : HandleClientRead(r)
    BY <1>1, BoardUntouched DEF HandleUdpRead, HandleClientRead, Continue, history
  <1>2. CASE MainLock \/ MainUnlock
    BY <1>2, BoardUntouched DEF MainLock, MainUnlock, history
  <1>3. CASE Enqueue
    BY <1>3, BoardEnqueue
  <1>4. CASE Refuse
    BY <1>4, BoardUntouched DEF Refuse, Continue, history
  <1>5. CASE SemPost
    BY <1>5, BoardUntouched DEF SemPost, Publishes, Continue, history
  <1>6. CASE Publish
    BY <1>6, BoardPublish
  <1>7. CASE CloudStep \/ UNCHANGED vars
    <2>1. UNCHANGED <<accepted, shared_mem, pcMain, pending, via>>
      BY <1>7 DEF CloudStep, SemWait, CloudLock, TakeFirst, Drain, CloudUnlock, SocketFails,
                  ConnectFails, BackoffEnds, WriteRequest, WriteFails, ReadResponse, CheckIdle,
                  SleepEnds, Upload, mainVars, history, vars
    <2> QED
      BY <2>1, BoardUntouched DEF BoardInv
  <1> QED
    BY <1>1, <1>2, <1>3, <1>4, <1>5, <1>6, <1>7 DEF Next, MainStep

\* Whenever the event loop is at poll, the blackboard shows each sensor's last reading that the
\* UDP handler pushed, or the blackboard is full and does not know the sensor.
THEOREM BlackboardIsCurrent == Spec => []BlackboardFollowsUdp
  <1>1. Init => BoardInv
    BY BoardInit
  <1>2. IInv /\ IInv' /\ BoardInv /\ [Next]_vars => BoardInv'
    BY BoardStep
  <1>3. IInv /\ BoardInv => BlackboardFollowsUdp
    <2> SUFFICES ASSUME BoardInv, pcMain = "poll", NEW s \in Sensors
                 PROVE  \/ shared_mem[s] = LastPushed(s, {"udp"})
                        \/ s \notin Known /\ Cardinality(Known) = MAX_SENSORS
      BY DEF BlackboardFollowsUdp
    <2>1. Published = Len(accepted)
      BY DEF Published, Unpublished
    <2>2. LastUdp(accepted, s, Len(accepted)) = LastPushed(s, {"udp"})
      BY DEF LastUdp, LastOf, UdpPushes, LastPushed
    <2> QED
      BY <2>1, <2>2 DEF BoardInv
  <1> QED
    BY <1>1, <1>2, <1>3, InvariantHolds, PTL DEF Spec
=============================================================================
