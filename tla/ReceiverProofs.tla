-------------------------- MODULE ReceiverProofs --------------------------
(***************************************************************************)
(* Theorems about the receiving side of the gateway: the loop that decides *)
(* which descriptor is read (EventLoop) and the limiter that its UDP       *)
(* handler asks before it parses a datagram (TokenBucket).                 *)
(*                                                                         *)
(* EventLoop, for every set of clients and every length of the array: the  *)
(* compacted array holds exactly the open descriptors, and the loop        *)
(* returns to poll with nothing that poll reported left over.              *)
(*                                                                         *)
(* TokenBucket, for every capacity, rate and set of clock adjustments:     *)
(* neither RateBound nor RefusesOnlyExcess is inductive, for both forget   *)
(* how many tokens are left.  What is inductive relates the bucket's       *)
(* level, the refill that is due included, to the supply since each        *)
(* datagram let through: the level plus what passed never exceeds the      *)
(* supply (Covered), and until the clock is put back some datagram meets   *)
(* that bound exactly unless the bucket is full (Exact).                   *)
(***************************************************************************)
EXTENDS EventLoop, TokenBucket, TLAPS

Fds == Clients \union {Udp, Ipc}

\* The part of ArrayHoldsOpenFds that speaks of the array alone.
ArrayCompact ==
  /\ fd[0] = Udp /\ fd[1] = Ipc
  /\ \A s \in Slots : s >= nfds <=> fd[s] = NoFd
  /\ \A s, t \in 0 .. nfds - 1 : fd[s] = fd[t] => s = t

\* The slots in use are the accepted clients' and the two sockets'.
WatchedAreOpen ==
  Watched = {Udp, Ipc} \union {c \in Clients : client[c] \in {"open", "closing"}}

\* What poll reported and the loop has not looked at waits at the scan's place or behind it,
\* in a slot that is still flagged.
ReportedIsAhead ==
  pc # "poll" => \A f \in reported : \E s \in i .. nfds - 1 : fd[s] = f /\ revents[s]

\* A read() that blocks is one of a client's descriptor.
BlockedInClient == pc = "read" => i < nfds /\ fd[i] \in Clients

IInv ==
  /\ TypeOK /\ ArrayCompact /\ WatchedAreOpen
  /\ ReportedIsAhead /\ BlockedInClient /\ EveryReportedIsServed

-----------------------------------------------------------------------------
(* The parts of the invariant in steps that leave the array alone. *)

\* The array's part of the invariant depends on the array and the open clients only.
LEMMA ArrayUntouched ==
  ASSUME IInv, UNCHANGED <<fd, nfds>>,
         \A c \in Clients : client'[c] \in {"open", "closing"} <=> client[c] \in {"open", "closing"}
  PROVE  ArrayCompact' /\ WatchedAreOpen'
  BY DEF IInv, ArrayCompact, WatchedAreOpen, Watched

\* The scan's part depends on the array, the place and what is reported.
LEMMA ScanUntouched ==
  ASSUME IInv, UNCHANGED <<arrayVars, pc, i, reported>>
  PROVE  ReportedIsAhead' /\ BlockedInClient' /\ EveryReportedIsServed'
  BY DEF IInv, arrayVars, ReportedIsAhead, BlockedInClient, EveryReportedIsServed

LEMMA WithinLonger ==
  ASSUME NEW m \in Int, NEW n \in Int, m <= n, NEW a \in Int, NEW s \in a .. m - 1
  PROVE  s \in a .. n - 1
  OBVIOUS

\* i++ past a slot that is served, or whose flag is not set.
LEMMA ScanMovesOn ==
  ASSUME IInv, pc # "poll", i < nfds, NextSlot, reported' \subseteq reported,
         nfds' \in Nat, nfds' >= nfds, \A s \in 0 .. nfds - 1 : fd'[s] = fd[s] /\ revents'[s] = revents[s],
         revents[i] => fd[i] \notin reported'
  PROVE  ReportedIsAhead' /\ BlockedInClient' /\ EveryReportedIsServed'
  <1>1. pc' = "scan" /\ i' = i + 1 /\ i \in Nat /\ nfds \in Nat
    BY DEF NextSlot, IInv, TypeOK
  <1>2. \A f \in reported' : \E s \in i' .. nfds - 1 : fd'[s] = f /\ revents'[s]
    <2> SUFFICES ASSUME NEW f \in reported'
                 PROVE  \E s \in i' .. nfds - 1 : fd'[s] = f /\ revents'[s]
      OBVIOUS
    <2>1. PICK s \in i .. nfds - 1 : fd[s] = f /\ revents[s]
      BY DEF IInv, ReportedIsAhead
    <2>2. s # i
      BY <2>1
    <2> QED
      BY <1>1, <2>1, <2>2
  <1>3. ASSUME NEW s \in i' .. nfds - 1 PROVE s \in i' .. nfds' - 1
    <2>1. nfds \in Int /\ nfds' \in Int /\ nfds <= nfds' /\ i' \in Int
      BY <1>1
    <2> QED
      BY ONLY <2>1, s \in i' .. nfds - 1, WithinLonger
  <1> QED
    BY <1>1, <1>2, <1>3 DEF ReportedIsAhead, BlockedInClient, EveryReportedIsServed

\* A slot in use holds a socket or an open client.
LEMMA SlotInUse ==
  ASSUME IInv, NEW s \in 0 .. nfds - 1
  PROVE  /\ s \in Slots /\ fd[s] \in Watched /\ fd[s] \in Fds
         /\ fd[s] \in Clients => s \notin {0, 1}
  BY EventLoopAssumption DEF IInv, TypeOK, ArrayCompact, WatchedAreOpen, Watched, Slots, Fds

-----------------------------------------------------------------------------
(* One lemma per action. *)

\* Two sockets, no client, nothing reported.
LEMMA InitHolds == Init => IInv
  <1> SUFFICES ASSUME Init PROVE IInv
    OBVIOUS
  <1> USE EventLoopAssumption DEF Init
  <1>1. TypeOK
    BY DEF TypeOK, Slots
  <1>2. ArrayCompact
    BY DEF ArrayCompact, Slots
  <1>3. WatchedAreOpen
    <2>1. \A s \in 0 .. nfds - 1 : s = 0 \/ s = 1
      OBVIOUS
    <2>2. fd[0] = Udp /\ fd[1] = Ipc
      BY DEF Slots
    <2>3. Watched = {Udp, Ipc}
      BY <2>1, <2>2 DEF Watched
    <2> QED
      BY <2>3 DEF WatchedAreOpen
  <1> QED
    BY <1>1, <1>2, <1>3 DEF IInv, ReportedIsAhead, BlockedInClient, EveryReportedIsServed

\* Datagrams, connections, records and hangups touch neither the array nor the scan.
LEMMA OutsideKeeps ==
  ASSUME IInv,
         DatagramArrives \/ \E c \in Clients : Connect(c) \/ Send(c) \/ Hangup(c)
  PROVE  IInv'
  <1>1. UNCHANGED <<arrayVars, pc, i, reported>>
    BY DEF DatagramArrives, Connect, Send, Hangup
  <1>2. TypeOK'
    <2>1. CASE DatagramArrives
      BY <2>1, EventLoopAssumption DEF DatagramArrives, IInv, TypeOK, arrayVars
    <2>2. CASE \E c \in Clients : Connect(c) \/ Hangup(c)
      BY <2>2 DEF Connect, Hangup, IInv, TypeOK, arrayVars
    <2>3. CASE \E c \in Clients : Send(c)
      BY <2>3, EventLoopAssumption DEF Send, IInv, TypeOK, arrayVars
    <2> QED
      BY <2>1, <2>2, <2>3
  <1>3. \A c \in Clients : client'[c] \in {"open", "closing"} <=> client[c] \in {"open", "closing"}
    BY DEF DatagramArrives, Connect, Send, Hangup, IInv, TypeOK
  <1> QED
    BY <1>1, <1>2, <1>3, ArrayUntouched, ScanUntouched DEF IInv, arrayVars

\* poll sets the flag of every slot in use, and what it reports is in one of them.
LEMMA PollKeeps == ASSUME IInv, Poll PROVE IInv'
  <1> USE DEF Poll, envVars
  <1>1. TypeOK'
    <2>1. revents' \in [Slots -> BOOLEAN]
      <3>1. \A s \in Slots : revents[s] \in BOOLEAN /\ (fd[s] \in Readable) \in BOOLEAN
        BY DEF IInv, TypeOK
      <3> QED
        BY <3>1
    <2>2. reported' \subseteq Clients \union {Udp, Ipc}
      BY DEF Readable
    <2> QED
      BY <2>1, <2>2, EventLoopAssumption DEF IInv, TypeOK
  <1>2. ArrayCompact' /\ WatchedAreOpen'
    BY ArrayUntouched
  <1>3. ReportedIsAhead'
    <2> SUFFICES ASSUME NEW f \in reported'
                 PROVE  \E s \in 0 .. nfds - 1 : fd[s] = f /\ revents'[s]
      BY DEF ReportedIsAhead
    <2>1. PICK s \in 0 .. nfds - 1 : fd[s] = f
      BY DEF Watched
    <2>2. s \in Slots /\ s < nfds
      BY SlotInUse DEF IInv, TypeOK
    <2> QED
      BY <2>1, <2>2
  <1> QED
    BY <1>1, <1>2, <1>3 DEF IInv, BlockedInClient, EveryReportedIsServed

\* The scan goes on past a slot without an event, or ends behind the last one.
LEMMA ScanKeeps == ASSUME IInv, SkipSlot \/ ScanEnds PROVE IInv'
  <1>1. UNCHANGED <<fd, revents, nfds, client, datagrams, unread, reported>>
    BY DEF SkipSlot, ScanEnds, arrayVars, envVars
  <1>2. TypeOK'
    BY <1>1, EventLoopAssumption DEF SkipSlot, ScanEnds, NextSlot, IInv, TypeOK
  <1>3. ArrayCompact' /\ WatchedAreOpen'
    BY <1>1, ArrayUntouched
  <1>4. CASE SkipSlot
    <2>1. nfds' \in Nat /\ nfds' >= nfds
      BY <1>1 DEF IInv, TypeOK
    <2> QED
      BY <1>1, <1>2, <1>3, <1>4, <2>1, ScanMovesOn DEF SkipSlot, IInv
  <1>5. CASE ScanEnds
    <2>1. i .. nfds - 1 = {}
      BY <1>5 DEF ScanEnds, IInv, TypeOK
    <2>2. reported = {}
      BY <1>5, <2>1 DEF ScanEnds, IInv, ReportedIsAhead
    <2> QED
      BY <1>1, <1>2, <1>3, <1>5, <2>2
         DEF ScanEnds, IInv, ReportedIsAhead, BlockedInClient, EveryReportedIsServed
  <1> QED
    BY <1>4, <1>5

\* A datagram or a record is read, or a client is turned away: the array is as it was.
LEMMA ServeKeeps ==
  ASSUME IInv, ServeUdp \/ \E c \in Clients : TurnAway(c) \/ ReadRecord(c)
  PROVE  IInv'
  <1>1. /\ UNCHANGED <<fd, revents, nfds>> /\ NextSlot
        /\ pc # "poll" /\ i < nfds /\ reported' = reported \ {fd[i]}
    BY DEF ServeUdp, TurnAway, ReadRecord, AtRead, At, arrayVars, IInv, BlockedInClient
  <1>2. /\ client' \in [Clients -> {"away", "backlog", "open", "closing"}]
        /\ \A c \in Clients : client'[c] \in {"open", "closing"} <=> client[c] \in {"open", "closing"}
    BY DEF ServeUdp, TurnAway, ReadRecord, IInv, TypeOK
  <1>3. datagrams' \in 0 .. MaxDatagrams /\ unread' \in [Clients -> 0 .. MaxUnread]
    BY EventLoopAssumption DEF ServeUdp, TurnAway, ReadRecord, IInv, TypeOK
  <1>4. TypeOK'
    BY <1>1, <1>2, <1>3, EventLoopAssumption DEF NextSlot, IInv, TypeOK
  <1>5. nfds' \in Nat /\ nfds' >= nfds
    BY <1>1 DEF IInv, TypeOK
  <1> QED
    BY <1>1, <1>2, <1>4, <1>5, ArrayUntouched, ScanMovesOn DEF IInv

\* accept fills the first free slot with a client that had none.
LEMMA AcceptKeeps == ASSUME IInv, NEW c \in Clients, Accept(c) PROVE IInv'
  <1>1. /\ i < nfds /\ fd[i] = Ipc /\ pc = "scan" /\ client[c] = "backlog" /\ nfds < MAX_POLL_FDS
        /\ fd' = [fd EXCEPT ![nfds] = c] /\ nfds' = nfds + 1 /\ reported' = reported \ {fd[i]}
        /\ client' = [client EXCEPT ![c] = "open"] /\ NextSlot
        /\ UNCHANGED <<revents, datagrams, unread>>
    BY DEF Accept, At, Room
  <1>2. nfds \in Slots /\ nfds \notin {0, 1}
    BY <1>1, EventLoopAssumption DEF IInv, TypeOK, Slots
  <1>3. /\ fd'[nfds] = c
        /\ \A s \in Slots \ {nfds} : fd'[s] = fd[s]
    BY <1>1, <1>2 DEF IInv, TypeOK
  <1>4. \A s \in 0 .. nfds - 1 : s \in Slots \ {nfds} /\ fd'[s] = fd[s] /\ fd[s] # c
    <2> SUFFICES ASSUME NEW s \in 0 .. nfds - 1
                 PROVE  s \in Slots \ {nfds} /\ fd'[s] = fd[s] /\ fd[s] # c
      OBVIOUS
    <2>1. s \in Slots \ {nfds}
      BY SlotInUse DEF IInv, TypeOK
    <2>2. c \notin Watched
      BY <1>1, EventLoopAssumption DEF IInv, WatchedAreOpen
    <2> QED
      BY <1>3, <2>1, <2>2, SlotInUse
  <1>5. TypeOK'
    <2>1. /\ fd' \in [Slots -> Clients \union {Udp, Ipc, NoFd}]
          /\ client' \in [Clients -> {"away", "backlog", "open", "closing"}]
          /\ reported' \subseteq Clients \union {Udp, Ipc}
      BY <1>1 DEF IInv, TypeOK
    <2>2. /\ nfds' \in 2 .. MAX_POLL_FDS /\ i' \in 0 .. MAX_POLL_FDS
          /\ pc' \in {"poll", "scan", "read"}
      BY <1>1, EventLoopAssumption DEF NextSlot, IInv, TypeOK
    <2> QED
      BY <1>1, <2>1, <2>2 DEF IInv, TypeOK
  <1>6. ArrayCompact'
    <2>1. fd'[0] = Udp /\ fd'[1] = Ipc
      BY <1>2, <1>4, EventLoopAssumption DEF IInv, TypeOK, ArrayCompact, Slots
    <2>2. \A s \in Slots : s >= nfds' <=> fd'[s] = NoFd
      BY <1>1, <1>2, <1>3, EventLoopAssumption DEF IInv, TypeOK, ArrayCompact, Slots
    <2>3. \A s \in 0 .. nfds' - 1 : s \in 0 .. nfds - 1 \/ s = nfds
      BY <1>1 DEF IInv, TypeOK
    <2>4. \A s, t \in 0 .. nfds' - 1 : fd'[s] = fd'[t] => s = t
      BY <1>3, <1>4, <2>3 DEF IInv, ArrayCompact
    <2> QED
      BY <2>1, <2>2, <2>4 DEF ArrayCompact
  <1>7. WatchedAreOpen'
    <2>1. \A s : s \in 0 .. nfds' - 1 <=> s \in 0 .. nfds - 1 \/ s = nfds
      BY <1>1 DEF IInv, TypeOK
    <2>2. Watched' = Watched \union {c}
      BY <1>3, <1>4, <2>1 DEF Watched
    <2>3. \A d \in Clients : client'[d] \in {"open", "closing"} <=>
                               client[d] \in {"open", "closing"} \/ d = c
      BY <1>1 DEF IInv, TypeOK
    <2> QED
      BY <2>2, <2>3 DEF IInv, WatchedAreOpen
  <1>8. nfds' \in Nat /\ nfds' >= nfds
    BY <1>1 DEF IInv, TypeOK
  <1> QED
    BY <1>1, <1>4, <1>5, <1>6, <1>7, <1>8, ScanMovesOn DEF IInv

\* A read() that finds nothing: the loop stays where it is.
LEMMA ReadBlocksKeeps == ASSUME IInv, NEW c \in Clients, ReadBlocks(c) PROVE IInv'
  <1>1. /\ UNCHANGED <<fd, revents, nfds, i, client, datagrams, unread, reported>>
        /\ pc' = "read" /\ pc = "scan" /\ i < nfds /\ fd[i] = c
    BY DEF ReadBlocks, At, arrayVars, envVars
  <1>2. TypeOK'
    BY <1>1 DEF IInv, TypeOK
  <1> QED
    BY <1>1, <1>2, ArrayUntouched
       DEF IInv, ReportedIsAhead, BlockedInClient, EveryReportedIsServed

\* The last slot moves over the client's that has left, with its flag, and is looked at next.
LEMMA ReadEndKeeps == ASSUME IInv, NEW c \in Clients, ReadEnd(c) PROVE IInv'
  <1> DEFINE last == nfds - 1
  <1>1. /\ pc \in {"scan", "read"} /\ i < nfds /\ fd[i] = c
        /\ client[c] \in {"closing", "open"} => client[c] = "closing"
        /\ fd' = [fd EXCEPT ![i] = fd[last], ![last] = NoFd]
        /\ revents' = [revents EXCEPT ![i] = revents[last]]
        /\ nfds' = last /\ i' = i /\ pc' = "scan" /\ reported' = reported \ {c}
        /\ client' = [client EXCEPT ![c] = "away"] /\ UNCHANGED <<datagrams, unread>>
    BY EventLoopAssumption
       DEF ReadEnd, AtRead, At, RemoveSlot, SameSlot, Readable, IInv, BlockedInClient, TypeOK
  <1>2. i \in 2 .. last /\ last \in 2 .. MAX_POLL_FDS - 1 /\ i \in Slots /\ last \in Slots
    <2>1. i \in 0 .. nfds - 1
      BY <1>1 DEF IInv, TypeOK
    <2>2. i \notin {0, 1}
      BY <1>1, <2>1, SlotInUse
    <2> QED
      BY <2>1, <2>2, EventLoopAssumption DEF IInv, TypeOK, Slots
  <1>3. /\ fd'[last] = NoFd
        /\ i # last => fd'[i] = fd[last]
        /\ \A s \in Slots \ {i, last} : fd'[s] = fd[s]
        /\ revents'[i] = revents[last] /\ \A s \in Slots \ {i} : revents'[s] = revents[s]
    BY <1>1, <1>2 DEF IInv, TypeOK
  <1>4. TypeOK'
    <2>1. fd[last] \in Clients \union {Udp, Ipc, NoFd} /\ revents[last] \in BOOLEAN
      BY <1>2 DEF IInv, TypeOK
    <2>2. /\ fd' \in [Slots -> Clients \union {Udp, Ipc, NoFd}]
          /\ revents' \in [Slots -> BOOLEAN]
          /\ client' \in [Clients -> {"away", "backlog", "open", "closing"}]
      BY <1>1, <2>1 DEF IInv, TypeOK
    <2> QED
      BY <1>1, <1>2, <2>2, EventLoopAssumption DEF IInv, TypeOK
  <1>5. \A s : s \in 0 .. nfds - 1 <=> s \in 0 .. nfds' - 1 \/ s = last
    BY <1>1, <1>2
  <1>6. \A s \in 0 .. nfds' - 1 : s \in Slots /\ s # last /\ s \in 0 .. nfds - 1
    BY <1>1, <1>2, EventLoopAssumption DEF Slots
  <1>7. ArrayCompact'
    <2>1. fd'[0] = Udp /\ fd'[1] = Ipc
      BY <1>2, <1>3, EventLoopAssumption DEF IInv, ArrayCompact, Slots
    <2>2. \A s \in Slots : s >= nfds' <=> fd'[s] = NoFd
      <3> SUFFICES ASSUME NEW s \in Slots PROVE s >= nfds' <=> fd'[s] = NoFd
        OBVIOUS
      <3>1. s >= nfds' <=> s = last \/ s >= nfds
        BY <1>1, <1>2, EventLoopAssumption DEF Slots, IInv, TypeOK
      <3>2. CASE s = last
        BY <1>3, <3>1, <3>2
      <3>3. CASE s = i /\ s # last
        <4>1. ~(last >= nfds) /\ ~(s >= nfds')
          BY <1>1, <1>2, <3>3 DEF IInv, TypeOK
        <4>2. fd[last] # NoFd
          BY <1>2, <4>1 DEF IInv, ArrayCompact
        <4> QED
          BY <1>3, <3>3, <4>1, <4>2
      <3>4. CASE s \notin {i, last}
        BY <1>3, <3>1, <3>4 DEF IInv, ArrayCompact
      <3> QED
        BY <3>2, <3>3, <3>4
    <2>3. \A s, t \in 0 .. nfds' - 1 : fd'[s] = fd'[t] => s = t
      <3> SUFFICES ASSUME NEW s \in 0 .. nfds' - 1, NEW t \in 0 .. nfds' - 1, fd'[s] = fd'[t]
                   PROVE  s = t
        OBVIOUS
      <3> DEFINE was(r) == IF r = i THEN last ELSE r
      <3>1. /\ fd'[s] = fd[was(s)] /\ fd'[t] = fd[was(t)]
            /\ was(s) \in 0 .. nfds - 1 /\ was(t) \in 0 .. nfds - 1
        BY <1>3, <1>5, <1>6
      <3>2. was(s) = was(t)
        BY <3>1 DEF IInv, ArrayCompact
      <3> QED
        BY <1>6, <3>2
    <2> QED
      BY <2>1, <2>2, <2>3 DEF ArrayCompact
  <1>8. WatchedAreOpen'
    <2>1. Watched' \subseteq Watched \ {c}
      <3> SUFFICES ASSUME NEW s \in 0 .. nfds' - 1 PROVE fd'[s] \in Watched \ {c}
        BY DEF Watched
      <3>1. CASE s = i
        BY <1>1, <1>2, <1>3, <1>5, <1>6, <3>1 DEF Watched, IInv, ArrayCompact
      <3>2. CASE s # i
        <4>1. /\ s \in Slots \ {i, last} /\ s \in 0 .. nfds - 1
              /\ i \in 0 .. nfds - 1
          BY <1>1, <1>2, <1>6, <3>2 DEF IInv, TypeOK
        <4>2. fd[s] # c
          BY <1>1, <3>2, <4>1 DEF IInv, ArrayCompact
        <4> QED
          BY <1>3, <4>1, <4>2 DEF Watched
      <3> QED
        BY <3>1, <3>2
    <2>2. Watched \ {c} \subseteq Watched'
      <3> SUFFICES ASSUME NEW s \in 0 .. nfds - 1, fd[s] # c PROVE fd[s] \in Watched'
        BY DEF Watched
      <3>1. CASE s = last
        <4>1. i # last /\ i \in 0 .. nfds' - 1 /\ fd'[i] = fd[s]
          BY <1>1, <1>2, <1>3, <3>1
        <4> QED
          BY <4>1 DEF Watched
      <3>2. CASE s # last
        <4>1. s # i /\ s \in 0 .. nfds' - 1 /\ fd'[s] = fd[s]
          BY <1>1, <1>3, <1>5, <1>6, <3>2
        <4> QED
          BY <4>1 DEF Watched
      <3> QED
        BY <3>1, <3>2
    <2>3. \A d \in Clients : client'[d] \in {"open", "closing"} <=>
                               client[d] \in {"open", "closing"} /\ d # c
      BY <1>1 DEF IInv, TypeOK
    <2> QED
      BY <2>1, <2>2, <2>3, EventLoopAssumption DEF IInv, WatchedAreOpen
  <1>9. ReportedIsAhead'
    <2> SUFFICES ASSUME NEW f \in reported'
                 PROVE  \E s \in i .. nfds' - 1 : fd'[s] = f /\ revents'[s]
      BY <1>1 DEF ReportedIsAhead
    <2>1. PICK s \in i .. nfds - 1 : fd[s] = f /\ revents[s]
      BY <1>1 DEF IInv, ReportedIsAhead
    <2>2. s # i /\ s \in 0 .. nfds - 1
      BY <1>1, <1>2, <2>1
    <2>3. CASE s = last
      <3>1. i \in i .. nfds' - 1 /\ fd'[i] = f /\ revents'[i]
        BY <1>1, <1>2, <1>3, <2>1, <2>2, <2>3
      <3> QED
        BY <3>1
    <2>4. CASE s # last
      <3>1. s \in i .. nfds' - 1 /\ s \in Slots
        BY <1>1, <1>2, <1>5, <1>6, <2>1, <2>2, <2>4
      <3> QED
        BY <1>3, <2>1, <2>2, <2>4, <3>1
    <2> QED
      BY <2>3, <2>4
  <1> QED
    BY <1>1, <1>4, <1>7, <1>8, <1>9 DEF IInv, BlockedInClient, EveryReportedIsServed

-----------------------------------------------------------------------------
(* The results. *)

\* Every step of the loop and of the world outside keeps the invariant.
LEMMA InvariantStep == IInv /\ [Next]_vars => IInv'
  <1> SUFFICES ASSUME IInv, [Next]_vars PROVE IInv'
    OBVIOUS
  <1>1. CASE DatagramArrives \/ \E c \in Clients : Connect(c) \/ Send(c) \/ Hangup(c)
    BY <1>1, OutsideKeeps
  <1>2. CASE LoopStep
    BY <1>2, PollKeeps, ScanKeeps, ServeKeeps, AcceptKeeps, ReadBlocksKeeps, ReadEndKeeps
       DEF LoopStep
  <1>3. CASE UNCHANGED vars
    <2>1. UNCHANGED <<fd, nfds, client>> /\ UNCHANGED <<arrayVars, pc, i, reported>>
      BY <1>3 DEF vars, arrayVars, envVars
    <2>2. TypeOK'
      BY <1>3 DEF vars, arrayVars, envVars, IInv, TypeOK
    <2> QED
      BY <2>1, <2>2, ArrayUntouched, ScanUntouched DEF IInv
  <1> QED
    BY <1>1, <1>2, <1>3 DEF Next

\* The array is what ArrayHoldsOpenFds says, and the scan is ahead of what it owes.
THEOREM InvariantHolds == Spec => []IInv
  BY InitHolds, InvariantStep, PTL DEF Spec

\* The compacted array holds the two sockets and each accepted client once, and nothing else.
THEOREM ArrayIsExact == Spec => []ArrayHoldsOpenFds
  <1>1. IInv => ArrayHoldsOpenFds
    BY DEF IInv, ArrayCompact, WatchedAreOpen, ArrayHoldsOpenFds
  <1> QED
    BY <1>1, InvariantHolds, PTL

\* No removal in the middle of a pass makes the loop pass over a descriptor poll reported.
THEOREM NobodyIsPassedOver == Spec => []EveryReportedIsServed
  <1>1. IInv => EveryReportedIsServed
    BY DEF IInv
  <1> QED
    BY <1>1, InvariantHolds, PTL

-----------------------------------------------------------------------------
(* The token bucket. *)

\* The bucket never holds more than that now, nor admits more than that until
\* time passes.
Covered ==
  \A k \in 1 .. Len(passed) : 1000 * PassedSince(k) + Refilled <= Supply(k)

RateInv == BucketTypeOK /\ Covered

\* The refill is a total function into the bucket's range; with a refill
\* due, the level after it is the level that Consume leaves or takes from.
LEMMA RefillInRange == BucketTypeOK => Refilled \in 0 .. Full /\ Refilled >= tb_tokens
<1> SUFFICES ASSUME BucketTypeOK PROVE Refilled \in 0 .. Full /\ Refilled >= tb_tokens
  OBVIOUS
<1> DEFINE due == now - tb_last_time_ms
           added == due * RATE
<1>1. due \in Int /\ tb_tokens \in Nat /\ tb_tokens <= Full /\ Full \in Nat
  BY TokenBucketAssumption DEF BucketTypeOK, Full
<1>2. CASE now <= tb_last_time_ms
  BY <1>1, <1>2 DEF Refilled
<1>3. CASE ~(now <= tb_last_time_ms)
  <2>1. due \in Nat
    BY <1>3 DEF BucketTypeOK
  <2>2. added \in Nat
    <3> HIDE DEF due
    <3> QED BY <2>1, TokenBucketAssumption
  <2>3. Refilled = IF tb_tokens + added > Full THEN Full ELSE tb_tokens + added
    BY <1>3 DEF Refilled
  <2> HIDE DEF added
  <2> QED BY <1>1, <2>2, <2>3
<1> QED BY <1>2, <1>3

\* What a move of the clock does to the refill that is due: forwards it adds at
\* most RATE a millisecond, backwards nothing.
LEMMA RefillGrows ==
  ASSUME BucketTypeOK, NEW ms \in Int, now' = now + ms,
         UNCHANGED <<tb_tokens, tb_last_time_ms>>
  PROVE  Refilled' <= Refilled + RATE * (IF ms > 0 THEN ms ELSE 0)
<1> DEFINE due == now - tb_last_time_ms
           add == due * RATE
           more == RATE * ms
<1>0. due \in Int /\ tb_tokens \in Nat /\ tb_tokens <= Full /\ Full \in Nat /\ RATE \in Nat
  BY TokenBucketAssumption DEF BucketTypeOK, Full
<1>7. now \in Int /\ tb_last_time_ms \in Int
  BY DEF BucketTypeOK
<1>1. more \in Int /\ add \in Int /\ (ms > 0 => more >= 0) /\ (ms <= 0 => more <= 0)
  <2> HIDE DEF due
  <2> QED BY <1>0
<1>2. (now + ms - tb_last_time_ms) * RATE = add + more
  BY <1>0, TokenBucketAssumption DEF BucketTypeOK
<1>3. Refilled = IF now <= tb_last_time_ms THEN tb_tokens
                 ELSE IF tb_tokens + add > Full THEN Full ELSE tb_tokens + add
  BY DEF Refilled
<1>4. Refilled' = IF now + ms <= tb_last_time_ms THEN tb_tokens
                  ELSE IF tb_tokens + (add + more) > Full THEN Full
                  ELSE tb_tokens + (add + more)
  <2>1. now' = now + ms /\ tb_last_time_ms' = tb_last_time_ms /\ tb_tokens' = tb_tokens
    OBVIOUS
  <2>2. (now' - tb_last_time_ms') * RATE = (now + ms - tb_last_time_ms) * RATE
    BY <1>0, <1>7, <2>1
  <2> DEFINE added == (now' - tb_last_time_ms') * RATE
  <2>3. added = add + more
    BY <1>2, <2>2
  <2>4. Refilled' = IF now' <= tb_last_time_ms' THEN tb_tokens'
                    ELSE IF tb_tokens' + added > Full THEN Full ELSE tb_tokens' + added
    BY DEF Refilled, Full
  <2> HIDE DEF added, add, more
  <2> QED BY <2>1, <2>3, <2>4
<1>5. now <= tb_last_time_ms => add <= 0
  <2> SUFFICES ASSUME now <= tb_last_time_ms PROVE add <= 0
    OBVIOUS
  <2>1. due <= 0
    BY DEF BucketTypeOK
  <2> HIDE DEF due
  <2> QED BY <1>0, <2>1
<1>6. now > tb_last_time_ms => add >= 0
  <2> SUFFICES ASSUME now > tb_last_time_ms PROVE add >= 0
    OBVIOUS
  <2>1. due >= 0
    BY DEF BucketTypeOK
  <2> HIDE DEF due
  <2> QED BY <1>0, <2>1
<1>8. Refilled' <= Refilled + (IF ms > 0 THEN more ELSE 0)
  <2> HIDE DEF due, add, more
  <2>1. CASE now + ms <= tb_last_time_ms
    BY <1>0, <1>1, <1>3, <1>4, <1>6, <1>7, <2>1
  <2>2. CASE ~(now + ms <= tb_last_time_ms) /\ now <= tb_last_time_ms
    BY <1>0, <1>1, <1>3, <1>4, <1>5, <1>7, <2>2
  <2>3. CASE ~(now + ms <= tb_last_time_ms) /\ ~(now <= tb_last_time_ms)
    BY <1>0, <1>1, <1>3, <1>4, <1>6, <1>7, <2>3
  <2> QED BY <1>7, <2>1, <2>2, <2>3
<1>9. RATE * 0 = 0
  BY <1>0
<1> QED BY <1>8, <1>9

\* Type correctness of the initial state and of every step.
LEMMA InitType == BucketInit => BucketTypeOK
BY TokenBucketAssumption DEF BucketInit, BucketTypeOK, Full

\* Whatever the step, the bucket stays within its bounds.
LEMMA TypeStep == BucketTypeOK /\ [BucketNext]_bucketVars => BucketTypeOK'
<1> SUFFICES ASSUME BucketTypeOK, [BucketNext]_bucketVars PROVE BucketTypeOK'
  OBVIOUS
<1>1. CASE Consume
  <2>1. Refilled \in 0 .. Full /\ Full \in Nat /\ Full' = Full
    BY RefillInRange, TokenBucketAssumption DEF Full
  <2>2. tb_tokens' \in 0 .. Full
    BY <1>1, <2>1 DEF Consume, Allowed
  <2>3. passed' \in Seq(Nat)
    BY <1>1 DEF Consume, BucketTypeOK
  <2> QED BY <1>1, <2>1, <2>2, <2>3 DEF Consume, AdvanceLastTime, BucketTypeOK
<1>2. CASE TimePasses
  BY <1>2 DEF TimePasses, BucketTypeOK, Full
<1>3. ASSUME NEW ms \in Steps, ClockStepped(ms) PROVE BucketTypeOK'
  BY <1>3, TokenBucketAssumption DEF ClockStepped, BucketTypeOK, Full
<1>4. CASE UNCHANGED bucketVars
  BY <1>4 DEF bucketVars, BucketTypeOK, Full
<1> QED BY <1>1, <1>2, <1>3, <1>4 DEF BucketNext

\* The bucket keeps between nothing and its capacity under every interleaving
\* of datagrams, time and clock adjustments.
THEOREM BucketTypeCorrect == BucketSpec => []BucketTypeOK
BY InitType, TypeStep, PTL DEF BucketSpec

\* A step in which nothing passes the limiter and the clock moves keeps the
\* bound on what passes in every interval.
LEMMA CoveredLater ==
  ASSUME BucketTypeOK, Covered, NEW ms \in Int, now' = now + ms,
         elapsed' = elapsed + (IF ms > 0 THEN ms ELSE 0),
         UNCHANGED <<tb_tokens, tb_last_time_ms, passed>>
  PROVE  Covered'
<1>0. \A k \in 1 .. Len(passed) : PassedSince(k)' = PassedSince(k)
  BY DEF PassedSince
<1> SUFFICES ASSUME NEW k \in 1 .. Len(passed)
             PROVE  1000 * PassedSince(k) + Refilled' <= Supply(k)'
  BY <1>0 DEF Covered
<1> DEFINE a == elapsed - passed[k]
           forward == IF ms > 0 THEN ms ELSE 0
           n == 1000 * PassedSince(k)
<1>1. /\ passed[k] \in Nat /\ a \in Int /\ elapsed \in Nat /\ RATE \in Nat /\ Full \in Nat
      /\ forward \in Nat /\ n \in Int
  BY TokenBucketAssumption DEF BucketTypeOK, Full, PassedSince
<1>2. n + Refilled <= Full + RATE * a
  BY DEF Covered, Supply
<1>3. Refilled' <= Refilled + RATE * forward
  BY RefillGrows
<1>4. Supply(k)' = Full + RATE * (a + forward)
  BY <1>1 DEF Supply, Full
<1>5. RATE * (a + forward) = RATE * a + RATE * forward
  <2> HIDE DEF a, forward
  <2> QED BY <1>1
<1>6. RATE * a \in Int /\ RATE * forward \in Int
  <2> HIDE DEF a, forward
  <2> QED BY <1>1
<1>7. Refilled \in Int /\ Refilled' \in Int
  <2>1. BucketTypeOK'
    BY TokenBucketAssumption DEF BucketTypeOK, Full
  <2>2. (Refilled \in 0 .. Full)'
    BY <2>1, RefillInRange, PTL
  <2>3. Refilled \in 0 .. Full /\ Full' = Full
    BY RefillInRange DEF Full
  <2> QED BY <1>1, <2>2, <2>3
<1> HIDE DEF n, a, forward
<1> QED BY <1>1, <1>2, <1>3, <1>4, <1>5, <1>6, <1>7 DEF n

\* After token_bucket_consume no refill is due, and a token was paid for what
\* passed.
LEMMA ConsumePays ==
  ASSUME BucketTypeOK, Consume
  PROVE  Refilled' = IF Allowed THEN Refilled - 1000 ELSE Refilled
<1>1. now' <= tb_last_time_ms'
  BY DEF Consume, AdvanceLastTime, BucketTypeOK
<1>2. Refilled' = tb_tokens'
  BY <1>1 DEF Refilled
<1> QED BY <1>2 DEF Consume

\* A datagram let through, or refused, keeps the bound on every interval.
LEMMA CoveredConsume ==
  ASSUME BucketTypeOK, Covered, Consume
  PROVE  Covered'
<1> SUFFICES ASSUME NEW k \in 1 .. Len(passed')
             PROVE  1000 * (Len(passed') - k + 1) + Refilled'
                      <= Full + RATE * (elapsed - passed'[k])
  BY DEF Covered, PassedSince, Supply, Consume, Full
<1>1. Refilled' = IF Allowed THEN Refilled - 1000 ELSE Refilled
  BY ConsumePays
<1>2. Refilled \in 0 .. Full /\ Full \in Nat /\ RATE \in Nat /\ passed \in Seq(Nat)
  BY RefillInRange, TokenBucketAssumption DEF Full, BucketTypeOK
<1>3. CASE ~Allowed
  BY <1>1, <1>3 DEF Consume, Covered, PassedSince, Supply
<1>4. CASE Allowed
  <2>1. passed' = Append(passed, elapsed) /\ elapsed \in Nat
    BY <1>4 DEF Consume, BucketTypeOK
  <2>2. CASE k = Len(passed) + 1
    <3>1. Len(passed') = k /\ passed'[k] = elapsed
      BY <1>2, <2>1, <2>2
    <3>2. RATE * (elapsed - elapsed) = 0
      BY <1>2, <2>1
    <3> QED BY <1>1, <1>2, <1>4, <3>1, <3>2
  <2>3. CASE k \in 1 .. Len(passed)
    <3>1. Len(passed') = Len(passed) + 1 /\ passed'[k] = passed[k]
      BY <1>2, <2>1, <2>3
    <3> DEFINE s == RATE * (elapsed - passed[k])
    <3>2. 1000 * (Len(passed) - k + 1) + Refilled <= Full + s
      BY <2>3 DEF Covered, PassedSince, Supply
    <3>3. s \in Int
      <4>1. elapsed - passed[k] \in Int
        BY <1>2, <2>1, <2>3
      <4> QED BY <1>2, <4>1
    <3> HIDE DEF s
    <3>4. 1000 * (Len(passed') - k + 1) + Refilled' <= Full + s
      BY <1>1, <1>2, <1>4, <2>3, <3>1, <3>2, <3>3
    <3> QED BY <3>1, <3>4 DEF s
  <2> QED BY <1>2, <2>1, <2>2, <2>3
<1> QED BY <1>3, <1>4

\* The bound with the tokens left in it holds at first and is kept.
LEMMA RateInit == BucketInit => RateInv
BY InitType DEF RateInv, Covered, BucketInit

\* Datagrams, time and every adjustment of the clock keep the account.
LEMMA RateNext == RateInv /\ [BucketNext]_bucketVars => RateInv'
<1> SUFFICES ASSUME RateInv, [BucketNext]_bucketVars PROVE RateInv'
  OBVIOUS
<1>0. BucketTypeOK /\ Covered /\ BucketTypeOK'
  BY TypeStep DEF RateInv
<1>1. CASE Consume
  BY <1>0, <1>1, CoveredConsume DEF RateInv
<1>2. CASE TimePasses
  <2>1. Covered'
    <3>1. 1 \in Int /\ elapsed' = elapsed + (IF 1 > 0 THEN 1 ELSE 0) /\ now' = now + 1
      BY <1>2 DEF TimePasses
    <3> QED BY <1>0, <1>2, <3>1, CoveredLater DEF TimePasses
  <2> QED BY <1>0, <2>1 DEF RateInv
<1>3. ASSUME NEW ms \in Steps, ClockStepped(ms) PROVE RateInv'
  <2>1. ms \in Int /\ elapsed' = elapsed + (IF ms > 0 THEN ms ELSE 0) /\ now' = now + ms
    BY <1>0, <1>3, TokenBucketAssumption DEF ClockStepped, BucketTypeOK
  <2>2. Covered'
    BY <1>0, <1>3, <2>1, CoveredLater DEF ClockStepped
  <2> QED BY <1>0, <2>2 DEF RateInv
<1>4. CASE UNCHANGED bucketVars
  BY <1>0, <1>4 DEF RateInv, Covered, PassedSince, Supply, Refilled, Full, bucketVars
<1> QED BY <1>1, <1>2, <1>3, <1>4 DEF BucketNext

\* The limiter keeps its promise for every capacity and rate and however the
\* clock is adjusted: no interval lets more through than a full bucket and the
\* refill of the interval.
THEOREM RateIsBounded == BucketSpec => []RateBound
<1>1. RateInv => RateBound
  <2> SUFFICES ASSUME RateInv, NEW k \in 1 .. Len(passed)
               PROVE  1000 * PassedSince(k) <= Supply(k)
    BY DEF RateBound
  <2>1. 1000 * PassedSince(k) + Refilled <= Supply(k) /\ Refilled \in Nat
    BY RefillInRange, TokenBucketAssumption DEF RateInv, Covered, Full
  <2>2. PassedSince(k) \in Int
    BY DEF PassedSince, RateInv, BucketTypeOK
  <2>3. elapsed - passed[k] \in Int /\ RATE \in Nat /\ Full \in Nat
    BY TokenBucketAssumption DEF RateInv, BucketTypeOK, Full
  <2>4. Supply(k) \in Int
    BY <2>3 DEF Supply
  <2> QED BY <2>1, <2>2, <2>4
<1> QED BY RateInit, RateNext, <1>1, PTL DEF BucketSpec

-----------------------------------------------------------------------------
(* The clock is never put back. *)

\* Unless the clock is put back nothing but the full bucket makes the limiter lose
\* tokens: when it is not full, everything since some datagram is accounted for.
Exact ==
  Refilled = Full \/ \E k \in 1 .. Len(passed) : 1000 * PassedSince(k) + Refilled = Supply(k)

ExactInv == BucketTypeOK /\ now <= elapsed /\ (~PutBack => tb_last_time_ms <= now /\ Exact)

\* Time that passes, and a clock that is put forward, refill exactly RATE a
\* millisecond, up to the brim.
LEMMA ForwardRefill ==
  ASSUME BucketTypeOK, tb_last_time_ms <= now, NEW ms \in Nat, ms > 0, now' = now + ms,
         UNCHANGED <<tb_tokens, tb_last_time_ms>>
  PROVE  Refilled' = IF Refilled + RATE * ms > Full THEN Full ELSE Refilled + RATE * ms
<1> DEFINE due == now - tb_last_time_ms
           add == due * RATE
           more == RATE * ms
<1>1. /\ now \in Int /\ tb_last_time_ms \in Int /\ tb_tokens \in 0 .. Full
      /\ due \in Nat /\ RATE \in Nat /\ Full \in Nat
  BY TokenBucketAssumption DEF BucketTypeOK, Full
<1>2. now' = now + ms /\ tb_last_time_ms' = tb_last_time_ms /\ tb_tokens' = tb_tokens
  OBVIOUS
<1>3. (now' - tb_last_time_ms') * RATE = add + more
  <2>1. now' - tb_last_time_ms' = due + ms
    BY <1>1, <1>2
  <2> HIDE DEF due
  <2> QED BY <1>1, <2>1
<1>4. Refilled' = IF tb_tokens + (add + more) > Full THEN Full ELSE tb_tokens + (add + more)
  <2> DEFINE added == (now' - tb_last_time_ms') * RATE
  <2>1. Refilled' = IF now' <= tb_last_time_ms' THEN tb_tokens'
                    ELSE IF tb_tokens' + added > Full THEN Full ELSE tb_tokens' + added
    BY DEF Refilled, Full
  <2>2. added = add + more
    BY <1>3
  <2>3. ~(now' <= tb_last_time_ms')
    BY <1>1, <1>2
  <2> HIDE DEF added, add, more
  <2> QED BY <1>2, <2>1, <2>2, <2>3
<1>5. Refilled = IF tb_tokens + add > Full THEN Full ELSE tb_tokens + add
  <2>1. CASE due = 0
    <3>1. add = 0 /\ now <= tb_last_time_ms
      BY <1>1, <2>1
    <3>2. Refilled = tb_tokens
      BY <3>1 DEF Refilled
    <3> HIDE DEF add
    <3> QED BY <1>1, <3>1, <3>2
  <2>2. CASE due # 0
    <3>1. ~(now <= tb_last_time_ms)
      BY <1>1, <2>2
    <3> QED BY <3>1 DEF Refilled
  <2> QED BY <2>1, <2>2
<1>6. add \in Nat /\ more \in Nat
  <2> HIDE DEF due
  <2> QED BY <1>1
<1>7. Refilled' = IF Refilled + more > Full THEN Full ELSE Refilled + more
  <2> HIDE DEF add, due, more
  <2> QED BY <1>1, <1>4, <1>5, <1>6
<1> QED BY <1>7

\* The exact account survives a datagram, let through or refused ...
LEMMA ExactConsume ==
  ASSUME BucketTypeOK, Exact, Consume
  PROVE  Exact'
<1>1. Refilled' = IF Allowed THEN Refilled - 1000 ELSE Refilled
  BY ConsumePays
<1>2. /\ Refilled \in 0 .. Full /\ Full \in Nat /\ RATE \in Nat
      /\ passed \in Seq(Nat) /\ elapsed \in Nat /\ Full' = Full /\ elapsed' = elapsed
  BY RefillInRange, TokenBucketAssumption DEF Full, BucketTypeOK, Consume
<1>3. CASE ~Allowed
  <2>1. Refilled' = Refilled /\ passed' = passed
    BY <1>1, <1>3 DEF Consume
  <2> QED BY <1>2, <2>1 DEF Exact, PassedSince, Supply
<1>4. CASE Allowed
  <2>1. passed' = Append(passed, elapsed) /\ Refilled' = Refilled - 1000
    BY <1>1, <1>4 DEF Consume
  <2>2. Len(passed') = Len(passed) + 1 /\ passed'[Len(passed) + 1] = elapsed
    BY <1>2, <2>1
  <2>3. CASE Refilled = Full
    <3>1. RATE * (elapsed - elapsed) = 0
      BY <1>2
    <3>2. Len(passed) + 1 \in 1 .. Len(passed')
      BY <1>2, <2>2
    <3>3. 1000 * (Len(passed') - (Len(passed) + 1) + 1) + Refilled'
            = Full + RATE * (elapsed - passed'[Len(passed) + 1])
      BY <1>2, <2>1, <2>2, <2>3, <3>1
    <3>4. \E k \in 1 .. Len(passed') :
            1000 * (Len(passed') - k + 1) + Refilled' = Full + RATE * (elapsed - passed'[k])
      BY <3>2, <3>3
    <3> QED BY <1>2, <3>4 DEF Exact, PassedSince, Supply
  <2>4. ASSUME NEW k \in 1 .. Len(passed), 1000 * PassedSince(k) + Refilled = Supply(k)
        PROVE  Exact'
    <3> DEFINE supply == Full + RATE * (elapsed - passed[k])
    <3>1. k \in 1 .. Len(passed') /\ passed'[k] = passed[k]
      BY <1>2, <2>1, <2>2
    <3>2. 1000 * (Len(passed) - k + 1) + Refilled = supply
      BY <2>4 DEF PassedSince, Supply
    <3>3. 1000 * (Len(passed') - k + 1) + Refilled' = supply
      <4> HIDE DEF supply
      <4> QED BY <1>2, <2>1, <2>2, <3>2
    <3>4. \E j \in 1 .. Len(passed') :
            1000 * (Len(passed') - j + 1) + Refilled' = Full + RATE * (elapsed - passed'[j])
      BY <3>1, <3>3
    <3> QED BY <1>2, <3>4 DEF Exact, PassedSince, Supply
  <2> QED BY <2>3, <2>4 DEF Exact
<1> QED BY <1>3, <1>4

\* ... and time that passes or is stepped over.
LEMMA ExactLater ==
  ASSUME BucketTypeOK, tb_last_time_ms <= now, Exact, NEW ms \in Nat, ms > 0,
         now' = now + ms, elapsed' = elapsed + ms,
         UNCHANGED <<tb_tokens, tb_last_time_ms, passed>>
  PROVE  Exact'
<1> DEFINE more == RATE * ms
<1>1. Refilled' = IF Refilled + more > Full THEN Full ELSE Refilled + more
  BY ForwardRefill
<1>2. /\ Refilled \in 0 .. Full /\ Full \in Nat /\ RATE \in Nat /\ passed \in Seq(Nat)
      /\ elapsed \in Nat /\ Full' = Full /\ elapsed' = elapsed + ms /\ passed' = passed
  BY RefillInRange, TokenBucketAssumption DEF Full, BucketTypeOK
<1>5. more \in Nat
  BY <1>2
<1>3. CASE Refilled' = Full
  BY <1>2, <1>3 DEF Exact
<1>4. CASE Refilled' # Full
  <2>1. Refilled # Full /\ Refilled' = Refilled + more
    <3> HIDE DEF more
    <3> QED BY <1>1, <1>2, <1>4, <1>5
  <2>2. PICK k \in 1 .. Len(passed) : 1000 * PassedSince(k) + Refilled = Supply(k)
    BY <2>1 DEF Exact
  <2> DEFINE a == elapsed - passed[k]
  <2>3. a \in Int /\ elapsed' - passed[k] = a + ms
    BY <1>2
  <2>4. RATE * (elapsed' - passed[k]) = RATE * a + more /\ RATE * a \in Int
    <3> HIDE DEF a
    <3> QED BY <1>2, <2>3
  <2>5. 1000 * PassedSince(k) + Refilled = Full + RATE * a
    BY <2>2 DEF Supply
  <2>6. PassedSince(k) \in Int
    BY <1>2 DEF PassedSince
  <2> DEFINE s == RATE * (elapsed' - passed[k])
  <2>7. 1000 * PassedSince(k) + Refilled' = Full + s
    <3> DEFINE r == RATE * a
               n == PassedSince(k)
    <3>1. s = r + more /\ r \in Int /\ 1000 * n + Refilled = Full + r /\ n \in Int
      BY <2>4, <2>5, <2>6
    <3> HIDE DEF s, r, n, more
    <3>2. 1000 * n + Refilled' = Full + s
      BY <1>2, <1>5, <2>1, <3>1
    <3> QED BY <3>2 DEF n
  <2>8. (1000 * PassedSince(k) + Refilled = Supply(k))'
    BY <1>2, <2>7 DEF PassedSince, Supply
  <2>9. k \in 1 .. Len(passed')
    BY <1>2
  <2> QED BY <2>8, <2>9 DEF Exact
<1> QED BY <1>3, <1>4

\* The exact account holds at first and is kept until the clock is put back.
LEMMA ExactStep == ExactInv /\ [BucketNext]_bucketVars => ExactInv'
<1> SUFFICES ASSUME ExactInv, [BucketNext]_bucketVars PROVE ExactInv'
  OBVIOUS
<1>0. BucketTypeOK /\ BucketTypeOK' /\ now <= elapsed /\ (~PutBack => tb_last_time_ms <= now /\ Exact)
  BY TypeStep DEF ExactInv
<1>1. CASE Consume
  <2>1. (now <= elapsed)' /\ (PutBack' <=> PutBack)
    BY <1>0, <1>1 DEF Consume, PutBack
  <2>2. ~PutBack => (tb_last_time_ms <= now)'
    BY <1>0, <1>1 DEF BucketTypeOK, Consume, AdvanceLastTime
  <2>3. ~PutBack => Exact'
    BY <1>0, <1>1, ExactConsume
  <2> QED BY <1>0, <2>1, <2>2, <2>3 DEF ExactInv
<1>2. CASE TimePasses
  <2>1. 1 \in Nat /\ 1 > 0 /\ elapsed' = elapsed + 1 /\ now' = now + 1
    BY <1>2 DEF TimePasses
  <2>2. (now <= elapsed)' /\ (PutBack' <=> PutBack)
    BY <1>0, <2>1 DEF BucketTypeOK, PutBack
  <2>3. ~PutBack => (tb_last_time_ms <= now)'
    BY <1>0, <1>2, <2>1 DEF BucketTypeOK, TimePasses
  <2>4. ~PutBack => Exact'
    BY <1>0, <1>2, <2>1, ExactLater DEF TimePasses
  <2> QED BY <1>0, <2>2, <2>3, <2>4 DEF ExactInv
<1>3. ASSUME NEW ms \in Steps, ClockStepped(ms) PROVE ExactInv'
  <2>1. /\ ms \in Int /\ now' = now + ms
        /\ elapsed' = IF ms > 0 THEN elapsed + ms ELSE elapsed
        /\ UNCHANGED <<tb_tokens, tb_last_time_ms, passed>>
    BY <1>3, TokenBucketAssumption DEF ClockStepped
  <2>2. now \in Int /\ elapsed \in Nat /\ tb_last_time_ms \in Int
    BY <1>0 DEF BucketTypeOK
  <2>3. CASE ms > 0
    <3>1. (now <= elapsed)' /\ (PutBack' <=> PutBack) /\ ms \in Nat
      BY <1>0, <2>1, <2>2, <2>3 DEF PutBack
    <3>2. ~PutBack => (tb_last_time_ms <= now)'
      BY <1>0, <2>1, <2>2, <2>3
    <3>3. ~PutBack => Exact'
      BY <1>0, <2>1, <2>3, <3>1, ExactLater
    <3> QED BY <1>0, <3>1, <3>2, <3>3 DEF ExactInv
  <2>4. CASE ms = 0
    <3>1. now' = now /\ elapsed' = elapsed
      BY <2>1, <2>2, <2>4
    <3> QED BY <1>0, <2>1, <3>1
            DEF ExactInv, PutBack, Exact, PassedSince, Supply, Refilled, Full
  <2>5. CASE ms < 0
    BY <1>0, <2>1, <2>2, <2>5 DEF ExactInv, PutBack
  <2> QED BY <2>1, <2>2, <2>3, <2>4, <2>5
<1>4. CASE UNCHANGED bucketVars
  BY <1>0, <1>4 DEF ExactInv, PutBack, Exact, PassedSince, Supply, Refilled, Full, bucketVars
<1> QED BY <1>1, <1>2, <1>3, <1>4 DEF BucketNext

\* Unless the clock was put back the limiter refuses a datagram only when letting
\* it through would exceed the rate: keeping to the rate is enough to be served.
THEOREM OnlyExcessIsRefused == BucketSpec => []RefusesOnlyExcess
<1>1. BucketInit => ExactInv
  <2> SUFFICES ASSUME BucketInit PROVE ExactInv
    OBVIOUS
  <2>1. BucketTypeOK
    BY InitType
  <2>2. Refilled = Full
    BY DEF BucketInit, Refilled, Full
  <2> QED BY <2>1, <2>2 DEF ExactInv, Exact, PutBack, BucketInit
<1>2. ExactInv => RefusesOnlyExcess
  <2> SUFFICES ASSUME ExactInv, ~PutBack, ~Allowed
               PROVE  \E k \in 1 .. Len(passed) : 1000 * (PassedSince(k) + 1) > Supply(k)
    BY DEF RefusesOnlyExcess
  <2>1. Refilled \in 0 .. Full /\ Full >= 1000 /\ Full \in Nat
    BY RefillInRange, TokenBucketAssumption DEF Full, ExactInv
  <2>2. Refilled < 1000
    BY <2>1 DEF Allowed
  <2>3. PICK k \in 1 .. Len(passed) : 1000 * PassedSince(k) + Refilled = Supply(k)
    BY <2>1, <2>2 DEF ExactInv, Exact
  <2>4. PassedSince(k) \in Int
    BY DEF PassedSince, ExactInv, BucketTypeOK
  <2>5. 1000 * (PassedSince(k) + 1) > Supply(k)
    BY <2>1, <2>2, <2>3, <2>4
  <2> QED BY <2>5
<1> QED BY <1>1, <1>2, ExactStep, PTL DEF BucketSpec
=============================================================================
