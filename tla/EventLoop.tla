----------------------------- MODULE EventLoop -----------------------------
(***************************************************************************)
(* io_multiplexing.c: the single-threaded poll loop.  It keeps its         *)
(* descriptors in a compact array: slot 0 is the UDP socket, slot 1 the    *)
(* listening IPC socket, the rest accepted clients.  A client that leaves  *)
(* is replaced by the last slot.  The two sockets are non-blocking, the    *)
(* descriptors accept() returns are not.                                   *)
(*                                                                         *)
(* Here a client's record only counts as read: what becomes of it is the   *)
(* subject of Pipeline.                                                    *)
(***************************************************************************)
EXTENDS Naturals, FiniteSets

CONSTANTS
  Clients,        \* local programs that may connect
  MAX_POLL_FDS,   \* slots of the array (1024)
  Udp, Ipc,       \* the two sockets
  NoFd,           \* -1
  MaxUnread,      \* bound: records a client has sent and the loop not read
  MaxDatagrams    \* bound: datagrams waiting in the UDP socket

ASSUME EventLoopAssumption ==
  /\ MAX_POLL_FDS \in Nat /\ MAX_POLL_FDS >= 2
  /\ Udp # Ipc /\ NoFd \notin Clients \union {Udp, Ipc}
  /\ Udp \notin Clients /\ Ipc \notin Clients
  /\ MaxUnread \in Nat /\ MaxDatagrams \in Nat

VARIABLES
  fd, revents, nfds,   \* the array: descriptors, POLLIN flags, slots in use
  pc, i,               \* "poll", "scan" or "read" (blocked), and the slot
  datagrams,           \* datagrams waiting in the UDP socket
  client,              \* per client: "away", "backlog", "open" or "closing"
  unread,              \* per client: records sent and not read
  reported             \* history: descriptors the last poll found readable and
                       \* the loop has not looked at yet

arrayVars == <<fd, revents, nfds>>
envVars   == <<datagrams, client, unread>>
vars == <<arrayVars, pc, i, envVars, reported>>

Slots == 0 .. MAX_POLL_FDS - 1

Init ==
  /\ fd = [s \in Slots |-> IF s = 0 THEN Udp ELSE IF s = 1 THEN Ipc ELSE NoFd]
  /\ revents = [s \in Slots |-> FALSE]
  /\ nfds = 2
  /\ pc = "poll" /\ i = 0
  /\ datagrams = 0
  /\ client = [c \in Clients |-> "away"]
  /\ unread = [c \in Clients |-> 0]
  /\ reported = {}

-----------------------------------------------------------------------------
(* The world outside. *)

DatagramArrives ==
  /\ datagrams < MaxDatagrams
  /\ datagrams' = datagrams + 1
  /\ UNCHANGED <<arrayVars, pc, i, client, unread, reported>>

Connect(c) ==
  /\ client[c] = "away"
  /\ client' = [client EXCEPT ![c] = "backlog"]
  /\ UNCHANGED <<arrayVars, pc, i, datagrams, unread, reported>>

\* connect() succeeds before accept(), so a client may send from the backlog.
Send(c) ==
  /\ client[c] \in {"backlog", "open"} /\ unread[c] < MaxUnread
  /\ unread' = [unread EXCEPT ![c] = @ + 1]
  /\ UNCHANGED <<arrayVars, pc, i, datagrams, client, reported>>

Hangup(c) ==
  /\ client[c] = "open"
  /\ client' = [client EXCEPT ![c] = "closing"]
  /\ UNCHANGED <<arrayVars, pc, i, datagrams, unread, reported>>

\* What poll would report POLLIN for.
Readable ==
  {f \in {Udp, Ipc} \union Clients :
     \/ f = Udp /\ datagrams > 0
     \/ f = Ipc /\ \E c \in Clients : client[c] = "backlog"
     \/ f \in Clients /\ (client[f] = "closing" \/ unread[f] > 0)}

-----------------------------------------------------------------------------
(* The loop. *)

Watched == {fd[s] : s \in 0 .. nfds - 1}

\* poll() returns and sets revents of the first nfds slots, no others.  When a
\* signal interrupts it nothing changes and it is called again.
Poll ==
  /\ pc = "poll"
  /\ Readable \intersect Watched # {}
  /\ revents' = [s \in Slots |-> IF s < nfds THEN fd[s] \in Readable ELSE revents[s]]
  /\ reported' = Readable \intersect Watched
  /\ pc' = "scan" /\ i' = 0
  /\ UNCHANGED <<fd, nfds, envVars>>

At(f) == pc = "scan" /\ i < nfds /\ revents[i] /\ fd[i] = f

\* i++ at the end of the loop's body.
NextSlot == i' = i + 1 /\ pc' = "scan"

SkipSlot ==
  /\ pc = "scan" /\ i < nfds /\ ~revents[i]
  /\ NextSlot
  /\ UNCHANGED <<arrayVars, envVars, reported>>

ScanEnds ==
  /\ pc = "scan" /\ i >= nfds
  /\ pc' = "poll" /\ i' = 0
  /\ UNCHANGED <<arrayVars, envVars, reported>>

\* handle_udp_read takes one datagram; a second one waits for the next poll.
ServeUdp ==
  /\ At(Udp)
  /\ datagrams' = IF datagrams > 0 THEN datagrams - 1 ELSE 0
  /\ reported' = reported \ {Udp}
  /\ NextSlot
  /\ UNCHANGED <<arrayVars, client, unread>>

\* nfds < MAX_POLL_FDS
Room == nfds < MAX_POLL_FDS

\* accept(): the client gets the slot after the last one.  Its revents field is
\* not written.
Accept(c) ==
  /\ At(Ipc) /\ client[c] = "backlog"
  /\ Room
  /\ fd' = [fd EXCEPT ![nfds] = c]
  /\ nfds' = nfds + 1
  /\ client' = [client EXCEPT ![c] = "open"]
  /\ reported' = reported \ {Ipc}
  /\ NextSlot
  /\ UNCHANGED <<revents, datagrams, unread>>

\* No slot is left: the client is turned away, what it had sent is lost.
TurnAway(c) ==
  /\ At(Ipc) /\ client[c] = "backlog"
  /\ ~Room
  /\ client' = [client EXCEPT ![c] = "away"]
  /\ unread' = [unread EXCEPT ![c] = 0]
  /\ reported' = reported \ {Ipc}
  /\ NextSlot
  /\ UNCHANGED <<arrayVars, datagrams>>

\* read() of a descriptor with nothing to read blocks the loop.
ReadBlocks(c) ==
  /\ At(c) /\ c \notin Readable
  /\ pc' = "read"
  /\ UNCHANGED <<arrayVars, i, envVars, reported>>

AtRead(c) == (At(c) \/ (pc = "read" /\ fd[i] = c)) /\ c \in Readable

ReadRecord(c) ==
  /\ AtRead(c) /\ unread[c] > 0
  /\ unread' = [unread EXCEPT ![c] = @ - 1]
  /\ reported' = reported \ {c}
  /\ NextSlot
  /\ UNCHANGED <<arrayVars, datagrams, client>>

NotAgain == NextSlot

\* i--, then i++: the slot that was just filled is looked at as well.
SameSlot == i' = i /\ pc' = "scan"

RemoveKeepsLength ==
  /\ fd' = [fd EXCEPT ![i] = fd[nfds - 1], ![nfds - 1] = NoFd]
  /\ revents' = [revents EXCEPT ![i] = revents[nfds - 1]]
  /\ UNCHANGED nfds

\* fds[i] = fds[nfds - 1]; fds[nfds - 1].fd = -1; nfds--: the slot left behind
\* keeps its revents.
RemoveSlot ==
  /\ fd' = [fd EXCEPT ![i] = fd[nfds - 1], ![nfds - 1] = NoFd]
  /\ revents' = [revents EXCEPT ![i] = revents[nfds - 1]]
  /\ nfds' = nfds - 1

\* read() returns 0: the client has left and everything it sent was read.
ReadEnd(c) ==
  /\ AtRead(c) /\ unread[c] = 0
  /\ client' = [client EXCEPT ![c] = "away"]
  /\ RemoveSlot
  /\ reported' = reported \ {c}
  /\ SameSlot
  /\ UNCHANGED <<datagrams, unread>>

LoopStep ==
  \/ Poll \/ SkipSlot \/ ScanEnds \/ ServeUdp
  \/ \E c \in Clients :
       Accept(c) \/ TurnAway(c) \/ ReadBlocks(c) \/ ReadRecord(c) \/ ReadEnd(c)

Next ==
  \/ LoopStep
  \/ DatagramArrives
  \/ \E c \in Clients : Connect(c) \/ Send(c) \/ Hangup(c)

Spec == Init /\ [][Next]_vars

\* The thread runs; nothing makes a client send or leave.
FairSpec == Spec /\ WF_vars(LoopStep)

-----------------------------------------------------------------------------
TypeOK ==
  /\ fd \in [Slots -> Clients \union {Udp, Ipc, NoFd}]
  /\ revents \in [Slots -> BOOLEAN]
  /\ nfds \in 2 .. MAX_POLL_FDS
  /\ pc \in {"poll", "scan", "read"} /\ i \in 0 .. MAX_POLL_FDS
  /\ datagrams \in 0 .. MaxDatagrams
  /\ client \in [Clients -> {"away", "backlog", "open", "closing"}]
  /\ unread \in [Clients -> 0 .. MaxUnread]
  /\ reported \subseteq Clients \union {Udp, Ipc}

\* The array is compact and exact: the sockets stay in front, every accepted
\* client has one slot, and there is nothing else in it.
ArrayHoldsOpenFds ==
  /\ TypeOK
  /\ fd[0] = Udp /\ fd[1] = Ipc
  /\ \A s \in Slots : s >= nfds <=> fd[s] = NoFd
  /\ \A s, t \in 0 .. nfds - 1 : fd[s] = fd[t] => s = t
  /\ Watched = {Udp, Ipc} \union {c \in Clients : client[c] \in {"open", "closing"}}

\* A removal in the middle of a pass makes the loop miss nobody: when it goes
\* back to poll it has looked at every descriptor that poll reported.
EveryReportedIsServed == pc = "poll" => reported = {}

\* Every pass over the array ends, whatever is added to it and removed from it
\* under way, unless the loop hangs in a read() of a silent client.
PassEnds == pc = "scan" ~> pc \in {"poll", "read"}

\* io_multiplexing.c: the loop visits the sockets on which an event occurred.
OnlyReadySocketsVisited ==
  \A c \in Clients : At(c) => c \in Readable
=============================================================================
