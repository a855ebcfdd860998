SPECIFICATION Spec
CONSTANTS
  c1 = c1  c2 = c2  c3 = c3
  Clients <- MCClients
  Udp = udp  Ipc = ipc  NoFd = noFd
  MAX_POLL_FDS = 4
  MaxUnread = 1
  MaxDatagrams = 1
INVARIANTS OnlyReadySocketsVisited
