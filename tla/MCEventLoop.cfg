\* Two connections, one descriptor.
CONSTANTS
  c1 = c1  c2 = c2  f1 = f1  Listen = listen  Null = null
  Clients <- MCClients
  Fds <- MCFds
  READ_CHUNK = 2
  MAX_CONN_INPUT_BUF = 2
  MAX_EVENTS = 3
  SendBuf = 1
  Scripts <- MCScripts
SPECIFICATION FairSpec
INVARIANTS
  TypeOK
  OutputArmed
  NoCommandLeftBehind
  RepliesExact
  TableExact
  FreshEvents
PROPERTIES
  Answered
  SignalHeeded
CHECK_DEADLOCK FALSE
