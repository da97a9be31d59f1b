\* A client that ends its side and waits for the replies.
CONSTANTS
  c1 = c1  c2 = c2  f1 = f1  Listen = listen  Null = null
  Clients <- MCOneClient
  Fds <- MCFds
  READ_CHUNK = 2
  MAX_CONN_INPUT_BUF = 3
  MAX_EVENTS = 3
  SendBuf = 1
  Scripts <- MCPipelined
SPECIFICATION Spec
INVARIANT UnflushedIsMoot
CHECK_DEADLOCK FALSE
