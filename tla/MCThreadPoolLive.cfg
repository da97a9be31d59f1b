\* A client that sends commands in parts or several at once, and one that
\* only connects; two workers, a queue of one.
CONSTANTS
  c1 = c1  c2 = c2  c3 = c3  w1 = w1  w2 = w2  None = none
  Conns <- MCTwoConns
  Workers <- MCWorkers
  QUEUE_CAPACITY = 1
  READ_CHUNK = 2
  MAX_INPUT_BUF = 2
  Scripts <- MCScripts
SPECIFICATION FairSpec
INVARIANT NoCommandLeftBehind
PROPERTIES
  ShutdownCompletes
  AcceptedAreServed
CHECK_DEADLOCK FALSE
