\* Three connections through a queue of two and two workers.
CONSTANTS
  c1 = c1  c2 = c2  c3 = c3  w1 = w1  w2 = w2  None = none
  Conns <- MCThreeConns
  Workers <- MCWorkers
  QUEUE_CAPACITY = 2
  READ_CHUNK = 1
  MAX_INPUT_BUF = 1
  Scripts <- MCOneUnit
SYMMETRY MCSymmetry
SPECIFICATION Spec
INVARIANTS
  TypeOK
  OneOwner
  NoLostWakeup
  NoLostUpdate
  FinalSaveComplete
CHECK_DEADLOCK FALSE
