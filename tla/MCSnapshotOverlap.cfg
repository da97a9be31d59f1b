\* Two saves at once: SAVE or a shutdown while a child is saving.
CONSTANTS
  srv = srv  c1 = c1  i1 = i1  i2 = i2  i3 = i3  none = none
  Server = srv
  Children <- MCChildren
  Inodes <- MCInodes
  NoFile = none
  Chunks = 2
  MaxVersion = 2
SPECIFICATION Spec
INVARIANT LastGoodIntact
CHECK_DEADLOCK FALSE
