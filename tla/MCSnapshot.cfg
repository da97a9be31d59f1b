\* Saves that may overlap, with crashes, failures and restarts anywhere.
CONSTANTS
  srv = srv  c1 = c1  i1 = i1  i2 = i2  i3 = i3  none = none
  Server = srv
  Children <- MCChildren
  Inodes <- MCInodes
  NoFile = none
  Chunks = 2
  MaxVersion = 2
SYMMETRY MCSymmetry
VIEW MCView
SPECIFICATION Spec
INVARIANTS
  TypeOK
  CleanIntact
PROPERTIES
  OlderOnlyIfLate
  RestartKeepsSaved
