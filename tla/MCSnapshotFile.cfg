SPECIFICATION Spec
CONSTANTS
  Base = 4
  U64 = 2
  U32 = 2
  MAGIC <- MCMagic
  NoFile = NoFile
  Keys <- MCKeys
  Values <- MCValues
  Expiries = {0, 2, 6}
  Times <- MCTimes
PROPERTIES
  RoundTrip
  DamageDetected
VIEW MCView
