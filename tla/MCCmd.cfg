SPECIFICATION Spec
CONSTANTS
  Keys <- MCKeys
  Hash <- MCHash
  Values <- MCValues
  ParseLL <- MCParse
  FormatLL <- MCFormat
  INT64_MIN <- MCMin
  INT64_MAX = 7
  Expiries = {}
  Times <- MCTimes
  STORE_INITIAL_SIZE = 2
  REHASH_EMPTY_VISITS_LIMIT = 1
  Commands <- MCCommands
  Upper <- MCUpper
  MsPerSec = 2
  SavePath = TRUE
INVARIANTS
  DeadlineKept
PROPERTIES
  OneReply
  ErrorsChangeNothing
  MultiKeyExact
  IncrExact
VIEW MCView
