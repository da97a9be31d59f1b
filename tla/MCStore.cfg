SPECIFICATION Spec
CONSTANTS
  Keys <- MCKeys
  Hash <- MCHash
  Values = {"0"}
  ParseLL <- MCOneParse
  FormatLL <- MCOneFormat
  INT64_MIN = 0
  INT64_MAX = 0
  Expiries = {0, 2}
  Times <- MCTimes
  STORE_INITIAL_SIZE = 2
  REHASH_EMPTY_VISITS_LIMIT = 2
INVARIANTS
  TypeOK
  Reachable
  OneEntryPerKey
  UsedExact
  LoadFactor
PROPERTIES
  RehashProgress
  NoResurrection
  RefinesKVStore
VIEW MCView
