SPECIFICATION Spec
CONSTANTS
  RESP_MAX_ARGC = 2
  RESP_MAX_BULK_LEN = 4
  RESP_MAX_INLINE_LEN = 4
  NameCap = 4
  MaxRequests = 2
  READ_CHUNK = 3
  Requests <- MCInline
  Junk = {}
INVARIANTS PrefixesIncomplete
CHECK_DEADLOCK FALSE
