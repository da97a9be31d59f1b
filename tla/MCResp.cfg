SPECIFICATION Spec
CONSTANTS
  RESP_MAX_ARGC = 2
  RESP_MAX_BULK_LEN = 4
  RESP_MAX_INLINE_LEN = 8
  NameCap = 4
  MaxRequests = 2
  READ_CHUNK = 3
  Requests <- MCRequests
  Junk <- MCJunk
INVARIANTS Delivered SplitIndependent PrefixesIncomplete OneLinePerCommand
CHECK_DEADLOCK FALSE
