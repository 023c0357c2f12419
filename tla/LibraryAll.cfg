\* The library, the serial line and the system calls.
CONSTANTS
  Depths <- MCDepths
  RxDepth = 2
  IrqText <- MCIrqText
  MaxIrqs = 1
  Input <- MCInput
  Limit = 7
  PrintkSize = 6
  SnSizes = {0, 1, 4}
  Formats <- MCFormats
  Slack = 8
  Garbage = {0, 71}
  MemSize = 12
  NULL = NULL
  UserText <- MCUser
  StringCalls <- MCStringCalls
  PanicText <- MCPanic
  Word = 64
  IntWord = 32
  PageSize = 4
  HeapStart = 16
  Sizes = {0, 1, 4, 5, 40, 61, 63}
  MaxCalls = 4
SPECIFICATION FairLibSpec
CHECK_DEADLOCK FALSE
INVARIANTS BlocksDisjoint
INVARIANTS  ResultExact 
INVARIANTS OnlyNewlinesLost ReadInOrder
INVARIANTS  VsprintfExact SentVerbatim
PROPERTY CallReturns
