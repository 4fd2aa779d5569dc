SPECIFICATION ConnectionSpec
CONSTANTS
  HeadSize = 2
  NodeSize = 32
  Word = 64
  TrueSize = 1
  BufSize = 4
  Message <- MCMessage
  GarbageHead <- MCGarbageHead
  MaxMessages = 2
INVARIANT
  NeedsNoMoreThanMessage
CHECK_DEADLOCK FALSE
