SPECIFICATION Spec
CONSTANTS
  HeadSize = 2
  NodeSize = 6
  Message <- MCHonest
  GarbageHead <- MCGarbageHead
  MaxMessages = 3
INVARIANT
  ParsesSavedData
CHECK_DEADLOCK FALSE
