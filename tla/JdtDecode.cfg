SPECIFICATION Spec
CONSTANTS
  HeadSize = 2
  NodeSize = 6
  Message <- MCMessage
  GarbageHead <- MCGarbageHead
  MaxMessages = 3
INVARIANTS
  Aligned
  NothingLeftBehind
  OnlyFirstIsDropped
  DecodeInv
PROPERTIES
  ImplementsFraming
  ParseAdvances
CHECK_DEADLOCK FALSE
