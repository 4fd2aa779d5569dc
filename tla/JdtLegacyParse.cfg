SPECIFICATION LibrarySpec
CONSTANTS
  BufSize = 2
  PipeSize = 3
  MaxBytes = 5
  Newline <- MCNewline
  Request <- MCRequest
  Server = {s1, s2}
  Client = {c1}
  NAddr = 2
  Fd <- MCFd
  Slot <- MCSlot
  LongMax = 63
  Radix <- MCRadix
  HEAD_SIZE = 2
  MAXLINE = 4
  DequeNode = 5
  Mail <- MCMail
  MaxMail = 3
  FieldSize = 2
  Frame = {1, 3}
  MaxFrames = 3
  MaxLen = 3
INVARIANT RefusedDoesNothing
CHECK_DEADLOCK FALSE
