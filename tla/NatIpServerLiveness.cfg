SPECIFICATION Spec
CONSTANTS
  p1 = p1
  p2 = p2
  c1 = c1
  c2 = c2
  c3 = c3
  Pid <- MCPid
  Conn <- MCConn2
  MaxFd = 3
  StdFds <- MCStdFds
  StackValue <- MCStackValue
PROPERTIES
  ImplementsLedger
  AcceptedIsClosed
CHECK_DEADLOCK FALSE
