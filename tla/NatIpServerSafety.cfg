SPECIFICATION Spec
CONSTANTS
  p1 = p1
  p2 = p2
  c1 = c1
  c2 = c2
  c3 = c3
  Pid <- MCPid
  Conn <- MCConn3
  MaxFd = 4
  StdFds <- MCStdFds
  StackValue <- MCStackValue
SYMMETRY Symmetry
INVARIANTS
  NoLostZombie
  LoopHoldsNoConnection
  ChildIsolation
  SignalNeverKillsServer
  OnlyBadSlotFailsClose
  ListenerSurvives
  IInv
PROPERTIES
  RowOutlivesChild
  HandlerAdvances
CHECK_DEADLOCK FALSE
