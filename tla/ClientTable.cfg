SPECIFICATION Spec
CONSTANTS
  Caller = {p1, p2}
  Name = {"a", "b"}
  Pid = {"1", "2"}
  Request <- MCRequest
INVARIANTS
  TableInv
  SessionsReleased
PROPERTIES
  ImplementsTable
CHECK_DEADLOCK FALSE
