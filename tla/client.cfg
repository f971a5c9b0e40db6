CONSTANTS
  u1 = u1  u2 = u2
  Users = {u1, u2}
  Owners = {u1}
  MaxThreads = 2
  None = None
SPECIFICATION Spec
INVARIANT Inv
INVARIANT OwnEntry
PROPERTY StopReturns
PROPERTY GetReturnsAtEnd
CHECK_DEADLOCK FALSE
