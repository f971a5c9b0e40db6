CONSTANTS
  h1 = h1  h2 = h2
  Hosts = {h1, h2}
  Protocol <- Both
  HasHostsfile = TRUE
  Faulty = {h2}
  HasSchedule = TRUE
  ShutsDown = TRUE
  MaxChanges = 4  MaxStopped = 2
  None = None
SPECIFICATION Spec
INVARIANT Inv
INVARIANT ConnectedServed
INVARIANT NothingLeft
PROPERTY UnlistedHostsLeave
PROPERTY ReachableHostsConnect
CHECK_DEADLOCK FALSE
