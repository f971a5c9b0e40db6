CONSTANTS
  h1 = h1  h2 = h2
  Hosts = {h1, h2}
  Protocol <- OneEach
  HasHostsfile = FALSE
  Faulty = {}
  HasSchedule = FALSE
  ShutsDown = FALSE
  MaxChanges = 1  MaxStopped = 0
  None = None
SPECIFICATION Spec
PROPERTY ConnectedIsServed
CHECK_DEADLOCK FALSE
