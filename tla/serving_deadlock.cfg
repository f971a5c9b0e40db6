CONSTANTS
  c1 = c1  c2 = c2  c3 = c3  c4 = c4  k1 = k1  k2 = k2  k3 = k3  p1 = p1  p2 = p2
  Clients = {c1, c2, c3}
  Keys = {k1, k2}
  KeyOf <- SameKey
  PortKeys = {p1, p2}
  PortKeyOf <- OneEach
  MaxStreams = 2
  MaxInstances = 3
  ShutsDown = FALSE
  None = None
SPECIFICATION Spec
PROPERTY FailedOutputRemoved
CHECK_DEADLOCK FALSE
