CONSTANTS
  c1 = c1  c2 = c2  c3 = c3  c4 = c4  k1 = k1  k2 = k2  k3 = k3  p1 = p1  p2 = p2
  Clients = {c1, c2, c3, c4}
  Keys = {k1, k2, k3}
  KeyOf <- KeyOfClient
  PortKeys = {p1, p2}
  PortKeyOf <- TwoShare
  MaxStreams = 2
  MaxInstances = 3
  ShutsDown = TRUE
  None = None
SPECIFICATION Spec
INVARIANT Inv
INVARIANT ClientsServed
INVARIANT MapsAgree
SYMMETRY Symmetry
CHECK_DEADLOCK FALSE
