CONSTANTS
  NumPorts = 2
  kx = kx  ky = ky
  h1 = h1  h2 = h2
  Keys = {kx, ky}
  Holders = {h1, h2}
  KeyOf <- OwnKey
  Keepers = {h1, h2}
  RawKeys = {}
  MaxStreamers = 2
  Closer = Closer
  Exits = TRUE
  None = None
  Picture = Picture
SPECIFICATION Spec
INVARIANT TypeOK
INVARIANT PortPartition
INVARIANT RegistryConsistent
INVARIANT CameraAgrees
PROPERTY ImplementsPortPool
CHECK_DEADLOCK FALSE
