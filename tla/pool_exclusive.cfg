CONSTANTS
  NumPorts = 2
  kx = kx  ky = ky
  h1 = h1  h2 = h2
  Keys = {kx, ky}
  Holders = {h1, h2}
  KeyOf <- OwnKey
  Keepers = {}
  RawKeys = {ky}
  MaxStreamers = 4
  Closer = Closer
  Exits = FALSE
  None = None
  Picture = Picture
SPECIFICATION Spec
INVARIANT RecordersKeepPort
INVARIANT PictureKeepsPort
CHECK_DEADLOCK FALSE
