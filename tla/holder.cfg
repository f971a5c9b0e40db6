CONSTANTS
  a1 = a1  a2 = a2  b1 = b1  a = a  b = b
  Ids = {a, b}
  Outputs = {a1, a2, b1}
  IdOf <- IdOfOutput
  Split = Split
  MaxFrames = 1
  MaxRebinds = 2
  MaxAdds = 2
  None = None
SPECIFICATION Spec
INVARIANT Inv
INVARIANT NoGaps
INVARIANT NoLostRebind
PROPERTY Drains
CHECK_DEADLOCK FALSE
