CONSTANTS
  MaxFrames = 6
  MaxPieces = 2
  MaxStarts = 2
SPECIFICATION Spec
INVARIANT Inv
INVARIANT AtMostTwice
PROPERTY TakenUp
PROPERTY ImplementsFrameFeed
CHECK_DEADLOCK FALSE
