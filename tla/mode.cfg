CONSTANTS
  Configs <- AllConfigs
  StartTimes <- Starts
  StopTimes <- Stops
  MaxTime = 7
  None = None
SPECIFICATION Spec
INVARIANT Inv
INVARIANT StoppedForGood
PROPERTY FinishOnlyGrows
PROPERTY EndsInTime
CHECK_DEADLOCK FALSE
