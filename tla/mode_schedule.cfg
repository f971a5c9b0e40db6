CONSTANTS
  Configs <- TimedOnly
  StartTimes <- Starts
  StopTimes <- Stops
  MaxTime = 7
  None = None
SPECIFICATION Spec
INVARIANT RunsOnSchedule
CHECK_DEADLOCK FALSE
