CONSTANTS
  m1 = m1  Mode = m1
  Modes = {m1}
  Callers = {"mode", "executor"}
  UseDetrigger = TRUE
  MaxListeners = 2
  MaxAsks = 3
  MinCertainty = 1
  DetriggerPics = 2
  MaxStimuli = 2
SPECIFICATION ModesSpec
INVARIANT ModesInv
INVARIANT NoResponseAfterCleanup
INVARIANT AnswersAreAsked
INVARIANT ClaimIsReturned
PROPERTY TriggerSeen
PROPERTY StopReturns
PROPERTY DetriggerReaches
PROPERTY ShutdownReturns
CHECK_DEADLOCK FALSE
