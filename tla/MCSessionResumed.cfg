SPECIFICATION Spec
CONSTANTS
  MaxTurns = 2
  MaxFaults = 0
  MaxCrashes = 1
CHECK_DEADLOCK FALSE
INVARIANT ResumedSeesWhatRan
