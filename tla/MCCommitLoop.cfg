SPECIFICATION FairSpec
CONSTANTS
  w1 = w1
  w2 = w2
  r1 = r1
  None = None
  Outsider = Outsider
  Writers = {w1, w2}
  Roots = {r1}
  CommitAttempts = 2
  MaxLog = 3
CHECK_DEADLOCK FALSE
INVARIANT TypeOK BlockedOnce
PROPERTY ImplementsEventLog GivingUpMeansOthersCommitted CommandReturns
