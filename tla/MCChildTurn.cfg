SPECIFICATION FairSpec
CONSTANTS
  MaxInbox = 2
  MaxRounds = 3
  MaxSent = 4
  MaxCalls = 2
CHECK_DEADLOCK FALSE
INVARIANT TypeOK GivenOnceInOrder RoundSeesWhatWaited AtMostOneLateCall
PROPERTY CancelledEnds
