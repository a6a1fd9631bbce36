SPECIFICATION FairSpec
CONSTANTS
  c1 = c1
  c2 = c2
  shared = shared
  Child <- MCChild
  Shared = shared
  Keys <- MCKeys
  Asked <- MCAsked
  Limit <- MCLimit
  MaxChildren = 2
  MaxTurns = 1
  Kinds <- MCReaders
  Prunable <- MCNone
CHECK_DEADLOCK FALSE
PROPERTY TurnEnds
