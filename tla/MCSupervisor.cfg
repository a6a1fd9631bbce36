SPECIFICATION Spec
CONSTANTS
  c1 = c1
  c2 = c2
  shared = shared
  Child <- MCChild
  Shared = shared
  Keys <- MCKeys
  Asked <- MCAsked
  Limit <- MCLimit
  MaxChildren = 2
  MaxTurns = 2
  Kinds <- MCKinds
  Prunable <- MCViews
SYMMETRY Swap
CHECK_DEADLOCK FALSE
INVARIANT TypeOK SlotsCoverWorkers AnswerIsOnRecord EndedTurnStopsItsChildren
PROPERTY WorkingViewStays
