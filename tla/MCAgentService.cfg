SPECIFICATION Spec
CONSTANTS
  k1 = k1
  b1 = b1
  b2 = b2
  c1 = c1
  None = None
  Keys = {k1}
  Bodies = {b1, b2}
  Clients = {c1}
  Batch = 2
  Queue = 1
  MaxEvents = 5
SYMMETRY Swap
CHECK_DEADLOCK FALSE
INVARIANT TypeOK KeyStartsOneTurn NothingMissed
