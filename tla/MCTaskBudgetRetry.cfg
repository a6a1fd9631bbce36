SPECIFICATION Spec
CONSTANTS
  root = root
  c1 = c1
  c2 = c2
  None = None
  Tasks = {root, c1, c2}
  Parent <- ChildrenOfRoot
  After <- SecondAfterFirst
  Metered = {root}
  Amounts = {1, 2}
  MaxAttempts = 2
  MaxStarts <- Starts
CHECK_DEADLOCK FALSE
INVARIANT SpendWithinGrant
