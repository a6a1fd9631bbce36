SPECIFICATION Spec
CONSTANTS
  p1 = p1
  v1 = v1
  v2 = v2
  n1 = n1
  n2 = n2
  NotApproved = NotApproved
  Tasks = {p1}
  PlanTasks = {p1}
  Notes = {n1, n2}
  Views = {v1, v2}
  Starters = {v1, v2}
  Retriers = {v1, v2}
  Closers = {v1, v2}
  Recoverers = {v1, v2}
  Steered = {p1}
  MaxAttempts = 3
  MaxEpoch = 3
CHECK_DEADLOCK FALSE
SYMMETRY Symmetry
INVARIANT TypeOK
INVARIANT CurrentIsLiveAndNewest
INVARIANT RunningHasHolder
PROPERTY AttemptNeverRevives
PROPERTY RestartOnlyAfterRetryable
PROPERTY ImplementsTenure
PROPERTY PlanApprovalGate
