SPECIFICATION Spec
CONSTANTS
  t1 = t1
  v1 = v1
  v2 = v2
  n1 = n1
  NotApproved = NotApproved
  Tasks = {t1}
  PlanTasks = {}
  Notes = {n1}
  Views = {v1, v2}
  Starters = {v1, v2}
  Retriers = {v1, v2}
  Closers = {}
  Recoverers = {}
  Steered = {t1}
  MaxAttempts = 3
  MaxEpoch = 3
CHECK_DEADLOCK FALSE
PROPERTY NewAttemptOnlyAfterRetryable
