SPECIFICATION Spec
CONSTANTS
  t1 = t1
  v1 = v1
  v2 = v2
  n1 = n1
  NotApproved = NotApproved
  Tasks = {t1}
  PlanTasks = {}
  Notes = {n1}
  Views = {v1, v2}
  Starters = {v1}
  Retriers = {}
  Closers = {v2}
  Recoverers = {}
  Steered = {t1}
  MaxAttempts = 2
  MaxEpoch = 2
CHECK_DEADLOCK FALSE
PROPERTY CancelledIsFinal
