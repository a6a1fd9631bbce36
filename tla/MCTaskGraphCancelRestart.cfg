SPECIFICATION Spec
CONSTANTS
  t1 = t1
  v1 = v1
  n1 = n1
  NotApproved = NotApproved
  Tasks = {t1}
  PlanTasks = {}
  Notes = {n1}
  Views = {v1}
  Starters = {v1}
  Retriers = {}
  Closers = {}
  Recoverers = {v1}
  Steered = {t1}
  MaxAttempts = 2
  MaxEpoch = 2
CHECK_DEADLOCK FALSE
PROPERTY CancelOutlivesHolder
