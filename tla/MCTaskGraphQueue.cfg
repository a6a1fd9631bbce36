SPECIFICATION Spec
CONSTANTS
  t1 = t1
  t2 = t2
  v1 = v1
  v2 = v2
  n1 = n1
  NotApproved = NotApproved
  Tasks = {t1, t2}
  PlanTasks = {}
  Notes = {n1}
  Views = {v1, v2}
  Starters = {v1, v2}
  Retriers = {v1, v2}
  Closers = {v1, v2}
  Recoverers = {v1, v2}
  Steered = {}
  MaxAttempts = 2
  MaxEpoch = 2
CHECK_DEADLOCK FALSE
SYMMETRY Symmetry
INVARIANT WorkStandsOnCompletedDependencies
INVARIANT BlockedBehindStoppedDependency
INVARIANT NoDependencyCycle
