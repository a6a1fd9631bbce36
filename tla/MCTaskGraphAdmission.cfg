SPECIFICATION Spec
CONSTANTS
  p1 = p1
  p2 = p2
  t1 = t1
  v1 = v1
  n1 = n1
  n2 = n2
  NotApproved = NotApproved
  Tasks = {p1, p2, t1}
  PlanTasks = {p1, p2}
  Notes = {n1, n2}
  Views = {v1}
  Starters = {v1}
  Retriers = {}
  Closers = {}
  Recoverers = {v1}
  Steered = {p1, p2, t1}
  MaxAttempts = 1
  MaxEpoch = 1
CHECK_DEADLOCK FALSE
SYMMETRY PlanSymmetry
INVARIANT NoDependencyCycle
PROPERTY PlanApprovalGate
