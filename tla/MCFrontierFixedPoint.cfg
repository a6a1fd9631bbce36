SPECIFICATION Spec
CONSTANTS
  a = a
  b = b
  c = c
  Tasks = {a, b, c}
  Views = {v, w}
  Deps <- MCDeps
INVARIANT DrainReachesFixedPoint
CHECK_DEADLOCK FALSE
