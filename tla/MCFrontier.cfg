SPECIFICATION Spec
CONSTANTS
  a = a
  b = b
  c = c
  Tasks = {a, b, c}
  Views = {v, w}
  Deps <- MCDeps
INVARIANT TypeOK NeverForgotten
CHECK_DEADLOCK FALSE
