SPECIFICATION Spec
CONSTANTS
  main = main
  client = client
  a = a
  b = b
  c = c
  x = x
  y = y
  None = None
  Users = {main, client}
  Workers = {w1}
  Tasks = {a, b, c, x, y}
  Priority <- MCPriority
  QCap = 1
  Programs <- MCLongChain
INVARIANTS
  NeverNeither
CHECK_DEADLOCK FALSE
