SPECIFICATION Spec
CONSTANTS
  main = main
  client = client
  a = a
  b = b
  c = c
  x = x
  y = y
  None = None
  Users = {main, client}
  Workers = {w1, w2}
  Tasks = {a, b, c, x, y}
  Priority <- MCPriority
  QCap = 1
  Programs <- MCLateDrainer
PROPERTIES
  WorkerDrainCompletes
CHECK_DEADLOCK FALSE
