SPECIFICATION Spec
CONSTANTS
  r1 = r1
  r2 = r2
  r3 = r3
  v1 = v1
  v2 = v2
  Seed = Seed
  None = None
  Procs = {p1, p2}
  Releases = {r1, r2, r3}
  Sequence <- MCSequence
  Version <- MCVersion
  Defective = {}
  Commands <- MCInstalls
  MaxRunning = 2
  MaxStarts = 3
  MaxEdits = 0
PROPERTIES
  NoReplay
CHECK_DEADLOCK FALSE
