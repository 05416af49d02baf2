SPECIFICATION Spec
CONSTANTS
  r1 = r1
  r2 = r2
  r3 = r3
  v1 = v1
  v2 = v2
  Seed = Seed
  None = None
  Procs = {p1, p2}
  Releases = {r1, r2, r3}
  Sequence <- MCSequence
  Version <- MCVersion
  Defective = {r3}
  Commands <- MCCommands
  MaxRunning = 2
  MaxStarts = 4
  MaxEdits = 1
INVARIANTS
  ActiveInstalled
PROPERTIES
  RunKeepsActiveOneByOne
  HighestKeptOneByOne
  NoReplayOneByOne
CHECK_DEADLOCK FALSE
