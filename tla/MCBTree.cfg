SPECIFICATION FairSpec
CONSTANTS
  Fanout = 3
  Keys <- MCKeys
  i1 = i1
  i2 = i2
  l1 = l1
  Threads = {i1, i2, l1}
  Requests <- MCRequests
  MaxCalls = 1
  Trees <- MCTrees
INVARIANTS
  AnswersRight
  TreeRight
  RoomForSplit
PROPERTIES
  CallsReturn
CHECK_DEADLOCK FALSE
