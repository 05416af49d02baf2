SPECIFICATION FairSpec
CONSTANTS
  Graphs <- SomeGraphs
  MaxEvents = 3
INVARIANTS
  ReportsExact
PROPERTIES
  Terminates
CHECK_DEADLOCK FALSE
