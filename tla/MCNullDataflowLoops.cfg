SPECIFICATION NullFairSpec
CONSTANTS
  Graphs <- SomeGraphs
  Endings = {{}}
  MaxEvents = 2
INVARIANTS
  NothingSkippable
CHECK_DEADLOCK FALSE
