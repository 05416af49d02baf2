SPECIFICATION NullFairSpec
CONSTANTS
  Graphs <- SomeGraphs
  Endings = {{}, {3}}
  MaxEvents = 3
INVARIANTS
  PostDominatorsRight
  WitnessesExact
  LoopFreeNothingSkippable
CHECK_DEADLOCK FALSE
