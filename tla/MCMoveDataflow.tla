--------------------------- MODULE MCMoveDataflow ----------------------------
(***************************************************************************)
(* Functions with a loop, a loop that jumps into itself, an if in a loop,  *)
(* two nested loops, a loop with two entries and an unreachable block.     *)
(***************************************************************************)
EXTENDS MoveDataflow

SomeGraphs == {
  << <<2>>, <<3, 4>>, <<2>>, << >> >>,           \* while
  << <<2>>, <<2, 3>>, << >>, <<3>> >>,           \* do, and an unreachable block
  << <<2, 3>>, <<3, 4>>, <<2, 4>>, << >> >>,     \* a loop with two entries
  << <<2>>, <<3, 4>>, <<3, 2>>, << >> >>,        \* nested loops
  << <<2>>, <<3, 4>>, <<2>>, <<2, 5>>, << >> >> }  \* if in a loop
==============================================================================
