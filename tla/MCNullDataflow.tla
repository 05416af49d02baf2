--------------------------- MODULE MCNullDataflow ----------------------------
(***************************************************************************)
(* Functions without loops (two ifs in sequence, an if in an if, an early  *)
(* return, a jump into a branch) and with loops (while, a loop with a      *)
(* conditional exit, a loop that never ends).                              *)
(***************************************************************************)
EXTENDS NullDataflow

SomeGraphs == {
  << <<2, 3>>, <<3>>, <<4, 5>>, <<5>>, << >> >>,   \* if; if
  << <<2, 5>>, <<3, 4>>, <<4>>, <<5>>, << >> >>,   \* if in an if
  << <<2, 3>>, << >>, <<4, 5>>, <<5>>, << >> >>,   \* if return; if
  << <<2, 3>>, <<3, 4>>, <<4>>, << >> >>,          \* if with a jump into its branch
  << <<2>>, <<3, 4>>, <<2>>, << >> >>,             \* while
  << <<2>>, <<3, 4>>, <<2, 4>>, << >> >>,          \* while with a conditional break
  << <<2, 3>>, <<2>>, << >> >>,                    \* if, with an endless loop
  << <<3, 2>>, << >>, <<4>>, << >> >> }            \* if exit else return; then nothing
==============================================================================
