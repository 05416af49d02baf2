----------------------------- MODULE MCSpscQueue -----------------------------
(***************************************************************************)
(* A ring of three slots, two of them usable, and enough items to go       *)
(* round it once and a half.                                               *)
(***************************************************************************)
EXTENDS SpscQueue
==============================================================================
