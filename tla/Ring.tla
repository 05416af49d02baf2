--------------------------------- MODULE Ring ---------------------------------
(***************************************************************************)
(* The shared memory that channel<T> and spsc_queue<T> have in common: an  *)
(* array that is used as a ring, and the two indices into it.              *)
(***************************************************************************)
EXTENDS Integers, Sequences

CONSTANT NoItem  \* content of a slot that was never written

VARIABLES
  head,  \* _head: next position (channel) or slot (spsc_queue) to write
  tail,  \* _tail: next position or slot to read
  buf    \* _buf
==============================================================================
