----------------------------- MODULE MCPagePool -----------------------------
(* Small instance of PagePool: three threads and four interchangeable pages.   *)
EXTENDS PagePool, TLC

Alike == Permutations(Pages) \union Permutations(Threads)
=============================================================================
