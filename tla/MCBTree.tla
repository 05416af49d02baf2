------------------------------ MODULE MCBTree ------------------------------
(* Small instance of BTree: two threads that insert and one that looks up,   *)
(* over four trees that add() leaves behind.                                 *)
EXTENDS BTree

CONSTANTS i1, i2, l1

Entered(k) == IF k = 0 THEN Default ELSE [key |-> k, by |-> Null]

\* A node as add() left it: the slots from count on keep what a split left.
Made(leaf, count, keys, kids, next) ==
  [NewNode(leaf) EXCEPT
     !.count = count, !.next = next,
     !.keys = [i \in DOMAIN @ |-> keys[i + 1]],
     !.values = [i \in DOMAIN @ |-> IF leaf THEN Entered(keys[i + 1]) ELSE @[i]],
     !.kids = [i \in DOMAIN @ |-> kids[i + 1]]]

None4 == <<Null, Null, Null, Null>>
Leaf(count, keys, next) == Made(TRUE, count, keys, None4, next)
Inner(count, keys, kids) == Made(FALSE, count, keys, kids, Null)

\* add() of nothing; of 2, 4, 6; of 2, 4, .. 10; of 2, 4, .. 12.  The second has
\* a full root, the third a full leaf, whose split fills the root; the fourth has
\* a full leaf below a full root.
MCTrees == {
  [root |-> 0, nodes |-> <<>>, span |-> <<>>, level |-> <<>>],
  [root |-> 1, nodes |-> <<Leaf(3, <<2, 4, 6>>, Null)>>, span |-> <<0 .. 12>>, level |-> <<0>>],
  [root |-> 2, nodes |-> <<Leaf(1, <<2, 4, 6>>, 3),
                           Inner(2, <<4, 6, 0>>, <<1, 3, 4, Null>>),
                           Leaf(1, <<4, 6, 8>>, 4),
                           Leaf(3, <<6, 8, 10>>, Null)>>,
               span |-> <<0 .. 3, 0 .. 12, 4 .. 5, 6 .. 12>>, level |-> <<0, 1, 0, 0>>],
  [root |-> 2, nodes |-> <<Leaf(1, <<2, 4, 6>>, 3),
                           Inner(3, <<4, 6, 8>>, <<1, 3, 4, 5>>),
                           Leaf(1, <<4, 6, 8>>, 4),
                           Leaf(1, <<6, 8, 10>>, 5),
                           Leaf(3, <<8, 10, 12>>, Null)>>,
               span |-> <<0 .. 3, 0 .. 12, 4 .. 5, 6 .. 7, 8 .. 12>>, level |-> <<0, 1, 0, 0, 0>>]}

MCKeys == 0 .. 12
Insert(k) == [op |-> "insert", key |-> k]
Lookup(k) == [op |-> "lookup", key |-> k]
MCRequests == (i1 :> {Insert(9)}) @@ (i2 :> {Insert(9), Insert(11)})
              @@ (l1 :> {Lookup(8), Lookup(9)})
=============================================================================
