---------------------------- MODULE BTreeProofs -----------------------------
(***************************************************************************)
(* Proofs about BTree, for every fanout of at least two, every set of      *)
(* keys, finitely many threads with any requests, and every well-formed    *)
(* tree to begin with: the steps that reshape the tree keep the invariant  *)
(* of BTreeInvariant, the leaves stay linked in the order of their keys,   *)
(* and what follows from it.                                               *)
(***************************************************************************)
EXTENDS BTreeInvariant

----------------------------------------------------------------------------
(* A separator goes into the node above the child that was split.           *)

\* What a thread knows of the node that it is opening a slot in.
LEMMA OpenFacts ==
  ASSUME NEW span, NEW level, NEW t \in Threads, NEW m, NEW q, IInv(span, level), th[t].pc \in Opening,
         m = th[t].node, q = th[t].child
  PROVE  /\ TypeOK /\ th[t] \in Locals /\ th \in [Threads -> Locals] /\ treeVer \in Nat
         /\ Descends(t, span, level) /\ Opens(t, span, level) /\ HasRoom(t, span, level)
         /\ th[t].op = "insert" /\ th[t].grow \in BOOLEAN
         /\ m \in DOMAIN nodes /\ q \in DOMAIN nodes /\ level[q] = level[m] - 1 /\ q # m
         /\ level[m] \in Nat /\ level[q] \in Nat
         /\ ~nodes[m].leaf /\ th[t].key \in span[m]
         /\ HoldsChild(t) /\ (HoldsNode(t) <=> ~th[t].grow) /\ (HoldsTree(t) <=> th[t].grow)
         /\ (~th[t].grow => level[m] <= level[root])
         /\ Holds(t, m) \/ Private(t, m)
         /\ nodes[m] \in Node(Len(nodes)) /\ nodes[m].keys \in Arrays
         /\ nodes[m].kids \in [0 .. Fanout -> 0 .. Len(nodes)]
         /\ nodes[m].count \in 0 .. Fanout - 1 /\ th[t].slot \in 0 .. nodes[m].count /\ nodes[q].count < Fanout
<1>1. /\ TypeOK /\ th[t] \in Locals /\ th \in [Threads -> Locals] /\ treeVer \in Nat
      /\ Descends(t, span, level) /\ Opens(t, span, level) /\ HasRoom(t, span, level)
  BY Start DEF TypeOK
<1>2. th[t].op = "insert"
  <2>1. th[t].pc \in {"upgrade", "count_entry"} \union LeafHeld \union SlowPath  BY DEF SlowPath, Splitting
  <2> QED  BY <2>1, Inserting
<1>3. th[t].grow \in BOOLEAN  BY <1>1, ThreadFacts
<1>4. HoldsChild(t) /\ (HoldsNode(t) <=> ~th[t].grow) /\ (HoldsTree(t) <=> th[t].grow)
  BY DEF HoldsNode, HoldsChild, HoldsTree, LeafHeld, Moving, Walking, Splitting, Opening, TreeHeld
<1>5. th[t].pc \in Walking \union Splitting \union {"release_child"} /\ th[t].pc \in Splitting /\ th[t].pc # "release_child"
  BY DEF Splitting, Opening
<1>6. q \in DOMAIN nodes /\ level[q] = level[m] - 1 /\ ~nodes[m].leaf /\ th[t].key \in span[m]
  BY <1>1, <1>4, <1>5 DEF Descends
<1>7. m \in DOMAIN nodes /\ (~th[t].grow => level[m] <= level[root])
  BY <1>1, <1>4, <1>5 DEF Descends
<1>8. level[m] \in Nat /\ level[q] \in Nat /\ q # m
  <2>1. level[m] \in Nat /\ level[q] \in Nat  BY <1>6, <1>7, Basics
  <2> QED  BY <1>6, <2>1
<1>9. Holds(t, m) \/ Private(t, m)  BY <1>4, <1>5 DEF Holds, Private
<1>10. nodes[m].count \in 0 .. Fanout - 1 /\ th[t].slot \in 0 .. nodes[m].count /\ nodes[q].count < Fanout
  <2>1. nodes[m].count < Fanout /\ th[t].slot \in 0 .. nodes[m].count /\ nodes[q].count < Fanout  BY <1>1 DEF Opens
  <2>2. nodes[m].count \in 0 .. Fanout  BY <1>1, <1>7, NodeFacts
  <2> QED  BY <2>1, <2>2, FanoutFacts
<1>11. /\ nodes[m] \in Node(Len(nodes)) /\ nodes[m].keys \in Arrays
       /\ nodes[m].kids \in [0 .. Fanout -> 0 .. Len(nodes)]
  BY <1>1, <1>7, NodeFacts
<1> QED  BY <1>1, <1>2, <1>3, <1>4, <1>6, <1>7, <1>8, <1>9, <1>10, <1>11

\* A step that writes the node while the separator goes in, or completes it.
LEMMA InnerWrite ==
  ASSUME NEW span, NEW level, NEW t \in Threads, NEW m, NEW q, NEW x, NEW r, IInv(span, level),
         th[t].pc \in Opening, m = th[t].node, q = th[t].child, nodes' = [nodes EXCEPT ![m] = x],
         x \in Node(Len(nodes)), x.ver = nodes[m].ver, x.leaf = nodes[m].leaf,
         th' = [th EXCEPT ![t] = r], r \in Locals, r.pc \in Opening \union {"publish_root", "release_child"},
         r.pc = "publish_root" => th[t].grow, r.pc = "release_child" => ~th[t].grow,
         r.node = m, r.child = q, r.grow = th[t].grow,
         r.op = th[t].op, r.key = th[t].key, r.before = th[t].before,
         UNCHANGED <<root, treeVer, entries, known, wins>>,
         r.pc \in Opening => x.count = nodes[m].count, r.pc = "publish_root" => x.count < Fanout,
         r.pc \in Opening \/ InnerOK(x.keys, x.kids, x.count, span[m], level[m], span, level),
         Opens(t, span, level)', HasRoom(t, span, level)'
  PROVE  IInv(span, level)'
<1>1. /\ TypeOK /\ th[t] \in Locals /\ th \in [Threads -> Locals] /\ treeVer \in Nat
      /\ Descends(t, span, level)
      /\ th[t].op = "insert" /\ th[t].grow \in BOOLEAN
      /\ m \in DOMAIN nodes /\ q \in DOMAIN nodes /\ level[q] = level[m] - 1 /\ q # m
      /\ ~nodes[m].leaf /\ th[t].key \in span[m]
      /\ HoldsChild(t) /\ (HoldsNode(t) <=> ~th[t].grow) /\ (HoldsTree(t) <=> th[t].grow)
      /\ (~th[t].grow => level[m] <= level[root])
      /\ Holds(t, m) \/ Private(t, m)
  <2>1. th[t].pc \in Opening /\ IInv(span, level)  OBVIOUS
  <2>2. m = th[t].node  OBVIOUS
  <2>3. q = th[t].child  OBVIOUS
  <2> QED  BY ONLY OpenFacts, <2>1, <2>2, <2>3, t \in Threads
<1>2. /\ nodes' \in Seq(Node(Len(nodes))) /\ nodes' \in Seq(Node(Len(nodes')))
      /\ Len(nodes') = Len(nodes) /\ DOMAIN nodes' = DOMAIN nodes
      /\ nodes'[m] = x /\ \A n \in DOMAIN nodes : n # m => nodes'[n] = nodes[n]
  BY <1>1, NodeSet
<1>3. th'[t] = r  BY <1>1
<1>4. /\ r.pc \notin Entered /\ r.pc \notin LeafHeld /\ r.pc # "count_entry" /\ r.pc \in SlowPath
      /\ r.pc \in Splitting \union {"publish_root", "release_child"}
  BY DEF Entered, Coupling, InLeaf, Opening, LeafHeld, Moving, SlowPath, Walking, TreeHeld, Splitting
<1>5. HoldsChild(t)' /\ (HoldsNode(t)' <=> ~th[t].grow) /\ (HoldsTree(t)' <=> th[t].grow)
  <2>1. CASE r.pc \in Opening
    BY <1>3, <2>1 DEF HoldsNode, HoldsChild, HoldsTree, LeafHeld, Moving, Walking, Splitting, Opening, TreeHeld
  <2>2. CASE r.pc = "publish_root"
    <3>1. r.pc = "publish_root" /\ th[t].grow  BY <2>2
    <3> QED  BY <1>3, <3>1 DEF HoldsNode, HoldsChild, HoldsTree, LeafHeld, Moving, Walking, Splitting, Opening, TreeHeld
  <2>3. CASE r.pc = "release_child"
    <3>1. r.pc = "release_child" /\ ~th[t].grow /\ ~r.grow  BY <2>3
    <3> QED  BY <1>3, <3>1 DEF HoldsNode, HoldsChild, HoldsTree, LeafHeld, Moving, Walking, Splitting, Opening, TreeHeld
  <2> QED  BY <2>1, <2>2, <2>3
<1>6. LockStep(t)
  <2>1. \A n : Holds(t, n)' <=> Holds(t, n)  BY <1>1, <1>3, <1>5 DEF Holds
  <2>2. \A n \in DOMAIN nodes : nodes'[n].ver = nodes[n].ver  BY <1>2
  <2> QED  BY <1>1, <1>2, <1>3, <1>5, <2>1, <2>2 DEF LockStep
<1>7. Keeps(t, m, span, level)
  <2>1. \A n \in DOMAIN nodes : Foreign(t, n) => n # m  BY <1>1 DEF Foreign
  <2>2. \A n \in DOMAIN nodes : n # m => ~Takes(t, n)  BY <1>2, <1>3, <1>4 DEF Takes
  <2>3. Writes(t, m)' \/ NodeOK(m, span, level)'
    <3>1. CASE r.pc \in Opening  BY <1>3, <3>1 DEF Writes
    <3>2. CASE InnerOK(x.keys, x.kids, x.count, span[m], level[m], span, level)
      BY <1>1, <1>2, <3>2 DEF NodeOK
    <3> QED  BY <3>1, <3>2
  <2>4. \A n \in DOMAIN nodes : n # m => ~Writes(t, n)  BY DEF Writes
  <2>5. \A n \in DOMAIN nodes : nodes[n].ver <= nodes'[n].ver /\ nodes'[n].leaf = nodes[n].leaf
    <3>1. \A n \in DOMAIN nodes : nodes[n].ver \in Nat  BY <1>1, NodeFacts
    <3> QED  BY <1>2, <3>1
  <2>6. th[t].grow => r.pc \in Opening \union {"publish_root"} /\ r.pc \in Splitting \union {"publish_root"}
    BY <1>4 DEF Splitting
  <2>7. Reduces(t) => Reduces(t)'  BY <1>3, <2>6 DEF Reduces
  <2>8. \A n : Private(t, n) => Private(t, n)'  BY <1>3, <2>6 DEF Private
  <2> QED  BY <1>1, <1>2, <2>1, <2>2, <2>3, <2>4, <2>5, <2>7, <2>8 DEF Keeps
<1>8. WritesLeaf(t, span, level)'  BY <1>3, <1>4, NoLeafWork
<1>9. Descends(t, span, level)'
  <2>1. /\ r.pc # "plant" /\ r.pc \notin {"grow", "release_tree"} /\ r.pc # "split" /\ r.pc # "slow_room"
        /\ r.pc \notin {"split", "child_room", "release_parent"} /\ r.pc \notin Walking
    BY DEF Opening, Walking
  <2>2. r.grow => r.pc \in Splitting \union {"publish_root", "release_child"} /\ r.pc # "release_child"
    BY <1>4
  <2>3. r.pc = "publish_root" => r.grow  OBVIOUS
  <2>4. r.pc \in TreeHeld \ {"plant"} => root' # Null
    <3>1. DOMAIN nodes # {}  BY <1>1
    <3> QED  BY <3>1, Basics
  <2>5. /\ th[t].grow /\ th[t].pc # "release_child" =>
             /\ m \in DOMAIN nodes /\ q = root /\ span[m] = Keys
             /\ level[m] = level[root] + 1 /\ ~IsLocked(nodes[m].ver)
        /\ th[t].pc # "release_child"
    BY <1>1 DEF Descends, Opening
  <2>6. /\ r.op = "insert" /\ root' = root /\ nodes'[m].ver = nodes[m].ver /\ ~nodes'[m].leaf
        /\ r.key \in span[m]
    BY <1>1, <1>2
  <2>7. r.pc \in Splitting /\ r.grow => nodes'[m].count = 0
    <3>1. th[t].pc \in Splitting  BY DEF Splitting
    <3>2. th[t].grow => nodes[m].count = 0  BY <1>1, <3>1 DEF Descends
    <3>3. r.pc \in Splitting => r.pc \in Opening  BY DEF Splitting, Opening
    <3> QED  BY <1>2, <3>2, <3>3
  <2>8. r.pc = "publish_root" => nodes'[m].count < Fanout /\ nodes'[q].count < Fanout
    <3>1. nodes[q].count < Fanout  BY Start DEF Opens
    <3> QED  BY <1>1, <1>2, <3>1
  <2> QED  BY <1>1, <1>2, <1>3, <1>5, <2>1, <2>2, <2>3, <2>4, <2>5, <2>6, <2>7, <2>8 DEF Descends
<1>10. r.pc \in SlowPath \union {"find"}  BY <1>4
<1>11. th[t].pc \in SlowPath /\ treeVer' \in Nat  BY <1>1 DEF SlowPath, Splitting
<1>12. th[t].pc \in SlowPath  BY <1>11
<1> QED  BY <1>2, <1>6, <1>7, <1>8, <1>9, <1>10, <1>11, <1>12, SlowStep

\* The claim of a thread on the right half outlasts its own writes.
LEMMA ClaimKeeps ==
  ASSUME NEW span, NEW level, NEW t \in Threads, NEW p, TypeOK, ChildHasRoom(t, p, span, level),
         DOMAIN nodes' = DOMAIN nodes, nodes'[p] = nodes[p], Others(t),
         th'[t].pc \notin Entered, th'[t].node = th[t].node
  PROVE  ChildHasRoom(t, p, span, level)'
<1>1. /\ p \in DOMAIN nodes /\ nodes[p].count < Fanout /\ Untouched(p)
      /\ level[p] = level[th[t].node] - 1 /\ span[p] \subseteq span[th[t].node]
  BY DEF ChildHasRoom
<1>2. Untouched(p)'
  <2>1. ~IsLocked(nodes'[p].ver)  BY <1>1 DEF Untouched
  <2>2. SUFFICES ASSUME NEW u \in Threads, th'[u].pc \in Entered, th'[u].node = p PROVE th'[u].ver # nodes'[p].ver
    BY <2>1 DEF Untouched
  <2>3. th'[u] = th[u]  BY <2>2 DEF Others
  <2> QED  BY <1>1, <2>2, <2>3 DEF Untouched
<1> QED  BY <1>1, <1>2 DEF ChildHasRoom

\* Of the children that a search may lead to, it leads to the one that the key
\* belongs to.
LEMMA PickSpan ==
  ASSUME NEW ks \in Arrays, NEW cs, NEW c \in 0 .. Fanout, NEW S \in SUBSET Int, NEW l, NEW span, NEW level,
         InnerOK(ks, cs, c, S, l, span, level), NEW key \in S, NEW j \in 0 .. c, key \in span[cs[j]]
  PROVE  ChildIndex(ks, c, key) = j
<1>0. PICK i : i = ChildIndex(ks, c, key)  OBVIOUS
<1>1. key \in Int  OBVIOUS
<1>2. i \in 0 .. c /\ (i < c => key < ks[i]) /\ \A k \in 0 .. i - 1 : ks[k] <= key
  <2>1. \A k \in 0 .. Fanout - 1 : ks[k] \in Int  BY DEF Arrays
  <2> QED  BY <1>0, <1>1, <2>1, ChildIndexFacts
<1>3. key \in Segment(S, ks, c, i)
  <2>1. i > 0 => ks[i - 1] <= key  BY <1>2
  <2> QED  BY <1>2, <2>1 DEF Segment
<1>4. key \in Segment(S, ks, c, j) /\ Ascending(ks, c)  BY DEF InnerOK
<1> QED  BY <1>0, <1>2, <1>3, <1>4, SegmentsApart
\* The rotation makes room for the separator and its child.
LEMMA ShiftChildStep ==
  ASSUME NEW span, NEW level, NEW t \in Threads, IInv(span, level), ShiftChild(t)
  PROVE  IInv(span, level)'
<1>0. PICK m : m = th[t].node  OBVIOUS
<1>00. PICK q : q = th[t].child  OBVIOUS
<1>1. th[t].pc = "shift_child"  BY DEF ShiftChild, At
<1>2. th[t].pc \in Opening  BY <1>1 DEF Opening
<1>3. /\ TypeOK /\ th[t] \in Locals /\ th \in [Threads -> Locals] /\ treeVer \in Nat
      /\ Descends(t, span, level) /\ Opens(t, span, level) /\ HasRoom(t, span, level)
      /\ th[t].op = "insert" /\ th[t].grow \in BOOLEAN
      /\ m \in DOMAIN nodes /\ q \in DOMAIN nodes /\ level[q] = level[m] - 1 /\ q # m
      /\ level[m] \in Nat /\ level[q] \in Nat
      /\ ~nodes[m].leaf /\ th[t].key \in span[m]
      /\ nodes[m] \in Node(Len(nodes)) /\ nodes[m].keys \in Arrays
      /\ nodes[m].kids \in [0 .. Fanout -> 0 .. Len(nodes)]
      /\ nodes[m].count \in 0 .. Fanout - 1 /\ th[t].slot \in 0 .. nodes[m].count /\ nodes[q].count < Fanout
  <2>1. m = th[t].node  BY <1>0
  <2>2. q = th[t].child  BY <1>00
  <2> QED  BY <1>2, <2>1, <2>2, OpenFacts
<1>4. PICK c : c = th[t].count  OBVIOUS
<1>5. PICK s : s = th[t].slot  OBVIOUS
<1>6. PICK ks : ks = nodes[m].keys  OBVIOUS
<1>7. PICK cs : cs = nodes[m].kids  OBVIOUS
<1>8. PICK sep : sep = th[t].sep  OBVIOUS
<1>9. PICK right : right = th[t].right  OBVIOUS
<1>10. PICK k : k = nodes[m].count  OBVIOUS
<1>11. /\ c \in s .. k /\ s \in 0 .. k /\ k \in 0 .. Fanout - 1 /\ ks \in Arrays /\ cs \in [0 .. Fanout -> 0 .. Len(nodes)]
       /\ InnerOK(KeysAfter(ks, c, s, sep), KidsAfter(cs, c, s, right), k + 1, span[m], level[m], span, level)
       /\ sep \in Int /\ right \in 0 .. Len(nodes)
  BY <1>0, <1>1, <1>3, <1>4, <1>5, <1>6, <1>7, <1>8, <1>9, <1>10, ThreadFacts DEF Opens
<1>12. /\ cs[s] = q /\ right \in DOMAIN nodes /\ level[right] = level[q]
       /\ th[t].key \in span[q] \union span[right]
       /\ th[t].grow \/ ChildHasRoom(t, right, span, level)
  BY <1>0, <1>00, <1>1, <1>3, <1>5, <1>7, <1>9 DEF HasRoom
<1>13. UNCHANGED <<root, treeVer, entries, known, wins>>  BY DEF ShiftChild
<1>14. Fanout \in Nat  BY FanoutFacts
<1>15. right # m  BY <1>3, <1>12
<1>16. CASE c > s
  <2>1. PICK x : x = [nodes[m] EXCEPT !.keys = [ks EXCEPT ![c] = ks[c - 1]], !.kids = [cs EXCEPT ![c + 1] = cs[c]]]
    OBVIOUS
  <2>2. /\ x.ver = nodes[m].ver /\ x.leaf = nodes[m].leaf /\ x.count = k
        /\ x.keys = [ks EXCEPT ![c] = ks[c - 1]] /\ x.kids = [cs EXCEPT ![c + 1] = cs[c]]
    BY <1>3, <1>10, <2>1 DEF Node
  <2>3. c \in 1 .. Fanout - 1 /\ c - 1 \in 0 .. Fanout - 1 /\ c + 1 \in 0 .. Fanout /\ c \in 0 .. Fanout /\ s \in Nat
    BY <1>11, <1>14, <1>16
  <2>4. x \in Node(Len(nodes))
    <3>1. x.keys \in [0 .. Fanout - 1 -> Int]  BY <1>11, <2>2, <2>3 DEF Arrays
    <3>2. x.kids \in [0 .. Fanout -> 0 .. Len(nodes)]  BY <1>11, <2>2, <2>3
    <3> QED  BY <1>3, <2>1, <3>1, <3>2 DEF Node
  <2>5. nodes' = [nodes EXCEPT ![m] = x]
    BY <1>0, <1>3, <1>4, <1>5, <1>6, <1>7, <1>16, <2>1 DEF ShiftChild, Node
  <2>6. PICK r : r = [th[t] EXCEPT !.count = c - 1]  OBVIOUS
  <2>7. /\ r \in Locals /\ r.pc = "shift_child" /\ r.node = m /\ r.child = q /\ r.slot = s /\ r.count = c - 1
        /\ r.sep = sep /\ r.right = right /\ r.grow = th[t].grow
        /\ r.op = th[t].op /\ r.key = th[t].key /\ r.before = th[t].before
    <3>1. c - 1 \in 0 .. Fanout  BY <1>14, <2>3
    <3> QED  BY <1>0, <1>00, <1>1, <1>3, <1>5, <1>8, <1>9, <2>6, <3>1 DEF Locals
  <2>8. th' = [th EXCEPT ![t] = r] /\ th'[t] = r  BY <1>3, <1>4, <1>5, <1>16, <2>6 DEF ShiftChild, Set
  <2>9. nodes'[m] = x /\ DOMAIN nodes' = DOMAIN nodes /\ \A n \in DOMAIN nodes : n # m => nodes'[n] = nodes[n]
    BY <1>3, <2>4, <2>5, NodeSet
  <2>10. Opens(t, span, level)'
    <3>1. KeysAfter(x.keys, c - 1, s, sep) = KeysAfter(ks, c, s, sep)
      <4>1. DOMAIN ks = 0 .. Fanout - 1  BY <1>11 DEF Arrays
      <4>2. s < c  BY <1>11, <1>16
      <4>3. s \in Nat /\ c \in 1 .. Fanout - 1  BY <2>3
      <4>4. KeysAfter([ks EXCEPT ![c] = ks[c - 1]], c - 1, s, sep) = KeysAfter(ks, c, s, sep)
        BY ONLY <4>1, <4>2, <4>3, KeysRotate
      <4> QED  BY <2>2, <4>4
    <3>2. KidsAfter(x.kids, c - 1, s, right) = KidsAfter(cs, c, s, right)
      <4>1. DOMAIN cs = 0 .. Fanout  BY <1>11
      <4>2. s < c  BY <1>11, <1>16
      <4>3. s \in Nat /\ c \in 1 .. Fanout - 1  BY <2>3
      <4>4. KidsAfter([cs EXCEPT ![c + 1] = cs[c]], c - 1, s, right) = KidsAfter(cs, c, s, right)
        BY ONLY <4>1, <4>2, <4>3, KidsRotate
      <4> QED  BY <2>2, <4>4
    <3>3. c - 1 \in s .. k /\ k < Fanout
      <4>1. c \in s .. k /\ s \in 0 .. k /\ k \in 0 .. Fanout - 1 /\ Fanout \in Nat  BY <1>11, <1>14
      <4> QED  BY ONLY <1>16, <4>1
    <3>4. nodes'[q].count < Fanout  BY <1>3, <2>9
    <3>5. r.pc # "store_child" /\ r.pc # "count_child"  BY <2>7
    <3> QED  BY <1>11, <2>2, <2>7, <2>8, <2>9, <3>1, <3>2, <3>3, <3>4, <3>5 DEF Opens
  <2>11. HasRoom(t, span, level)'
    <3>1. x.kids[s] = q  BY <1>11, <1>12, <1>16, <2>2
    <3>2. th[t].grow \/ ChildHasRoom(t, right, span, level)'
      <4>1. Others(t)  BY <1>3, <2>8 DEF Others
      <4>2. th'[t].pc \notin Entered /\ th'[t].node = th[t].node
        BY <1>0, <2>7, <2>8 DEF Entered, Coupling, InLeaf
      <4>3. nodes'[right] = nodes[right]  BY <1>12, <1>15, <2>9
      <4> QED  BY <1>3, <1>12, <2>9, <4>1, <4>2, <4>3, ClaimKeeps
    <3>3. r.pc # "count_child" /\ r.pc # "release_child" /\ r.pc # "lock_child" /\ r.pc # "child_room"  BY <2>7
    <3>4. /\ nodes'[th'[t].node].kids[th'[t].slot] = th'[t].child
          /\ th'[t].right \in DOMAIN nodes' /\ level[th'[t].right] = level[th'[t].child]
          /\ th'[t].key \in span[th'[t].child] \union span[th'[t].right]
      BY <1>12, <2>7, <2>8, <2>9, <3>1
    <3>5. th'[t].grow \/ ChildHasRoom(t, th[t].right, span, level)'
      <4>1. th'[t].right = right  BY <2>7, <2>8
      <4> QED  BY <2>7, <2>8, <3>2, <4>1 DEF ChildHasRoom
    <3> QED  BY <2>7, <2>8, <3>3, <3>4, <3>5 DEF HasRoom
  <2>12. r.pc \in Opening /\ r.pc # "publish_root" /\ r.pc # "release_child"  BY <2>7 DEF Opening
  <2>13. m = th[t].node  BY <1>0
  <2>14. q = th[t].child  BY <1>00
  <2>15. r.pc \in Opening \union {"publish_root", "release_child"}  BY <2>12
  <2>16. r.pc = "publish_root" => th[t].grow  BY <2>12
  <2>17. r.pc = "release_child" => ~th[t].grow  BY <2>12
  <2>18. r.pc \in Opening \/ InnerOK(x.keys, x.kids, x.count, span[m], level[m], span, level)  BY <2>12
  <2>19. th' = [th EXCEPT ![t] = r]  BY <2>8
  <2>20. x.ver = nodes[m].ver /\ x.leaf = nodes[m].leaf  BY <2>2
  <2>22. r.pc \in Opening => x.count = nodes[m].count  BY <1>10, <2>2
  <2>23. r.pc = "publish_root" => x.count < Fanout  BY <2>12
  <2>21. t \in Threads /\ IInv(span, level)  OBVIOUS
  <2> QED  BY ONLY <1>2, <1>13, <2>4, <2>5, <2>7, <2>10, <2>11, <2>13, <2>14, <2>15, <2>16, <2>17, <2>18, <2>19,
                   <2>20, <2>21, <2>22, <2>23, InnerWrite
<1>17. CASE ~(c > s)
  <2>0. c = s /\ s \in 0 .. Fanout - 1  BY <1>11, <1>14, <1>17
  <2>1. PICK x : x = [nodes[m] EXCEPT !.keys = [ks EXCEPT ![s] = sep]]  OBVIOUS
  <2>2. /\ x.ver = nodes[m].ver /\ x.leaf = nodes[m].leaf /\ x.count = k
        /\ x.keys = [ks EXCEPT ![s] = sep] /\ x.kids = cs
    BY <1>3, <1>7, <1>10, <2>1 DEF Node
  <2>4. x \in Node(Len(nodes))
    <3>1. x.keys \in [0 .. Fanout - 1 -> Int]  BY <1>11, <2>0, <2>2 DEF Arrays
    <3> QED  BY <1>3, <2>1, <3>1 DEF Node
  <2>5. nodes' = [nodes EXCEPT ![m] = x]
    BY <1>0, <1>3, <1>4, <1>5, <1>6, <1>8, <1>17, <2>1 DEF ShiftChild, Node
  <2>6. PICK r : r = [th[t] EXCEPT !.pc = "store_child", !.count = 0]  OBVIOUS
  <2>7. /\ r \in Locals /\ r.pc = "store_child" /\ r.node = m /\ r.child = q /\ r.slot = s
        /\ r.sep = sep /\ r.right = right /\ r.grow = th[t].grow
        /\ r.op = th[t].op /\ r.key = th[t].key /\ r.before = th[t].before
    <3>1. 0 \in 0 .. Fanout  BY <1>14
    <3>2. "store_child" \in Places  BY DEF Places, SlowPath, Splitting, Opening
    <3> QED  BY <1>0, <1>00, <1>1, <1>3, <1>5, <1>8, <1>9, <2>6, <3>1, <3>2 DEF Locals
  <2>8. th' = [th EXCEPT ![t] = r] /\ th'[t] = r  BY <1>3, <1>4, <1>5, <1>17, <2>6 DEF ShiftChild, Set
  <2>9. nodes'[m] = x /\ DOMAIN nodes' = DOMAIN nodes /\ \A n \in DOMAIN nodes : n # m => nodes'[n] = nodes[n]
    BY <1>3, <2>4, <2>5, NodeSet
  <2>10. Opens(t, span, level)'
    <3>2. KeysAfter(ks, s, s, sep) = x.keys /\ KidsAfter(cs, s, s, right) = [x.kids EXCEPT ![s + 1] = right]
      <4>1. DOMAIN ks = 0 .. Fanout - 1  BY <1>11 DEF Arrays
      <4>2. DOMAIN cs = 0 .. Fanout  BY <1>11
      <4>3. s \in 0 .. Fanout - 1  BY <2>0
      <4>4. KeysAfter(ks, s, s, sep) = [ks EXCEPT ![s] = sep]  BY ONLY <4>1, <4>3, KeysDone
      <4>5. \A i \in 0 .. Fanout : (IF i = s + 1 THEN right
                                    ELSE IF s + 1 < i /\ i <= s + 1 THEN cs[i - 1] ELSE cs[i])
                                   = [cs EXCEPT ![s + 1] = right][i]
        BY ONLY <4>2, <4>3, FanoutFacts
      <4>6. KidsAfter(cs, s, s, right) = [i \in 0 .. Fanout |-> [cs EXCEPT ![s + 1] = right][i]]
        BY ONLY <4>5 DEF KidsAfter
      <4>7. KidsAfter(cs, s, s, right) = [cs EXCEPT ![s + 1] = right]  BY ONLY <4>2, <4>6
      <4> QED  BY <2>2, <4>4, <4>7
    <3>3. InnerOK(x.keys, [x.kids EXCEPT ![s + 1] = right], k + 1, span[m], level[m], span, level)
      BY <1>11, <2>0, <3>2
    <3>4. nodes'[q].count < Fanout /\ k < Fanout  BY <1>3, <1>11, <1>14, <2>9
    <3>5. r.pc # "shift_child" /\ r.pc # "count_child"  BY <2>7
    <3> QED  BY <1>11, <2>2, <2>7, <2>8, <2>9, <3>3, <3>4, <3>5 DEF Opens
  <2>11. HasRoom(t, span, level)'
    <3>1. x.kids[s] = q  BY <1>12, <2>2
    <3>2. th[t].grow \/ ChildHasRoom(t, right, span, level)'
      <4>1. Others(t)  BY <1>3, <2>8 DEF Others
      <4>2. th'[t].pc \notin Entered /\ th'[t].node = th[t].node
        BY <1>0, <2>7, <2>8 DEF Entered, Coupling, InLeaf
      <4>3. nodes'[right] = nodes[right]  BY <1>12, <1>15, <2>9
      <4> QED  BY <1>3, <1>12, <2>9, <4>1, <4>2, <4>3, ClaimKeeps
    <3>3. r.pc # "count_child" /\ r.pc # "release_child" /\ r.pc # "lock_child" /\ r.pc # "child_room"  BY <2>7
    <3>4. /\ nodes'[th'[t].node].kids[th'[t].slot] = th'[t].child
          /\ th'[t].right \in DOMAIN nodes' /\ level[th'[t].right] = level[th'[t].child]
          /\ th'[t].key \in span[th'[t].child] \union span[th'[t].right]
      BY <1>12, <2>7, <2>8, <2>9, <3>1
    <3>5. th'[t].grow \/ ChildHasRoom(t, th[t].right, span, level)'
      <4>1. th'[t].right = right  BY <2>7, <2>8
      <4> QED  BY <2>7, <2>8, <3>2, <4>1 DEF ChildHasRoom
    <3> QED  BY <2>7, <2>8, <3>3, <3>4, <3>5 DEF HasRoom
  <2>12. r.pc \in Opening /\ r.pc # "publish_root" /\ r.pc # "release_child"  BY <2>7 DEF Opening
  <2>13. m = th[t].node  BY <1>0
  <2>14. q = th[t].child  BY <1>00
  <2>15. r.pc \in Opening \union {"publish_root", "release_child"}  BY <2>12
  <2>16. r.pc = "publish_root" => th[t].grow  BY <2>12
  <2>17. r.pc = "release_child" => ~th[t].grow  BY <2>12
  <2>18. r.pc \in Opening \/ InnerOK(x.keys, x.kids, x.count, span[m], level[m], span, level)  BY <2>12
  <2>19. th' = [th EXCEPT ![t] = r]  BY <2>8
  <2>20. x.ver = nodes[m].ver /\ x.leaf = nodes[m].leaf  BY <2>2
  <2>22. r.pc \in Opening => x.count = nodes[m].count  BY <1>10, <2>2
  <2>23. r.pc = "publish_root" => x.count < Fanout  BY <2>12
  <2>21. t \in Threads /\ IInv(span, level)  OBVIOUS
  <2> QED  BY ONLY <1>2, <1>13, <2>4, <2>5, <2>7, <2>10, <2>11, <2>13, <2>14, <2>15, <2>16, <2>17, <2>18, <2>19,
                   <2>20, <2>21, <2>22, <2>23, InnerWrite
<1> QED  BY <1>16, <1>17
\* With the child stored, a search for the key of the thread leads to one of the
\* two halves: the child that is still held, or the new one, which has room.
LEMMA StoreChildStep ==
  ASSUME NEW span, NEW level, NEW t \in Threads, IInv(span, level), StoreChild(t)
  PROVE  IInv(span, level)'
<1>0. PICK m : m = th[t].node  OBVIOUS
<1>00. PICK q : q = th[t].child  OBVIOUS
<1>1. th[t].pc = "store_child"  BY DEF StoreChild, At
<1>2. th[t].pc \in Opening  BY <1>1 DEF Opening
<1>3. /\ TypeOK /\ th[t] \in Locals /\ th \in [Threads -> Locals] /\ treeVer \in Nat
      /\ Descends(t, span, level) /\ Opens(t, span, level) /\ HasRoom(t, span, level)
      /\ th[t].op = "insert" /\ th[t].grow \in BOOLEAN
      /\ m \in DOMAIN nodes /\ q \in DOMAIN nodes /\ level[q] = level[m] - 1 /\ q # m
      /\ level[m] \in Nat /\ level[q] \in Nat
      /\ ~nodes[m].leaf /\ th[t].key \in span[m]
      /\ nodes[m] \in Node(Len(nodes)) /\ nodes[m].keys \in Arrays
      /\ nodes[m].kids \in [0 .. Fanout -> 0 .. Len(nodes)]
      /\ nodes[m].count \in 0 .. Fanout - 1 /\ th[t].slot \in 0 .. nodes[m].count /\ nodes[q].count < Fanout
  <2>1. m = th[t].node  BY <1>0
  <2>2. q = th[t].child  BY <1>00
  <2> QED  BY <1>2, <2>1, <2>2, OpenFacts
<1>5. PICK s : s = th[t].slot  OBVIOUS
<1>6. PICK ks : ks = nodes[m].keys  OBVIOUS
<1>7. PICK cs : cs = nodes[m].kids  OBVIOUS
<1>9. PICK right : right = th[t].right  OBVIOUS
<1>10. PICK k : k = nodes[m].count  OBVIOUS
<1>4. PICK kids : kids = [cs EXCEPT ![s + 1] = right]  OBVIOUS
<1>11. /\ s \in 0 .. k /\ k \in 0 .. Fanout - 1 /\ ks \in Arrays /\ cs \in [0 .. Fanout -> 0 .. Len(nodes)]
       /\ InnerOK(ks, kids, k + 1, span[m], level[m], span, level)
       /\ right \in 0 .. Len(nodes)
  BY <1>0, <1>1, <1>3, <1>4, <1>5, <1>6, <1>7, <1>9, <1>10, ThreadFacts DEF Opens
<1>12. /\ cs[s] = q /\ right \in DOMAIN nodes /\ level[right] = level[q]
       /\ th[t].key \in span[q] \union span[right]
       /\ th[t].grow \/ ChildHasRoom(t, right, span, level)
  BY <1>0, <1>00, <1>1, <1>3, <1>5, <1>7, <1>9 DEF HasRoom
<1>13. UNCHANGED <<root, treeVer, entries, known, wins>>  BY DEF StoreChild
<1>14. Fanout \in Nat  BY FanoutFacts
<1>15. right # m  BY <1>3, <1>12
<1>16. s + 1 \in 0 .. Fanout /\ s \in 0 .. k + 1 /\ s + 1 \in 0 .. k + 1 /\ k + 1 \in 0 .. Fanout /\ s # s + 1
  BY <1>11, <1>14
<1>17. kids[s] = q /\ kids[s + 1] = right /\ kids \in [0 .. Fanout -> 0 .. Len(nodes)]
  BY <1>4, <1>11, <1>12, <1>14, <1>16
<1>18. PICK x : x = [nodes[m] EXCEPT !.kids = kids]  OBVIOUS
<1>19. x.ver = nodes[m].ver /\ x.leaf = nodes[m].leaf /\ x.count = k /\ x.keys = ks /\ x.kids = kids
  BY <1>3, <1>6, <1>10, <1>18 DEF Node
<1>20. x \in Node(Len(nodes))  BY <1>3, <1>17, <1>18 DEF Node
<1>21. nodes' = [nodes EXCEPT ![m] = x]
  BY <1>0, <1>3, <1>4, <1>5, <1>7, <1>9, <1>18 DEF StoreChild, Node
<1>22. PICK r : r = [th[t] EXCEPT !.pc = "count_child", !.sep = 0, !.right = Null]  OBVIOUS
<1>23. /\ r \in Locals /\ r.pc = "count_child" /\ r.node = m /\ r.child = q /\ r.slot = s /\ r.grow = th[t].grow
       /\ r.op = th[t].op /\ r.key = th[t].key /\ r.before = th[t].before
  <2>1. Null \in 0 .. Len(nodes) /\ 0 \in Int
    <3>1. Len(nodes) \in Nat  BY <1>3, NodeFacts
    <3> QED  BY <3>1 DEF Null
  <2>2. "count_child" \in Places  BY DEF Places, SlowPath, Splitting, Opening
  <2> QED  BY <1>0, <1>00, <1>3, <1>5, <1>22, <2>1, <2>2 DEF Locals
<1>24. th' = [th EXCEPT ![t] = r] /\ th'[t] = r  BY <1>3, <1>22 DEF StoreChild, Set
<1>25. nodes'[m] = x /\ DOMAIN nodes' = DOMAIN nodes /\ \A n \in DOMAIN nodes : n # m => nodes'[n] = nodes[n]
  BY <1>3, <1>20, <1>21, NodeSet
<1>26. Opens(t, span, level)'
  <2>1. nodes'[q].count < Fanout /\ k < Fanout  BY <1>3, <1>11, <1>14, <1>25
  <2>2. r.pc # "shift_child" /\ r.pc # "store_child"  BY <1>23
  <2> QED  BY <1>11, <1>19, <1>23, <1>24, <1>25, <2>1, <2>2 DEF Opens
<1>27. HasRoom(t, span, level)'
  <2>1. PICK i : i = ChildIndex(ks, k + 1, th[t].key)  OBVIOUS
  <2>2. /\ ks \in Arrays /\ k + 1 \in 0 .. Fanout /\ span[m] \in SUBSET Int /\ th[t].key \in span[m]
        /\ InnerOK(ks, kids, k + 1, span[m], level[m], span, level)
        /\ s \in 0 .. k + 1 /\ s + 1 \in 0 .. k + 1
    <3>1. span[m] \subseteq Int  BY <1>3, Basics
    <3> QED  BY <1>3, <1>11, <1>16, <3>1
  <2>3. CASE th[t].key \in span[q]
    <3>1. th[t].key \in span[kids[s]]  BY <1>17, <2>3
    <3>2. i = s  BY ONLY <2>1, <2>2, <3>1, PickSpan
    <3>3. r.pc \notin {"shift_child", "store_child"} /\ r.pc # "release_child" /\ r.pc # "lock_child" /\ r.pc # "child_room"
      BY <1>23
    <3>4. nodes'[th'[t].node].kids[ChildIndex(nodes'[th'[t].node].keys, nodes'[th'[t].node].count + 1, th'[t].key)]
          = th'[t].child
      BY <1>17, <1>19, <1>23, <1>24, <1>25, <2>1, <3>2
    <3> QED  BY <1>23, <1>24, <3>3, <3>4 DEF HasRoom
  <2>4. CASE th[t].key \in span[right]
    <3>1. th[t].key \in span[kids[s + 1]]  BY <1>17, <2>4
    <3>2. i = s + 1  BY ONLY <2>1, <2>2, <3>1, PickSpan
    <3>3. r.pc \notin {"shift_child", "store_child"} /\ r.pc # "release_child" /\ r.pc # "lock_child" /\ r.pc # "child_room"
      BY <1>23
    <3>4. nodes'[th'[t].node].kids[ChildIndex(nodes'[th'[t].node].keys, nodes'[th'[t].node].count + 1, th'[t].key)]
          = right
      BY <1>17, <1>19, <1>23, <1>24, <1>25, <2>1, <3>2
    <3>5. th[t].grow \/ ChildHasRoom(t, right, span, level)'
      <4>1. Others(t)  BY <1>3, <1>24 DEF Others
      <4>2. th'[t].pc \notin Entered /\ th'[t].node = th[t].node
        BY <1>0, <1>23, <1>24 DEF Entered, Coupling, InLeaf
      <4>3. nodes'[right] = nodes[right]  BY <1>12, <1>15, <1>25
      <4> QED  BY <1>3, <1>12, <1>25, <4>1, <4>2, <4>3, ClaimKeeps
    <3>6. th'[t].grow = th[t].grow /\ th'[t].pc = r.pc  BY <1>23, <1>24
    <3> QED  BY <3>3, <3>4, <3>5, <3>6 DEF HasRoom, ChildHasRoom
  <2> QED  BY <1>12, <2>3, <2>4
<1>28. r.pc \in Opening /\ r.pc # "publish_root" /\ r.pc # "release_child"  BY <1>23 DEF Opening
<1>29. m = th[t].node  BY <1>0
<1>30. q = th[t].child  BY <1>00
<1>31. r.pc \in Opening \union {"publish_root", "release_child"}  BY <1>28
<1>32. r.pc = "publish_root" => th[t].grow  BY <1>28
<1>33. r.pc = "release_child" => ~th[t].grow  BY <1>28
<1>34. r.pc \in Opening \/ InnerOK(x.keys, x.kids, x.count, span[m], level[m], span, level)  BY <1>28
<1>35. th' = [th EXCEPT ![t] = r]  BY <1>24
<1>36. x.ver = nodes[m].ver /\ x.leaf = nodes[m].leaf  BY <1>19
<1>38. r.pc \in Opening => x.count = nodes[m].count  BY <1>10, <1>19
<1>39. r.pc = "publish_root" => x.count < Fanout  BY <1>28
<1>37. t \in Threads /\ IInv(span, level)  OBVIOUS
<1> QED  BY ONLY <1>2, <1>13, <1>20, <1>21, <1>23, <1>26, <1>27, <1>29, <1>30, <1>31, <1>32, <1>33, <1>34, <1>35,
                 <1>36, <1>37, <1>38, <1>39, InnerWrite

\* The separator and the child count.
LEMMA CountChildStep ==
  ASSUME NEW span, NEW level, NEW t \in Threads, IInv(span, level), CountChild(t)
  PROVE  IInv(span, level)'
<1>0. PICK m : m = th[t].node  OBVIOUS
<1>00. PICK q : q = th[t].child  OBVIOUS
<1>1. th[t].pc = "count_child"  BY DEF CountChild, At
<1>2. th[t].pc \in Opening  BY <1>1 DEF Opening
<1>3. /\ TypeOK /\ th[t] \in Locals /\ th \in [Threads -> Locals] /\ treeVer \in Nat
      /\ Descends(t, span, level) /\ Opens(t, span, level) /\ HasRoom(t, span, level)
      /\ th[t].op = "insert" /\ th[t].grow \in BOOLEAN
      /\ m \in DOMAIN nodes /\ q \in DOMAIN nodes /\ level[q] = level[m] - 1 /\ q # m
      /\ level[m] \in Nat /\ level[q] \in Nat
      /\ ~nodes[m].leaf /\ th[t].key \in span[m]
      /\ nodes[m] \in Node(Len(nodes)) /\ nodes[m].keys \in Arrays
      /\ nodes[m].kids \in [0 .. Fanout -> 0 .. Len(nodes)]
      /\ nodes[m].count \in 0 .. Fanout - 1 /\ th[t].slot \in 0 .. nodes[m].count /\ nodes[q].count < Fanout
  <2>1. m = th[t].node  BY <1>0
  <2>2. q = th[t].child  BY <1>00
  <2> QED  BY <1>2, <2>1, <2>2, OpenFacts
<1>6. PICK ks : ks = nodes[m].keys  OBVIOUS
<1>7. PICK cs : cs = nodes[m].kids  OBVIOUS
<1>10. PICK k : k = nodes[m].count  OBVIOUS
<1>11. k \in 0 .. Fanout - 1 /\ InnerOK(ks, cs, k + 1, span[m], level[m], span, level)
  BY <1>0, <1>1, <1>3, <1>6, <1>7, <1>10 DEF Opens
<1>12. PICK p : p = cs[ChildIndex(ks, k + 1, th[t].key)]  OBVIOUS
<1>13. th[t].grow \/ p = q \/ ChildHasRoom(t, p, span, level)
  BY <1>0, <1>00, <1>1, <1>3, <1>6, <1>7, <1>10, <1>12 DEF HasRoom
<1>14. Fanout \in Nat  BY FanoutFacts
<1>15. UNCHANGED <<root, treeVer, entries, known, wins>>  BY DEF CountChild
<1>18. PICK x : x = [nodes[m] EXCEPT !.count = k + 1]  OBVIOUS
<1>19. x.ver = nodes[m].ver /\ x.leaf = nodes[m].leaf /\ x.count = k + 1 /\ x.keys = ks /\ x.kids = cs
  BY <1>3, <1>6, <1>7, <1>18 DEF Node
<1>20. x \in Node(Len(nodes))
  <2>1. k + 1 \in 0 .. Fanout  BY <1>11, <1>14
  <2> QED  BY <1>3, <1>18, <2>1 DEF Node
<1>21. nodes' = [nodes EXCEPT ![m] = x]  BY <1>0, <1>3, <1>10, <1>18 DEF CountChild
<1>4. PICK pc : pc = IF th[t].grow THEN "publish_root" ELSE "release_child"  OBVIOUS
<1>5. /\ pc \in {"publish_root", "release_child"}
      /\ pc = "publish_root" <=> th[t].grow
  <2>1. CASE th[t].grow  BY <1>4, <2>1
  <2>2. CASE ~th[t].grow  BY <1>4, <2>2
  <2> QED  BY <2>1, <2>2
<1>22. PICK r : r = [th[t] EXCEPT !.pc = pc, !.slot = 0]  OBVIOUS
<1>23. /\ r \in Locals /\ r.pc = pc /\ r.node = m /\ r.child = q /\ r.grow = th[t].grow
       /\ r.op = th[t].op /\ r.key = th[t].key /\ r.before = th[t].before
  <2>1. 0 \in -1 .. Fanout  BY <1>14
  <2>2. pc \in Places  BY <1>5 DEF Places, SlowPath, TreeHeld
  <2> QED  BY <1>0, <1>00, <1>3, <1>22, <2>1, <2>2 DEF Locals
<1>24. th' = [th EXCEPT ![t] = r] /\ th'[t] = r  BY <1>3, <1>4, <1>22 DEF CountChild, Set
<1>25. nodes'[m] = x /\ DOMAIN nodes' = DOMAIN nodes /\ \A n \in DOMAIN nodes : n # m => nodes'[n] = nodes[n]
  BY <1>3, <1>20, <1>21, NodeSet
<1>26. Opens(t, span, level)'
  <2>1. r.pc \notin Opening  BY <1>5, <1>23 DEF Opening
  <2> QED  BY <1>24, <2>1, NoOpening
<1>27. HasRoom(t, span, level)'
  <2>1. CASE th[t].grow
    <3>1. r.pc \notin Opening \union {"release_child", "lock_child", "child_room"}
      BY <1>5, <1>23, <2>1 DEF Opening
    <3> QED  BY <1>24, <3>1, NoClaim
  <2>2. CASE p = q
    <3>1. nodes'[th'[t].node].kids[ChildIndex(nodes'[th'[t].node].keys, nodes'[th'[t].node].count, th'[t].key)]
          = th'[t].child
      BY <1>12, <1>19, <1>23, <1>24, <1>25, <2>2
    <3>2. nodes'[th'[t].child].count < Fanout  BY <1>3, <1>23, <1>24, <1>25
    <3>3. /\ th'[t].pc \notin {"shift_child", "store_child"} /\ th'[t].pc # "count_child" /\ th'[t].pc # "lock_child"
          /\ th'[t].pc # "child_room"
      BY <1>5, <1>23, <1>24
    <3> QED  BY <3>1, <3>2, <3>3 DEF HasRoom
  <2>3. CASE ChildHasRoom(t, p, span, level)
    <3>1. nodes'[th'[t].node].kids[ChildIndex(nodes'[th'[t].node].keys, nodes'[th'[t].node].count, th'[t].key)] = p
      BY <1>12, <1>19, <1>23, <1>24, <1>25
    <3>2. nodes'[th'[t].child].count < Fanout  BY <1>3, <1>23, <1>24, <1>25
    <3>3. /\ th'[t].pc \notin {"shift_child", "store_child"} /\ th'[t].pc # "count_child" /\ th'[t].pc # "lock_child"
          /\ th'[t].pc # "child_room"
      BY <1>5, <1>23, <1>24
    <3>4. ChildHasRoom(t, p, span, level)'
      <4>1. Others(t)  BY <1>3, <1>24 DEF Others
      <4>2. th'[t].pc \notin Entered /\ th'[t].node = th[t].node
        BY <1>0, <1>5, <1>23, <1>24 DEF Entered, Coupling, InLeaf
      <4>3. p \in DOMAIN nodes /\ level[p] = level[m] - 1  BY <1>0, <2>3 DEF ChildHasRoom
      <4>4. nodes'[p] = nodes[p]  BY <1>3, <1>25, <4>3
      <4> QED  BY <1>3, <1>25, <2>3, <4>1, <4>2, <4>4, ClaimKeeps
    <3> QED  BY <3>1, <3>2, <3>3, <3>4 DEF HasRoom, ChildHasRoom
  <2> QED  BY <1>13, <2>1, <2>2, <2>3
<1>29. m = th[t].node  BY <1>0
<1>30. q = th[t].child  BY <1>00
<1>31. r.pc \in Opening \union {"publish_root", "release_child"}  BY <1>5, <1>23
<1>32. r.pc = "publish_root" => th[t].grow  BY <1>5, <1>23
<1>33. r.pc = "release_child" => ~th[t].grow  BY <1>5, <1>23
<1>34. r.pc \in Opening \/ InnerOK(x.keys, x.kids, x.count, span[m], level[m], span, level)  BY <1>11, <1>19
<1>35. th' = [th EXCEPT ![t] = r]  BY <1>24
<1>36. x.ver = nodes[m].ver /\ x.leaf = nodes[m].leaf  BY <1>19
<1>38. r.pc \in Opening => x.count = nodes[m].count
  <2>1. r.pc \notin Opening  BY <1>5, <1>23 DEF Opening
  <2> QED  BY <2>1
<1>39. r.pc = "publish_root" => x.count < Fanout
  <2>1. th[t].pc \in Splitting  BY <1>2 DEF Splitting
  <2>2. th[t].grow => k = 0  BY <1>0, <1>3, <1>10, <2>1 DEF Descends
  <2> QED  BY <1>19, <1>32, <2>2, FanoutFacts
<1>37. t \in Threads /\ IInv(span, level)  OBVIOUS
<1> QED  BY ONLY <1>2, <1>15, <1>20, <1>21, <1>23, <1>26, <1>27, <1>29, <1>30, <1>31, <1>32, <1>33, <1>34, <1>35,
                 <1>36, <1>37, <1>38, <1>39, InnerWrite
\* The half that a search for the key of the thread leads to has room, and the
\* release makes every snapshot of it stale.
LEMMA ReleaseChildStep ==
  ASSUME NEW span, NEW level, NEW t \in Threads, IInv(span, level), ReleaseChild(t)
  PROVE  IInv(span, level)'
<1>0. PICK m : m = th[t].node  OBVIOUS
<1>00. PICK q : q = th[t].child  OBVIOUS
<1>1. th[t].pc = "release_child"  BY DEF ReleaseChild, At
<1>2. th[t].pc \in SlowPath  BY <1>1 DEF SlowPath
<1>3. /\ TypeOK /\ th[t] \in Locals /\ th \in [Threads -> Locals] /\ treeVer \in Nat /\ th[t].grow \in BOOLEAN
      /\ Descends(t, span, level) /\ HasRoom(t, span, level)
  BY Start, ThreadFacts DEF TypeOK
<1>4. th[t].op = "insert"
  <2>1. th[t].pc \in {"upgrade", "count_entry"} \union LeafHeld \union SlowPath  BY <1>2
  <2> QED  BY <2>1, Inserting
<1>5. HoldsNode(t) /\ HoldsChild(t) /\ (HoldsTree(t) <=> th[t].grow)
  BY <1>1 DEF HoldsNode, HoldsChild, HoldsTree, TreeHeld, Splitting, Opening
<1>6. Holds(t, m) /\ Holds(t, q)  BY <1>0, <1>00, <1>5 DEF Holds
<1>7. /\ m \in DOMAIN nodes /\ IsLocked(nodes[m].ver) /\ level[m] <= level[root]
      /\ q \in DOMAIN nodes /\ IsLocked(nodes[q].ver)
  BY <1>6, Holding
<1>8. /\ level[q] = level[m] - 1 /\ ~nodes[m].leaf /\ th[t].key \in span[m]
      /\ th[t].grow => m = root /\ nodes[m].count < Fanout
  BY <1>0, <1>00, <1>1, <1>3, <1>5 DEF Descends
<1>9. level[m] \in Nat /\ level[q] \in Nat /\ q # m
  <2>1. level[m] \in Nat /\ level[q] \in Nat  BY <1>7, Basics
  <2> QED  BY <1>8, <2>1
<1>10. PICK p : p = nodes[m].kids[ChildIndex(nodes[m].keys, nodes[m].count, th[t].key)]  OBVIOUS
<1>11. /\ nodes[q].count < Fanout
       /\ nodes[m].count < Fanout \/ p = q \/ ChildHasRoom(t, p, span, level)
  BY <1>0, <1>00, <1>1, <1>3, <1>10 DEF HasRoom
<1>12. PICK pc : pc = IF th[t].grow THEN "release_tree" ELSE "lock_child"  OBVIOUS
<1>13. /\ pc \in {"release_tree", "lock_child"}
       /\ pc = "release_tree" <=> th[t].grow
  <2>1. CASE th[t].grow  BY <1>12, <2>1
  <2>2. CASE ~th[t].grow  BY <1>12, <2>2
  <2> QED  BY <2>1, <2>2
<1>14. PICK r : r = [th[t] EXCEPT !.pc = pc, !.child = Null, !.grow = FALSE]  OBVIOUS
<1>15. /\ r \in Locals /\ r.pc = pc /\ r.node = m /\ r.grow = FALSE
       /\ r.op = th[t].op /\ r.key = th[t].key /\ r.before = th[t].before
  <2>1. pc \in Places  BY <1>13 DEF Places, SlowPath, TreeHeld, Walking
  <2>2. Null \in 0 .. Len(nodes)
    <3>1. Len(nodes) \in Nat  BY <1>3, NodeFacts
    <3> QED  BY <3>1 DEF Null
  <2> QED  BY <1>0, <1>3, <1>14, <2>1, <2>2 DEF Locals
<1>16. /\ th' = [th EXCEPT ![t] = r] /\ th'[t] = r /\ Raise(q)
       /\ UNCHANGED <<root, treeVer, entries, known, wins>>
  BY <1>00, <1>3, <1>12, <1>14 DEF ReleaseChild, Set
<1>17. /\ nodes' \in Seq(Node(Len(nodes'))) /\ Len(nodes') = Len(nodes) /\ DOMAIN nodes' = DOMAIN nodes
       /\ \A k \in DOMAIN nodes : k # q => nodes'[k] = nodes[k]
       /\ nodes[q].ver < nodes'[q].ver /\ (IsLocked(nodes'[q].ver) <=> ~IsLocked(nodes[q].ver))
       /\ nodes'[q].count = nodes[q].count
  BY <1>3, <1>7, <1>16, RaiseFacts
<1>18. \A k \in DOMAIN nodes :
           /\ nodes[k].ver <= nodes'[k].ver /\ nodes'[k].leaf = nodes[k].leaf
           /\ nodes'[k].count = nodes[k].count /\ nodes'[k].keys = nodes[k].keys
           /\ nodes'[k].values = nodes[k].values /\ nodes'[k].kids = nodes[k].kids
           /\ nodes'[k] # nodes[k] =>
                \/ Holds(t, k)
                \/ ~IsLocked(nodes[k].ver) /\ nodes'[k].ver # nodes[k].ver /\ Reaches(t, k, span, level)
  BY <1>3, <1>6, <1>7, <1>16, RaiseOnly
<1>19. /\ r.pc \notin Entered /\ r.pc \notin Opening /\ r.pc \notin LeafHeld /\ r.pc # "count_entry"
       /\ r.pc \in SlowPath \union {"find"}
  BY <1>13, <1>15 DEF Entered, Coupling, InLeaf, Opening, LeafHeld, Moving, SlowPath, Walking, TreeHeld, Splitting
<1>20. HoldsNode(t)' /\ ~HoldsChild(t)' /\ (HoldsTree(t)' <=> th[t].grow)
  <2>1. r.pc \in Walking \union {"release_tree"} /\ r.pc \notin Splitting
    BY <1>13, <1>15 DEF Walking, Splitting, Opening
  <2>2. r.pc \notin {"publish_root", "release_child", "child_room", "release_parent"}  BY <1>13, <1>15
  <2>3. r.pc \in TreeHeld <=> th[t].grow  BY <1>13, <1>15 DEF TreeHeld
  <2> QED  BY <1>15, <1>16, <2>1, <2>2, <2>3 DEF HoldsNode, HoldsChild, HoldsTree
<1>21. LockStep(t)
  <2>1. \A k : Holds(t, k) <=> (k = m \/ k = q)  BY <1>0, <1>00, <1>5 DEF Holds
  <2>2. \A k : Holds(t, k)' <=> k = m  BY <1>15, <1>16, <1>20 DEF Holds
  <2>3. IsLocked(nodes[q].ver) <=> Holds(t, q)  BY <1>6, <1>7
  <2>4. Holds(t, q)' <=> ~Holds(t, q)  BY <1>9, <2>1, <2>2
  <2>5. \A k \in DOMAIN nodes : k # q => (Holds(t, k)' <=> Holds(t, k))  BY <2>1, <2>2
  <2>6. HoldsNode(t)' => th'[t].node \in DOMAIN nodes'  BY <1>7, <1>15, <1>16, <1>17
  <2>7. HoldsChild(t)' => th'[t].child \in DOMAIN nodes'  BY <1>20
  <2>8. treeVer' = treeVer /\ (HoldsTree(t)' <=> HoldsTree(t))  BY <1>5, <1>16, <1>20
  <2> QED  BY <1>3, <1>7, <1>16, <2>3, <2>4, <2>5, <2>6, <2>7, <2>8, RaiseLock
<1>22. Keeps(t, Null, span, level)
  <2>1. th[t].pc \notin Moving \union Opening  BY <1>1 DEF Moving, Opening
  <2>2. ~Reduces(t) /\ \A k : ~Private(t, k)  BY <1>1 DEF Reduces, Private, Splitting, Opening
  <2>3. Reduces(t) => Reduces(t)'  BY <2>2
  <2>4. \A k : Private(t, k) => Private(t, k)'  BY <2>2
  <2>5. th'[t].pc \notin Entered  BY <1>16, <1>19
  <2>6. root' = root  BY <1>16
  <2> QED  BY <1>17, <1>18, <2>1, <2>3, <2>4, <2>5, <2>6, VersionKeeps
<1>23. WritesLeaf(t, span, level)'  BY <1>16, <1>19, NoLeafWork
<1>24. Opens(t, span, level)'  BY <1>16, <1>19, NoOpening
<1>25. Descends(t, span, level)'
  <2>1. /\ r.pc # "plant" /\ r.pc # "publish_root" /\ r.pc # "grow" /\ r.pc # "release_child" /\ r.pc # "slow_room"
        /\ r.pc # "split" /\ r.pc \notin {"split", "child_room", "release_parent"} /\ r.pc # "release_parent"
    BY <1>13, <1>15
  <2>2. r.pc \in {"release_tree", "grow"} => r.node = root' /\ nodes'[m].count < Fanout
    BY <1>8, <1>7, <1>9, <1>13, <1>15, <1>16, <1>17
  <2>3. root' # Null
    <3>1. DOMAIN nodes # {}  BY <1>7
    <3> QED  BY <1>16, <3>1, Basics
  <2>4. nodes'[m] = nodes[m]  BY <1>7, <1>9, <1>17
  <2>5. r.op = "insert" /\ r.key \in span[m] /\ ~nodes'[m].leaf /\ root' = root  BY <1>4, <1>8, <1>15, <1>16, <2>4
  <2> QED  BY <1>7, <1>15, <1>16, <1>17, <1>20, <2>1, <2>2, <2>3, <2>5 DEF Descends
<1>26. Others(t)  BY <1>3, <1>16 DEF Others
<1>27. HasRoom(t, span, level)'
  <2>1. CASE th[t].grow
    <3>1. r.pc \notin Opening \union {"release_child", "lock_child", "child_room"}
      BY <1>13, <1>15, <2>1 DEF Opening
    <3> QED  BY <1>16, <3>1, NoClaim
  <2>2. CASE ~th[t].grow
    <3>1. r.pc = "lock_child"  BY <1>13, <1>15, <2>2
    <3>2. nodes'[m] = nodes[m]  BY <1>7, <1>9, <1>17
    <3>3. th'[t].pc \notin Entered /\ th'[t].node = th[t].node  BY <1>0, <1>15, <1>16, <1>19
    <3>4. nodes[m].count < Fanout \/ ChildHasRoom(t, p, span, level)'
      <4>1. CASE p = q
        <5>1. NodeOK(m, span, level)
          <6>1. Holds(t, m) \/ Private(t, m)  BY <1>6
          <6>2. m # th[t].node \/ th[t].pc \notin Moving \union Opening  BY <1>1 DEF Moving, Opening
          <6> QED  BY <6>1, <6>2, HeldOK
        <5>2. InnerOK(nodes[m].keys, nodes[m].kids, nodes[m].count, span[m], level[m], span, level)
          BY <1>8, <5>1 DEF NodeOK
        <5>3. span[q] \subseteq span[m]
          <6>1. th[t].key \in Int /\ nodes[m].count \in 0 .. Fanout  BY <1>3, <1>7, ThreadFacts, NodeFacts
          <6>2. PICK i : i = ChildIndex(nodes[m].keys, nodes[m].count, th[t].key)  OBVIOUS
          <6>3. span[nodes[m].kids[i]] \subseteq span[m]  BY <1>7, <1>8, <5>2, <6>1, <6>2, InnerPick
          <6> QED  BY <1>10, <4>1, <6>2, <6>3
        <5>4. Untouched(q)'
          <6>1. ~IsLocked(nodes'[q].ver)  BY <1>7, <1>17
          <6>2. SUFFICES ASSUME NEW u \in Threads, th'[u].pc \in Entered, th'[u].node = q PROVE th'[u].ver # nodes'[q].ver
            BY <6>1 DEF Untouched
          <6>3. u # t  BY <3>3, <6>2
          <6>4. th'[u] = th[u]  BY <1>26, <6>3 DEF Others
          <6>5. SeesNode(u, span, level)  BY Start
          <6>6. th[u].ver <= nodes[q].ver  BY <6>2, <6>4, <6>5 DEF SeesNode
          <6>7. th[u].ver \in Nat /\ nodes[q].ver \in Nat /\ nodes'[q].ver \in Nat
            <7>1. TypeOK /\ q \in DOMAIN nodes  BY <1>3, <1>7
            <7>2. nodes'[q].ver = nodes[q].ver + 2  BY <1>16, <7>1, RaiseFacts
            <7>3. th[u].ver \in Nat /\ nodes[q].ver \in Nat  BY <7>1, ThreadFacts, NodeFacts
            <7> QED  BY <7>2, <7>3
          <6> QED  BY <1>17, <6>4, <6>6, <6>7
        <5>5. q \in DOMAIN nodes' /\ nodes'[q].count < Fanout  BY <1>7, <1>11, <1>17
        <5>6. th'[t].node = m  BY <1>15, <1>16
        <5> QED  BY <1>8, <4>1, <5>3, <5>4, <5>5, <5>6 DEF ChildHasRoom
      <4>2. CASE ChildHasRoom(t, p, span, level)
        <5>1. p \in DOMAIN nodes /\ ~IsLocked(nodes[p].ver)  BY <4>2 DEF ChildHasRoom, Untouched
        <5>2. nodes'[p] = nodes[p]  BY <1>7, <1>17, <5>1
        <5> QED  BY <1>3, <1>17, <1>26, <3>3, <4>2, <5>2, ClaimKeeps
      <4> QED  BY <1>11, <4>1, <4>2
    <3>5. p = nodes'[th'[t].node].kids[ChildIndex(nodes'[th'[t].node].keys, nodes'[th'[t].node].count, th'[t].key)]
      BY <1>10, <1>15, <1>16, <3>2
    <3>6. nodes[m].count = nodes'[th'[t].node].count  BY <1>15, <1>16, <3>2
    <3>7. /\ th'[t].pc \notin {"shift_child", "store_child"} /\ th'[t].pc # "count_child" /\ th'[t].pc # "release_child"
          /\ th'[t].pc # "child_room"
      BY <1>16, <3>1
    <3> QED  BY <3>4, <3>5, <3>6, <3>7 DEF HasRoom, ChildHasRoom
  <2> QED  BY <2>1, <2>2
<1>28. treeVer' \in Nat  BY <1>3, <1>16
<1>29. r.pc \in SlowPath \union {"find"}  BY <1>19
<1> QED  BY <1>2, <1>15, <1>16, <1>17, <1>21, <1>22, <1>23, <1>24, <1>25, <1>27, <1>28, <1>29, SlowStep

\* A step that changes the root, or adds nodes.
LEMMA ReshapeStep ==
  ASSUME NEW span, NEW level, NEW span2, NEW level2, NEW t \in Threads, NEW r, IInv(span, level),
         th[t].pc \in SlowPath, th' = [th EXCEPT ![t] = r], r \in Locals', r.pc \in SlowPath,
         r.op = th[t].op, r.key = th[t].key, r.before = th[t].before,
         nodes' \in Seq(Node(Len(nodes'))), Len(nodes) <= Len(nodes'), root' \in DOMAIN nodes',
         UNCHANGED <<treeVer, entries, known, wins>>,
         Frame(t, span, level, span2, level2), LockStep(t), Spans(span2, level2)', Contents(span2, level2)',
         Descends(t, span2, level2)', Opens(t, span2, level2)', HasRoom(t, span2, level2)'
  PROVE  IInv(span2, level2)'
<1>1. TypeOK /\ Calls(t) /\ History /\ Tally  BY Start, Basics
<1>2. Len(nodes') \in Nat /\ DOMAIN nodes' = 1 .. Len(nodes')
  <2> DEFINE S == Node(Len(nodes'))
  <2> HIDE DEF S
  <2>1. nodes' \in Seq(S)  BY DEF S
  <2> QED  BY <2>1
<1>3. TypeOK' /\ th'[t] = r /\ Others(t)
  <2>1. /\ entries' \in Int /\ known' \in SUBSET Int /\ wins' \in SUBSET Entry /\ treeVer' \in Nat
        /\ root' \in 0 .. Len(nodes')
    BY <1>1, <1>2 DEF TypeOK
  <2> QED  BY <1>1, <2>1, TypeStep
<1>4. /\ r.pc \notin Entered /\ r.pc \notin AtTree /\ r.pc \notin InLeaf /\ r.pc # "read_count"
      /\ r.pc # "returned" /\ r.pc # "count_entry" /\ th[t].pc # "idle" /\ th[t].pc # "count_entry"
      /\ r.pc \notin LeafHeld
  BY DEF Entered, Coupling, InLeaf, AtTree, LeafHeld, Moving, SlowPath, TreeHeld, Splitting, Opening, Walking
<1>5. SeesTree(t)' /\ SeesNode(t, span2, level2)'  BY <1>3, <1>4, Blind
<1>6. WritesLeaf(t, span2, level2)'  BY <1>3, <1>4, NoLeafWork
<1>7. th[t].op = "insert"
  <2>1. th[t].pc \in {"upgrade", "count_entry"} \union LeafHeld \union SlowPath  OBVIOUS
  <2> QED  BY <2>1, Inserting
<1>8. known \subseteq known' /\ wins' = wins  OBVIOUS
<1>9. Calls(t)'  BY <1>1, <1>3, <1>4, <1>7, <1>8, KeepCall
<1>10. History'
  <2>1. root' # Null  BY <1>2 DEF Null
  <2> QED  BY <1>1, <2>1 DEF History
<1>11. Tally'
  <2>1. ~At(t, "count_entry") /\ ~At(t, "count_entry")'  BY <1>3, <1>4 DEF At
  <2> QED  BY <1>1, <1>3, <2>1, TallySame
<1>12. Own(t, span2, level2)'  BY <1>5, <1>6, <1>9 DEF Own
<1> QED  BY <1>3, <1>10, <1>11, <1>12, Compose

\* A sequence of nodes that has one is not empty, and Null is none of its indices.
LEMMA NotEmpty ==
  ASSUME NEW ns, NEW size, ns \in Seq(Node(size)), NEW n \in DOMAIN ns
  PROVE  ns # <<>> /\ Null \notin DOMAIN ns
<1> DEFINE S == Node(size)
<1>1. ns \in Seq(S)  OBVIOUS
<1> HIDE DEF S
<1>2. DOMAIN ns = 1 .. Len(ns) /\ Len(ns) \in Nat  BY <1>1
<1>3. ns # <<>>
  <2>1. DOMAIN <<>> = {}  OBVIOUS
  <2> QED  BY <2>1
<1> QED  BY <1>2, <1>3 DEF Null

\* The new root is complete, and becomes the root: with one more level above.
LEMMA PublishRootStep ==
  ASSUME NEW span, NEW level, NEW t \in Threads, IInv(span, level), PublishRoot(t)
  PROVE  IInv(span, level)'
<1>0. PICK n : n = th[t].node  OBVIOUS
<1>00. PICK q : q = th[t].child  OBVIOUS
<1>1. th[t].pc = "publish_root"  BY DEF PublishRoot, At
<1>2. th[t].pc \in SlowPath  BY <1>1 DEF SlowPath, TreeHeld
<1>3. /\ TypeOK /\ th[t] \in Locals /\ th \in [Threads -> Locals] /\ treeVer \in Nat
      /\ Descends(t, span, level)
  BY Start DEF TypeOK
<1>4. th[t].op = "insert" /\ th[t].key \in Keys
  <2>1. th[t].pc \in {"upgrade", "count_entry"} \union LeafHeld \union SlowPath  BY <1>2
  <2> QED  BY <2>1, Inserting
<1>5. th[t].grow  BY <1>1, <1>3 DEF Descends
<1>6. ~HoldsNode(t) /\ HoldsChild(t) /\ HoldsTree(t) /\ Private(t, n)
  BY <1>0, <1>1, <1>5 DEF HoldsNode, HoldsChild, HoldsTree, Private, TreeHeld, Splitting, Opening, LeafHeld, Moving, Walking
<1>7. /\ n \in DOMAIN nodes /\ ~IsLocked(nodes[n].ver) /\ level[n] = level[root] + 1
      /\ root \in DOMAIN nodes /\ level[root] \in Nat /\ level[n] \in Nat
  <2>1. n \in DOMAIN nodes /\ ~IsLocked(nodes[n].ver) /\ level[n] = level[root] + 1  BY <1>6, Holding
  <2>2. root # Null  BY <1>1, <1>6, Holding DEF At
  <2> QED  BY <2>1, <2>2, Basics
<1>8. /\ span[n] = Keys /\ ~nodes[n].leaf /\ nodes[n].count < Fanout
      /\ q \in DOMAIN nodes /\ level[q] = level[n] - 1 /\ nodes[q].count < Fanout
  BY <1>0, <1>00, <1>1, <1>3, <1>5, <1>6 DEF Descends
<1>9. q # n  BY <1>7, <1>8
<1>10. PICK r : r = [th[t] EXCEPT !.pc = "release_child"]  OBVIOUS
<1>11. /\ r \in Locals /\ r.pc = "release_child" /\ r.node = n /\ r.child = q /\ r.grow
       /\ r.op = th[t].op /\ r.key = th[t].key /\ r.before = th[t].before
  <2>1. "release_child" \in Places  BY DEF Places, SlowPath
  <2> QED  BY <1>0, <1>00, <1>3, <1>5, <1>10, <2>1 DEF Locals
<1>12. /\ th' = [th EXCEPT ![t] = r] /\ th'[t] = r /\ Raise(n) /\ root' = n
       /\ UNCHANGED <<treeVer, entries, known, wins>>
  BY <1>0, <1>3, <1>10 DEF PublishRoot, Go
<1>13. /\ nodes' \in Seq(Node(Len(nodes'))) /\ Len(nodes') = Len(nodes) /\ DOMAIN nodes' = DOMAIN nodes
       /\ \A k \in DOMAIN nodes : k # n => nodes'[k] = nodes[k]
       /\ nodes[n].ver < nodes'[n].ver /\ nodes'[n].ver = nodes[n].ver + 2
       /\ nodes'[n].leaf = nodes[n].leaf /\ nodes'[n].count = nodes[n].count
       /\ nodes'[n].keys = nodes[n].keys /\ nodes'[n].values = nodes[n].values /\ nodes'[n].kids = nodes[n].kids
  BY <1>3, <1>7, <1>12, RaiseFacts
<1>14. r.pc \notin Entered /\ r.pc \notin Opening /\ r.pc \in SlowPath
  BY <1>11 DEF Entered, Coupling, InLeaf, Opening, SlowPath
<1>15. HoldsNode(t)' /\ HoldsChild(t)' /\ HoldsTree(t)'
  BY <1>11, <1>12 DEF HoldsNode, HoldsChild, HoldsTree
<1>16. LockStep(t)
  <2>1. \A k : Holds(t, k) <=> k = q  BY <1>00, <1>6 DEF Holds
  <2>2. \A k : Holds(t, k)' <=> (k = n \/ k = q)  BY <1>11, <1>12, <1>15 DEF Holds
  <2>3. IsLocked(nodes[n].ver) <=> Holds(t, n)  BY <1>7, <1>9, <2>1
  <2>4. Holds(t, n)' <=> ~Holds(t, n)  BY <1>9, <2>1, <2>2
  <2>5. \A k \in DOMAIN nodes : k # n => (Holds(t, k)' <=> Holds(t, k))  BY <2>1, <2>2
  <2>6. HoldsNode(t)' => th'[t].node \in DOMAIN nodes'  BY <1>7, <1>11, <1>12, <1>13
  <2>7. HoldsChild(t)' => th'[t].child \in DOMAIN nodes'  BY <1>8, <1>11, <1>12, <1>13
  <2>8. treeVer' = treeVer /\ (HoldsTree(t)' <=> HoldsTree(t))  BY <1>6, <1>12, <1>15
  <2> QED  BY <1>3, <1>7, <1>12, <2>3, <2>4, <2>5, <2>6, <2>7, <2>8, RaiseLock
<1>17. Others(t)  BY <1>3, <1>12 DEF Others
<1>18. Frame(t, span, level, span, level)
  <2>1. ~Foreign(t, n)  BY <1>6 DEF Foreign
  <2>2. \A k \in DOMAIN nodes : nodes[k].ver \in Nat  BY <1>3, NodeFacts
  <2>3. \A k \in DOMAIN nodes : k # n => ~Takes(t, k)  BY <1>11, <1>12, <1>13, <1>14 DEF Takes
  <2>4. \A k \in DOMAIN nodes : nodes'[k].ver \in Nat /\ nodes[k].ver <= nodes'[k].ver
    BY <1>7, <1>13, <2>2
  <2>5. \A k \in DOMAIN nodes : nodes'[k].leaf = nodes[k].leaf  BY <1>13
  <2>6. \A k \in DOMAIN nodes : Foreign(t, k) => nodes'[k] = nodes[k]  BY <1>13, <2>1
  <2>7. root # Null => root' # Null /\ level[root'] \in Nat /\ level[root] <= level[root']
    <3>1. n # Null  BY <1>3, <1>7, NotEmpty DEF TypeOK
    <3> QED  BY <1>7, <1>12, <3>1
  <2> QED  BY <1>6, <1>12, <1>13, <2>1, <2>3, <2>4, <2>5, <2>6, <2>7 DEF Frame
<1>19. Spans(span, level)'
  <2>1. Spans(span, level)  BY Basics
  <2>2. nodes' # <<>> /\ n # Null  BY <1>7, <1>13, NotEmpty
  <2>3. ASSUME NEW k \in DOMAIN nodes PROVE level[k] <= level[n]
    <3>1. CASE level[k] <= level[root]
      <4>1. level[k] \in Nat  BY Basics
      <4> QED  BY <1>7, <3>1, <4>1
    <3>2. CASE \E u \in Threads : Private(u, k)
      <4>1. PICK u \in Threads : Private(u, k)  BY <3>2
      <4>2. HoldsTree(u)  BY <4>1, Holding
      <4>3. u = t  BY <1>6, <4>2, Apart
      <4>4. level[k] = level[root] + 1  BY <4>1, Holding
      <4> QED  BY <1>7, <4>4
    <3> QED  BY <2>1, <3>1, <3>2 DEF Spans
  <2>4. \A k \in DOMAIN nodes' : level[k] <= level[root']  BY <1>12, <1>13, <2>3
  <2>5. \A k \in DOMAIN nodes' : nodes'[k].leaf = nodes[k].leaf  BY <1>13
  <2>6. root' = n /\ span[n] = Keys  BY <1>8, <1>12
  <2> QED  BY <1>13, <2>1, <2>2, <2>4, <2>5, <2>6 DEF Spans
<1>20. Contents(span, level)'
  <2> SUFFICES ASSUME NEW k \in DOMAIN nodes', ~Busy(k)'
               PROVE  NodeOK(k, span, level)'
    BY DEF Contents
  <2>1. ~Busy(k)
    <3>1. \A u \in Threads \ {t} : th'[u] = th[u]  BY <1>17 DEF Others
    <3>2. th[t].pc \notin Moving \union Opening  BY <1>1 DEF Moving, Opening
    <3>3. \A u \in Threads : Writes(u, k) => Writes(u, k)'  BY <3>1, <3>2 DEF Writes
    <3> QED  BY <3>3 DEF Busy, Writes
  <2>2. NodeOK(k, span, level)  BY <1>13, <2>1 DEF IInv, Contents
  <2>3. /\ nodes'[k].leaf = nodes[k].leaf /\ nodes'[k].count = nodes[k].count /\ nodes'[k].keys = nodes[k].keys
        /\ nodes'[k].values = nodes[k].values /\ nodes'[k].kids = nodes[k].kids
    BY <1>13
  <2> QED  BY <1>12, <2>2, <2>3 DEF NodeOK
<1>21. Descends(t, span, level)'
  <2>1. /\ r.pc \notin TreeHeld /\ r.pc \notin Splitting /\ r.pc \notin Walking
    BY <1>11 DEF TreeHeld, Splitting, Opening, Walking
  <2>2. /\ r.pc # "plant" /\ r.pc # "publish_root" /\ r.pc # "grow" /\ r.pc # "slow_room" /\ r.pc # "release_tree"
        /\ r.pc # "split" /\ r.pc \notin {"split", "child_room", "release_parent"} /\ r.pc # "release_parent"
    BY <1>11
  <2>3. r.key \in span[n] /\ r.op = "insert"  BY <1>4, <1>8, <1>11
  <2>4. level[n] <= level[root'] /\ root' = n  BY <1>7, <1>12
  <2>5. nodes'[n].count < Fanout /\ ~nodes'[n].leaf  BY <1>8, <1>13
  <2> QED  BY <1>7, <1>8, <1>11, <1>12, <1>13, <2>1, <2>2, <2>3, <2>4, <2>5 DEF Descends
<1>22. HasRoom(t, span, level)'
  <2>1. nodes'[n].count < Fanout /\ nodes'[q].count < Fanout  BY <1>8, <1>9, <1>13
  <2>2. /\ r.pc \notin {"shift_child", "store_child"} /\ r.pc # "count_child" /\ r.pc # "lock_child"
        /\ r.pc # "child_room"
    BY <1>11
  <2> QED  BY <1>11, <1>12, <2>1, <2>2 DEF HasRoom
<1>23. Opens(t, span, level)'  BY <1>12, <1>14, NoOpening
<1>24. r \in Locals' /\ Len(nodes) <= Len(nodes') /\ root' \in DOMAIN nodes'
  <2>1. Len(nodes) \in Nat  BY <1>3, NodeFacts
  <2> QED  BY <1>7, <1>11, <1>12, <1>13, <2>1 DEF Locals
<1>25. r.pc \in SlowPath  BY <1>14
<1> QED  BY <1>2, <1>11, <1>12, <1>13, <1>16, <1>18, <1>19, <1>20, <1>21, <1>22, <1>23, <1>24, <1>25, ReshapeStep

\* One more element at the end of a sequence.
LEMMA OneMore ==
  ASSUME NEW S, NEW s \in Seq(S), NEW x \in S, NEW s2, s2 = Append(s, x), NEW new, new = Len(s) + 1
  PROVE  /\ s2 \in Seq(S) /\ Len(s2) = new /\ new \in Nat /\ DOMAIN s = 1 .. Len(s) /\ DOMAIN s2 = 1 .. new
         /\ DOMAIN s \subseteq DOMAIN s2 /\ new \in DOMAIN s2 /\ new \notin DOMAIN s
         /\ \A n \in DOMAIN s2 : n = new \/ n \in DOMAIN s
         /\ s2[new] = x /\ \A n \in DOMAIN s : s2[n] = s[n]
<1>1. Len(s) \in Nat /\ DOMAIN s = 1 .. Len(s)  OBVIOUS
<1>2. s2 \in Seq(S) /\ Len(s2) = Len(s) + 1 /\ s2[new] = x /\ \A n \in 1 .. Len(s) : s2[n] = s[n]
  OBVIOUS
<1>3. DOMAIN s2 = 1 .. new  BY <1>2
<1> QED  BY <1>1, <1>2, <1>3

\* A node of a small tree is a node of a bigger one.
LEMMA NodeGrows ==
  ASSUME NEW a \in Nat, NEW b \in Nat, a <= b
  PROVE  Node(a) \subseteq Node(b) /\ Seq(Node(a)) \subseteq Seq(Node(b))
<1>1. 0 .. a \subseteq 0 .. b  OBVIOUS
<1>2. Node(a) \subseteq Node(b)  BY <1>1 DEF Node
<1> QED  BY <1>2

\* A new node is linked to nothing and unlocked.
LEMMA NewNodeFacts ==
  /\ \A size \in Nat : NewNode(TRUE) \in Node(size) /\ NewNode(FALSE) \in Node(size)
  /\ NewNode(TRUE).leaf = TRUE /\ NewNode(FALSE).leaf = FALSE
  /\ \A leaf : NewNode(leaf).ver = 0 /\ NewNode(leaf).count = 0
  /\ ~IsLocked(0)
<1>1. Default \in Entry /\ Null = 0  BY DEF Default, Entry, Null
<1>2. ASSUME NEW size \in Nat, NEW leaf \in BOOLEAN PROVE NewNode(leaf) \in Node(size)
  <2>1. 0 \in 0 .. Fanout /\ 0 \in 0 .. size  BY FanoutFacts
  <2> QED  BY <1>1, <2>1 DEF NewNode, Node
<1>3. \A leaf : NewNode(leaf).leaf = leaf /\ NewNode(leaf).ver = 0 /\ NewNode(leaf).count = 0  BY DEF NewNode
<1>4. ~IsLocked(0)  BY DEF IsLocked, LockedBit
<1> QED  BY <1>2, <1>3, <1>4

\* The first node, a leaf, is the root.
LEMMA PlantStep ==
  ASSUME NEW span, NEW level, NEW t \in Threads, IInv(span, level), Plant(t)
  PROVE  \E level2 : IInv(Append(span, Keys), level2)'
<1>1. th[t].pc = "plant"  BY DEF Plant, At
<1>2. th[t].pc \in SlowPath  BY <1>1 DEF SlowPath, TreeHeld
<1>3. /\ TypeOK /\ th[t] \in Locals /\ th \in [Threads -> Locals] /\ treeVer \in Nat
      /\ Descends(t, span, level)
  BY Start DEF TypeOK
<1>4. th[t].op = "insert"
  <2>1. th[t].pc \in {"upgrade", "count_entry"} \union LeafHeld \union SlowPath  BY <1>2
  <2> QED  BY <2>1, Inserting
<1>5. th[t].grow = FALSE
  <2>1. th[t].pc \in {"lock_tree", "plant", "lock_root", "grow", "release_tree"} \union Walking  BY <1>1
  <2> QED  BY <2>1, NotGrowing
<1>6. root = Null /\ DOMAIN nodes = {} /\ Len(nodes) = 0
  <2>1. root = Null  BY <1>1, <1>3 DEF Descends
  <2>2. DOMAIN nodes = {} /\ Len(nodes) \in Nat /\ DOMAIN nodes = 1 .. Len(nodes)  BY <2>1, Basics
  <2>3. 1 \notin 1 .. Len(nodes)  BY <2>2
  <2> QED  BY <2>1, <2>2, <2>3
<1>7. wins = {}  BY <1>6, Basics DEF History
<1>8. PICK r : r = [th[t] EXCEPT !.pc = "lock_root"]  OBVIOUS
<1>9. PICK x : x = NewNode(TRUE)  OBVIOUS
<1>10. PICK span2, level2 : span2 = Append(span, Keys) /\ level2 = Append(level, 0)  OBVIOUS
<1>11. /\ nodes' = Append(nodes, x) /\ root' = Len(nodes') /\ th' = [th EXCEPT ![t] = r] /\ th'[t] = r
       /\ UNCHANGED <<treeVer, entries, known, wins>>
  BY <1>3, <1>8, <1>9 DEF Plant, Go
<1>12. x \in Node(1) /\ x.leaf = TRUE /\ x.ver = 0 /\ x.count = 0  BY <1>9, NewNodeFacts
<1>13. /\ nodes' \in Seq(Node(1)) /\ Len(nodes') = 1 /\ DOMAIN nodes' = {1} /\ nodes'[1] = x
       /\ nodes' \in Seq(Node(Len(nodes')))
  <2> DEFINE S == Node(1)
  <2>1. nodes \in Seq(S)
    <3>1. nodes \in Seq(Node(0))  BY <1>3, <1>6 DEF TypeOK
    <3> QED  BY <3>1, NodeGrows
  <2>2. x \in S  BY <1>12
  <2> HIDE DEF S
  <2>3. PICK new : new = Len(nodes) + 1  OBVIOUS
  <2>4. nodes' \in Seq(S) /\ Len(nodes') = new /\ DOMAIN nodes' = 1 .. new /\ nodes'[new] = x
    BY <1>11, <2>1, <2>2, <2>3, OneMore
  <2>5. new = 1 /\ 1 .. 1 = {1}  BY <1>6, <2>3
  <2>6. nodes' \in Seq(Node(1)) /\ Len(nodes') = 1  BY <2>4, <2>5 DEF S
  <2> QED  BY <2>4, <2>5, <2>6
<1>14. /\ span2 \in Seq(SUBSET Keys) /\ Len(span2) = 1 /\ span2[1] = Keys /\ DOMAIN span2 = {1}
       /\ level2 \in Seq(Nat) /\ Len(level2) = 1 /\ level2[1] = 0 /\ DOMAIN span = {}
  <2>1. /\ span \in Seq(SUBSET Keys) /\ Len(span) = 0 /\ level \in Seq(Nat) /\ Len(level) = 0
        /\ DOMAIN span = {}
    BY <1>6, Basics DEF Spans
  <2>2. PICK new : new = Len(span) + 1 /\ new = Len(level) + 1  BY <2>1
  <2>3. Keys \in SUBSET Keys /\ 0 \in Nat  OBVIOUS
  <2>4. span2 \in Seq(SUBSET Keys) /\ Len(span2) = new /\ DOMAIN span2 = 1 .. new /\ span2[new] = Keys
    BY <1>10, <2>1, <2>2, <2>3, OneMore
  <2>5. level2 \in Seq(Nat) /\ Len(level2) = new /\ level2[new] = 0
    BY <1>10, <2>1, <2>2, <2>3, OneMore
  <2>6. new = 1 /\ 1 .. 1 = {1}  BY <2>1, <2>2
  <2> QED  BY <2>1, <2>4, <2>5, <2>6
<1>15. r \in Locals' /\ r.pc = "lock_root" /\ r.op = th[t].op /\ r.key = th[t].key /\ r.before = th[t].before /\ r.grow = FALSE
  <2>1. "lock_root" \in Places  BY DEF Places, SlowPath, TreeHeld
  <2>2. r \in Locals /\ r.pc = "lock_root" /\ r.op = th[t].op /\ r.key = th[t].key /\ r.before = th[t].before /\ r.grow = FALSE
    BY <1>3, <1>5, <1>8, <2>1 DEF Locals
  <2>3. 0 .. Len(nodes) \subseteq 0 .. Len(nodes')  BY <1>6, <1>13
  <2>4. Locals \subseteq Locals'  BY <2>3 DEF Locals, Entry, Places
  <2> QED  BY <2>2, <2>4
<1>16. /\ ~HoldsNode(t)' /\ ~HoldsChild(t)' /\ HoldsTree(t) /\ HoldsTree(t)'
  BY <1>1, <1>11, <1>15
     DEF HoldsNode, HoldsChild, HoldsTree, TreeHeld, LeafHeld, Moving, Walking, Splitting, Opening
<1>17. LockStep(t)
  <2>1. \A n : ~Holds(t, n)'  BY <1>16 DEF Holds
  <2>2. \A n \in DOMAIN nodes' : ~IsLocked(nodes'[n].ver)  BY <1>12, <1>13, NewNodeFacts
  <2>3. treeVer' = treeVer  BY <1>11
  <2> QED  BY <1>6, <1>16, <2>1, <2>2, <2>3 DEF LockStep
<1>18. Frame(t, span, level, span2, level2)
  <2>1. wins' = wins /\ known \subseteq known'  BY <1>11
  <2> QED  BY <1>6, <1>14, <1>16, <2>1 DEF Frame
<1>19. Spans(span2, level2)'
  <2>1. root' = 1 /\ nodes' # <<>> /\ root' # Null
    <3>1. 1 \in DOMAIN nodes'  BY <1>13
    <3>2. nodes' # <<>> /\ Null \notin DOMAIN nodes'  BY <1>13, <3>1, NotEmpty
    <3> QED  BY <1>11, <1>13, <3>1, <3>2
  <2>2. \A n \in DOMAIN nodes' : n = 1 /\ nodes'[n].leaf = TRUE /\ level2[n] = 0  BY <1>12, <1>13, <1>14
  <2>3. \A n \in DOMAIN nodes' : level2[n] <= level2[root']  BY <1>14, <2>1, <2>2
  <2> QED  BY <1>13, <1>14, <2>1, <2>2, <2>3 DEF Spans
<1>20. Contents(span2, level2)'
  <2>1. LeafOK(x.keys, x.values, 0, Keys, wins')  BY <1>7, <1>11 DEF LeafOK, Ascending
  <2> QED  BY <1>12, <1>13, <1>14, <2>1 DEF Contents, NodeOK
<1>21. Descends(t, span2, level2)'
  <2>1. /\ r.pc \notin Splitting /\ r.pc \notin Walking
    BY <1>15 DEF Splitting, Opening, Walking
  <2>2. /\ r.pc # "plant" /\ r.pc # "publish_root" /\ r.pc # "grow" /\ r.pc # "slow_room" /\ r.pc # "release_tree"
        /\ r.pc # "split" /\ r.pc \notin {"split", "child_room", "release_parent"} /\ r.pc # "release_parent"
        /\ r.pc # "release_child" /\ r.pc \notin {"grow", "release_tree"}
        /\ r.pc \notin Splitting \union {"lock_child", "child_room", "release_parent", "publish_root", "release_child"}
    BY <1>15, <2>1
  <2>3. root' # Null  BY <1>11, <1>13 DEF Null
  <2> QED  BY <1>4, <1>11, <1>15, <1>16, <2>1, <2>2, <2>3 DEF Descends
<1>22. /\ r.pc \notin Opening \union {"release_child", "lock_child", "child_room"} /\ r.pc \notin Opening
       /\ r.pc \in SlowPath
  BY <1>15 DEF Opening, SlowPath, TreeHeld
<1>23. HasRoom(t, span2, level2)' /\ Opens(t, span2, level2)'  BY <1>11, <1>22, NoClaim, NoOpening
<1>24. Len(nodes) <= Len(nodes') /\ root' \in DOMAIN nodes'  BY <1>6, <1>11, <1>13
<1>25. r.pc \in SlowPath  BY <1>22
<1>26. IInv(span2, level2)'
  BY <1>2, <1>11, <1>13, <1>15, <1>17, <1>18, <1>19, <1>20, <1>21, <1>23, <1>24, <1>25, ReshapeStep
<1> QED  BY <1>10, <1>26

\* A new inner node above the old root, which is its only child for now.
LEMMA GrowStep ==
  ASSUME NEW span, NEW level, NEW t \in Threads, IInv(span, level), Grow(t)
  PROVE  \E level2 : IInv(Append(span, Keys), level2)'
<1>1. th[t].pc = "grow"  BY DEF Grow, At
<1>2. th[t].pc \in SlowPath  BY <1>1 DEF SlowPath, TreeHeld
<1>3. /\ TypeOK /\ th[t] \in Locals /\ th \in [Threads -> Locals] /\ treeVer \in Nat
      /\ Descends(t, span, level) /\ Spans(span, level)
  BY Start, Basics DEF TypeOK
<1>4. th[t].op = "insert" /\ th[t].key \in Keys /\ th[t].key \in Int
  <2>1. th[t].pc \in {"upgrade", "count_entry"} \union LeafHeld \union SlowPath  BY <1>2
  <2> QED  BY <2>1, Inserting
<1>5. th[t].grow = FALSE /\ ~Reduces(t)
  <2>1. th[t].pc \in {"lock_tree", "plant", "lock_root", "grow", "release_tree"} \union Walking  BY <1>1
  <2> QED  BY <2>1, NotGrowing
<1>6. HoldsNode(t) /\ ~HoldsChild(t) /\ HoldsTree(t) /\ th[t].node = root /\ nodes[root].count = Fanout
  <2>1. HoldsNode(t) /\ ~HoldsChild(t) /\ HoldsTree(t)
    BY <1>1 DEF HoldsNode, HoldsChild, HoldsTree, TreeHeld, Splitting, Opening
  <2> QED  BY <1>1, <1>3, <2>1 DEF Descends
<1>7. root \in DOMAIN nodes /\ IsLocked(nodes[root].ver) /\ level[root] \in Nat
  <2>1. Holds(t, root)  BY <1>6 DEF Holds
  <2>2. root \in DOMAIN nodes /\ IsLocked(nodes[root].ver)  BY <2>1, Holding
  <2> QED  BY <2>2, Basics
<1>8. PICK new : new = Len(nodes) + 1  OBVIOUS
<1>9. PICK x : x = [NewNode(FALSE) EXCEPT !.kids[0] = root]  OBVIOUS
<1>10. PICK span2, level2 : span2 = Append(span, Keys) /\ level2 = Append(level, level[root] + 1)  OBVIOUS
<1>11. Len(nodes) \in Nat /\ new \in Nat /\ root \in 0 .. new /\ DOMAIN nodes = 1 .. Len(nodes)
  BY <1>3, <1>7, <1>8, NodeFacts
<1>12. /\ x \in Node(new) /\ x.leaf = FALSE /\ x.ver = 0 /\ x.count = 0 /\ x.kids[0] = root /\ ~IsLocked(x.ver)
       /\ \A i \in 0 .. Fanout - 1 : x.keys[i] \in Int
  <2>1. NewNode(FALSE) \in Node(new) /\ NewNode(FALSE).leaf = FALSE /\ NewNode(FALSE).ver = 0
        /\ NewNode(FALSE).count = 0 /\ ~IsLocked(0)
    BY <1>11, NewNodeFacts
  <2>2. 0 \in 0 .. Fanout  BY FanoutFacts
  <2>3. x \in Node(new) /\ x.leaf = FALSE /\ x.ver = 0 /\ x.count = 0 /\ x.kids[0] = root
    BY <1>9, <1>11, <2>1, <2>2 DEF Node
  <2> QED  BY <2>1, <2>3 DEF Node
<1>13. /\ nodes' = Append(nodes, x) /\ UNCHANGED <<root, treeVer, entries, known, wins>>
  BY <1>9 DEF Grow
<1>14. /\ nodes' \in Seq(Node(Len(nodes'))) /\ Len(nodes') = new
       /\ DOMAIN nodes \subseteq DOMAIN nodes' /\ new \in DOMAIN nodes' /\ new \notin DOMAIN nodes
       /\ \A n \in DOMAIN nodes' : n = new \/ n \in DOMAIN nodes
       /\ nodes'[new] = x /\ \A n \in DOMAIN nodes : nodes'[n] = nodes[n]
  <2> DEFINE S == Node(new)
  <2>1. nodes \in Seq(S)
    <3>1. nodes \in Seq(Node(Len(nodes))) /\ Len(nodes) <= new  BY <1>3, <1>8, <1>11 DEF TypeOK
    <3> QED  BY <1>11, <3>1, NodeGrows
  <2>2. x \in S  BY <1>12
  <2> HIDE DEF S
  <2>3. /\ nodes' \in Seq(S) /\ Len(nodes') = new
        /\ DOMAIN nodes \subseteq DOMAIN nodes' /\ new \in DOMAIN nodes' /\ new \notin DOMAIN nodes
        /\ \A n \in DOMAIN nodes' : n = new \/ n \in DOMAIN nodes
        /\ nodes'[new] = x /\ \A n \in DOMAIN nodes : nodes'[n] = nodes[n]
    BY <1>8, <1>13, <2>1, <2>2, OneMore
  <2>4. nodes' \in Seq(Node(new)) /\ Len(nodes') = new  BY <2>3 DEF S
  <2> QED  BY <2>3, <2>4
<1>15. /\ DOMAIN span = DOMAIN nodes /\ DOMAIN level = DOMAIN nodes
       /\ span2 \in Seq(SUBSET Keys) /\ Len(span2) = new /\ DOMAIN span \subseteq DOMAIN span2
       /\ span2[new] = Keys /\ new \in DOMAIN span2 /\ \A n \in DOMAIN nodes : span2[n] = span[n]
       /\ level2 \in Seq(Nat) /\ Len(level2) = new
       /\ level2[new] = level[root] + 1 /\ \A n \in DOMAIN nodes : level2[n] = level[n] /\ level[n] \in Nat
  <2>1. /\ span \in Seq(SUBSET Keys) /\ Len(span) = Len(nodes) /\ level \in Seq(Nat) /\ Len(level) = Len(nodes)
        /\ DOMAIN span = DOMAIN nodes /\ DOMAIN level = DOMAIN nodes
    BY <1>3, Basics DEF Spans
  <2>2. new = Len(span) + 1 /\ new = Len(level) + 1  BY <1>8, <2>1
  <2>3. Keys \in SUBSET Keys /\ level[root] + 1 \in Nat  BY <1>7
  <2>4. /\ span2 \in Seq(SUBSET Keys) /\ Len(span2) = new /\ DOMAIN span \subseteq DOMAIN span2
        /\ span2[new] = Keys /\ new \in DOMAIN span2 /\ \A n \in DOMAIN span : span2[n] = span[n]
    BY <1>10, <2>1, <2>2, <2>3, OneMore
  <2>5. /\ level2 \in Seq(Nat) /\ Len(level2) = new
        /\ level2[new] = level[root] + 1 /\ \A n \in DOMAIN level : level2[n] = level[n]
    BY <1>10, <2>1, <2>2, <2>3, OneMore
  <2>6. \A n \in DOMAIN nodes : level[n] \in Nat  BY Basics
  <2> QED  BY <2>1, <2>4, <2>5, <2>6
<1>16. PICK r : r = [th[t] EXCEPT !.pc = "split", !.grow = TRUE, !.node = new, !.child = root, !.slot = 0]  OBVIOUS
<1>17. th' = [th EXCEPT ![t] = r] /\ th'[t] = r
  BY <1>3, <1>13, <1>14, <1>16 DEF Grow, Set
<1>18. /\ r \in Locals' /\ r.pc = "split" /\ r.grow /\ r.node = new /\ r.child = root /\ r.slot = 0
       /\ r.op = th[t].op /\ r.key = th[t].key /\ r.before = th[t].before
  <2>1. "split" \in Places  BY DEF Places, SlowPath, Splitting
  <2>2. /\ 0 .. Len(nodes) \subseteq 0 .. Len(nodes') /\ new \in 0 .. Len(nodes') /\ root \in 0 .. Len(nodes')
        /\ 0 \in -1 .. Fanout
    BY <1>8, <1>11, <1>14, FanoutFacts
  <2>3. Locals \subseteq Locals'  BY <2>2 DEF Locals, Entry, Places
  <2>4. th[t] \in Locals'  BY <1>3, <2>3
  <2>5. Entry' = Entry /\ Places' = Places  BY DEF Entry, Places
  <2> QED  BY <1>16, <2>1, <2>2, <2>4 DEF Locals
<1>19. ~HoldsNode(t)' /\ HoldsChild(t)' /\ HoldsTree(t)'
  BY <1>17, <1>18
     DEF HoldsNode, HoldsChild, HoldsTree, TreeHeld, LeafHeld, Moving, Walking, Splitting, Opening
<1>20. LockStep(t)
  <2>1. \A n : Holds(t, n) <=> n = root  BY <1>6 DEF Holds
  <2>2. \A n : Holds(t, n)' <=> n = root  BY <1>17, <1>18, <1>19 DEF Holds
  <2>3. \A n \in DOMAIN nodes' : n \notin DOMAIN nodes => ~IsLocked(nodes'[n].ver) /\ ~Holds(t, n)'
    BY <1>7, <1>12, <1>14, <2>2
  <2>4. \A n \in DOMAIN nodes : nodes'[n].ver = nodes[n].ver /\ (Holds(t, n)' <=> Holds(t, n))
    BY <1>14, <2>1, <2>2
  <2>5. th'[t].child \in DOMAIN nodes'  BY <1>7, <1>14, <1>17, <1>18
  <2>6. treeVer' = treeVer  BY <1>13
  <2> QED  BY <1>6, <1>19, <2>3, <2>4, <2>5, <2>6 DEF LockStep
<1>21. Others(t)  BY <1>3, <1>17 DEF Others
<1>22. Frame(t, span, level, span2, level2)
  <2>1. \A n \in DOMAIN nodes : nodes[n].ver \in Nat  BY <1>3, NodeFacts
  <2>2. r.pc \notin Entered  BY <1>18 DEF Entered, Coupling, InLeaf
  <2>3. \A n \in DOMAIN nodes : ~Takes(t, n)  BY <1>14, <1>17, <2>2 DEF Takes
  <2>4. \A n \in DOMAIN nodes : nodes'[n].ver \in Nat /\ nodes[n].ver <= nodes'[n].ver /\ nodes'[n].leaf = nodes[n].leaf
    BY <1>14, <2>1
  <2>5. root' = root /\ root' # Null /\ level2[root'] \in Nat /\ level[root] <= level2[root']
    <3>1. root # Null  BY <1>3, <1>7, NotEmpty DEF TypeOK
    <3> QED  BY <1>7, <1>13, <1>15, <3>1
  <2>6. known \subseteq known' /\ wins' = wins  BY <1>13
  <2> QED  BY <1>14, <1>15, <2>3, <2>4, <2>5, <2>6 DEF Frame
<1>23. ~Reduced
  <2>1. ASSUME NEW u \in Threads PROVE ~Reduces(u)
    <3>1. CASE u = t  BY <1>5, <3>1
    <3>2. CASE u # t
      <4>1. Reduces(u) => HoldsTree(u)  BY DEF Reduces, HoldsTree, Opening, Splitting, TreeHeld
      <4> QED  BY <1>6, <3>2, <4>1, Apart
    <3> QED  BY <3>1, <3>2
  <2> QED  BY <2>1 DEF Reduced, Reduces
<1>24. span[root] = Keys
  <2>1. root # Null  BY <1>3, <1>7, NotEmpty DEF TypeOK
  <2> QED  BY <1>3, <1>23, <2>1 DEF Spans
<1>25. \A n \in DOMAIN nodes : level[n] <= level[root]
  <2> SUFFICES ASSUME NEW n \in DOMAIN nodes, NEW u \in Threads, Private(u, n) PROVE FALSE
    BY <1>3 DEF Spans
  <2>1. HoldsTree(u)  BY Holding
  <2>2. u = t  BY <1>6, <2>1, Apart
  <2> QED  BY <1>1, <2>2 DEF Private, Splitting, Opening
<1>26. Private(t, new)'  BY <1>17, <1>18 DEF Private, Splitting
<1>27. Spans(span2, level2)'
  <2>1. nodes' # <<>> /\ root' # Null
    <3>1. nodes' # <<>> /\ Null \notin DOMAIN nodes'  BY <1>14, NotEmpty
    <3> QED  BY <1>7, <1>13, <1>14, <3>1
  <2>2. span2[root'] = Keys  BY <1>7, <1>13, <1>15, <1>24
  <2>3. \A n \in DOMAIN nodes' : (nodes'[n].leaf <=> level2[n] = 0)
    <3>1. \A n \in DOMAIN nodes : nodes[n].leaf <=> level[n] = 0  BY <1>3 DEF Spans
    <3>2. ~nodes'[new].leaf /\ level2[new] # 0  BY <1>7, <1>12, <1>14, <1>15
    <3> QED  BY <1>14, <1>15, <3>1, <3>2
  <2>4. \A n \in DOMAIN nodes' : level2[n] <= level2[root'] \/ (\E u \in Threads : Private(u, n))'
    <3>1. \A n \in DOMAIN nodes : level2[n] <= level2[root']  BY <1>7, <1>13, <1>15, <1>25
    <3>2. (\E u \in Threads : Private(u, new))'  BY <1>26
    <3> QED  BY <1>14, <3>1, <3>2
  <2>5. \A m, n \in DOMAIN nodes' : m # n /\ level2[m] = level2[n] => span2[m] \intersect span2[n] = {}
    <3>1. \A m, n \in DOMAIN nodes : m # n /\ level[m] = level[n] => span[m] \intersect span[n] = {}
      BY <1>3 DEF Spans
    <3>2. \A n \in DOMAIN nodes : level2[n] # level2[new]
      <4> TAKE n \in DOMAIN nodes
      <4>1. level2[n] = level[n] /\ level[n] \in Nat /\ level[n] <= level[root]  BY <1>15, <1>25
      <4>2. level2[new] = level[root] + 1  BY <1>15
      <4> QED  BY <1>7, <4>1, <4>2
    <3> QED  BY <1>14, <1>15, <3>1, <3>2
  <2> QED  BY <1>14, <1>15, <2>1, <2>2, <2>3, <2>4, <2>5 DEF Spans
<1>28. Contents(span2, level2)'
  <2> SUFFICES ASSUME NEW k \in DOMAIN nodes', ~Busy(k)'
               PROVE  NodeOK(k, span2, level2)'
    BY DEF Contents
  <2>1. CASE k = new
    <3>1. Segment(Keys, x.keys, 0, 0) = Keys  BY DEF Segment
    <3>2. InnerOK(x.keys, x.kids, 0, Keys, level[root] + 1, span2, level2)
      <4>1. root \in DOMAIN span2 /\ level2[root] = (level[root] + 1) - 1 /\ span2[root] = Keys
        BY <1>7, <1>15, <1>24
      <4>2. \A i \in 0 .. 0 : x.kids[i] = root /\ i = 0  BY <1>12
      <4> QED  BY <3>1, <4>1, <4>2 DEF InnerOK, Ascending
    <3> QED  BY <1>12, <1>14, <1>15, <2>1, <3>2 DEF NodeOK
  <2>2. CASE k # new
    <3>1. k \in DOMAIN nodes  BY <1>14, <2>2
    <3>2. ~Busy(k)
      <4>1. \A u \in Threads \ {t} : th'[u] = th[u]  BY <1>21 DEF Others
      <4>2. th[t].pc \notin Moving \union Opening  BY <1>1 DEF Moving, Opening
      <4>3. \A u \in Threads : Writes(u, k) => Writes(u, k)'  BY <4>1, <4>2 DEF Writes
      <4> QED  BY <4>3 DEF Busy, Writes
    <3>3. NodeOK(k, span, level)  BY <3>1, <3>2 DEF IInv, Contents
    <3>4. nodes'[k] = nodes[k] /\ span2[k] = span[k] /\ level2[k] = level[k] /\ wins' = wins
      BY <1>13, <1>14, <1>15, <3>1
    <3>5. CASE nodes[k].leaf  BY <3>3, <3>4, <3>5 DEF NodeOK
    <3>6. CASE ~nodes[k].leaf
      <4>1. InnerOK(nodes[k].keys, nodes[k].kids, nodes[k].count, span[k], level[k], span, level)
        BY <3>3, <3>6 DEF NodeOK
      <4>2. nodes[k].count \in Nat  BY <1>3, <3>1, NodeFacts
      <4>3. At(t, "split") => k # th[t].node  BY <1>1 DEF At
      <4>4. InnerOK(nodes[k].keys, nodes[k].kids, nodes[k].count, span[k], level[k], span2, level2)
        BY <1>22, <3>1, <4>1, <4>2, <4>3, FrameInner
      <4> QED  BY <3>4, <3>6, <4>4 DEF NodeOK
    <3> QED  BY <3>5, <3>6
  <2> QED  BY <2>1, <2>2
<1>29. Descends(t, span2, level2)'
  <2>1. r.pc \in Splitting /\ r.pc \notin TreeHeld /\ r.pc \notin Walking
    BY <1>18 DEF Splitting, TreeHeld, Walking
  <2>2. /\ r.pc # "plant" /\ r.pc # "publish_root" /\ r.pc # "grow" /\ r.pc # "slow_room" /\ r.pc # "release_tree"
        /\ r.pc # "release_child" /\ r.pc # "release_parent"
    BY <1>18
  <2>3. /\ r.key \in span2[new] /\ r.op = "insert" /\ nodes'[new].count = 0 /\ ~nodes'[new].leaf
        /\ ~IsLocked(nodes'[new].ver)
    BY <1>4, <1>12, <1>14, <1>15, <1>18
  <2>4. root' = root /\ root \in DOMAIN nodes' /\ level2[root] = level2[new] - 1 /\ level2[new] = level2[root] + 1
    BY <1>7, <1>13, <1>14, <1>15
  <2>5. nodes'[root].count = Fanout /\ 0 < Fanout /\ 0 \in 0 .. 0  BY <1>6, <1>7, <1>14, FanoutFacts
  <2>6. ChildIndex(nodes'[new].keys, nodes'[new].count, r.key) = 0 /\ nodes'[new].kids[0] = root
    <3>1. 0 \in 0 .. Fanout /\ r.key \in Int /\ \A i \in 0 .. Fanout - 1 : nodes'[new].keys[i] \in Int
      BY <1>4, <1>12, <1>14, <1>18, FanoutFacts
    <3>2. ChildIndex(nodes'[new].keys, 0, r.key) \in 0 .. 0  BY <3>1, ChildIndexFacts
    <3> QED  BY <1>12, <1>14, <2>3, <3>2
  <2> QED  BY <1>14, <1>15, <1>17, <1>18, <1>19, <2>1, <2>2, <2>3, <2>4, <2>5, <2>6 DEF Descends
<1>30. /\ r.pc \notin Opening \union {"release_child", "lock_child", "child_room"} /\ r.pc \notin Opening
       /\ r.pc \in SlowPath
  BY <1>18 DEF Opening, SlowPath, Splitting
<1>31. HasRoom(t, span2, level2)' /\ Opens(t, span2, level2)'  BY <1>17, <1>30, NoClaim, NoOpening
<1>32. Len(nodes) <= Len(nodes') /\ root' \in DOMAIN nodes'
  BY <1>7, <1>8, <1>11, <1>13, <1>14
<1>33. r.pc \in SlowPath /\ nodes' \in Seq(Node(Len(nodes')))  BY <1>14, <1>30
<1>34. IInv(span2, level2)'
  BY <1>2, <1>13, <1>17, <1>18, <1>20, <1>22, <1>27, <1>28, <1>29, <1>31, <1>32, <1>33, ReshapeStep
<1> QED  BY <1>10, <1>34

\* The right half of a full node, its size, and what it takes from the left one.
From(left) == IF left.leaf THEN Mid ELSE Mid + 1

\* What a split leaves of the full node q, and what it puts into the new one.
LEMMA SplitNodes ==
  ASSUME NEW t \in Threads, TypeOK, Split(t), NEW q \in DOMAIN nodes, q = th[t].child, nodes[q].count = Fanout,
         NEW new, new = Len(nodes) + 1, NEW from, from = From(nodes[q])
  PROVE  /\ nodes' \in Seq(Node(Len(nodes'))) /\ Len(nodes') = new /\ new \in Nat
         /\ DOMAIN nodes \subseteq DOMAIN nodes' /\ new \in DOMAIN nodes' /\ new \notin DOMAIN nodes
         /\ \A n \in DOMAIN nodes' : n = new \/ n \in DOMAIN nodes
         /\ \A n \in DOMAIN nodes : n # q => nodes'[n] = nodes[n]
         /\ nodes'[q].ver = nodes[q].ver /\ nodes'[q].leaf = nodes[q].leaf /\ nodes'[q].count = Mid
         /\ nodes'[q].keys = nodes[q].keys /\ nodes'[q].values = nodes[q].values /\ nodes'[q].kids = nodes[q].kids
         /\ nodes'[new].ver = 0 /\ nodes'[new].leaf = nodes[q].leaf /\ nodes'[new].count = Fanout - from
         /\ \A i \in 0 .. Fanout - from - 1 : nodes'[new].keys[i] = nodes[q].keys[from + i]
         /\ nodes[q].leaf =>
              \A i \in 0 .. Fanout - from - 1 : nodes'[new].values[i] = nodes[q].values[from + i]
         /\ ~nodes[q].leaf => \A i \in 0 .. Fanout - from : nodes'[new].kids[i] = nodes[q].kids[from + i]
         /\ nodes'[q].next = (IF nodes[q].leaf THEN new ELSE nodes[q].next) /\ nodes'[new].next = nodes[q].next
<1>1. PICK left : left = nodes[q]  OBVIOUS
<1>2. /\ left \in Node(Len(nodes)) /\ Len(nodes) \in Nat /\ nodes \in Seq(Node(Len(nodes)))
      /\ new \in Nat /\ Len(nodes) <= new
  <2>1. left \in Node(Len(nodes)) /\ Len(nodes) \in Nat /\ nodes \in Seq(Node(Len(nodes)))  BY <1>1, NodeFacts
  <2> QED  BY <2>1
<1>3. left \in Node(new) /\ nodes \in Seq(Node(new)) /\ left.count = Fanout  BY <1>1, <1>2, NodeGrows
<1>4. /\ left.leaf \in BOOLEAN /\ left.keys \in [0 .. Fanout - 1 -> Int] /\ left.values \in [0 .. Fanout - 1 -> Entry]
      /\ left.kids \in [0 .. Fanout -> 0 .. new] /\ left.next \in 0 .. new
  BY <1>3 DEF Node
<1>5. from \in 1 .. Fanout /\ Fanout \in Nat /\ Mid \in 0 .. Fanout /\ from = From(left)
  <2>1. from = Mid \/ from = Mid + 1  BY DEF From
  <2> QED  BY <1>1, <2>1, FanoutFacts
<1>6. PICK x : x = [left EXCEPT !.count = Mid, !.next = IF left.leaf THEN new ELSE left.next]  OBVIOUS
<1>7. /\ x \in Node(new) /\ x.ver = left.ver /\ x.leaf = left.leaf /\ x.count = Mid
      /\ x.keys = left.keys /\ x.values = left.values /\ x.kids = left.kids
  <2>1. (IF left.leaf THEN new ELSE left.next) \in 0 .. new  BY <1>2, <1>4
  <2> QED  BY <1>3, <1>5, <1>6, <2>1 DEF Node
<1>8. PICK ks : ks = [i \in 0 .. Fanout - 1 |-> IF i < Fanout - from THEN left.keys[from + i] ELSE 0]  OBVIOUS
<1>9. PICK vs : vs = [i \in 0 .. Fanout - 1 |->
                        IF left.leaf /\ i < Fanout - from THEN left.values[from + i] ELSE Default]  OBVIOUS
<1>10. PICK cs : cs = [i \in 0 .. Fanout |->
                         IF ~left.leaf /\ i <= Fanout - from THEN left.kids[from + i] ELSE Null]  OBVIOUS
<1>11. ks \in [0 .. Fanout - 1 -> Int]
  <2>1. \A i \in 0 .. Fanout - 1 : i < Fanout - from => from + i \in 0 .. Fanout - 1  BY <1>5
  <2>2. ASSUME NEW i \in 0 .. Fanout - 1 PROVE (IF i < Fanout - from THEN left.keys[from + i] ELSE 0) \in Int
    <3>1. CASE i < Fanout - from
      <4>1. from + i \in 0 .. Fanout - 1  BY <2>1, <3>1
      <4>2. left.keys[from + i] \in Int  BY <1>4, <4>1
      <4> QED  BY <3>1, <4>2
    <3>2. CASE ~(i < Fanout - from)  BY <3>2
    <3> QED  BY <3>1, <3>2
  <2> QED  BY <1>8, <2>2
<1>12. vs \in [0 .. Fanout - 1 -> Entry]
  <2>1. \A i \in 0 .. Fanout - 1 : i < Fanout - from => from + i \in 0 .. Fanout - 1  BY <1>5
  <2>2. Default \in Entry  BY DEF Default, Entry, Null
  <2> QED  BY <1>4, <1>9, <2>1, <2>2
<1>13. cs \in [0 .. Fanout -> 0 .. new]
  <2>1. \A i \in 0 .. Fanout : i <= Fanout - from => from + i \in 0 .. Fanout  BY <1>5
  <2>2. Null \in 0 .. new  BY <1>2 DEF Null
  <2> QED  BY <1>4, <1>10, <2>1, <2>2
<1>14. PICK y : y = [NewNode(left.leaf) EXCEPT
                      !.count = Fanout - from, !.next = left.next, !.keys = ks, !.values = vs, !.kids = cs]  OBVIOUS
<1>141. y = [ver |-> 0, leaf |-> left.leaf, count |-> Fanout - from, next |-> left.next,
             keys |-> ks, values |-> vs, kids |-> cs]
  <2>1. DOMAIN y = {"ver", "leaf", "count", "next", "keys", "values", "kids"}  BY <1>14 DEF NewNode
  <2>2. /\ y.ver = 0 /\ y.leaf = left.leaf /\ y.count = Fanout - from /\ y.next = left.next
        /\ y.keys = ks /\ y.values = vs /\ y.kids = cs
    BY <1>14 DEF NewNode
  <2>3. y = [n \in {"ver", "leaf", "count", "next", "keys", "values", "kids"} |-> y[n]]  BY <1>14, <2>1 DEF NewNode
  <2> QED  BY <2>2, <2>3
<1>15. y \in Node(new)
  <2>1. 0 \in Nat /\ Fanout - from \in 0 .. Fanout  BY <1>5
  <2> QED  BY <1>4, <1>11, <1>12, <1>13, <1>141, <2>1 DEF Node
<1>16. nodes' = Append([nodes EXCEPT ![q] = x], y)
  <2>1. [nodes EXCEPT ![q].count = Mid, ![q].next = IF left.leaf THEN new ELSE @] = [nodes EXCEPT ![q] = x]
    BY <1>1, <1>6
  <2>2. left.count - from = Fanout - from  BY <1>3
  <2>3. [NewNode(left.leaf) EXCEPT
        !.count = left.count - from,
        !.next = left.next,
        !.keys = [i \in DOMAIN @ |-> IF i < left.count - from THEN left.keys[from + i] ELSE @[i]],
        !.values = [i \in DOMAIN @ |->
                      IF left.leaf /\ i < left.count - from THEN left.values[from + i] ELSE @[i]],
        !.kids = [i \in DOMAIN @ |->
                      IF ~left.leaf /\ i <= left.count - from THEN left.kids[from + i] ELSE @[i]]] = y
    <3>1. PICK b : b = NewNode(left.leaf)  OBVIOUS
    <3>2. /\ b = [ver |-> 0, leaf |-> left.leaf, count |-> 0, next |-> Null, keys |-> b.keys, values |-> b.values,
                  kids |-> b.kids]
          /\ b.keys = [i \in 0 .. Fanout - 1 |-> 0] /\ b.values = [i \in 0 .. Fanout - 1 |-> Default]
          /\ b.kids = [i \in 0 .. Fanout |-> Null]
      BY <3>1 DEF NewNode
    <3>3. [i \in DOMAIN b.keys |-> IF i < left.count - from THEN left.keys[from + i] ELSE b.keys[i]] = ks
      BY <1>8, <2>2, <3>2
    <3>4. [i \in DOMAIN b.values |-> IF left.leaf /\ i < left.count - from THEN left.values[from + i]
                                     ELSE b.values[i]] = vs
      BY <1>9, <2>2, <3>2
    <3>5. [i \in DOMAIN b.kids |-> IF ~left.leaf /\ i <= left.count - from THEN left.kids[from + i]
                                   ELSE b.kids[i]] = cs
      BY <1>10, <2>2, <3>2
    <3>6. [b EXCEPT !.count = left.count - from, !.next = left.next,
             !.keys = [i \in DOMAIN b.keys |-> IF i < left.count - from THEN left.keys[from + i] ELSE b.keys[i]],
             !.values = [i \in DOMAIN b.values |->
                           IF left.leaf /\ i < left.count - from THEN left.values[from + i] ELSE b.values[i]],
             !.kids = [i \in DOMAIN b.kids |->
                         IF ~left.leaf /\ i <= left.count - from THEN left.kids[from + i] ELSE b.kids[i]]] =
          [b EXCEPT !.count = Fanout - from, !.next = left.next, !.keys = ks, !.values = vs, !.kids = cs]
      BY <2>2, <3>3, <3>4, <3>5
    <3>7. [b EXCEPT !.count = Fanout - from, !.next = left.next, !.keys = ks, !.values = vs, !.kids = cs] = y
      BY <1>14, <3>1
    <3> QED  BY <3>1, <3>6, <3>7
  <2> QED  BY <1>1, <1>5, <2>1, <2>3 DEF Split, From
<1>17. PICK ns : ns = [nodes EXCEPT ![q] = x]  OBVIOUS
<1>18. /\ ns \in Seq(Node(new)) /\ Len(ns) = Len(nodes) /\ DOMAIN ns = DOMAIN nodes
       /\ ns[q] = x /\ \A n \in DOMAIN nodes : n # q => ns[n] = nodes[n]
  <2> DEFINE S == Node(new)
  <2>1. nodes \in Seq(S) /\ x \in S  BY <1>3, <1>7
  <2> HIDE DEF S
  <2>2. /\ ns \in Seq(S) /\ Len(ns) = Len(nodes) /\ DOMAIN ns = DOMAIN nodes
        /\ ns[q] = x /\ \A n \in DOMAIN nodes : n # q => ns[n] = nodes[n]
    BY <1>17, <2>1
  <2> QED  BY <2>2 DEF S
<1>19. /\ nodes' \in Seq(Node(new)) /\ Len(nodes') = new /\ DOMAIN ns \subseteq DOMAIN nodes'
       /\ new \in DOMAIN nodes' /\ new \notin DOMAIN ns
       /\ \A n \in DOMAIN nodes' : n = new \/ n \in DOMAIN ns
       /\ nodes'[new] = y /\ \A n \in DOMAIN ns : nodes'[n] = ns[n]
  <2> DEFINE S == Node(new)
  <2>1. ns \in Seq(S) /\ y \in S  BY <1>15, <1>18
  <2> HIDE DEF S
  <2>2. nodes' = Append(ns, y) /\ new = Len(ns) + 1  BY <1>16, <1>17, <1>18
  <2>3. /\ nodes' \in Seq(S) /\ Len(nodes') = new /\ DOMAIN ns \subseteq DOMAIN nodes'
        /\ new \in DOMAIN nodes' /\ new \notin DOMAIN ns
        /\ \A n \in DOMAIN nodes' : n = new \/ n \in DOMAIN ns
        /\ nodes'[new] = y /\ \A n \in DOMAIN ns : nodes'[n] = ns[n]
    BY <2>1, <2>2, OneMore
  <2> QED  BY <2>3 DEF S
<1>20. /\ y.ver = 0 /\ y.leaf = left.leaf /\ y.count = Fanout - from /\ y.keys = ks /\ y.values = vs /\ y.kids = cs
  BY <1>141
<1>21. \A i \in 0 .. Fanout - from - 1 : i \in 0 .. Fanout - 1 /\ i < Fanout - from  BY <1>5
<1>22. \A i \in 0 .. Fanout - from : i \in 0 .. Fanout /\ i <= Fanout - from  BY <1>5
<1>23. \A i \in 0 .. Fanout - from - 1 : y.keys[i] = left.keys[from + i]  BY <1>8, <1>20, <1>21
<1>24. left.leaf => \A i \in 0 .. Fanout - from - 1 : y.values[i] = left.values[from + i]  BY <1>9, <1>20, <1>21
<1>25. ~left.leaf => \A i \in 0 .. Fanout - from : y.kids[i] = left.kids[from + i]  BY <1>10, <1>20, <1>22
<1>26. nodes'[q] = x /\ nodes'[new] = y /\ \A n \in DOMAIN nodes : n # q => nodes'[n] = nodes[n]  BY <1>18, <1>19
<1>27. /\ nodes' \in Seq(Node(Len(nodes'))) /\ Len(nodes') = new /\ new \in Nat
       /\ DOMAIN nodes \subseteq DOMAIN nodes' /\ new \in DOMAIN nodes' /\ new \notin DOMAIN nodes
       /\ \A n \in DOMAIN nodes' : n = new \/ n \in DOMAIN nodes
  BY <1>2, <1>18, <1>19
<1>28. x.next = (IF left.leaf THEN new ELSE left.next) /\ y.next = left.next
  <2>1. left = [f \in DOMAIN left |-> left[f]] /\ "next" \in DOMAIN left  BY <1>3 DEF Node
  <2> QED  BY <1>6, <1>141, <2>1
<1> QED  BY <1>1, <1>7, <1>20, <1>23, <1>24, <1>25, <1>26, <1>27, <1>28

\* A split divides the keys of node q: those from the separator on go to node new.
Divides(q, new, sep, span, level, span2, level2) ==
  /\ span2 \in Seq(SUBSET Keys) /\ Len(span2) = new /\ level2 \in Seq(Nat) /\ Len(level2) = new
  /\ DOMAIN span \subseteq DOMAIN span2 /\ new \in DOMAIN span2
  /\ span2[q] = {k \in span[q] : k < sep} /\ span2[new] = {k \in span[q] : k >= sep}
  /\ level2[new] = level[q]
  /\ \A n \in DOMAIN nodes : level2[n] = level[n] /\ (n # q => span2[n] = span[n])

\* Spans and levels after a split.
LEMMA Dividing ==
  ASSUME NEW span, NEW level, Spans(span, level), NEW q \in DOMAIN nodes,
         NEW new, new = Len(nodes) + 1, NEW sep \in Int,
         DOMAIN span = DOMAIN nodes, DOMAIN level = DOMAIN nodes
  PROVE  \E span2, level2 : Divides(q, new, sep, span, level, span2, level2)
<1>1. /\ span \in Seq(SUBSET Keys) /\ Len(span) = Len(nodes) /\ level \in Seq(Nat) /\ Len(level) = Len(nodes)
  BY DEF Spans
<1>2. PICK half : half = [span EXCEPT ![q] = {k \in span[q] : k < sep}]  OBVIOUS
<1>3. PICK span2, level2 : /\ span2 = Append(half, {k \in span[q] : k >= sep})
                           /\ level2 = Append(level, level[q])
  OBVIOUS
<1>4. span[q] \in SUBSET Keys /\ level[q] \in Nat  BY <1>1
<1>5. {k \in span[q] : k < sep} \in SUBSET Keys /\ {k \in span[q] : k >= sep} \in SUBSET Keys  BY <1>4
<1>6. /\ half \in Seq(SUBSET Keys) /\ Len(half) = Len(nodes) /\ DOMAIN half = DOMAIN span
      /\ half[q] = {k \in span[q] : k < sep} /\ \A n \in DOMAIN nodes : n # q => half[n] = span[n]
  BY <1>1, <1>2, <1>5
<1>7. /\ span2 \in Seq(SUBSET Keys) /\ Len(span2) = new /\ DOMAIN half \subseteq DOMAIN span2 /\ new \in DOMAIN span2
      /\ span2[new] = {k \in span[q] : k >= sep} /\ \A n \in DOMAIN half : span2[n] = half[n]
  <2>1. new = Len(half) + 1  BY <1>6
  <2> QED  BY <1>3, <1>5, <1>6, <2>1, OneMore
<1>8. /\ level2 \in Seq(Nat) /\ Len(level2) = new
      /\ level2[new] = level[q] /\ \A n \in DOMAIN level : level2[n] = level[n]
  <2>1. new = Len(level) + 1  BY <1>1
  <2> QED  BY <1>1, <1>3, <1>4, <2>1, OneMore
<1>9. Divides(q, new, sep, span, level, span2, level2)  BY <1>6, <1>7, <1>8 DEF Divides
<1> QED  BY <1>9

\* Of span and level, only what they say of the children counts.
LEMMA InnerMoved ==
  ASSUME NEW ks, NEW cs, NEW c \in Nat, NEW S, NEW l, NEW span, NEW level, NEW span2, NEW level2,
         InnerOK(ks, cs, c, S, l, span, level),
         \A i \in 0 .. c : cs[i] \in DOMAIN span2 /\ span2[cs[i]] = span[cs[i]] /\ level2[cs[i]] = level[cs[i]]
  PROVE  InnerOK(ks, cs, c, S, l, span2, level2)
BY DEF InnerOK

\* Both halves hold what they are responsible for.
LEMMA HalvesOK ==
  ASSUME NEW span, NEW level, NEW span2, NEW level2, NEW t \in Threads, IInv(span, level), Split(t),
         NEW q \in DOMAIN nodes, q = th[t].child, nodes[q].count = Fanout, NodeOK(q, span, level),
         NEW new, new = Len(nodes) + 1, NEW sep, sep = nodes[q].keys[Mid],
         Divides(q, new, sep, span, level, span2, level2)
  PROVE  /\ NodeOK(q, span2, level2)' /\ NodeOK(new, span2, level2)'
         /\ sep \in span[q] /\ nodes[q].keys[0] \in span[q] /\ nodes[q].keys[0] < sep
<1>1. /\ TypeOK /\ nodes[q].keys \in Arrays /\ span[q] \in SUBSET Int /\ DOMAIN span = DOMAIN nodes
      /\ DOMAIN level = DOMAIN nodes /\ level[q] \in Nat /\ Spans(span, level)
  BY Basics, NodeFacts
<1>2. PICK from : from = From(nodes[q])  OBVIOUS
<1>3. /\ new \notin DOMAIN nodes
      /\ nodes'[q].leaf = nodes[q].leaf /\ nodes'[q].count = Mid
      /\ nodes'[q].keys = nodes[q].keys /\ nodes'[q].values = nodes[q].values /\ nodes'[q].kids = nodes[q].kids
      /\ nodes'[new].leaf = nodes[q].leaf /\ nodes'[new].count = Fanout - from
      /\ \A i \in 0 .. Fanout - from - 1 : nodes'[new].keys[i] = nodes[q].keys[from + i]
      /\ nodes[q].leaf =>
           \A i \in 0 .. Fanout - from - 1 : nodes'[new].values[i] = nodes[q].values[from + i]
      /\ ~nodes[q].leaf => \A i \in 0 .. Fanout - from : nodes'[new].kids[i] = nodes[q].kids[from + i]
  BY <1>1, <1>2, SplitNodes
<1>4. PICK ks, vs, cs, S : ks = nodes[q].keys /\ vs = nodes[q].values /\ cs = nodes[q].kids /\ S = span[q]  OBVIOUS
<1>5. PICK ks2, vs2, cs2 : ks2 = nodes'[new].keys /\ vs2 = nodes'[new].values /\ cs2 = nodes'[new].kids  OBVIOUS
<1>6. /\ span2[q] = {k \in S : k < ks[Mid]} /\ span2[new] = {k \in S : k >= ks[Mid]}
      /\ level2[q] = level[q] /\ level2[new] = level[q]
  BY <1>4 DEF Divides
<1>7. wins' = wins  BY DEF Split
<1>8. ks \in Arrays /\ S \in SUBSET Int  BY <1>1, <1>4
<1>9. CASE nodes[q].leaf
  <2>1. LeafOK(ks, vs, Fanout, S, wins)  BY <1>4, <1>9 DEF NodeOK
  <2>2. from = Mid  BY <1>2, <1>9 DEF From
  <2>3. \A i \in 0 .. Fanout - Mid - 1 : ks2[i] = ks[Mid + i] /\ vs2[i] = vs[Mid + i]
    BY <1>3, <1>4, <1>5, <1>9, <2>2
  <2>4. /\ ks[Mid] \in S /\ ks[0] \in S /\ ks[0] < ks[Mid]
        /\ LeafOK(ks, vs, Mid, {k \in S : k < ks[Mid]}, wins)
        /\ LeafOK(ks2, vs2, Fanout - Mid, {k \in S : k >= ks[Mid]}, wins)
    BY <1>8, <2>1, <2>3, LeafSplit
  <2>5. NodeOK(q, span2, level2)'  BY <1>3, <1>4, <1>6, <1>7, <1>9, <2>4 DEF NodeOK
  <2>6. NodeOK(new, span2, level2)'  BY <1>3, <1>5, <1>6, <1>7, <1>9, <2>2, <2>4 DEF NodeOK
  <2> QED  BY <1>4, <2>4, <2>5, <2>6
<1>10. CASE ~nodes[q].leaf
  <2>0. PICK l : l = level[q]  OBVIOUS
  <2>1. InnerOK(ks, cs, Fanout, S, l, span, level)  BY <1>4, <1>10, <2>0 DEF NodeOK
  <2>2. from = Mid + 1 /\ Fanout - from = Fanout - Mid - 1
    <3>1. from = Mid + 1  BY <1>2, <1>10 DEF From
    <3> QED  BY <3>1, FanoutFacts
  <2>3. \A i \in 0 .. Fanout - Mid - 1 - 1 : ks2[i] = ks[Mid + 1 + i]  BY <1>3, <1>4, <1>5, <2>2
  <2>4. \A i \in 0 .. Fanout - Mid - 1 : cs2[i] = cs[Mid + 1 + i]  BY <1>3, <1>4, <1>5, <1>10, <2>2
  <2>5. /\ ks[Mid] \in S /\ ks[0] \in S /\ ks[0] < ks[Mid]
        /\ InnerOK(ks, cs, Mid, {k \in S : k < ks[Mid]}, l, span, level)
        /\ InnerOK(ks2, cs2, Fanout - Mid - 1, {k \in S : k >= ks[Mid]}, l, span, level)
    BY <1>8, <2>1, <2>3, <2>4, InnerSplit
  <2>6. \A n \in DOMAIN span : level[n] = l - 1 =>
          n \in DOMAIN span2 /\ span2[n] = span[n] /\ level2[n] = level[n]
    <3>1. l # l - 1  BY <1>1, <2>0
    <3> QED  BY <1>1, <2>0, <3>1 DEF Divides
  <2>7. \A i \in 0 .. Mid : cs[i] \in DOMAIN span2 /\ span2[cs[i]] = span[cs[i]] /\ level2[cs[i]] = level[cs[i]]
    BY <2>5, <2>6 DEF InnerOK
  <2>8. \A i \in 0 .. Fanout - Mid - 1 :
          cs2[i] \in DOMAIN span2 /\ span2[cs2[i]] = span[cs2[i]] /\ level2[cs2[i]] = level[cs2[i]]
    BY <2>5, <2>6 DEF InnerOK
  <2>9. Mid \in Nat /\ Fanout - Mid - 1 \in Nat  BY FanoutFacts
  <2>10. PICK L : L = {k \in S : k < ks[Mid]}  OBVIOUS
  <2>11. PICK R : R = {k \in S : k >= ks[Mid]}  OBVIOUS
  <2>12. InnerOK(ks, cs, Mid, L, l, span, level)  BY <2>5, <2>10
  <2>13. InnerOK(ks, cs, Mid, L, l, span2, level2)
    <3>1. Mid \in Nat  BY <2>9
    <3> QED  BY ONLY <3>1, <2>7, <2>12, InnerMoved
  <2>14. PICK size : size = Fanout - Mid - 1  OBVIOUS
  <2>15. InnerOK(ks2, cs2, size, R, l, span, level) /\ size \in Nat  BY <2>5, <2>9, <2>11, <2>14
  <2>16. \A i \in 0 .. size :
          cs2[i] \in DOMAIN span2 /\ span2[cs2[i]] = span[cs2[i]] /\ level2[cs2[i]] = level[cs2[i]]
    BY <2>8, <2>14
  <2>17. InnerOK(ks2, cs2, size, R, l, span2, level2)
    <3>1. size \in Nat  BY <2>15
    <3>2. InnerOK(ks2, cs2, size, R, l, span, level)  BY <2>15
    <3> QED  BY ONLY <3>1, <3>2, <2>16, InnerMoved
  <2>18. NodeOK(q, span2, level2)'  BY <1>3, <1>4, <1>6, <1>10, <2>0, <2>10, <2>13 DEF NodeOK
  <2>19. NodeOK(new, span2, level2)'
    <3>1. nodes'[new].count = size  BY <1>3, <2>2, <2>14
    <3> QED  BY <1>3, <1>5, <1>6, <1>10, <2>0, <2>11, <2>17, <3>1 DEF NodeOK
  <2> QED  BY <1>4, <2>5, <2>18, <2>19
<1> QED  BY <1>9, <1>10

\* The node above a split child, once the separator and the new child are in it.
LEMMA InsertsSplit ==
  ASSUME NEW span, NEW level, NEW span2, NEW level2, NEW t \in Threads, IInv(span, level),
         NEW n \in DOMAIN nodes, n = th[t].node, NEW q \in DOMAIN nodes, q = th[t].child, th[t].pc = "split",
         NEW new, NEW sep \in Int, NEW low \in span[q], sep \in span[q], low < sep,
         Divides(q, new, sep, span, level, span2, level2)
  PROVE  /\ th[t].slot \in 0 .. nodes[n].count
         /\ InnerOK(KeysAfter(nodes[n].keys, nodes[n].count, th[t].slot, sep),
                    KidsAfter(nodes[n].kids, nodes[n].count, th[t].slot, new),
                    nodes[n].count + 1, span[n], level[n], span2, level2)
<1>1. PICK ks, cs, c, s, S, l : /\ ks = nodes[n].keys /\ cs = nodes[n].kids /\ c = nodes[n].count
                                /\ s = th[t].slot /\ S = span[n] /\ l = level[n]
  OBVIOUS
<1>2. /\ level[q] = l - 1 /\ th[t].key \in span[q] /\ NodeOK(n, span, level) /\ ~nodes[n].leaf
      /\ s \in 0 .. c /\ q = cs[s]
  <2>1. th[t].pc \in {"split", "child_room", "release_parent"}  OBVIOUS
  <2> QED  BY <1>1, <2>1, HeldChild
<1>3. InnerOK(ks, cs, c, S, l, span, level)  BY <1>1, <1>2 DEF NodeOK
<1>4. ks \in Arrays /\ c \in 0 .. Fanout - 1 /\ S \in SUBSET Int /\ span[q] \subseteq Int
  <2>1. TypeOK /\ Descends(t, span, level) /\ S \in SUBSET Int /\ span[q] \subseteq Int  BY <1>1, Start, Basics
  <2>2. nodes[n].count < Fanout  BY <2>1 DEF Descends
  <2>3. nodes[n].keys \in Arrays /\ nodes[n].count \in 0 .. Fanout  BY <2>1, NodeFacts
  <2>4. c \in 0 .. Fanout - 1  BY <1>1, <2>2, <2>3, FanoutFacts
  <2> QED  BY <1>1, <2>1, <2>3, <2>4
<1>5. s > 0 => ks[s - 1] < sep
  <2>1. low \in Segment(S, ks, c, s)  BY <1>2, <1>3 DEF InnerOK
  <2>2. s > 0 => ks[s - 1] <= low  BY <2>1 DEF Segment
  <2>3. s > 0 => ks[s - 1] \in Int  BY <1>2, <1>4, FanoutFacts DEF Arrays
  <2>4. low \in Int  BY <1>4
  <2> QED  BY <2>2, <2>3, <2>4
<1>6. /\ span2[cs[s]] = {k \in span[cs[s]] : k < sep} /\ level2[cs[s]] = level[cs[s]] /\ cs[s] \in DOMAIN span2
      /\ span2[new] = {k \in span[cs[s]] : k >= sep} /\ level2[new] = level[cs[s]] /\ new \in DOMAIN span2
  <2>1. DOMAIN span = DOMAIN nodes  BY Basics
  <2> QED  BY <1>2, <2>1 DEF Divides
<1>7. \A i \in 0 .. c : i # s => /\ span2[cs[i]] = span[cs[i]] /\ level2[cs[i]] = level[cs[i]]
                                 /\ cs[i] \in DOMAIN span2
  <2> SUFFICES ASSUME NEW i \in 0 .. c, i # s
               PROVE  span2[cs[i]] = span[cs[i]] /\ level2[cs[i]] = level[cs[i]] /\ cs[i] \in DOMAIN span2
    OBVIOUS
  <2>1. cs[i] \in DOMAIN span /\ DOMAIN span = DOMAIN nodes  BY <1>3, Basics DEF InnerOK
  <2>2. cs[i] # q
    <3>1. SUFFICES ASSUME cs[i] = q PROVE FALSE  OBVIOUS
    <3>2. c \in 0 .. Fanout  BY <1>4, FanoutFacts
    <3>3. th[t].key \in span[cs[i]] /\ th[t].key \in span[cs[s]]  BY <1>2, <3>1
    <3>4. i = s  BY <1>2, <1>3, <1>4, <3>2, <3>3, OneSlot
    <3> QED  BY <3>4
  <2> QED  BY <2>1, <2>2 DEF Divides
<1>8. sep \in span[cs[s]]  BY <1>2
<1>9. s \in 0 .. c  BY <1>2
<1>10. ks \in Arrays /\ c \in 0 .. Fanout - 1 /\ S \in SUBSET Int /\ sep \in Int  BY <1>4
<1>11. Inserts(ks, cs, c, S, l, span, level, span2, level2, s, sep, new)
  BY <1>3, <1>5, <1>6, <1>7, <1>8, <1>9, <1>10 DEF Inserts
<1>12. InnerOK(KeysAfter(ks, c, s, sep), KidsAfter(cs, c, s, new), c + 1, S, l, span2, level2)
  BY <1>11, InnerInsert
<1> QED  BY <1>1, <1>9, <1>12

\* A full node is split: the upper half of its keys moves to a new node, which
\* nobody can reach before the separator is in the node above.
LEMMA SplitStep ==
  ASSUME NEW span, NEW level, NEW t \in Threads, IInv(span, level), Split(t)
  PROVE  \E span2, level2, sep :
           /\ IInv(span2, level2)'
           /\ Divides(th[t].child, Len(nodes) + 1, sep, span, level, span2, level2)
           /\ sep \in span[th[t].child] /\ \E k \in span[th[t].child] : k < sep
<1>0. PICK n : n = th[t].node  OBVIOUS
<1>00. PICK q : q = th[t].child  OBVIOUS
<1>1. th[t].pc = "split"  BY DEF Split, At
<1>2. th[t].pc \in SlowPath  BY <1>1 DEF SlowPath, Splitting
<1>3. /\ TypeOK /\ th[t] \in Locals /\ th \in [Threads -> Locals] /\ treeVer \in Nat
      /\ Descends(t, span, level) /\ Spans(span, level) /\ th[t].grow \in BOOLEAN
  BY Start, Basics, ThreadFacts DEF TypeOK
<1>4. th[t].op = "insert" /\ th[t].key \in Int
  <2>1. th[t].pc \in {"upgrade", "count_entry"} \union LeafHeld \union SlowPath  BY <1>2
  <2> QED  BY <2>1, Inserting
<1>5. /\ n \in DOMAIN nodes /\ q \in DOMAIN nodes /\ level[q] = level[n] - 1
      /\ th[t].key \in span[n] /\ th[t].key \in span[q] /\ span[q] \subseteq span[n] /\ ~nodes[n].leaf
      /\ th[t].slot \in 0 .. nodes[n].count /\ q = nodes[n].kids[th[t].slot]
  <2>1. th[t].pc \in {"split", "child_room", "release_parent"}  BY <1>1
  <2> QED  BY <1>0, <1>00, <2>1, HeldChild
<1>6. /\ level[n] \in Nat /\ level[q] \in Nat /\ q # n /\ DOMAIN span = DOMAIN nodes /\ DOMAIN level = DOMAIN nodes
      /\ \A k \in DOMAIN nodes : span[k] \subseteq Int /\ level[k] \in Nat
  <2>1. level[n] \in Nat /\ level[q] \in Nat  BY <1>5, Basics
  <2> QED  BY <1>5, <2>1, Basics
<1>7. /\ nodes[q].count = Fanout /\ nodes[n].count < Fanout /\ nodes[n].count \in Nat
      /\ (th[t].grow => nodes[n].count = 0)
  <2>1. nodes[n].count \in 0 .. Fanout  BY <1>3, <1>5, NodeFacts
  <2> QED  BY <1>0, <1>00, <1>1, <1>3, <2>1 DEF Descends, Splitting
<1>8. HoldsChild(t) /\ (HoldsNode(t) <=> ~th[t].grow) /\ (HoldsTree(t) <=> th[t].grow)
  BY <1>1 DEF HoldsNode, HoldsChild, HoldsTree, TreeHeld, LeafHeld, Moving, Walking, Splitting, Opening
<1>9. Holds(t, q) /\ level[q] <= level[root] /\ IsLocked(nodes[q].ver)
  <2>1. Holds(t, q)  BY <1>00, <1>8 DEF Holds
  <2> QED  BY <2>1, Holding
<1>10. root # Null /\ root \in DOMAIN nodes /\ level[root] \in Nat
  <2>1. DOMAIN nodes # {}  BY <1>5
  <2> QED  BY <2>1, Basics
<1>11. NodeOK(q, span, level)
  <2>1. Holds(t, q) \/ Private(t, q)  BY <1>9
  <2>2. q # th[t].node \/ th[t].pc \notin Moving \union Opening  BY <1>0, <1>6
  <2> QED  BY <2>1, <2>2, HeldOK
<1>12. PICK new : new = Len(nodes) + 1  OBVIOUS
<1>13. PICK sep : sep = nodes[q].keys[Mid]  OBVIOUS
<1>14. sep \in Int /\ nodes[q].keys \in Arrays
  <2>1. nodes[q].keys \in Arrays /\ Mid \in 0 .. Fanout - 1  BY <1>3, <1>5, NodeFacts, FanoutFacts
  <2> QED  BY <1>13, <2>1 DEF Arrays
<1>15. PICK span2, level2 : Divides(q, new, sep, span, level, span2, level2)
  BY <1>3, <1>5, <1>6, <1>12, <1>14, Dividing
<1>16. PICK from : from = From(nodes[q])  OBVIOUS
<1>17. from \in 1 .. Fanout
  <2>1. from = Mid \/ from = Mid + 1  BY <1>16 DEF From
  <2> QED  BY <2>1, FanoutFacts
<1>18. /\ nodes' \in Seq(Node(Len(nodes'))) /\ Len(nodes') = new /\ new \in Nat
       /\ DOMAIN nodes \subseteq DOMAIN nodes' /\ new \in DOMAIN nodes' /\ new \notin DOMAIN nodes
       /\ \A k \in DOMAIN nodes' : k = new \/ k \in DOMAIN nodes
       /\ \A k \in DOMAIN nodes : k # q => nodes'[k] = nodes[k]
       /\ nodes'[q].ver = nodes[q].ver /\ nodes'[q].leaf = nodes[q].leaf /\ nodes'[q].count = Mid
       /\ nodes'[new].ver = 0 /\ nodes'[new].leaf = nodes[q].leaf /\ nodes'[new].count = Fanout - from
  <2>1. TypeOK  BY <1>3
  <2>2. q \in DOMAIN nodes  BY <1>5
  <2>3. nodes[q].count = Fanout  BY <1>7
  <2>4. Split(t)  OBVIOUS
  <2>5. t \in Threads  OBVIOUS
  <2> QED  BY ONLY <1>00, <1>12, <1>16, <2>1, <2>2, <2>3, <2>4, <2>5, SplitNodes
<1>19. /\ NodeOK(q, span2, level2)' /\ NodeOK(new, span2, level2)'
       /\ sep \in span[q] /\ nodes[q].keys[0] \in span[q] /\ nodes[q].keys[0] < sep
  BY <1>00, <1>5, <1>7, <1>11, <1>12, <1>13, <1>15, HalvesOK
<1>20. InnerOK(KeysAfter(nodes[n].keys, nodes[n].count, th[t].slot, sep),
               KidsAfter(nodes[n].kids, nodes[n].count, th[t].slot, new),
               nodes[n].count + 1, span[n], level[n], span2, level2)
  <2>1. PICK low : low = nodes[q].keys[0]  OBVIOUS
  <2>2. low \in span[q] /\ sep \in span[q] /\ low < sep  BY <1>19, <2>1
  <2> QED  BY <1>0, <1>00, <1>1, <1>5, <1>14, <1>15, <2>2, InsertsSplit
<1>21. nodes'[n] = nodes[n]  BY <1>5, <1>6, <1>18
<1>22. PICK r : r = [th[t] EXCEPT !.pc = "shift_child", !.sep = sep, !.right = new, !.count = nodes[n].count]
  OBVIOUS
<1>23. /\ th' = [th EXCEPT ![t] = r] /\ th'[t] = r
       /\ UNCHANGED <<root, treeVer, entries, known, wins>>
  BY <1>0, <1>00, <1>3, <1>12, <1>13, <1>22 DEF Split, Set
<1>24. /\ r \in Locals' /\ r.pc = "shift_child" /\ r.grow = th[t].grow /\ r.node = n /\ r.child = q
       /\ r.slot = th[t].slot /\ r.sep = sep /\ r.right = new /\ r.count = nodes[n].count
       /\ r.op = th[t].op /\ r.key = th[t].key /\ r.before = th[t].before
  <2>1. "shift_child" \in Places  BY DEF Places, SlowPath, Splitting, Opening
  <2>2. Len(nodes) \in Nat  BY <1>3, NodeFacts
  <2>3. 0 .. Len(nodes) \subseteq 0 .. Len(nodes') /\ new \in 0 .. Len(nodes')  BY <1>12, <1>18, <2>2
  <2>4. th[t] \in Locals'  BY <1>3, <2>3 DEF Locals, Entry, Places
  <2>5. nodes[n].count \in 0 .. Fanout  BY <1>3, <1>5, NodeFacts
  <2>6. Entry' = Entry /\ Places' = Places  BY DEF Entry, Places
  <2> QED  BY <1>0, <1>00, <1>14, <1>22, <2>1, <2>3, <2>4, <2>5 DEF Locals
<1>25. HoldsChild(t)' /\ (HoldsNode(t)' <=> ~th[t].grow) /\ (HoldsTree(t)' <=> th[t].grow)
  BY <1>23, <1>24
     DEF HoldsNode, HoldsChild, HoldsTree, TreeHeld, LeafHeld, Moving, Walking, Splitting, Opening
<1>26. LockStep(t)
  <2>1. \A k : Holds(t, k)' <=> Holds(t, k)
    <3>1. \A k : Holds(t, k) <=> (~th[t].grow /\ k = n) \/ k = q  BY <1>0, <1>00, <1>8 DEF Holds
    <3>2. \A k : Holds(t, k)' <=> (~th[t].grow /\ k = n) \/ k = q  BY <1>23, <1>24, <1>25 DEF Holds
    <3> QED  BY <3>1, <3>2
  <2>2. ~Holds(t, new)
    <3>1. Holds(t, new) => new \in DOMAIN nodes  BY Holding
    <3> QED  BY <1>18, <3>1
  <2>3. \A k \in DOMAIN nodes' : k \notin DOMAIN nodes => ~IsLocked(nodes'[k].ver) /\ ~Holds(t, k)'
    BY <1>18, <2>1, <2>2, NewNodeFacts
  <2>4. \A k \in DOMAIN nodes : nodes'[k].ver = nodes[k].ver /\ (Holds(t, k)' <=> Holds(t, k))
    BY <1>18, <2>1
  <2>5. th'[t].child \in DOMAIN nodes' /\ th'[t].node \in DOMAIN nodes'  BY <1>5, <1>18, <1>23, <1>24
  <2>6. treeVer' = treeVer  BY <1>23
  <2> QED  BY <1>8, <1>25, <2>3, <2>4, <2>5, <2>6 DEF LockStep
<1>27. Others(t)  BY <1>3, <1>23 DEF Others
<1>28. \A k \in DOMAIN nodes : level2[k] = level[k] /\ (k # q => span2[k] = span[k]) /\ span2[k] \subseteq span[k]
  BY <1>15 DEF Divides
<1>29. r.pc \notin Entered  BY <1>24 DEF Entered, Coupling, InLeaf
<1>30. Frame(t, span, level, span2, level2)
  <2>1. \A k \in DOMAIN nodes : nodes[k].ver \in Nat  BY <1>3, NodeFacts
  <2>2. \A k \in DOMAIN nodes : k # q => ~Takes(t, k)  BY <1>18, <1>23, <1>29 DEF Takes
  <2>3. ~Foreign(t, q)  BY <1>9 DEF Foreign
  <2>4. \A k \in DOMAIN nodes : nodes'[k].ver \in Nat /\ nodes[k].ver <= nodes'[k].ver /\ nodes'[k].leaf = nodes[k].leaf
    BY <1>18, <2>1
  <2>5. \A k \in DOMAIN nodes : Foreign(t, k) => nodes'[k] = nodes[k]  BY <1>18, <2>3
  <2>6. root' = root /\ root' # Null /\ level2[root'] \in Nat /\ level[root] <= level2[root']
    BY <1>10, <1>23, <1>28
  <2>7. known \subseteq known' /\ wins' = wins  BY <1>23
  <2>8. \A k \in DOMAIN nodes : span2[k] = span[k] \/ (At(t, "split") /\ k = th[t].child)
    BY <1>00, <1>1, <1>28 DEF At
  <2>9. DOMAIN span \subseteq DOMAIN span2  BY <1>15 DEF Divides
  <2> QED  BY <1>18, <1>28, <2>2, <2>3, <2>4, <2>5, <2>6, <2>7, <2>8, <2>9 DEF Frame
<1>31. Private(t, n)' <=> th[t].grow  BY <1>23, <1>24 DEF Private, Splitting, Opening
<1>32. Spans(span2, level2)'
  <2>1. nodes' # <<>> /\ root' # Null
    <3>1. nodes' # <<>> /\ Null \notin DOMAIN nodes'  BY <1>18, NotEmpty
    <3> QED  BY <1>10, <1>23, <3>1
  <2>2. ~Reduced' => span2[root'] = Keys
    <3> SUFFICES ASSUME ~Reduced' PROVE span2[root] = Keys  BY <1>23
    <3>1. ~Reduces(t)'  BY DEF Reduced, Reduces
    <3>2. ~th[t].grow  BY <1>23, <1>24, <3>1 DEF Reduces, Opening
    <3>3. level[n] <= level[root]  BY <1>0, <1>3, <1>8, <3>2 DEF Descends
    <3>4. q # root  BY <1>5, <1>6, <1>10, <3>3
    <3>5. ~Reduced
      <4>1. \A u \in Threads \ {t} : Reduces(u) => Reduces(u)'  BY <1>27 DEF Others, Reduces
      <4>2. ~Reduces(t)  BY <3>2 DEF Reduces
      <4> QED  BY <4>1, <4>2 DEF Reduced, Reduces
    <3>6. span[root] = Keys  BY <1>3, <1>10, <3>5 DEF Spans
    <3> QED  BY <1>10, <1>28, <3>4, <3>6
  <2>3. \A k \in DOMAIN nodes' : (nodes'[k].leaf <=> level2[k] = 0)
    <3>1. \A k \in DOMAIN nodes : nodes[k].leaf <=> level[k] = 0  BY <1>3 DEF Spans
    <3>2. nodes'[new].leaf = nodes[q].leaf /\ level2[new] = level[q]  BY <1>15, <1>18 DEF Divides
    <3>3. \A k \in DOMAIN nodes : nodes'[k].leaf = nodes[k].leaf  BY <1>18
    <3>4. nodes'[new].leaf <=> level2[new] = 0  BY <1>5, <3>1, <3>2
    <3> QED  BY <1>18, <1>28, <3>1, <3>3, <3>4
  <2>4. \A k \in DOMAIN nodes' : level2[k] <= level2[root'] \/ (\E u \in Threads : Private(u, k))'
    <3>1. level2[new] <= level2[root]  BY <1>9, <1>10, <1>15, <1>28 DEF Divides
    <3>2. ASSUME NEW k \in DOMAIN nodes PROVE level2[k] <= level2[root] \/ (\E u \in Threads : Private(u, k))'
      <4>1. CASE level[k] <= level[root]  BY <1>10, <1>28, <4>1
      <4>2. CASE \E u \in Threads : Private(u, k)
        <5>1. PICK u \in Threads : Private(u, k)  BY <4>2
        <5>2. CASE u = t
          <6>1. th[t].grow /\ k = n  BY <1>0, <5>1, <5>2 DEF Private
          <6>2. Private(t, n)'  BY <1>31, <6>1
          <6>3. Private(t, k)'  BY <6>1, <6>2
          <6> QED  BY <6>3
        <5>3. CASE u # t
          <6>1. th'[u] = th[u]  BY <1>27, <5>3 DEF Others
          <6>2. Private(u, k)'  BY <5>1, <6>1 DEF Private
          <6> QED  BY <6>2
        <5> QED  BY <5>2, <5>3
      <4> QED  BY <1>3, <4>1, <4>2 DEF Spans
    <3> QED  BY <1>18, <1>23, <3>1, <3>2
  <2>5. \A m, k \in DOMAIN nodes' : m # k /\ level2[m] = level2[k] => span2[m] \intersect span2[k] = {}
    <3>1. \A m, k \in DOMAIN nodes : m # k /\ level[m] = level[k] => span[m] \intersect span[k] = {}
      BY <1>3 DEF Spans
    <3>2. \A m, k \in DOMAIN nodes : m # k /\ level2[m] = level2[k] => span2[m] \intersect span2[k] = {}
      BY <1>28, <3>1
    <3>3. \A k \in DOMAIN nodes : level2[k] = level2[new] => span2[k] \intersect span2[new] = {}
      <4> SUFFICES ASSUME NEW k \in DOMAIN nodes, level2[k] = level2[new], NEW x \in span2[k], x \in span2[new]
                   PROVE FALSE
        OBVIOUS
      <4>1. x \in span[q] /\ x >= sep  BY <1>15 DEF Divides
      <4>2. x \in span[k] /\ level[k] = level[q]  BY <1>15, <1>28 DEF Divides
      <4>3. k = q  BY <1>5, <3>1, <4>1, <4>2
      <4>4. x < sep  BY <1>15, <4>3 DEF Divides
      <4>5. x \in Int  BY <1>5, <1>6, <4>1
      <4> QED  BY <1>14, <4>1, <4>4, <4>5
    <3> QED  BY <1>18, <3>2, <3>3
  <2>6. span2 \in Seq(SUBSET Keys) /\ Len(span2) = new /\ level2 \in Seq(Nat) /\ Len(level2) = new
    BY <1>15 DEF Divides
  <2> QED  BY <1>18, <2>1, <2>2, <2>3, <2>4, <2>5, <2>6 DEF Spans
<1>33. Contents(span2, level2)'
  <2> SUFFICES ASSUME NEW k \in DOMAIN nodes', ~Busy(k)'
               PROVE  NodeOK(k, span2, level2)'
    BY DEF Contents
  <2>1. CASE k = new  BY <1>19, <2>1
  <2>2. CASE k = q  BY <1>19, <2>2
  <2>3. CASE k # new /\ k # q
    <3>1. k \in DOMAIN nodes  BY <1>18, <2>3
    <3>2. k # n
      <4>1. th'[t].pc \in Moving \union Opening /\ th'[t].node = n  BY <1>23, <1>24 DEF Opening
      <4> QED  BY <4>1 DEF Busy
    <3>3. ~Busy(k)
      <4>1. \A u \in Threads \ {t} : th'[u] = th[u]  BY <1>27 DEF Others
      <4>2. th[t].pc \notin Moving \union Opening  BY <1>1 DEF Moving, Opening
      <4>3. \A u \in Threads : Writes(u, k) => Writes(u, k)'  BY <4>1, <4>2 DEF Writes
      <4> QED  BY <4>3 DEF Busy, Writes
    <3>4. NodeOK(k, span, level)  BY <3>1, <3>3 DEF IInv, Contents
    <3>5. nodes'[k] = nodes[k] /\ span2[k] = span[k] /\ level2[k] = level[k] /\ wins' = wins
      BY <1>18, <1>23, <1>28, <2>3, <3>1
    <3>6. CASE nodes[k].leaf  BY <3>4, <3>5, <3>6 DEF NodeOK
    <3>7. CASE ~nodes[k].leaf
      <4>1. InnerOK(nodes[k].keys, nodes[k].kids, nodes[k].count, span[k], level[k], span, level)
        BY <3>4, <3>7 DEF NodeOK
      <4>2. nodes[k].count \in Nat  BY <1>3, <3>1, NodeFacts
      <4>3. At(t, "split") => k # th[t].node  BY <1>0, <3>2
      <4>4. InnerOK(nodes[k].keys, nodes[k].kids, nodes[k].count, span[k], level[k], span2, level2)
        BY <1>30, <3>1, <4>1, <4>2, <4>3, FrameInner
      <4> QED  BY <3>5, <3>7, <4>4 DEF NodeOK
    <3> QED  BY <3>6, <3>7
  <2> QED  BY <2>1, <2>2, <2>3
<1>34. Descends(t, span2, level2)'
  <2>1. r.pc \in Splitting /\ r.pc \notin TreeHeld /\ r.pc \notin Walking
    BY <1>24 DEF Splitting, Opening, TreeHeld, Walking
  <2>2. /\ r.pc # "plant" /\ r.pc # "publish_root" /\ r.pc # "grow" /\ r.pc # "slow_room" /\ r.pc # "release_tree"
        /\ r.pc # "release_child" /\ r.pc # "release_parent" /\ r.pc # "split" /\ r.pc # "child_room"
    BY <1>24
  <2>3. span2[n] = span[n] /\ level2[n] = level[n] /\ level2[q] = level[q] /\ root' = root /\ level2[root] = level[root]
    BY <1>5, <1>6, <1>10, <1>23, <1>28
  <2>4. r.key \in span2[n] /\ r.op = "insert" /\ ~nodes'[n].leaf  BY <1>4, <1>5, <1>21, <1>24, <2>3
  <2>5. ~th[t].grow => level2[n] <= level2[root']  BY <1>0, <1>3, <1>8, <2>3 DEF Descends
  <2>6. th[t].grow => /\ q = root' /\ span2[n] = Keys /\ level2[n] = level2[root'] + 1 /\ ~IsLocked(nodes'[n].ver)
                      /\ nodes'[n].count = 0
    BY <1>0, <1>00, <1>1, <1>3, <1>7, <1>21, <2>3 DEF Descends
  <2>7. level2[q] = level2[n] - 1 /\ n \in DOMAIN nodes' /\ q \in DOMAIN nodes'  BY <1>5, <1>18, <2>3
  <2> QED  BY <1>23, <1>24, <1>25, <2>1, <2>2, <2>4, <2>5, <2>6, <2>7 DEF Descends
<1>35. Opens(t, span2, level2)'
  <2>1. nodes'[q].count < Fanout  BY <1>18, FanoutFacts
  <2>2. r.count \in r.slot .. nodes'[n].count /\ r.slot \in 0 .. nodes'[n].count /\ nodes'[n].count < Fanout
    BY <1>5, <1>7, <1>21, <1>24
  <2>3. InnerOK(KeysAfter(nodes'[n].keys, r.count, r.slot, r.sep), KidsAfter(nodes'[n].kids, r.count, r.slot, r.right),
                nodes'[n].count + 1, span2[n], level2[n], span2, level2)
    BY <1>5, <1>6, <1>20, <1>21, <1>24, <1>28
  <2>4. r.pc # "store_child" /\ r.pc # "count_child"  BY <1>24
  <2> QED  BY <1>23, <1>24, <2>1, <2>2, <2>3, <2>4 DEF Opens
<1>36. HasRoom(t, span2, level2)'
  <2>1. nodes'[n].kids[r.slot] = q  BY <1>5, <1>21, <1>24
  <2>2. new \in DOMAIN nodes' /\ level2[new] = level2[q]  BY <1>5, <1>15, <1>18 DEF Divides
  <2>3. r.key \in span2[q] \union span2[new]
    <3>1. r.key \in span[q] /\ r.key \in Int  BY <1>4, <1>5, <1>24
    <3>2. r.key < sep \/ r.key >= sep  BY <1>14, <3>1
    <3> QED  BY <1>15, <3>1, <3>2 DEF Divides
  <2>4. ChildHasRoom(t, new, span2, level2)'
    <3>1. nodes'[new].count < Fanout  BY <1>17, <1>18, FanoutFacts
    <3>2. Untouched(new)'
      <4>1. ~IsLocked(nodes'[new].ver)  BY <1>18, NewNodeFacts
      <4>2. ASSUME NEW u \in Threads, th'[u].pc \in Entered, th'[u].node = new PROVE FALSE
        <5>1. u # t  BY <1>23, <1>29, <4>2
        <5>2. th'[u] = th[u]  BY <1>27, <5>1 DEF Others
        <5>3. SeesNode(u, span, level)  BY Start
        <5>4. new \in DOMAIN nodes  BY <4>2, <5>2, <5>3 DEF SeesNode
        <5> QED  BY <1>18, <5>4
      <4> QED  BY <4>1, <4>2 DEF Untouched
    <3>3. level2[new] = level2[n] - 1  BY <1>5, <1>28, <2>2
    <3>4. span2[new] \subseteq span2[n]
      <4>1. span2[new] \subseteq span[q]  BY <1>15 DEF Divides
      <4> QED  BY <1>5, <1>6, <1>28, <4>1
    <3>5. th'[t].node = n  BY <1>23, <1>24
    <3> QED  BY <2>2, <3>1, <3>2, <3>3, <3>4, <3>5 DEF ChildHasRoom
  <2>5. r.pc # "count_child" /\ r.pc # "release_child" /\ r.pc # "lock_child" /\ r.pc # "child_room"  BY <1>24
  <2> QED  BY <1>23, <1>24, <2>1, <2>2, <2>3, <2>4, <2>5 DEF HasRoom, ChildHasRoom, Untouched
<1>37. Len(nodes) <= Len(nodes') /\ root' \in DOMAIN nodes' /\ r.pc \in SlowPath /\ nodes' \in Seq(Node(Len(nodes')))
  <2>1. Len(nodes) \in Nat  BY <1>3, NodeFacts
  <2>2. r.pc \in SlowPath  BY <1>24 DEF SlowPath, Splitting, Opening
  <2> QED  BY <1>10, <1>12, <1>18, <1>23, <2>1, <2>2
<1>38. IInv(span2, level2)'
  BY <1>2, <1>23, <1>24, <1>26, <1>30, <1>32, <1>33, <1>34, <1>35, <1>36, <1>37, ReshapeStep
<1>39. Divides(th[t].child, Len(nodes) + 1, sep, span, level, span2, level2)  BY <1>00, <1>12, <1>15
<1>40. sep \in span[th[t].child] /\ \E k \in span[th[t].child] : k < sep  BY <1>00, <1>19
<1> QED  BY <1>38, <1>39, <1>40

----------------------------------------------------------------------------
(* The trees to begin with.                                                 *)

\* The images of a finite set are finitely many.
LEMMA FiniteImage ==
  ASSUME NEW S, IsFiniteSet(S), NEW T, NEW f \in [S -> T]
  PROVE  IsFiniteSet({f[x] : x \in S})
<1> DEFINE R == {f[x] : x \in S}
<1>1. f \in [S -> R]  OBVIOUS
<1>2. \A y \in R : \E x \in S : f[x] = y  OBVIOUS
<1>3. f \in Surjection(S, R)  BY <1>1, <1>2 DEF Surjection
<1> QED  BY <1>3, FS_Surjection

\* As many keys as entries are in the leaves of a tree.
LEMMA StoredFinite ==
  ASSUME NEW tree \in Trees
  PROVE  /\ IsFiniteSet(Stored(tree)) /\ IsFiniteSet(StoredEntries(tree))
         /\ Cardinality(Stored(tree)) \in Nat /\ Cardinality(StoredEntries(tree)) = Cardinality(Stored(tree))
<1>1. WellFormed(tree)  BY TreesAssumption
<1> DEFINE ns == tree.nodes
           L == {m \in DOMAIN ns : ns[m].leaf}
           Of(n) == {ns[n].keys[i] : i \in 0 .. ns[n].count - 1}
<1>2. ns \in Seq(Node(Len(ns)))  BY <1>1 DEF WellFormed
<1>3. Len(ns) \in Nat /\ DOMAIN ns = 1 .. Len(ns) /\ \A n \in DOMAIN ns : ns[n] \in Node(Len(ns))
  <2> DEFINE S == Node(Len(ns))
  <2> HIDE DEF ns, S
  <2>1. ns \in Seq(S)  BY <1>2 DEF S
  <2>2. Len(ns) \in Nat /\ DOMAIN ns = 1 .. Len(ns) /\ \A n \in DOMAIN ns : ns[n] \in S  BY <2>1
  <2> QED  BY <2>2 DEF S
<1> HIDE DEF ns
<1>4. IsFiniteSet(L)
  <2>1. IsFiniteSet(DOMAIN ns)  BY <1>3, FS_Interval
  <2> QED  BY <2>1, FS_Subset
<1>5. \A n \in L : IsFiniteSet(Of(n))
  <2> SUFFICES ASSUME NEW n \in L PROVE IsFiniteSet(Of(n))  OBVIOUS
  <2>1. ns[n].keys \in [0 .. Fanout - 1 -> Int] /\ ns[n].count \in 0 .. Fanout  BY <1>3 DEF Node
  <2>2. PICK S : S = 0 .. ns[n].count - 1  OBVIOUS
  <2>3. PICK f : f = [i \in S |-> ns[n].keys[i]]  OBVIOUS
  <2>4. IsFiniteSet(S)
    <3>1. 0 \in Int /\ ns[n].count - 1 \in Int  BY <2>1, FanoutFacts
    <3> QED  BY <2>2, <3>1, FS_Interval
  <2>5. f \in [S -> Int]
    <3>1. \A i \in S : i \in 0 .. Fanout - 1  BY <2>1, <2>2, FanoutFacts
    <3> QED  BY <2>1, <2>3, <3>1
  <2>6. IsFiniteSet({f[i] : i \in S})  BY <2>4, <2>5, FiniteImage
  <2>7. {f[i] : i \in S} = Of(n)  BY <2>2, <2>3
  <2> QED  BY <2>6, <2>7
<1>6. IsFiniteSet(Stored(tree))
  <2>1. PICK F : F = [n \in L |-> Of(n)]  OBVIOUS
  <2>2. PICK T : T = {Of(n) : n \in L}  OBVIOUS
  <2>3. F \in [L -> T]  BY <2>1, <2>2
  <2>4. IsFiniteSet({F[n] : n \in L})
    <3>1. PICK M : M = L  OBVIOUS
    <3>2. IsFiniteSet(M)  BY <1>4, <3>1
    <3>3. F \in [M -> T]  BY <2>3, <3>1
    <3>4. IsFiniteSet({F[n] : n \in M})  BY ONLY <3>2, <3>3, FiniteImage
    <3> QED  BY <3>1, <3>4
  <2>5. {F[n] : n \in L} = T  BY <2>1, <2>2
  <2>6. \A S \in T : IsFiniteSet(S)  BY <1>5, <2>2
  <2>7. IsFiniteSet(UNION T)  BY <2>4, <2>5, <2>6, FS_UNION
  <2>8. Stored(tree) = UNION T  BY <2>2 DEF Stored, ns
  <2> QED  BY <2>7, <2>8
<1>7. ExistsBijection(Stored(tree), StoredEntries(tree))
  <2>1. PICK A, B : A = Stored(tree) /\ B = StoredEntries(tree)  OBVIOUS
  <2>2. B = {[key |-> k, by |-> Null] : k \in A}  BY <2>1 DEF StoredEntries
  <2>3. PICK f : f = [k \in A |-> [key |-> k, by |-> Null]]  OBVIOUS
  <2>4. f \in [A -> B]  BY <2>2, <2>3
  <2>5. \A y \in B : \E x \in A : f[x] = y  BY <2>2, <2>3
  <2>6. \A x, y \in A : f[x] = f[y] => x = y
    <3>1. \A x \in A : f[x].key = x  BY <2>3
    <3> QED  BY <3>1
  <2>7. f \in Bijection(A, B)  BY <2>4, <2>5, <2>6 DEF Bijection, Injection, Surjection, IsInjective
  <2> QED  BY <2>1, <2>7 DEF ExistsBijection
<1> QED  BY <1>6, <1>7, FS_Bijection, FS_CardinalityType

\* A thread before its first call holds nothing and knows nothing.
LEMMA IdleKnows ==
  ASSUME NEW span, NEW level, NEW t \in Threads, th[t] = Idle
  PROVE  /\ ~HoldsNode(t) /\ ~HoldsChild(t) /\ ~HoldsTree(t) /\ \A n : ~Holds(t, n) /\ ~Private(t, n)
         /\ th[t].pc \notin Moving \union Opening /\ ~th[t].grow
         /\ Own(t, span, level)
<1>1. th[t].pc = "idle" /\ th[t].grow = FALSE /\ th[t].before = {}  BY DEF Idle
<1> USE DEF Splitting, Opening, TreeHeld, LeafHeld, Moving, Walking, Entered, Coupling, InLeaf, AtTree, SlowPath
<1>2. ~HoldsNode(t) /\ ~HoldsChild(t) /\ ~HoldsTree(t)  BY <1>1 DEF HoldsNode, HoldsChild, HoldsTree
<1>3. \A n : ~Holds(t, n) /\ ~Private(t, n)  BY <1>1, <1>2 DEF Holds, Private
<1>4. SeesTree(t) /\ SeesNode(t, span, level)  BY <1>1 DEF SeesTree, SeesNode, Valid
<1>5. WritesLeaf(t, span, level)  BY <1>1 DEF WritesLeaf
<1>6. Descends(t, span, level)  BY <1>1, <1>2 DEF Descends
<1>7. Opens(t, span, level) /\ HasRoom(t, span, level)  BY <1>1 DEF Opens, HasRoom
<1>8. Calls(t)  BY <1>1 DEF Calls
<1> QED  BY <1>1, <1>2, <1>3, <1>4, <1>5, <1>6, <1>7, <1>8 DEF Own

\* A tree to begin with is right.
LEMMA InitRight ==
  ASSUME Init
  PROVE  \E span, level : IInv(span, level) /\ LinksOK(nodes, span)
<1>1. PICK tree \in Trees :
        /\ nodes = tree.nodes /\ root = tree.root /\ treeVer = 0 /\ entries = Cardinality(Stored(tree))
        /\ th = [t \in Threads |-> Idle] /\ known = Stored(tree) /\ wins = StoredEntries(tree)
  BY DEF Init
<1>2. PICK span, level : span = tree.span /\ level = tree.level  OBVIOUS
<1>3. WellFormed(tree)  BY <1>1, TreesAssumption
<1>4. /\ nodes \in Seq(Node(Len(nodes))) /\ \A n \in DOMAIN nodes : nodes[n].ver = 0
      /\ span \in Seq(SUBSET Keys) /\ Len(span) = Len(nodes)
      /\ level \in Seq(Nat) /\ Len(level) = Len(nodes)
      /\ root \in 0 .. Len(nodes) /\ (root = Null <=> nodes = <<>>)
      /\ (root # Null => span[root] = Keys)
  BY <1>1, <1>2, <1>3 DEF WellFormed
<1>5. /\ \A n \in DOMAIN nodes : level[n] <= level[root] /\ (nodes[n].leaf <=> level[n] = 0)
      /\ \A m, n \in DOMAIN nodes : m # n /\ level[m] = level[n] => span[m] \intersect span[n] = {}
      /\ \A n \in DOMAIN nodes : NodeOK(n, span, level)
  <2>1. \A n \in DOMAIN nodes : level[n] <= level[root] /\ (nodes[n].leaf <=> level[n] = 0)
    BY <1>1, <1>2, <1>3 DEF WellFormed
  <2>2. \A m, n \in DOMAIN nodes : m # n /\ level[m] = level[n] => span[m] \intersect span[n] = {}
    BY <1>1, <1>2, <1>3 DEF WellFormed
  <2>3. \A n \in DOMAIN nodes : NodeOK(n, span, level)
    BY <1>1, <1>2, <1>3 DEF WellFormed, NodeOK
  <2> QED  BY <2>1, <2>2, <2>3
<1>6. \A t \in Threads : th[t] = Idle  BY <1>1
<1>7. \A t \in Threads :
        /\ ~HoldsNode(t) /\ ~HoldsChild(t) /\ ~HoldsTree(t) /\ \A n : ~Holds(t, n) /\ ~Private(t, n)
        /\ th[t].pc \notin Moving \union Opening /\ ~th[t].grow
        /\ Own(t, span, level)
  BY <1>6, IdleKnows
<1>8. \A k \in Stored(tree) : k \in Keys
  <2> SUFFICES ASSUME NEW k \in Stored(tree) PROVE k \in Keys  OBVIOUS
  <2>1. PICK n \in DOMAIN nodes : nodes[n].leaf /\ \E i \in 0 .. nodes[n].count - 1 : nodes[n].keys[i] = k
    BY <1>1 DEF Stored
  <2>2. LeafOK(nodes[n].keys, nodes[n].values, nodes[n].count, span[n], wins)  BY <1>5, <2>1 DEF NodeOK
  <2>3. k \in span[n]  BY <2>1, <2>2 DEF LeafOK
  <2>4. span[n] \in SUBSET Keys
    <3> DEFINE S == SUBSET Keys
    <3> HIDE DEF S
    <3>1. span \in Seq(S) /\ Len(span) = Len(nodes) /\ Len(nodes) \in Nat /\ n \in 1 .. Len(nodes)
      BY <1>4, <2>1 DEF S
    <3>2. span[n] \in S  BY <3>1
    <3> QED  BY <3>2 DEF S
  <2> QED  BY <2>3, <2>4
<1>9. /\ IsFiniteSet(Stored(tree)) /\ IsFiniteSet(StoredEntries(tree))
      /\ Cardinality(Stored(tree)) \in Nat /\ Cardinality(StoredEntries(tree)) = Cardinality(Stored(tree))
  BY <1>1, StoredFinite
<1>10. TypeOK
  <2>1. Idle \in Locals
    <3>1. Len(nodes) \in Nat /\ 0 \in 0 .. Len(nodes)  BY <1>4
    <3>2. Default \in Entry /\ Null = 0  BY DEF Default, Entry, Null
    <3>3. "idle" \in Places  BY DEF Places, Outside
    <3>4. 0 \in 0 .. Fanout /\ 0 \in -1 .. Fanout  BY FanoutFacts
    <3> QED  BY <3>1, <3>2, <3>3, <3>4 DEF Idle, Locals
  <2>2. th \in [Threads -> Locals]  BY <1>1, <2>1
  <2>3. known \in SUBSET Int  BY <1>1, <1>8, KeysAssumption
  <2>4. wins \in SUBSET Entry
    <3>1. \A k \in Stored(tree) : [key |-> k, by |-> Null] \in Entry  BY <1>8, KeysAssumption DEF Entry
    <3> QED  BY <1>1, <3>1 DEF StoredEntries
  <2>5. treeVer \in Nat /\ entries \in Int  BY <1>1, <1>9
  <2> QED  BY <1>4, <2>2, <2>3, <2>4, <2>5 DEF TypeOK
<1>11. Locks
  <2>1. \A n \in DOMAIN nodes : ~IsLocked(nodes[n].ver)  BY <1>4, NewNodeFacts
  <2> QED  BY <1>7, <2>1 DEF Locks
<1>12. Spans(span, level)  BY <1>4, <1>5, <1>7 DEF Spans
<1>13. Contents(span, level)  BY <1>5 DEF Contents
<1>14. History
  <2>1. \A k \in known : \E w \in wins : w.key = k
    <3> SUFFICES ASSUME NEW k \in known PROVE \E w \in wins : w.key = k  OBVIOUS
    <3>1. [key |-> k, by |-> Null] \in wins  BY <1>1 DEF StoredEntries
    <3> QED  BY <3>1
  <2>2. \A w \in wins : w = [key |-> w.key, by |-> Null] /\ w.key \in Stored(tree)  BY <1>1 DEF StoredEntries
  <2>3. \A v, w \in wins : v.key = w.key => v = w  BY <2>2
  <2>4. \A w \in wins : w.key \in Keys  BY <1>8, <2>2
  <2>5. ASSUME root = Null PROVE wins = {}
    <3>1. tree.nodes = <<>>  BY <1>1, <1>4, <2>5
    <3>2. Stored(tree) = {}  BY <3>1 DEF Stored
    <3> QED  BY <1>1, <3>2 DEF StoredEntries
  <2> QED  BY <2>1, <2>3, <2>4, <2>5 DEF History
<1>15. Tally
  <2>1. Counting = {}  BY <1>6 DEF Counting, At, Idle
  <2>2. Cardinality(Counting) = 0  BY <2>1, FS_EmptySet
  <2> QED  BY <1>1, <1>9, <2>2 DEF Tally
<1>16. IInv(span, level)  BY <1>7, <1>10, <1>11, <1>12, <1>13, <1>14, <1>15 DEF IInv
<1>17. LinksOK(nodes, span)  BY <1>1, <1>2, <1>3 DEF WellFormed
<1> QED  BY <1>16, <1>17

----------------------------------------------------------------------------
(* The leaves stay linked in the order of their keys. *)

\* A step that adds no node leaves the links alone.
SameLinks == /\ DOMAIN nodes' = DOMAIN nodes
             /\ \A n \in DOMAIN nodes : nodes'[n].leaf = nodes[n].leaf /\ nodes'[n].next = nodes[n].next

\* A lock word carries no link.
LEMMA RaiseLinks ==
  ASSUME TypeOK, NEW m, Raise(m)
  PROVE  SameLinks
<1>1. \A n \in DOMAIN nodes : nodes[n] \in Node(Len(nodes))  BY NodeFacts
<1> QED  BY <1>1 DEF Raise, SameLinks, Node

\* Two stores to one node.
LEMMA TwoWrites ==
  ASSUME TypeOK, NEW m, NEW ks, NEW vs, NEW cs,
         \/ nodes' = [nodes EXCEPT ![m].keys = ks, ![m].values = vs]
         \/ nodes' = [nodes EXCEPT ![m].keys = ks, ![m].kids = cs]
         \/ nodes' = [nodes EXCEPT ![m].keys = ks]
  PROVE  SameLinks
<1>1. \A n \in DOMAIN nodes : nodes[n] \in Node(Len(nodes))  BY NodeFacts
<1>2. CASE nodes' = [nodes EXCEPT ![m].keys = ks, ![m].values = vs]
  <2>1. PICK x : x = [nodes[m] EXCEPT !.keys = ks, !.values = vs]  OBVIOUS
  <2>2. \A n \in DOMAIN nodes : n = m => x.leaf = nodes[n].leaf /\ x.next = nodes[n].next  BY <1>1, <2>1 DEF Node
  <2>3. nodes' = [nodes EXCEPT ![m] = x]  BY <1>2, <2>1
  <2> QED  BY <2>2, <2>3 DEF SameLinks
<1>3. CASE nodes' = [nodes EXCEPT ![m].keys = ks, ![m].kids = cs]
  <2>1. PICK x : x = [nodes[m] EXCEPT !.keys = ks, !.kids = cs]  OBVIOUS
  <2>2. \A n \in DOMAIN nodes : n = m => x.leaf = nodes[n].leaf /\ x.next = nodes[n].next  BY <1>1, <2>1 DEF Node
  <2>3. nodes' = [nodes EXCEPT ![m] = x]  BY <1>3, <2>1
  <2> QED  BY <2>2, <2>3 DEF SameLinks
<1>4. CASE nodes' = [nodes EXCEPT ![m].keys = ks]
  <2>1. PICK x : x = [nodes[m] EXCEPT !.keys = ks]  OBVIOUS
  <2>2. \A n \in DOMAIN nodes : n = m => x.leaf = nodes[n].leaf /\ x.next = nodes[n].next  BY <1>1, <2>1 DEF Node
  <2>3. nodes' = [nodes EXCEPT ![m] = x]  BY <1>4, <2>1
  <2> QED  BY <2>2, <2>3 DEF SameLinks
<1> QED  BY <1>2, <1>3, <1>4

\* Neither does an entry,
LEMMA PlaceLinks ==
  ASSUME TypeOK, NEW t \in Threads, Place(t)
  PROVE  SameLinks
<1>1. \A n \in DOMAIN nodes : nodes[n] \in Node(Len(nodes))  BY NodeFacts
<1>2. nodes' = nodes => SameLinks  BY DEF SameLinks
<1>3. CASE Upgrade(t)  BY <1>2, <1>3, RaiseLinks DEF Upgrade
<1>4. CASE NoRoom(t)  BY <1>4, RaiseLinks DEF NoRoom
<1>5. CASE Find(t)  BY <1>2, <1>5, RaiseLinks DEF Find
<1>6. CASE Shift(t)
  <2>1. PICK m, i : m = th[t].node /\ i = th[t].slot  OBVIOUS
  <2>2. PICK ks, vs : /\ ks = [nodes[m].keys EXCEPT ![i] = nodes[m].keys[i - 1]]
                      /\ vs = [nodes[m].values EXCEPT ![i] = nodes[m].values[i - 1]]
    OBVIOUS
  <2>3. PICK ks2 : ks2 = [nodes[m].keys EXCEPT ![i] = th[t].key]  OBVIOUS
  <2>4. \/ nodes' = [nodes EXCEPT ![m].keys[i] = nodes[m].keys[i - 1], ![m].values[i] = nodes[m].values[i - 1]]
        \/ nodes' = [nodes EXCEPT ![m].keys[i] = th[t].key]
    BY <1>6, <2>1 DEF Shift
  <2>5. \/ nodes' = [nodes EXCEPT ![m].keys = ks, ![m].values = vs]
        \/ nodes' = [nodes EXCEPT ![m].keys = ks2]
    BY <2>2, <2>3, <2>4
  <2> QED  BY <2>5, TwoWrites
<1>7. CASE StoreValue(t)  BY <1>1, <1>7 DEF StoreValue, SameLinks, Node
<1>8. CASE CountUp(t)  BY <1>1, <1>8 DEF CountUp, SameLinks, Node
<1>9. CASE ReleaseLeaf(t)  BY <1>9, RaiseLinks DEF ReleaseLeaf
<1>10. CASE CountEntry(t)  BY <1>2, <1>10 DEF CountEntry
<1> QED  BY <1>3, <1>4, <1>5, <1>6, <1>7, <1>8, <1>9, <1>10 DEF Place

\* nor a slow step that makes no node,
LEMMA SlowLinks ==
  ASSUME TypeOK, NEW t \in Threads, Slow(t), ~Plant(t), ~Grow(t), ~Split(t)
  PROVE  SameLinks
<1>1. \A n \in DOMAIN nodes : nodes[n] \in Node(Len(nodes))  BY NodeFacts
<1>2. nodes' = nodes => SameLinks  BY DEF SameLinks
<1>3. CASE LockTree(t)  BY <1>2, <1>3 DEF LockTree
<1>4. CASE LockRoot(t)  BY <1>4, RaiseLinks DEF LockRoot
<1>5. CASE ShiftChild(t)
  <2>1. PICK m, i, j : m = th[t].node /\ i = th[t].count /\ j = th[t].slot  OBVIOUS
  <2>2. PICK ks, cs : /\ ks = [nodes[m].keys EXCEPT ![i] = nodes[m].keys[i - 1]]
                      /\ cs = [nodes[m].kids EXCEPT ![i + 1] = nodes[m].kids[i]]
    OBVIOUS
  <2>3. PICK ks2 : ks2 = [nodes[m].keys EXCEPT ![j] = th[t].sep]  OBVIOUS
  <2>4. \/ nodes' = [nodes EXCEPT ![m].keys[i] = nodes[m].keys[i - 1], ![m].kids[i + 1] = nodes[m].kids[i]]
        \/ nodes' = [nodes EXCEPT ![m].keys[j] = th[t].sep]
    BY <1>5, <2>1 DEF ShiftChild
  <2>5. \/ nodes' = [nodes EXCEPT ![m].keys = ks, ![m].kids = cs]
        \/ nodes' = [nodes EXCEPT ![m].keys = ks2]
    BY <2>2, <2>3, <2>4
  <2> QED  BY <2>5, TwoWrites
<1>6. CASE StoreChild(t)  BY <1>1, <1>6 DEF StoreChild, SameLinks, Node
<1>7. CASE CountChild(t)  BY <1>1, <1>7 DEF CountChild, SameLinks, Node
<1>8. CASE PublishRoot(t)  BY <1>8, RaiseLinks DEF PublishRoot
<1>9. CASE ReleaseChild(t)  BY <1>9, RaiseLinks DEF ReleaseChild
<1>10. CASE ReleaseTree(t)  BY <1>2, <1>10 DEF ReleaseTree
<1>11. CASE LockChild(t)  BY <1>11, RaiseLinks DEF LockChild
<1>12. CASE ChildRoom(t)
  <2>1. PICK m, c : m = th[t].node /\ c = th[t].child  OBVIOUS
  <2>2. PICK ns : ns = [nodes EXCEPT ![c].ver = Raised(nodes[c].ver)]  OBVIOUS
  <2>3. nodes' = nodes \/ nodes' = [ns EXCEPT ![m].ver = Raised(nodes[m].ver)]
    BY <1>12, <2>1, <2>2 DEF ChildRoom
  <2>4. /\ DOMAIN ns = DOMAIN nodes
        /\ \A n \in DOMAIN nodes : /\ ns[n].leaf = nodes[n].leaf /\ ns[n].next = nodes[n].next
                                  /\ ns[n] = [f \in DOMAIN ns[n] |-> ns[n][f]]
                                  /\ "leaf" \in DOMAIN ns[n] /\ "next" \in DOMAIN ns[n]
    BY <1>1, <2>2 DEF Node
  <2> QED  BY <1>2, <2>3, <2>4 DEF SameLinks
<1>13. CASE ReleaseParent(t)  BY <1>13, RaiseLinks DEF ReleaseParent
<1>14. CASE SlowRoom(t)  BY <1>2, <1>14, RaiseLinks DEF SlowRoom
<1> QED  BY <1>3, <1>4, <1>5, <1>6, <1>7, <1>8, <1>9, <1>10, <1>11, <1>12, <1>13, <1>14 DEF Slow

\* nor a reader.
LEMMA DescendLinks ==
  ASSUME NEW t \in Threads, Descend(t) \/ Call(t)
  PROVE  SameLinks
<1>1. nodes' = nodes
  BY DEF Call, Descend, SnapshotTree, ReadRoot, ValidateEmpty, SnapshotRoot, ValidateTree, ReadCount, PickSlot,
         ReadChild, SnapshotChild, Couple, Search, ReadValue, ValidateLeaf
<1> QED  BY <1>1 DEF SameLinks

\* Links that no step touches stay in order.
LEMMA LinksKeep ==
  ASSUME TypeOK, NEW span, LinksOK(nodes, span), SameLinks
  PROVE  LinksOK(nodes', span)
<1> SUFFICES ASSUME NEW n \in DOMAIN nodes'
             PROVE  /\ span[n] # {} /\ Convex(span[n])
                    /\ nodes'[n].leaf =>
                         IF nodes'[n].next = Null THEN Above(span[n]) = {}
                         ELSE /\ nodes'[nodes'[n].next].leaf
                              /\ Above(span[n]) = span[nodes'[n].next] \union Above(span[nodes'[n].next])
  BY DEF LinksOK
<1>1. n \in DOMAIN nodes /\ nodes'[n].leaf = nodes[n].leaf /\ nodes'[n].next = nodes[n].next  BY DEF SameLinks
<1>2. nodes[n].next # Null => nodes[n].next \in DOMAIN nodes
  <2>1. nodes[n].next \in 0 .. Len(nodes) /\ Len(nodes) \in Nat /\ DOMAIN nodes = 1 .. Len(nodes)  BY <1>1, NodeFacts
  <2> QED  BY <2>1 DEF Null
<1> QED  BY <1>1, <1>2 DEF LinksOK, SameLinks

\* A node more at the end.
LEMMA Appended ==
  ASSUME TypeOK, NEW x, nodes' = Append(nodes, x), NEW span, Len(span) = Len(nodes), span \in Seq(SUBSET Keys)
  PROVE  LET new == Len(nodes) + 1
             span2 == Append(span, Keys)
         IN  /\ DOMAIN nodes' = 1 .. new /\ new \notin DOMAIN nodes /\ DOMAIN nodes = 1 .. Len(nodes)
             /\ Len(nodes) \in Nat /\ nodes'[new] = x /\ span2[new] = Keys
             /\ \A n \in DOMAIN nodes : nodes'[n] = nodes[n] /\ span2[n] = span[n]
             /\ \A n \in DOMAIN nodes' : n = new \/ n \in DOMAIN nodes
<1> DEFINE S == Node(Len(nodes))
<1>1. nodes \in Seq(S) /\ Len(nodes) \in Nat /\ DOMAIN nodes = 1 .. Len(nodes)  BY NodeFacts
<1> HIDE DEF S
<1>2. PICK span2, new : span2 = Append(span, Keys) /\ new = Len(nodes) + 1  OBVIOUS
<1>3. Len(nodes') = new /\ nodes'[new] = x /\ DOMAIN nodes' = 1 .. new /\ \A n \in 1 .. Len(nodes) : nodes'[n] = nodes[n]
  BY <1>1, <1>2
<1>4. span2[new] = Keys /\ \A n \in 1 .. Len(nodes) : span2[n] = span[n]
  <2> DEFINE Z == SUBSET Keys
  <2>1. span \in Seq(Z) /\ Keys \in Z  OBVIOUS
  <2> HIDE DEF Z
  <2> QED  BY <1>1, <1>2, <2>1
<1>5. new \notin 1 .. Len(nodes) /\ \A n \in 1 .. new : n = new \/ n \in 1 .. Len(nodes)  BY <1>1, <1>2
<1> QED  BY <1>1, <1>2, <1>3, <1>4, <1>5

\* A first leaf, or a new root, which are responsible for all keys.
LEMMA WholeSpan ==
  ASSUME NEW k \in Keys
  PROVE  Keys # {} /\ Convex(Keys) /\ Above(Keys) = {}
<1>1. \A a \in Keys : ~(a < a)  BY KeysAssumption
<1> QED  BY <1>1 DEF Convex, Above

\* The first leaf has no other to link to.
LEMMA PlantLinks ==
  ASSUME NEW span, NEW level, NEW t \in Threads, IInv(span, level), Plant(t)
  PROVE  LinksOK(nodes', Append(span, Keys))
<1>1. th[t].pc = "plant" /\ nodes' = Append(nodes, NewNode(TRUE))  BY DEF Plant, At
<1>2. th[t].pc \in SlowPath  BY <1>1 DEF SlowPath, TreeHeld
<1>3. th[t].key \in Keys
  <2>1. th[t].pc \in {"upgrade", "count_entry"} \union LeafHeld \union SlowPath  BY <1>2
  <2> QED  BY <2>1, Inserting
<1>4. TypeOK /\ Descends(t, span, level) /\ span \in Seq(SUBSET Keys) /\ Len(span) = Len(nodes)
  BY Start, Basics DEF Spans
<1>5. DOMAIN nodes = {}
  <2>1. root = Null  BY <1>1, <1>4 DEF Descends
  <2> QED  BY <2>1, Basics
<1>6. PICK new, x : new = Len(nodes) + 1 /\ x = NewNode(TRUE)  OBVIOUS
<1>7. /\ DOMAIN nodes' = {new} /\ nodes'[new] = x /\ Append(span, Keys)[new] = Keys
  <2>1. nodes' = Append(nodes, x)  BY <1>1, <1>6
  <2>2. /\ DOMAIN nodes' = 1 .. new /\ nodes'[new] = x /\ Append(span, Keys)[new] = Keys
        /\ \A n \in DOMAIN nodes' : n = new \/ n \in DOMAIN nodes
    BY <1>4, <1>6, <2>1, Appended
  <2>3. new \in DOMAIN nodes'
    <3>1. Len(nodes) \in Nat  BY <1>4, NodeFacts
    <3> QED  BY <1>6, <2>2, <3>1
  <2> QED  BY <1>5, <2>2, <2>3
<1>8. x.next = Null  BY <1>6 DEF NewNode
<1>9. Keys # {} /\ Convex(Keys) /\ Above(Keys) = {}  BY <1>3, WholeSpan
<1> QED  BY <1>7, <1>8, <1>9 DEF LinksOK

\* A new root is no leaf.
LEMMA GrowLinks ==
  ASSUME NEW span, NEW level, NEW t \in Threads, IInv(span, level), LinksOK(nodes, span), Grow(t)
  PROVE  LinksOK(nodes', Append(span, Keys))
<1>1. th[t].pc = "grow" /\ nodes' = Append(nodes, [NewNode(FALSE) EXCEPT !.kids[0] = root])  BY DEF Grow, At
<1>2. th[t].pc \in SlowPath  BY <1>1 DEF SlowPath, TreeHeld
<1>3. th[t].key \in Keys
  <2>1. th[t].pc \in {"upgrade", "count_entry"} \union LeafHeld \union SlowPath  BY <1>2
  <2> QED  BY <2>1, Inserting
<1>4. TypeOK /\ span \in Seq(SUBSET Keys) /\ Len(span) = Len(nodes)  BY Basics DEF Spans
<1>5. PICK new, x, span2 : /\ new = Len(nodes) + 1 /\ x = [NewNode(FALSE) EXCEPT !.kids[0] = root]
                           /\ span2 = Append(span, Keys)
  OBVIOUS
<1>6. /\ nodes'[new] = x /\ span2[new] = Keys /\ DOMAIN nodes = 1 .. Len(nodes) /\ Len(nodes) \in Nat
      /\ \A n \in DOMAIN nodes : nodes'[n] = nodes[n] /\ span2[n] = span[n]
      /\ \A n \in DOMAIN nodes' : n = new \/ n \in DOMAIN nodes
  <2>1. nodes' = Append(nodes, x)  BY <1>1, <1>5
  <2> QED  BY <1>4, <1>5, <2>1, Appended
<1>7. x.leaf = FALSE  BY <1>5 DEF NewNode
<1>8. Keys # {} /\ Convex(Keys)  BY <1>3, WholeSpan
<1>9. \A n \in DOMAIN nodes : nodes[n].next # Null => nodes[n].next \in DOMAIN nodes
  <2>1. \A n \in DOMAIN nodes : nodes[n].next \in 0 .. Len(nodes)  BY <1>4, NodeFacts
  <2> QED  BY <1>6, <2>1 DEF Null
<1>10. ASSUME NEW n \in DOMAIN nodes
       PROVE  /\ span2[n] # {} /\ Convex(span2[n])
              /\ nodes'[n].leaf =>
                   IF nodes'[n].next = Null THEN Above(span2[n]) = {}
                   ELSE /\ nodes'[nodes'[n].next].leaf
                        /\ Above(span2[n]) = span2[nodes'[n].next] \union Above(span2[nodes'[n].next])
  BY <1>6, <1>9, <1>10 DEF LinksOK
<1>11. LinksOK(nodes', span2)  BY <1>6, <1>7, <1>8, <1>10 DEF LinksOK
<1> QED  BY <1>5, <1>11

\* What lies above the two halves of a span that is divided at sep.
LEMMA AboveHalves ==
  ASSUME NEW S \in SUBSET Keys, Convex(S), NEW sep \in S, NEW low \in S, low < sep,
         NEW A, A = {k \in S : k < sep}, NEW B, B = {k \in S : k >= sep}
  PROVE  /\ A # {} /\ B # {} /\ Convex(A) /\ Convex(B)
         /\ Above(A) = B \union Above(B) /\ Above(B) = Above(S) /\ A \union Above(A) = S \union Above(S)
<1>1. Keys \subseteq Int /\ sep \in Int /\ low \in Int /\ A \subseteq S /\ B \subseteq S  BY KeysAssumption
<1>2. low \in A /\ sep \in B  BY <1>1
<1>3. Convex(A)
  <2> SUFFICES ASSUME NEW i \in A, NEW j \in A, NEW k \in Keys, i < k, k < j PROVE k \in A  BY DEF Convex
  <2>1. k \in S  BY <1>1 DEF Convex
  <2>2. k < sep  BY <1>1
  <2> QED  BY <2>1, <2>2
<1>4. Convex(B)
  <2> SUFFICES ASSUME NEW i \in B, NEW j \in B, NEW k \in Keys, i < k, k < j PROVE k \in B  BY DEF Convex
  <2>1. k \in S  BY <1>1 DEF Convex
  <2>2. k >= sep  BY <1>1
  <2> QED  BY <2>1, <2>2
<1>5. Above(B) = Above(S)
  <2>1. ASSUME NEW k \in Keys, \A j \in B : j < k PROVE \A j \in S : j < k
    <3> TAKE j \in S
    <3>1. sep < k /\ j \in Int /\ k \in Int  BY <1>1, <1>2, <2>1
    <3>2. CASE j \in B  BY <2>1, <3>2
    <3>3. CASE j \notin B
      <4>1. j < sep  BY <1>1, <3>1, <3>3
      <4> QED  BY <1>1, <3>1, <4>1
    <3> QED  BY <3>2, <3>3
  <2> QED  BY <1>1, <2>1 DEF Above
<1>6. \A k \in B : k \in Above(A)
  <2> SUFFICES ASSUME NEW k \in B, NEW j \in A PROVE k \in Keys /\ j < k  BY DEF Above
  <2> QED  BY <1>1
<1>7. \A k \in Above(B) : k \in Above(A)
  <2> SUFFICES ASSUME NEW k \in Above(S), NEW j \in A PROVE k \in Keys /\ j < k  BY <1>5 DEF Above
  <2> QED  BY <1>1 DEF Above
<1>8. ASSUME NEW k \in Above(A), k \notin B PROVE k \in Above(B)
  <2>1. k \in Keys /\ k \in Int /\ low < k /\ k \notin A  BY <1>1, <1>2, <1>8 DEF Above
  <2>2. k >= sep
    <3>1. k < sep => k \in S  BY <2>1 DEF Convex
    <3> QED  BY <1>1, <2>1, <3>1
  <2>3. k \notin S /\ sep < k  BY <1>1, <1>2, <1>8, <2>1, <2>2
  <2>4. \A j \in B : j < k
    <3> SUFFICES ASSUME NEW j \in B, ~(j < k) PROVE FALSE  OBVIOUS
    <3>1. j \in S /\ j \in Int /\ j # k  BY <1>1, <2>3
    <3>2. k < j  BY <2>1, <3>1
    <3> QED  BY <2>1, <2>3, <3>1, <3>2 DEF Convex
  <2> QED  BY <2>1, <2>4 DEF Above
<1>9. Above(A) = B \union Above(B)  BY <1>6, <1>7, <1>8
<1>10. \A k \in S : k \in A \/ k \in B  BY <1>1
<1> QED  BY <1>1, <1>2, <1>3, <1>4, <1>5, <1>9, <1>10

\* The new leaf of a split comes right after the one it was split from.
LEMMA SplitLinks ==
  ASSUME NEW span, NEW level, NEW t \in Threads, IInv(span, level), LinksOK(nodes, span), Split(t),
         NEW span2, NEW level2, NEW sep, Divides(th[t].child, Len(nodes) + 1, sep, span, level, span2, level2),
         sep \in span[th[t].child], \E k \in span[th[t].child] : k < sep
  PROVE  LinksOK(nodes', span2)
<1>1. PICK q, new : q = th[t].child /\ new = Len(nodes) + 1  OBVIOUS
<1>2. TypeOK /\ Descends(t, span, level) /\ th[t].pc = "split"
  BY Start, Basics DEF Split, At
<1>3. q \in DOMAIN nodes
  <2>1. HoldsChild(t)  BY <1>2 DEF HoldsChild, Splitting
  <2> QED  BY <1>1, <1>2, <2>1 DEF Descends
<1>4. nodes[q].count = Fanout  BY <1>1, <1>2 DEF Descends
<1>5. PICK from : from = From(nodes[q])  OBVIOUS
<1>6. /\ new \in DOMAIN nodes' /\ new \notin DOMAIN nodes
      /\ \A n \in DOMAIN nodes' : n = new \/ n \in DOMAIN nodes
      /\ \A n \in DOMAIN nodes : n # q => nodes'[n] = nodes[n]
      /\ nodes'[q].leaf = nodes[q].leaf /\ nodes'[new].leaf = nodes[q].leaf
      /\ nodes'[q].next = (IF nodes[q].leaf THEN new ELSE nodes[q].next) /\ nodes'[new].next = nodes[q].next
  BY <1>1, <1>2, <1>3, <1>4, <1>5, SplitNodes
<1>7. PICK S, A, B : S = span[q] /\ A = {k \in S : k < sep} /\ B = {k \in S : k >= sep}  OBVIOUS
<1>8. /\ span2[q] = A /\ span2[new] = B
      /\ \A n \in DOMAIN nodes : n # q => span2[n] = span[n]
  BY <1>1, <1>7 DEF Divides
<1>9. S \in SUBSET Keys /\ Convex(S) /\ sep \in S
  BY <1>1, <1>3, <1>7, Basics DEF LinksOK
<1>10. PICK low \in S : low < sep  BY <1>1, <1>7
<1>11. /\ A # {} /\ B # {} /\ Convex(A) /\ Convex(B)
       /\ Above(A) = B \union Above(B) /\ Above(B) = Above(S) /\ A \union Above(A) = S \union Above(S)
  <2>1. A = {k \in S : k < sep}  BY <1>7
  <2>2. B = {k \in S : k >= sep}  BY <1>7
  <2>3. S \in SUBSET Keys  BY <1>9
  <2>4. Convex(S)  BY <1>9
  <2>5. sep \in S  BY <1>9
  <2>6. low \in S  OBVIOUS
  <2> QED  BY ONLY <1>10, <2>1, <2>2, <2>3, <2>4, <2>5, <2>6, AboveHalves
<1>12. new # Null /\ \A n \in DOMAIN nodes : nodes[n].next # Null => nodes[n].next \in DOMAIN nodes
  <2>1. /\ Len(nodes) \in Nat /\ DOMAIN nodes = 1 .. Len(nodes)
        /\ \A n \in DOMAIN nodes : nodes[n].next \in 0 .. Len(nodes)
    BY <1>2, NodeFacts
  <2> QED  BY <1>1, <2>1 DEF Null
<1> DEFINE Linked(n) == IF nodes'[n].next = Null THEN Above(span2[n]) = {}
                        ELSE /\ nodes'[nodes'[n].next].leaf
                             /\ Above(span2[n]) = span2[nodes'[n].next] \union Above(span2[nodes'[n].next])
<1>13. ASSUME nodes[q].leaf PROVE Linked(q)  BY <1>6, <1>8, <1>11, <1>12, <1>13
\* What held of q's link holds of the link of the new node.
<1>14. ASSUME nodes[q].leaf PROVE Linked(new)
  <2>1. nodes'[new].next = nodes[q].next /\ span2[new] = B /\ Above(B) = Above(S)  BY <1>6, <1>8, <1>11
  <2>2. CASE nodes[q].next = Null
    <3>1. Above(S) = {}  BY <1>3, <1>7, <1>14, <2>2 DEF LinksOK
    <3> QED  BY <2>1, <2>2, <3>1
  <2>3. CASE nodes[q].next # Null
    <3>1. PICK m : m = nodes[q].next  OBVIOUS
    <3>2. m \in DOMAIN nodes /\ nodes[m].leaf /\ Above(S) = span[m] \union Above(span[m])
      BY <1>3, <1>7, <1>12, <1>14, <2>3, <3>1 DEF LinksOK
    <3>3. nodes'[m].leaf  BY <1>6, <3>2
    <3>4. span2[m] \union Above(span2[m]) = span[m] \union Above(span[m])
      BY <1>7, <1>8, <1>11, <3>2
    <3> QED  BY <2>1, <2>3, <3>1, <3>2, <3>3, <3>4
  <2> QED  BY <2>2, <2>3
<1>15. ASSUME NEW n \in DOMAIN nodes, n # q, nodes[n].leaf PROVE Linked(n)
  <2>1. nodes'[n].next = nodes[n].next /\ span2[n] = span[n]  BY <1>6, <1>8, <1>15
  <2>2. CASE nodes[n].next = Null
    <3>1. Above(span[n]) = {}  BY <1>15, <2>2 DEF LinksOK
    <3> QED  BY <2>1, <2>2, <3>1
  <2>3. CASE nodes[n].next # Null
    <3>1. PICK m : m = nodes[n].next  OBVIOUS
    <3>2. m \in DOMAIN nodes /\ nodes[m].leaf /\ Above(span[n]) = span[m] \union Above(span[m])
      BY <1>12, <1>15, <2>3, <3>1 DEF LinksOK
    <3>3. nodes'[m].leaf  BY <1>6, <3>2
    <3>4. span2[m] \union Above(span2[m]) = span[m] \union Above(span[m])
      BY <1>7, <1>8, <1>11, <3>2
    <3> QED  BY <2>1, <2>3, <3>1, <3>2, <3>3, <3>4
  <2> QED  BY <2>2, <2>3
<1> HIDE DEF Linked
<1> SUFFICES ASSUME NEW n \in DOMAIN nodes'
             PROVE  /\ span2[n] # {} /\ Convex(span2[n])
                    /\ nodes'[n].leaf =>
                         IF nodes'[n].next = Null THEN Above(span2[n]) = {}
                         ELSE /\ nodes'[nodes'[n].next].leaf
                              /\ Above(span2[n]) = span2[nodes'[n].next] \union Above(span2[nodes'[n].next])
  BY DEF LinksOK
<1>16. CASE n = q
  <2>1. nodes'[n].leaf => Linked(n)  BY <1>6, <1>13, <1>16
  <2> QED  BY <1>8, <1>11, <1>16, <2>1 DEF Linked
<1>17. CASE n = new
  <2>1. nodes'[n].leaf => Linked(n)  BY <1>6, <1>14, <1>17
  <2> QED  BY <1>8, <1>11, <1>17, <2>1 DEF Linked
<1>18. CASE n # q /\ n # new
  <2>1. n \in DOMAIN nodes /\ nodes'[n] = nodes[n] /\ span2[n] = span[n]  BY <1>6, <1>8, <1>18
  <2>2. span[n] # {} /\ Convex(span[n])  BY <2>1 DEF LinksOK
  <2>3. nodes'[n].leaf => Linked(n)  BY <1>15, <1>18, <2>1
  <2> QED  BY <2>1, <2>2, <2>3 DEF Linked
<1> QED  BY <1>16, <1>17, <1>18

----------------------------------------------------------------------------
(* The invariant holds in every behaviour.                                  *)

\* Nothing changes where nothing moves.
LEMMA StutterStep ==
  ASSUME NEW span, NEW level, IInv(span, level), UNCHANGED vars
  PROVE  IInv(span, level)'
<1>0. UNCHANGED <<nodes, root, treeVer, entries, th, calls, known, wins>>  BY DEF vars
<1>1. TypeOK'  BY <1>0 DEF IInv, TypeOK, Locals
<1>2. \A t : /\ HoldsNode(t)' = HoldsNode(t) /\ HoldsChild(t)' = HoldsChild(t) /\ HoldsTree(t)' = HoldsTree(t)
             /\ \A n : Holds(t, n)' = Holds(t, n) /\ Private(t, n)' = Private(t, n)
  BY <1>0 DEF HoldsNode, HoldsChild, HoldsTree, Holds, Private
<1>3. Locks'  BY <1>0, <1>2 DEF IInv, Locks
<1>4. Reduced' = Reduced /\ \A n : Busy(n)' = Busy(n)  BY <1>0 DEF Reduced, Busy
<1>5. Spans(span, level)'  BY <1>0, <1>2, <1>4 DEF IInv, Spans
<1>6. \A n : NodeOK(n, span, level)' = NodeOK(n, span, level)  BY <1>0 DEF NodeOK
<1>7. Contents(span, level)'  BY <1>0, <1>4, <1>6 DEF IInv, Contents
<1>8. ASSUME NEW t \in Threads PROVE Own(t, span, level)'
  <2>1. /\ SeesTree(t) /\ SeesNode(t, span, level) /\ WritesLeaf(t, span, level) /\ Descends(t, span, level)
        /\ Opens(t, span, level) /\ HasRoom(t, span, level) /\ Calls(t)
    BY <1>8 DEF IInv, Own
  <2>2. /\ \A n : OnPath(t, n, span, level)' = OnPath(t, n, span, level)
        /\ Valid(t)' = Valid(t) /\ NextNode(t)' = NextNode(t) /\ NotYet(t)' = NotYet(t) /\ Mine(t)' = Mine(t)
        /\ \A n : Untouched(n)' = Untouched(n)
    BY <1>0 DEF OnPath, Valid, NextNode, NotYet, Mine, Untouched
  <2>3. \A n : ChildHasRoom(t, n, span, level)' = ChildHasRoom(t, n, span, level)
    BY <1>0, <2>2 DEF ChildHasRoom
  <2>4. SeesTree(t)'  BY <1>0, <2>1 DEF SeesTree
  <2>5. SeesNode(t, span, level)'  BY <1>0, <2>1, <2>2 DEF SeesNode
  <2>6. WritesLeaf(t, span, level)'  BY <1>0, <2>1, <2>2 DEF WritesLeaf
  <2>7. Descends(t, span, level)'  BY <1>0, <1>2, <2>1 DEF Descends
  <2>8. Opens(t, span, level)'  BY <1>0, <2>1 DEF Opens
  <2>9. HasRoom(t, span, level)'  BY <1>0, <2>1, <2>3 DEF HasRoom
  <2>10. Calls(t)'  BY <1>0, <2>1 DEF Calls
  <2> QED  BY <2>4, <2>5, <2>6, <2>7, <2>8, <2>9, <2>10 DEF Own
<1>9. History'  BY <1>0 DEF IInv, History
<1>10. Counting' = Counting  BY <1>0 DEF Counting, At
<1>11. Tally'  BY <1>0, <1>10 DEF IInv, Tally
<1> QED  BY <1>1, <1>3, <1>5, <1>7, <1>8, <1>9, <1>11 DEF IInv

\* A step of a descent.
LEMMA DescendStep ==
  ASSUME NEW span, NEW level, NEW t \in Threads, IInv(span, level), Descend(t)
  PROVE  IInv(span, level)'
<1>1. CASE SnapshotTree(t)  BY <1>1, SnapshotTreeStep
<1>2. CASE ReadRoot(t)  BY <1>2, ReadRootStep
<1>3. CASE ValidateEmpty(t)  BY <1>3, ValidateEmptyStep
<1>4. CASE SnapshotRoot(t)  BY <1>4, SnapshotRootStep
<1>5. CASE ValidateTree(t)  BY <1>5, ValidateTreeStep
<1>6. CASE ReadCount(t)  BY <1>6, ReadCountStep
<1>7. CASE PickSlot(t)  BY <1>7, PickSlotStep
<1>8. CASE ReadChild(t)  BY <1>8, ReadChildStep
<1>9. CASE SnapshotChild(t)  BY <1>9, SnapshotChildStep
<1>10. CASE Couple(t)  BY <1>10, CoupleStep
<1>11. CASE Search(t)  BY <1>11, SearchStep
<1>12. CASE ReadValue(t)  BY <1>12, ReadValueStep
<1>13. CASE ValidateLeaf(t)  BY <1>13, ValidateLeafStep
<1> QED
  BY <1>1, <1>2, <1>3, <1>4, <1>5, <1>6, <1>7, <1>8, <1>9, <1>10, <1>11, <1>12, <1>13 DEF Descend

\* A step of insert() in its leaf.
LEMMA PlaceStep ==
  ASSUME NEW span, NEW level, NEW t \in Threads, IInv(span, level), Place(t)
  PROVE  IInv(span, level)'
<1>1. CASE Upgrade(t)  BY <1>1, UpgradeStep
<1>2. CASE NoRoom(t)  BY <1>2, NoRoomStep
<1>3. CASE Find(t)  BY <1>3, FindStep
<1>4. CASE Shift(t)  BY <1>4, ShiftStep
<1>5. CASE StoreValue(t)  BY <1>5, StoreValueStep
<1>6. CASE CountUp(t)  BY <1>6, CountUpStep
<1>7. CASE ReleaseLeaf(t)  BY <1>7, ReleaseLeafStep
<1>8. CASE CountEntry(t)  BY <1>8, CountEntryStep
<1> QED  BY <1>1, <1>2, <1>3, <1>4, <1>5, <1>6, <1>7, <1>8 DEF Place

\* A step of the slow path; a new node has a span and a level of its own.
LEMMA SlowPathStep ==
  ASSUME NEW span, NEW level, NEW t \in Threads, IInv(span, level), LinksOK(nodes, span), Slow(t)
  PROVE  \E span2, level2 : IInv(span2, level2)' /\ LinksOK(nodes', span2)
<1>1. CASE Plant(t)
  <2>1. PICK level2 : IInv(Append(span, Keys), level2)'  BY <1>1, PlantStep
  <2>2. LinksOK(nodes', Append(span, Keys))  BY <1>1, PlantLinks
  <2> QED  BY <2>1, <2>2
<1>2. CASE Grow(t)
  <2>1. PICK level2 : IInv(Append(span, Keys), level2)'  BY <1>2, GrowStep
  <2>2. LinksOK(nodes', Append(span, Keys))  BY <1>2, GrowLinks
  <2> QED  BY <2>1, <2>2
<1>3. CASE Split(t)
  <2>1. PICK span2, level2, sep :
          /\ IInv(span2, level2)'
          /\ Divides(th[t].child, Len(nodes) + 1, sep, span, level, span2, level2)
          /\ sep \in span[th[t].child] /\ \E k \in span[th[t].child] : k < sep
    BY <1>3, SplitStep
  <2>2. LinksOK(nodes', span2)  BY <1>3, <2>1, SplitLinks
  <2> QED  BY <2>1, <2>2
<1>4. CASE ~Plant(t) /\ ~Grow(t) /\ ~Split(t)
  <2>1. TypeOK  BY DEF IInv
  <2>2. LinksOK(nodes', span)  BY <1>4, <2>1, SlowLinks, LinksKeep
  <2>3. CASE LockTree(t)  BY <2>2, <2>3, LockTreeStep
  <2>4. CASE LockRoot(t)  BY <2>2, <2>4, LockRootStep
  <2>5. CASE ShiftChild(t)  BY <2>2, <2>5, ShiftChildStep
  <2>6. CASE StoreChild(t)  BY <2>2, <2>6, StoreChildStep
  <2>7. CASE CountChild(t)  BY <2>2, <2>7, CountChildStep
  <2>8. CASE PublishRoot(t)  BY <2>2, <2>8, PublishRootStep
  <2>9. CASE ReleaseChild(t)  BY <2>2, <2>9, ReleaseChildStep
  <2>10. CASE ReleaseTree(t)  BY <2>2, <2>10, ReleaseTreeStep
  <2>11. CASE LockChild(t)  BY <2>2, <2>11, LockChildStep
  <2>12. CASE ChildRoom(t)  BY <2>2, <2>12, ChildRoomStep
  <2>13. CASE ReleaseParent(t)  BY <2>2, <2>13, ReleaseParentStep
  <2>14. CASE SlowRoom(t)  BY <2>2, <2>14, SlowRoomStep
  <2> QED
    BY <1>4, <2>3, <2>4, <2>5, <2>6, <2>7, <2>8, <2>9, <2>10, <2>11, <2>12, <2>13, <2>14 DEF Slow
<1> QED  BY <1>1, <1>2, <1>3, <1>4

Inv == \E span, level : IInv(span, level) /\ LinksOK(nodes, span)

\* Every step of the program keeps the invariant.
LEMMA NextStep ==
  ASSUME Inv, [Next]_vars
  PROVE  Inv'
<1>1. PICK span, level : IInv(span, level) /\ LinksOK(nodes, span)  BY DEF Inv
<1>2. TypeOK  BY <1>1 DEF IInv
<1>3. CASE UNCHANGED vars
  <2>1. IInv(span, level)'  BY <1>1, <1>3, StutterStep
  <2>2. LinksOK(nodes', span)  BY <1>1, <1>3 DEF vars
  <2> QED  BY <2>1, <2>2 DEF Inv
<1>4. ASSUME NEW t \in Threads, Call(t) \/ Work(t) PROVE Inv'
  <2>1. CASE Call(t)
    <3>1. IInv(span, level)'  BY <1>1, <1>4, <2>1, CallStep
    <3>2. LinksOK(nodes', span)  BY <1>1, <1>2, <1>4, <2>1, DescendLinks, LinksKeep
    <3> QED  BY <3>1, <3>2 DEF Inv
  <2>2. CASE Descend(t)
    <3>1. IInv(span, level)'  BY <1>1, <1>4, <2>2, DescendStep
    <3>2. LinksOK(nodes', span)  BY <1>1, <1>2, <1>4, <2>2, DescendLinks, LinksKeep
    <3> QED  BY <3>1, <3>2 DEF Inv
  <2>3. CASE Place(t)
    <3>1. IInv(span, level)'  BY <1>1, <1>4, <2>3, PlaceStep
    <3>2. LinksOK(nodes', span)  BY <1>1, <1>2, <1>4, <2>3, PlaceLinks, LinksKeep
    <3> QED  BY <3>1, <3>2 DEF Inv
  <2>4. CASE Slow(t)
    <3>1. \E span2, level2 : IInv(span2, level2)' /\ LinksOK(nodes', span2)
      BY <1>1, <1>4, <2>4, SlowPathStep
    <3> QED  BY <3>1 DEF Inv
  <2> QED  BY <1>4, <2>1, <2>2, <2>3, <2>4 DEF Work
<1> QED  BY <1>3, <1>4 DEF Next

\* The tree, the locks and what every thread has seen of them stay right: there
\* always are spans and levels of the nodes with which the invariant holds.
THEOREM InvHolds == Spec => []Inv
<1>1. Init => Inv  BY InitRight DEF Inv
<1>2. Inv /\ [Next]_vars => Inv'  BY NextStep
<1> QED  BY <1>1, <1>2, PTL DEF Spec

----------------------------------------------------------------------------
(* What follows from it. *)

\* The variables have their types: a node's counts, links and children stay in
\* its arrays, and a thread's locals name nodes that exist.
THEOREM TypeHolds == Spec => []TypeOK
<1>1. Inv => TypeOK  BY DEF Inv, IInv
<1> QED  BY <1>1, InvHolds, PTL

\* What a call answers was true of the tree at a moment of the call.
LEMMA AnswersFollow ==
  ASSUME Inv
  PROVE  AnswersRight
<1>1. PICK span, level : IInv(span, level)  BY DEF Inv
<1>2. SUFFICES ASSUME NEW t \in Threads, th[t].pc = "returned"
               PROVE  IF th[t].op = "lookup"
                      THEN IF th[t].answer THEN th[t].found \in wins /\ th[t].found.key = th[t].key
                                           ELSE th[t].key \notin th[t].before
                      ELSE IF th[t].answer THEN th[t].key \notin th[t].before
                                           ELSE th[t].key \in {w.key : w \in wins}
  BY DEF AnswersRight, At
<1>3. Calls(t)  BY <1>1, Start
<1> QED  BY <1>2, <1>3 DEF Calls

\* lookup() and insert() are linearizable, whatever splits and inserts pass by:
\* a lookup returns the value inserted under its key, and no answer contradicts
\* a call that had ended before.
THEOREM AnswersHold == Spec => []AnswersRight
<1>1. Inv => AnswersRight  BY AnswersFollow
<1> QED  BY <1>1, InvHolds, PTL

\* A node about to be given a separator is not full.
LEMMA RoomFollows ==
  ASSUME Inv
  PROVE  RoomForSplit
<1>1. PICK span, level : IInv(span, level)  BY DEF Inv
<1>2. ASSUME NEW t \in Threads, th[t].pc = "child_room"
      PROVE  ~(Full(th[t].child) /\ Full(th[t].node))
  <2>1. HasRoom(t, span, level) /\ HoldsChild(t) /\ HoldsNode(t) /\ Locks /\ TypeOK
    BY <1>1, <1>2, Start, Basics DEF HoldsChild, HoldsNode, Walking
  <2>2. th[t].node \in DOMAIN nodes /\ th[t].child \in DOMAIN nodes  BY <2>1 DEF Locks
  <2>3. nodes[th[t].node].count \in 0 .. Fanout /\ nodes[th[t].child].count \in 0 .. Fanout
    BY <2>1, <2>2, NodeFacts
  <2>4. nodes[th[t].node].count < Fanout \/ nodes[th[t].child].count < Fanout  BY <1>2, <2>1 DEF HasRoom
  <2> QED  BY <2>3, <2>4, FanoutFacts DEF Full
<1>3. ASSUME NEW t \in Threads, th[t].pc = "slow_room" PROVE ~Full(th[t].node)
  <2>1. Descends(t, span, level) /\ HoldsNode(t) /\ Locks /\ TypeOK
    BY <1>1, <1>3, Start, Basics DEF HoldsNode, Walking
  <2>2. th[t].node \in DOMAIN nodes  BY <2>1 DEF Locks
  <2>3. nodes[th[t].node].count \in 0 .. Fanout  BY <2>1, <2>2, NodeFacts
  <2>4. nodes[th[t].node].count < Fanout  BY <1>3, <2>1 DEF Descends
  <2> QED  BY <2>3, <2>4, FanoutFacts DEF Full
<1> QED  BY <1>2, <1>3 DEF RoomForSplit, At

\* The slow path always finds room, so its defensive restarts never happen.
THEOREM RoomHolds == Spec => []RoomForSplit
<1>1. Inv => RoomForSplit  BY RoomFollows
<1> QED  BY <1>1, InvHolds, PTL

\* Two threads never hold the lock of the same node, or both the tree's, and a
\* node is locked just while a thread holds it.
LockedOnce ==
  /\ \A n \in DOMAIN nodes : IsLocked(nodes[n].ver) <=> \E t \in Threads : Holds(t, n)
  /\ \A t, u \in Threads : t # u =>
       /\ \A n \in DOMAIN nodes : ~(Holds(t, n) /\ Holds(u, n))
       /\ ~(HoldsTree(t) /\ HoldsTree(u))

\* The version locks exclude: upgrade() succeeds for one thread only, what has
\* been released is not released again, and no path leaves a node locked.
THEOREM LocksExclude == Spec => []LockedOnce
<1>1. ASSUME Inv PROVE LockedOnce
  <2>1. Locks  BY <1>1 DEF Inv, IInv
  <2>2. ASSUME NEW n \in DOMAIN nodes, NEW t \in Threads, Holds(t, n) PROVE IsLocked(nodes[n].ver)
    BY <2>1, <2>2 DEF Locks, Holds
  <2>3. \A n \in DOMAIN nodes : IsLocked(nodes[n].ver) <=> \E t \in Threads : Holds(t, n)
    BY <2>1, <2>2 DEF Locks
  <2> QED  BY <2>1, <2>3 DEF Locks, LockedOnce
<1> QED  BY <1>1, InvHolds, PTL

\* The slots in use of the leaves.
Slots == {s \in (DOMAIN nodes) \X (0 .. Fanout - 1) : nodes[s[1]].leaf /\ s[2] < nodes[s[1]].count}
KeyAt(s) == nodes[s[1]].keys[s[2]]
ValueAt(s) == nodes[s[1]].values[s[2]]

\* The leaves hold the accepted entries, each of them once, and count() is
\* their number: what TreeRight says without the order along the links.
StoredOnce == Quiet =>
  /\ \A s \in Slots : ValueAt(s) \in wins /\ ValueAt(s).key = KeyAt(s)
  /\ \A w \in wins : \E s \in Slots : ValueAt(s) = w
  /\ \A r, s \in Slots : KeyAt(r) = KeyAt(s) => r = s
  /\ entries = Cardinality(wins)

\* When no lock is held, every node holds what it is responsible for.
LEMMA QuietOK ==
  ASSUME NEW span, NEW level, IInv(span, level), Quiet
  PROVE  /\ \A n \in DOMAIN nodes : NodeOK(n, span, level) /\ level[n] <= level[root]
         /\ root # Null => span[root] = Keys
<1>1. \A t \in Threads, n \in DOMAIN nodes : ~Holds(t, n)
  <2>1. \A t \in Threads, n \in DOMAIN nodes : Holds(t, n) => IsLocked(nodes[n].ver)  BY Holding
  <2> QED  BY <2>1 DEF Quiet
<1>2. \A t \in Threads : ~HoldsTree(t)  BY Holding DEF Quiet
<1>3. \A t \in Threads : \A n : ~Private(t, n)  BY <1>2, Holding
<1>4. Spans(span, level)  BY Basics
<1>5. \A n \in DOMAIN nodes : level[n] <= level[root]  BY <1>3, <1>4 DEF Spans
<1>6. \A n \in DOMAIN nodes : NodeOK(n, span, level)  BY <1>5, UnlockedOK DEF Quiet
<1>7. ~Reduced
  <2> SUFFICES ASSUME NEW t \in Threads, th[t].grow, th[t].pc \in Opening \union {"publish_root"} PROVE FALSE
    BY DEF Reduced
  <2>1. Private(t, th[t].node)  BY DEF Private, Splitting
  <2> QED  BY <1>3, <2>1
<1> QED  BY <1>4, <1>5, <1>6, <1>7 DEF Spans

\* Some leaf is responsible for each key.
LEMMA LeafFor ==
  ASSUME NEW span, NEW level, IInv(span, level), Quiet, root # Null, NEW k \in Keys
  PROVE  \E n \in DOMAIN nodes : nodes[n].leaf /\ k \in span[n]
<1> DEFINE T == {level[n] : n \in {m \in DOMAIN nodes : k \in span[m]}}
<1>1. \A n \in DOMAIN nodes : level[n] \in Nat /\ (nodes[n].leaf <=> level[n] = 0)  BY Basics DEF Spans
<1>2. root \in DOMAIN nodes /\ span[root] = Keys  BY Basics, QuietOK
<1>3. T \in SUBSET Nat /\ T # {}  BY <1>1, <1>2
<1>4. PICK l \in T : \A j \in T : l <= j
  <2> HIDE DEF T
  <2> QED  BY <1>3, LeastNumber
<1>5. PICK n \in DOMAIN nodes : k \in span[n] /\ level[n] = l  BY <1>4
<1>6. CASE nodes[n].leaf  BY <1>5, <1>6
<1>7. CASE ~nodes[n].leaf
  <2>1. InnerOK(nodes[n].keys, nodes[n].kids, nodes[n].count, span[n], level[n], span, level)
    BY <1>7, QuietOK DEF NodeOK
  <2>2. TypeOK /\ k \in Int  BY Basics, KeysAssumption
  <2>3. nodes[n].count \in 0 .. Fanout  BY <2>2, NodeFacts
  <2>4. PICK i : i = ChildIndex(nodes[n].keys, nodes[n].count, k)  OBVIOUS
  <2>5. PICK m : m = nodes[n].kids[i]  OBVIOUS
  <2>6. m \in DOMAIN nodes /\ level[m] = level[n] - 1 /\ k \in span[m]
    BY <1>5, <2>1, <2>2, <2>3, <2>4, <2>5, InnerPick
  <2>7. level[m] \in T  BY <2>6
  <2>8. level[m] \in Nat /\ level[n] \in Nat  BY <1>1, <2>6
  <2> QED  BY <1>4, <1>5, <2>6, <2>7, <2>8
<1> QED  BY <1>6, <1>7

\* While nobody writes it, no leaf lacks an entry or holds it twice.
LEMMA StoredFollows ==
  ASSUME Inv
  PROVE  StoredOnce
<1>1. PICK span, level : IInv(span, level)  BY DEF Inv
<1>2. SUFFICES ASSUME Quiet
               PROVE  /\ \A s \in Slots : ValueAt(s) \in wins /\ ValueAt(s).key = KeyAt(s)
                      /\ \A w \in wins : \E s \in Slots : ValueAt(s) = w
                      /\ \A r, s \in Slots : KeyAt(r) = KeyAt(s) => r = s
                      /\ entries = Cardinality(wins)
  BY DEF StoredOnce
<1>3. TypeOK /\ History /\ Tally /\ Spans(span, level)  BY <1>1, Basics
<1>4. \A n \in DOMAIN nodes : nodes[n].leaf =>
        LeafOK(nodes[n].keys, nodes[n].values, nodes[n].count, span[n], wins)
  BY <1>1, <1>2, QuietOK DEF NodeOK
<1>5. \A n \in DOMAIN nodes : nodes[n].count \in 0 .. Fanout /\ nodes[n].keys \in Arrays  BY <1>3, NodeFacts
<1>6. \A s \in Slots :
        /\ s = <<s[1], s[2]>> /\ s[1] \in DOMAIN nodes /\ s[2] \in 0 .. nodes[s[1]].count - 1
        /\ nodes[s[1]].leaf
  BY <1>5, FanoutFacts DEF Slots
<1>7. \A s \in Slots : ValueAt(s) \in wins /\ ValueAt(s).key = KeyAt(s) /\ KeyAt(s) \in span[s[1]]
  BY <1>4, <1>6 DEF ValueAt, KeyAt, LeafOK
<1>8. \A w \in wins : \E s \in Slots : ValueAt(s) = w
  <2> SUFFICES ASSUME NEW w \in wins PROVE \E s \in Slots : ValueAt(s) = w  OBVIOUS
  <2>1. w.key \in Keys /\ root # Null  BY <1>3 DEF History
  <2>2. PICK n \in DOMAIN nodes : nodes[n].leaf /\ w.key \in span[n]  BY <1>1, <1>2, <2>1, LeafFor
  <2>3. PICK i \in 0 .. nodes[n].count - 1 : nodes[n].values[i] = w  BY <1>4, <2>2 DEF LeafOK
  <2>4. i \in 0 .. Fanout - 1 /\ i < nodes[n].count  BY <1>5, <2>3, FanoutFacts
  <2>5. <<n, i>> \in Slots  BY <2>2, <2>4 DEF Slots
  <2>6. ValueAt(<<n, i>>) = w  BY <2>3 DEF ValueAt
  <2> QED  BY <2>5, <2>6
<1>9. ASSUME NEW r \in Slots, NEW s \in Slots, KeyAt(r) = KeyAt(s) PROVE r = s
  <2>1. PICK m, n : m = r[1] /\ n = s[1]  OBVIOUS
  <2>2. PICK i, j : i = r[2] /\ j = s[2]  OBVIOUS
  <2>3. /\ m \in DOMAIN nodes /\ n \in DOMAIN nodes /\ nodes[m].leaf /\ nodes[n].leaf
        /\ i \in 0 .. nodes[m].count - 1 /\ j \in 0 .. nodes[n].count - 1
    BY <1>6, <2>1, <2>2
  <2>4. PICK k : k = KeyAt(r)  OBVIOUS
  <2>5. k = nodes[m].keys[i] /\ k = nodes[n].keys[j]  BY <1>9, <2>1, <2>2, <2>4 DEF KeyAt
  <2>6. k \in span[m] /\ k \in span[n]  BY <1>7, <1>9, <2>1, <2>4
  <2>7. level[m] = 0 /\ level[n] = 0  BY <1>3, <2>3 DEF Spans
  <2>8. m = n  BY <1>3, <2>3, <2>6, <2>7, OneNode
  <2>9. Ascending(nodes[m].keys, nodes[m].count)  BY <1>4, <2>3 DEF LeafOK
  <2>10. nodes[m].keys[i] \in Int /\ i \in Int /\ j \in Int /\ j \in 0 .. nodes[m].count - 1
    <3>1. nodes[m].keys \in Arrays /\ nodes[m].count \in 0 .. Fanout  BY <1>5, <2>3
    <3>2. i \in 0 .. Fanout - 1  BY <2>3, <3>1, FanoutFacts
    <3>3. nodes[m].keys[i] \in Int  BY <3>1, <3>2 DEF Arrays
    <3>4. j \in 0 .. nodes[m].count - 1  BY <2>3, <2>8
    <3> QED  BY <3>2, <3>3, <3>4
  <2>11. i = j
    <3>b. PICK ks, c : ks = nodes[m].keys /\ c = nodes[m].count  OBVIOUS
    <3>c. ks[i] = ks[j] /\ ks[i] \in Int /\ i \in 0 .. c - 1 /\ j \in 0 .. c - 1
      BY <2>3, <2>5, <2>8, <2>10, <3>b
    <3>d. \A a, b \in 0 .. c - 1 : a < b => ks[a] < ks[b]  BY <2>9, <3>b DEF Ascending
    <3>1. ~(i < j)  BY <3>c, <3>d
    <3>2. ~(j < i)  BY <3>c, <3>d
    <3> QED  BY <2>10, <3>1, <3>2
  <2> QED  BY <1>6, <2>1, <2>2, <2>8, <2>11
<1>10. entries = Cardinality(wins)
  <2>1. Counting = {}  BY <1>2 DEF Counting, Quiet
  <2>2. Cardinality(Counting) = 0  BY <2>1, FS_EmptySet
  <2> QED  BY <1>3, <2>2 DEF Tally, TypeOK
<1> QED  BY <1>7, <1>8, <1>9, <1>10

\* Inserts and splits of several threads lose and duplicate nothing: whenever
\* no lock is held, the leaves hold each accepted entry once, and count() counts
\* them.
THEOREM StoredHolds == Spec => []StoredOnce
<1>1. Inv => StoredOnce  BY StoredFollows
<1> QED  BY <1>1, InvHolds, PTL

----------------------------------------------------------------------------
(* Induction and recursion over an interval of numbers. *)

\* What is so at 0 and goes on to the next number is so up to the end.
LEMMA Climb ==
  ASSUME NEW N \in Nat, NEW S, 0 \in S, \A k \in 0 .. N - 1 : k \in S => k + 1 \in S
  PROVE  \A k \in 0 .. N : k \in S
<1> SUFFICES ASSUME NEW j \in 0 .. N, j \notin S PROVE FALSE  OBVIOUS
<1> DEFINE T == {k \in 0 .. N : k \notin S}
<1>1. T \in SUBSET Nat /\ T # {}  OBVIOUS
<1>2. PICK m \in T : \A k \in T : m <= k
  <2> HIDE DEF T
  <2> QED  BY <1>1, LeastNumber
<1>3. m \in 0 .. N /\ m \notin S /\ m # 0  BY <1>2
<1>4. m - 1 \in 0 .. N - 1 /\ m - 1 \notin T  BY <1>2, <1>3
<1>5. m - 1 \in S  BY <1>4
<1> QED  BY <1>3, <1>4, <1>5

\* The N steps of F from a, which stay in D; and a function that takes them as
\* long as it stays in D.
Stays(D, N, a, F) == N \in Nat /\ a \in D /\ F \in [D -> D]
Walk(f, D, N, a, F) == f \in [0 .. N -> D] /\ f[0] = a /\ \A k \in 1 .. N : f[k] = F[f[k - 1]]
Follows(h, D, N, a, F) == h[0] = a /\ \A k \in 1 .. N : h[k - 1] \in D => h[k] = F[h[k - 1]]

\* A function of N steps from a exists, and its last value is the only one.
LEMMA Steps ==
  ASSUME NEW D, NEW N, NEW a, NEW F, Stays(D, N, a, F)
  PROVE  \E f : Walk(f, D, N, a, F) /\ \A h : Follows(h, D, N, a, F) => h[N] = f[N]
<1>0. N \in Nat /\ a \in D /\ F \in [D -> D]  BY DEF Stays
<1> USE <1>0
<1> DEFINE S == {m \in 0 .. N : \E f \in [0 .. m -> D] : f[0] = a /\ \A k \in 1 .. m : f[k] = F[f[k - 1]]}
<1>1. 0 \in S
  <2>1. PICK f : f = [k \in 0 .. 0 |-> a]  OBVIOUS
  <2>2. f \in [0 .. 0 -> D] /\ f[0] = a /\ \A k \in 1 .. 0 : f[k] = F[f[k - 1]]  BY <2>1
  <2> QED  BY <2>2
<1>2. ASSUME NEW m \in 0 .. N - 1, m \in S PROVE m + 1 \in S
  <2>1. PICK f \in [0 .. m -> D] : f[0] = a /\ \A k \in 1 .. m : f[k] = F[f[k - 1]]  BY <1>2
  <2>2. PICK g : g = [k \in 0 .. m + 1 |-> IF k <= m THEN f[k] ELSE F[f[m]]]  OBVIOUS
  <2>3. \A k \in 0 .. m : k \in 0 .. m + 1 /\ k <= m  OBVIOUS
  <2>4. \A k \in 0 .. m : g[k] = f[k]  BY <2>2, <2>3
  <2>5. g[m + 1] = F[f[m]]
    <3>1. m + 1 \in 0 .. m + 1 /\ ~(m + 1 <= m)  OBVIOUS
    <3> QED  BY <2>2, <3>1
  <2>6. f[m] \in D /\ F[f[m]] \in D  OBVIOUS
  <2>7. g \in [0 .. m + 1 -> D]
    <3>1. \A k \in 0 .. m + 1 : (IF k <= m THEN f[k] ELSE F[f[m]]) \in D  BY <2>6
    <3> QED  BY <2>2, <3>1
  <2>8. \A k \in 1 .. m + 1 : g[k] = F[g[k - 1]]
    <3> SUFFICES ASSUME NEW k \in 1 .. m + 1 PROVE g[k] = F[g[k - 1]]  OBVIOUS
    <3>1. CASE k = m + 1
      <4>1. k - 1 = m /\ m \in 0 .. m  BY <3>1
      <4> QED  BY <2>4, <2>5, <3>1, <4>1
    <3>2. CASE k # m + 1
      <4>1. k \in 1 .. m /\ k \in 0 .. m /\ k - 1 \in 0 .. m  BY <3>2
      <4> QED  BY <2>1, <2>4, <4>1
    <3> QED  BY <3>1, <3>2
  <2>9. g[0] = a
    <3>1. 0 \in 0 .. m  OBVIOUS
    <3> QED  BY <2>1, <2>4, <3>1
  <2>10. m + 1 \in 0 .. N  OBVIOUS
  <2> QED  BY <2>7, <2>8, <2>9, <2>10
<1>3. N \in S
  <2>1. N \in 0 .. N  OBVIOUS
  <2> HIDE DEF S
  <2>2. \A k \in 0 .. N : k \in S  BY <1>1, <1>2, Climb
  <2> QED  BY <2>1, <2>2
<1>4. PICK f \in [0 .. N -> D] : f[0] = a /\ \A k \in 1 .. N : f[k] = F[f[k - 1]]  BY <1>3
<1>5. ASSUME NEW h, Follows(h, D, N, a, F)
      PROVE  h[N] = f[N]
  <2>0. h[0] = a /\ \A k \in 1 .. N : h[k - 1] \in D => h[k] = F[h[k - 1]]  BY <1>5 DEF Follows
  <2>1. PICK E : E = {k \in 0 .. N : h[k] = f[k]}  OBVIOUS
  <2>2. 0 \in E  BY <1>4, <2>0, <2>1
  <2>3. ASSUME NEW k \in 0 .. N - 1, k \in E PROVE k + 1 \in E
    <3>1. k + 1 \in 1 .. N /\ (k + 1) - 1 = k /\ k \in 0 .. N /\ k + 1 \in 0 .. N  OBVIOUS
    <3>2. h[k] = f[k] /\ f[k] \in D  BY <2>1, <2>3, <3>1
    <3>3. h[k + 1] = F[h[k]] /\ f[k + 1] = F[f[k]]  BY <1>4, <2>0, <3>1, <3>2
    <3> QED  BY <2>1, <3>1, <3>2, <3>3
  <2>4. \A k \in 0 .. N : k \in E  BY <2>2, <2>3, Climb
  <2>5. N \in 0 .. N  OBVIOUS
  <2> QED  BY <2>1, <2>4, <2>5
<1>6. Walk(f, D, N, a, F)  BY <1>4 DEF Walk
<1> QED  BY <1>5, <1>6

\* N + 1 choices among N numbers repeat one.
LEMMA Pigeons ==
  ASSUME NEW N \in Nat, NEW f \in [0 .. N -> 1 .. N]
  PROVE  \E i, j \in 0 .. N : i < j /\ f[i] = f[j]
<1>1. IsFiniteSet(0 .. N) /\ Cardinality(0 .. N) = N + 1 /\ IsFiniteSet(1 .. N) /\ Cardinality(1 .. N) = N
  <2>1. 0 \in Int /\ 1 \in Int /\ N \in Int  OBVIOUS
  <2>2. /\ IsFiniteSet(0 .. N) /\ Cardinality(0 .. N) = IF 0 > N THEN 0 ELSE N - 0 + 1
        /\ IsFiniteSet(1 .. N) /\ Cardinality(1 .. N) = IF 1 > N THEN 0 ELSE N - 1 + 1
    BY <2>1, FS_Interval
  <2> QED  BY <2>2
<1>2. Cardinality(1 .. N) < Cardinality(0 .. N)  BY <1>1
<1>3. PICK x, y \in 0 .. N : x # y /\ f[x] = f[y]  BY <1>1, <1>2, FS_PigeonHole
<1> QED  BY <1>3


----------------------------------------------------------------------------
(* The chain of leaves holds the entries in the order of their keys.        *)

\* A step of G from an inner node of D leads one level down.
GoesDown(D, G, level) ==
  D \subseteq DOMAIN nodes /\ \A n \in D : IF nodes[n].leaf THEN G[n] = n ELSE level[G[n]] = level[n] - 1

\* A way down through nodes of D is at a leaf after as many steps as there are nodes.
LEMMA DownToLeaf ==
  ASSUME NEW span, NEW level, IInv(span, level), NEW D, NEW a, NEW G, NEW f,
         GoesDown(D, G, level), Walk(f, D, Len(nodes), a, G)
  PROVE  nodes[f[Len(nodes)]].leaf
<1>0. /\ D \subseteq DOMAIN nodes /\ \A n \in D : IF nodes[n].leaf THEN G[n] = n ELSE level[G[n]] = level[n] - 1
      /\ f \in [0 .. Len(nodes) -> D] /\ f[0] = a /\ \A k \in 1 .. Len(nodes) : f[k] = G[f[k - 1]]
  BY DEF GoesDown, Walk
<1>1. PICK N, l : N = Len(nodes) /\ l = level[a]  OBVIOUS
<1>2. /\ N \in Nat /\ DOMAIN nodes = 1 .. N /\ N \in 0 .. N /\ D \subseteq 1 .. N
      /\ \A n \in DOMAIN nodes : level[n] \in Nat /\ (nodes[n].leaf <=> level[n] = 0)
  <2>1. N \in Nat /\ DOMAIN nodes = 1 .. N  BY <1>1, Basics
  <2>2. \A n \in DOMAIN nodes : level[n] \in Nat /\ (nodes[n].leaf <=> level[n] = 0)  BY Basics DEF Spans
  <2> QED  BY <1>0, <2>1, <2>2
<1>3. l \in Nat /\ \A k \in 0 .. N : f[k] \in D /\ f[k] \in DOMAIN nodes
  <2>1. \A k \in 0 .. N : f[k] \in D /\ f[k] \in DOMAIN nodes  BY <1>0, <1>1
  <2>2. 0 \in 0 .. N /\ f[0] = a  BY <1>0, <1>2
  <2> QED  BY <1>1, <1>2, <2>1, <2>2
<1>4. PICK S : S = {k \in 0 .. N : level[f[k]] = IF k <= l THEN l - k ELSE 0}  OBVIOUS
<1>5. 0 \in S  BY <1>0, <1>1, <1>2, <1>3, <1>4
<1>6. ASSUME NEW k \in 0 .. N - 1, k \in S PROVE k + 1 \in S
  <2>1. k \in 0 .. N /\ k + 1 \in 1 .. N /\ k + 1 \in 0 .. N /\ (k + 1) - 1 = k  BY <1>2
  <2>2. f[k + 1] = G[f[k]] /\ f[k] \in D /\ f[k] \in DOMAIN nodes /\ f[k + 1] \in DOMAIN nodes
    BY <1>0, <1>1, <1>3, <2>1
  <2>3. level[f[k]] = IF k <= l THEN l - k ELSE 0  BY <1>4, <1>6
  <2>4. CASE nodes[f[k]].leaf
    <3>1. level[f[k]] = 0 /\ f[k + 1] = f[k]  BY <1>0, <1>2, <2>2, <2>4
    <3>2. ~(k + 1 <= l)  BY <1>3, <2>3, <3>1
    <3> QED  BY <1>4, <2>1, <3>1, <3>2
  <2>5. CASE ~nodes[f[k]].leaf
    <3>1. level[f[k]] # 0 /\ level[f[k + 1]] = level[f[k]] - 1  BY <1>0, <1>2, <2>2, <2>5
    <3>2. k + 1 <= l /\ level[f[k + 1]] = l - (k + 1)  BY <1>3, <2>3, <3>1
    <3> QED  BY <1>4, <2>1, <3>2
  <2> QED  BY <2>4, <2>5
<1>7. \A k \in 0 .. N : k \in S  BY <1>2, <1>5, <1>6, Climb
<1> SUFFICES ASSUME ~nodes[f[N]].leaf PROVE FALSE  BY <1>1
<1>8. N <= l
  <2>1. level[f[N]] # 0 /\ N \in S  BY <1>2, <1>3, <1>7
  <2>2. level[f[N]] = IF N <= l THEN l - N ELSE 0  BY <1>4, <2>1
  <2> QED  BY <2>1, <2>2
<1>9. \A k \in 0 .. N : level[f[k]] = l - k
  <2> TAKE k \in 0 .. N
  <2>1. k \in Nat /\ k <= N  BY <1>2
  <2>2. N \in Nat /\ l \in Nat  BY <1>2, <1>3
  <2>3. k <= l  BY <1>8, <2>1, <2>2
  <2>4. k \in S  BY <1>7
  <2> QED  BY <1>4, <2>3, <2>4
<1>10. f \in [0 .. N -> 1 .. N]  BY <1>0, <1>1, <1>2
<1>11. PICK i, j \in 0 .. N : i < j /\ f[i] = f[j]
  <2>1. N \in Nat  BY <1>2
  <2> QED  BY ONLY <1>10, <2>1, Pigeons
<1>12. l - i = l - j  BY <1>9, <1>11
<1> QED  BY <1>2, <1>3, <1>11, <1>12

\* first() comes to a leaf with no key below its own.
LEMMA LeftmostLeaf ==
  ASSUME NEW span, NEW level, IInv(span, level), LinksOK(nodes, span), Quiet, root # Null
  PROVE  /\ Leftmost \in DOMAIN nodes /\ nodes[Leftmost].leaf
         /\ span[Leftmost] \union Above(span[Leftmost]) = Keys
<1>1. PICK N : N = Len(nodes)  OBVIOUS
<1>2. /\ N \in Nat /\ DOMAIN nodes = 1 .. N /\ root \in DOMAIN nodes /\ span[root] = Keys /\ TypeOK
      /\ \A n \in DOMAIN nodes : span[n] \subseteq Keys /\ level[n] \in Nat
  BY <1>1, Basics, QuietOK
<1>3. PICK D : D = {n \in DOMAIN nodes : span[n] \union Above(span[n]) = Keys}  OBVIOUS
<1>4. root \in D  BY <1>2, <1>3 DEF Above
<1>5. ASSUME NEW n \in D PROVE FirstChild(n) \in D /\ (~nodes[n].leaf => level[FirstChild(n)] = level[n] - 1)
  <2>1. n \in DOMAIN nodes /\ span[n] \union Above(span[n]) = Keys  BY <1>3
  <2>2. CASE nodes[n].leaf  BY <2>2 DEF FirstChild
  <2>3. CASE ~nodes[n].leaf
    <3>1. InnerOK(nodes[n].keys, nodes[n].kids, nodes[n].count, span[n], level[n], span, level)
      BY <2>1, <2>3, QuietOK DEF NodeOK
    <3>2. PICK ks, c, m : ks = nodes[n].keys /\ c = nodes[n].count /\ m = nodes[n].kids[0]  OBVIOUS
    <3>3. c \in 0 .. Fanout /\ 0 \in 0 .. c
      <4>1. c \in 0 .. Fanout  BY <1>2, <2>1, <3>2, NodeFacts
      <4> QED  BY <4>1, FanoutFacts
    <3>4. m \in DOMAIN nodes /\ level[m] = level[n] - 1 /\ span[m] = Segment(span[n], ks, c, 0)
      BY <3>1, <3>2, <3>3, Basics DEF InnerOK
    <3>5. span[m] # {} /\ Convex(span[n])  BY <2>1, <3>4 DEF LinksOK
    <3>6. span[m] \union Above(span[m]) = Keys
      <4>1. CASE c = 0
        <5>1. span[m] = span[n]  BY <3>4, <4>1 DEF Segment
        <5> QED  BY <2>1, <5>1
      <4>2. CASE c > 0
        <5>1. PICK sep : sep = ks[0]  OBVIOUS
        <5>2. sep \in span[n]
          <6>1. 0 \in 0 .. c - 1  BY <3>3, <4>2
          <6> QED  BY <3>1, <3>2, <5>1, <6>1 DEF InnerOK
        <5>3. span[m] = {k \in span[n] : k < sep}  BY <3>4, <4>2, <5>1 DEF Segment
        <5>4. PICK low \in span[m] : TRUE  BY <3>5
        <5>5. low \in span[n] /\ low < sep  BY <5>3, <5>4
        <5>6. PICK S, A, B : S = span[n] /\ A = span[m] /\ B = {k \in S : k >= sep}  OBVIOUS
        <5>7. S \in SUBSET Keys /\ Convex(S) /\ sep \in S /\ low \in S /\ low < sep
          BY <1>2, <2>1, <3>5, <5>2, <5>5, <5>6
        <5>8. A = {k \in S : k < sep} /\ B = {k \in S : k >= sep}  BY <5>3, <5>6
        <5>9. A \union Above(A) = S \union Above(S)  BY ONLY <5>7, <5>8, AboveHalves
        <5> QED  BY <2>1, <5>6, <5>9
      <4> QED  BY <3>3, <4>1, <4>2
    <3>7. FirstChild(n) = m  BY <2>3, <3>2 DEF FirstChild
    <3> QED  BY <1>3, <3>4, <3>6, <3>7
  <2> QED  BY <2>1, <2>2, <2>3
<1>6. PICK G : G = [n \in D |-> FirstChild(n)]  OBVIOUS
<1>7. G \in [D -> D]  BY <1>5, <1>6
<1>8. PICK f : Walk(f, D, N, root, G) /\ \A h : Follows(h, D, N, root, G) => h[N] = f[N]
  <2>1. Stays(D, N, root, G)  BY <1>2, <1>4, <1>7 DEF Stays
  <2> QED  BY <2>1, Steps
<1> DEFINE h == CHOOSE h : h = [k \in 0 .. Len(nodes) |-> IF k = 0 THEN root ELSE FirstChild(h[k - 1])]
<1>9. \A k \in 0 .. N : k # 0 => k \in 1 .. N /\ k - 1 \in 0 .. N /\ f[k - 1] \in D  BY <1>2, <1>8 DEF Walk
<1>10. f = [k \in 0 .. Len(nodes) |-> IF k = 0 THEN root ELSE FirstChild(f[k - 1])]
  <2>1. \A k \in 0 .. N : f[k] = IF k = 0 THEN root ELSE FirstChild(f[k - 1])  BY <1>6, <1>8, <1>9 DEF Walk
  <2> QED  BY <1>1, <1>8, <2>1 DEF Walk
<1>11. h = [k \in 0 .. Len(nodes) |-> IF k = 0 THEN root ELSE FirstChild(h[k - 1])]  BY <1>10
<1>12. Leftmost = h[N]  BY <1>1 DEF Leftmost
<1> HIDE DEF h
<1>13. Follows(h, D, N, root, G)
  <2>1. 0 \in 0 .. N /\ \A k \in 1 .. N : k \in 0 .. N /\ k # 0  BY <1>2
  <2> QED  BY <1>1, <1>6, <1>11, <2>1 DEF Follows
<1>14. Leftmost = f[N] /\ N \in 0 .. N
  <2>1. h[N] = f[N]  BY <1>8, <1>13
  <2> QED  BY <1>2, <1>12, <2>1
<1>15. nodes[f[N]].leaf /\ f[N] \in D
  <2>1. GoesDown(D, G, level)  BY <1>3, <1>5, <1>6 DEF GoesDown, FirstChild
  <2>2. Walk(f, D, Len(nodes), root, G)  BY <1>1, <1>8
  <2>3. nodes[f[Len(nodes)]].leaf  BY <2>1, <2>2, DownToLeaf
  <2> QED  BY <1>1, <1>8, <1>14, <2>3 DEF Walk
<1> QED  BY <1>3, <1>14, <1>15

\* A descent for a key comes to the leaf that is responsible for it.
LEMMA LeafOfKey ==
  ASSUME NEW span, NEW level, IInv(span, level), Quiet, root # Null, NEW key \in Keys
  PROVE  LeafOf(key) \in DOMAIN nodes /\ nodes[LeafOf(key)].leaf /\ key \in span[LeafOf(key)]
<1>1. PICK N : N = Len(nodes)  OBVIOUS
<1>2. /\ N \in Nat /\ DOMAIN nodes = 1 .. N /\ root \in DOMAIN nodes /\ span[root] = Keys /\ TypeOK
      /\ key \in Int
  BY <1>1, Basics, QuietOK, KeysAssumption
<1>3. PICK D : D = {n \in DOMAIN nodes : key \in span[n]}  OBVIOUS
<1>4. root \in D  BY <1>2, <1>3
<1>5. ASSUME NEW n \in D PROVE ChildFor(n, key) \in D /\ (~nodes[n].leaf => level[ChildFor(n, key)] = level[n] - 1)
  <2>1. n \in DOMAIN nodes /\ key \in span[n]  BY <1>3
  <2>2. CASE nodes[n].leaf  BY <2>2 DEF ChildFor
  <2>3. CASE ~nodes[n].leaf
    <3>1. InnerOK(nodes[n].keys, nodes[n].kids, nodes[n].count, span[n], level[n], span, level)
      BY <2>1, <2>3, QuietOK DEF NodeOK
    <3>2. nodes[n].count \in 0 .. Fanout  BY <1>2, <2>1, NodeFacts
    <3>3. PICK i : i = ChildIndex(nodes[n].keys, nodes[n].count, key)  OBVIOUS
    <3>4. PICK m : m = nodes[n].kids[i]  OBVIOUS
    <3>5. m \in DOMAIN nodes /\ level[m] = level[n] - 1 /\ key \in span[m]
      BY <1>2, <2>1, <3>1, <3>2, <3>3, <3>4, InnerPick
    <3>6. ChildFor(n, key) = m  BY <2>3, <3>3, <3>4 DEF ChildFor
    <3> QED  BY <1>3, <3>5, <3>6
  <2> QED  BY <2>1, <2>2, <2>3
<1>6. PICK G : G = [n \in D |-> ChildFor(n, key)]  OBVIOUS
<1>7. G \in [D -> D]  BY <1>5, <1>6
<1>8. PICK f : Walk(f, D, N, root, G) /\ \A h : Follows(h, D, N, root, G) => h[N] = f[N]
  <2>1. Stays(D, N, root, G)  BY <1>2, <1>4, <1>7 DEF Stays
  <2> QED  BY <2>1, Steps
<1> DEFINE h == CHOOSE h : h = [k \in 0 .. Len(nodes) |-> IF k = 0 THEN root ELSE ChildFor(h[k - 1], key)]
<1>9. \A k \in 0 .. N : k # 0 => k \in 1 .. N /\ k - 1 \in 0 .. N /\ f[k - 1] \in D  BY <1>2, <1>8 DEF Walk
<1>10. f = [k \in 0 .. Len(nodes) |-> IF k = 0 THEN root ELSE ChildFor(f[k - 1], key)]
  <2>1. \A k \in 0 .. N : f[k] = IF k = 0 THEN root ELSE ChildFor(f[k - 1], key)  BY <1>6, <1>8, <1>9 DEF Walk
  <2> QED  BY <1>1, <1>8, <2>1 DEF Walk
<1>11. h = [k \in 0 .. Len(nodes) |-> IF k = 0 THEN root ELSE ChildFor(h[k - 1], key)]  BY <1>10
<1>12. LeafOf(key) = h[N]  BY <1>1 DEF LeafOf
<1> HIDE DEF h
<1>13. Follows(h, D, N, root, G)
  <2>1. 0 \in 0 .. N /\ \A k \in 1 .. N : k \in 0 .. N /\ k # 0  BY <1>2
  <2> QED  BY <1>1, <1>6, <1>11, <2>1 DEF Follows
<1>14. LeafOf(key) = f[N] /\ N \in 0 .. N
  <2>1. h[N] = f[N]  BY <1>8, <1>13
  <2> QED  BY <1>2, <1>12, <2>1
<1>15. nodes[f[N]].leaf /\ f[N] \in D
  <2>1. GoesDown(D, G, level)  BY <1>3, <1>5, <1>6 DEF GoesDown, ChildFor
  <2>2. Walk(f, D, Len(nodes), root, G)  BY <1>1, <1>8
  <2>3. nodes[f[Len(nodes)]].leaf  BY <2>1, <2>2, DownToLeaf
  <2> QED  BY <1>1, <1>8, <1>14, <2>3 DEF Walk
<1> QED  BY <1>3, <1>14, <1>15

\* Leaves in the order of their keys, from the first one on: what they leave out
\* lies above the last of them.
GoodChain(s, span) ==
  /\ s \in Seq(DOMAIN nodes) /\ Len(s) >= 1
  /\ \A i \in 1 .. Len(s) : nodes[s[i]].leaf
  /\ \A i, j \in 1 .. Len(s) : i < j => \A a \in span[s[i]], b \in span[s[j]] : a < b
  /\ \A k \in Keys : k \in Above(span[s[Len(s)]]) \/ \E i \in 1 .. Len(s) : k \in span[s[i]]

\* One link further.
LEMMA OnwardGood ==
  ASSUME NEW span, NEW level, IInv(span, level), LinksOK(nodes, span), NEW s, GoodChain(s, span)
  PROVE  /\ GoodChain(Onward(s), span)
         /\ IF nodes[Last(s)].next = Null THEN Onward(s) = s ELSE Len(Onward(s)) = Len(s) + 1
<1>1. PICK c, last, next : c = Len(s) /\ last = s[c] /\ next = nodes[last].next  OBVIOUS
<1>2. /\ s \in Seq(DOMAIN nodes) /\ c \in Nat /\ c >= 1 /\ c \in 1 .. c /\ DOMAIN s = 1 .. c
      /\ \A i \in 1 .. c : s[i] \in DOMAIN nodes /\ nodes[s[i]].leaf
      /\ last \in DOMAIN nodes /\ nodes[last].leaf /\ Last(s) = last
  <2> DEFINE Z == DOMAIN nodes
  <2> HIDE DEF Z
  <2>1. s \in Seq(Z) /\ c >= 1  BY <1>1 DEF GoodChain, Z
  <2>2. c \in Nat /\ DOMAIN s = 1 .. c /\ (\A i \in 1 .. c : s[i] \in Z) /\ c \in 1 .. c  BY <1>1, <2>1
  <2>3. \A i \in 1 .. c : nodes[s[i]].leaf  BY <1>1 DEF GoodChain
  <2> QED  BY <1>1, <2>1, <2>2, <2>3 DEF Last, Z
<1>3. CASE next = Null
  <2>1. Onward(s) = s  BY <1>1, <1>2, <1>3 DEF Onward
  <2> QED  BY <1>1, <1>2, <1>3, <2>1
<1>4. CASE next # Null
  <2>1. /\ next \in DOMAIN nodes /\ nodes[next].leaf
        /\ Above(span[last]) = span[next] \union Above(span[next])
    <3>1. next \in 0 .. Len(nodes) /\ Len(nodes) \in Nat /\ DOMAIN nodes = 1 .. Len(nodes)
      <4>1. TypeOK  BY Basics
      <4> QED  BY <1>1, <1>2, <4>1, NodeFacts
    <3>2. next \in DOMAIN nodes  BY <1>4, <3>1 DEF Null
    <3> QED  BY <1>1, <1>2, <1>4, <3>2 DEF LinksOK
  <2>2. PICK s2 : s2 = Append(s, next)  OBVIOUS
  <2>3. Onward(s) = s2  BY <1>1, <1>2, <1>4, <2>2 DEF Onward
  <2>4. /\ s2 \in Seq(DOMAIN nodes) /\ Len(s2) = c + 1 /\ s2[c + 1] = next
        /\ \A i \in 1 .. c : s2[i] = s[i]
    <3> DEFINE Z == DOMAIN nodes
    <3>1. s \in Seq(Z) /\ next \in Z  BY <1>2, <2>1
    <3> HIDE DEF Z
    <3>2. s2 \in Seq(Z) /\ Len(s2) = c + 1 /\ s2[c + 1] = next /\ \A i \in 1 .. c : s2[i] = s[i]
      BY <1>1, <2>2, <3>1
    <3> QED  BY <3>2 DEF Z
  <2>5. \A i \in 1 .. c + 1 : i \in 1 .. c \/ i = c + 1  BY <1>2
  <2>6. \A i \in 1 .. Len(s2) : nodes[s2[i]].leaf  BY <1>2, <2>1, <2>4, <2>5
  <2>7. \A i \in 1 .. c : \A a \in span[s[i]], b \in span[next] : a < b
    <3> SUFFICES ASSUME NEW i \in 1 .. c, NEW a \in span[s[i]], NEW b \in span[next] PROVE a < b  OBVIOUS
    <3>1. b \in Above(span[last])  BY <2>1
    <3>2. \A j \in span[last] : j < b  BY <3>1 DEF Above
    <3>3. CASE i = c  BY <1>1, <3>2, <3>3
    <3>4. CASE i # c
      <4>1. i < c  BY <1>2, <3>4
      <4>2. PICK m \in span[last] : TRUE  BY <1>2 DEF LinksOK
      <4>3. a < m  BY <1>1, <1>2, <4>1, <4>2 DEF GoodChain
      <4>4. m < b  BY <3>2, <4>2
      <4>5. span[s[i]] \subseteq Int /\ span[last] \subseteq Int /\ span[next] \subseteq Int
        BY <1>2, <2>1, Basics
      <4>6. a \in Int /\ m \in Int /\ b \in Int  BY <4>2, <4>5
      <4> QED  BY <4>3, <4>4, <4>6
    <3> QED  BY <3>3, <3>4
  <2>8. ASSUME NEW i \in 1 .. Len(s2), NEW j \in 1 .. Len(s2), i < j, NEW a \in span[s2[i]], NEW b \in span[s2[j]]
        PROVE  a < b
    <3>1. i \in 1 .. c /\ s2[i] = s[i]
      <4>1. i # c + 1  BY <1>2, <2>4, <2>8
      <4> QED  BY <2>4, <2>5, <4>1
    <3>2. CASE j = c + 1
      <4>1. s2[j] = next  BY <2>4, <3>2
      <4> QED  BY <2>7, <2>8, <3>1, <4>1
    <3>3. CASE j # c + 1
      <4>1. j \in 1 .. c /\ s2[j] = s[j]  BY <2>4, <2>5, <3>3
      <4> QED  BY <1>1, <2>8, <3>1, <4>1 DEF GoodChain
    <3> QED  BY <3>2, <3>3
  <2>9. ASSUME NEW k \in Keys PROVE k \in Above(span[s2[Len(s2)]]) \/ \E i \in 1 .. Len(s2) : k \in span[s2[i]]
    <3>1. c + 1 \in 1 .. Len(s2) /\ s2[Len(s2)] = next  BY <1>2, <2>4
    <3>2. CASE k \in Above(span[last])  BY <2>1, <2>4, <3>1, <3>2
    <3>3. CASE k \notin Above(span[last])
      <4>1. PICK i \in 1 .. c : k \in span[s[i]]  BY <1>1, <3>3 DEF GoodChain
      <4>2. i \in 1 .. Len(s2) /\ s2[i] = s[i]  BY <1>2, <2>4
      <4> QED  BY <4>1, <4>2
    <3> QED  BY <3>2, <3>3
  <2>10. Len(s2) >= 1  BY <1>2, <2>4
  <2>11. GoodChain(s2, span)  BY <2>4, <2>6, <2>8, <2>9, <2>10 DEF GoodChain
  <2> QED  BY <1>1, <1>2, <1>4, <2>3, <2>4, <2>11
<1> QED  BY <1>3, <1>4

\* The chain from the leftmost leaf leaves no key out.
LEMMA ChainWhole ==
  ASSUME NEW span, NEW level, IInv(span, level), LinksOK(nodes, span), Quiet, root # Null,
         NEW leaves, leaves = Chain(Leftmost)
  PROVE  GoodChain(leaves, span) /\ \A k \in Keys : \E i \in 1 .. Len(leaves) : k \in span[leaves[i]]
<1>1. PICK N, n : N = Len(nodes) /\ n = Leftmost  OBVIOUS
<1>2. N \in Nat /\ DOMAIN nodes = 1 .. N /\ TypeOK  BY <1>1, Basics
<1>3. n \in DOMAIN nodes /\ nodes[n].leaf /\ span[n] \union Above(span[n]) = Keys  BY <1>1, LeftmostLeaf
<1>4. PICK D : D = {s \in Seq(DOMAIN nodes) : GoodChain(s, span)}  OBVIOUS
<1>5. \A s : s \in D <=> GoodChain(s, span)  BY <1>4 DEF GoodChain
<1>6. <<n>> \in D
  <2>1. PICK s : s = <<n>>  OBVIOUS
  <2>2. s \in Seq(DOMAIN nodes) /\ Len(s) = 1 /\ s[1] = n
    <3> DEFINE Z == DOMAIN nodes
    <3>1. n \in Z  BY <1>3
    <3> HIDE DEF Z
    <3>2. s \in Seq(Z) /\ Len(s) = 1 /\ s[1] = n  BY <2>1, <3>1
    <3> QED  BY <3>2 DEF Z
  <2>3. 1 .. Len(s) = {1} /\ 1 \in {1}  BY <2>2
  <2>4. \A k \in Keys : k \in Above(span[s[Len(s)]]) \/ \E i \in 1 .. Len(s) : k \in span[s[i]]
    BY <1>3, <2>2, <2>3
  <2>5. \A i, j \in 1 .. Len(s) : ~(i < j)  BY <2>3
  <2>6. GoodChain(s, span)  BY <1>3, <2>2, <2>3, <2>4, <2>5 DEF GoodChain
  <2> QED  BY <1>5, <2>1, <2>6
<1>60. PICK one : one = <<n>>  OBVIOUS
<1>7. PICK G : G = [s \in D |-> Onward(s)]  OBVIOUS
<1>8. ASSUME NEW s \in D
      PROVE  /\ G[s] = Onward(s) /\ Onward(s) \in D /\ GoodChain(s, span)
             /\ IF nodes[Last(s)].next = Null THEN Onward(s) = s ELSE Len(Onward(s)) = Len(s) + 1
  <2>1. GoodChain(s, span)  BY <1>5
  <2>2. /\ GoodChain(Onward(s), span)
        /\ IF nodes[Last(s)].next = Null THEN Onward(s) = s ELSE Len(Onward(s)) = Len(s) + 1
    BY <2>1, OnwardGood
  <2> QED  BY <1>5, <1>7, <2>1, <2>2
<1>9. G \in [D -> D]  BY <1>7, <1>8
<1>10. PICK f : Walk(f, D, N, one, G) /\ \A h : Follows(h, D, N, one, G) => h[N] = f[N]
  <2>1. Stays(D, N, one, G)  BY <1>2, <1>6, <1>60, <1>9 DEF Stays
  <2> QED  BY <2>1, Steps
<1> DEFINE h == CHOOSE h : h = [k \in 0 .. Len(nodes) |-> IF k = 0 THEN <<n>> ELSE Onward(h[k - 1])]
<1>11. \A k \in 0 .. N : k # 0 => k \in 1 .. N /\ k - 1 \in 0 .. N /\ f[k - 1] \in D  BY <1>2, <1>10 DEF Walk
<1>12. f = [k \in 0 .. Len(nodes) |-> IF k = 0 THEN <<n>> ELSE Onward(f[k - 1])]
  <2>1. \A k \in 0 .. N : f[k] = IF k = 0 THEN <<n>> ELSE Onward(f[k - 1])  BY <1>60, <1>7, <1>10, <1>11 DEF Walk
  <2> QED  BY <1>1, <1>10, <2>1 DEF Walk
<1>13. h = [k \in 0 .. Len(nodes) |-> IF k = 0 THEN <<n>> ELSE Onward(h[k - 1])]  BY <1>12
<1>14. Chain(n) = h[N]  BY <1>1 DEF Chain
<1> HIDE DEF h
<1>15. Follows(h, D, N, one, G)
  <2>1. 0 \in 0 .. N /\ \A k \in 1 .. N : k \in 0 .. N /\ k # 0  BY <1>2
  <2> QED  BY <1>1, <1>60, <1>7, <1>13, <2>1 DEF Follows
<1>16. leaves = f[N] /\ N \in 0 .. N /\ leaves \in D
  <2>1. h[N] = f[N]  BY <1>10, <1>15
  <2> QED  BY <1>1, <1>2, <1>10, <1>14, <2>1 DEF Walk
<1>17. PICK S : S = {k \in 0 .. N : Len(f[k]) = k + 1 \/ nodes[Last(f[k])].next = Null}  OBVIOUS
<1>18. 0 \in S
  <2>1. f[0] = one /\ 0 \in 0 .. N  BY <1>2, <1>10 DEF Walk
  <2>2. Len(one) = 1  BY <1>60
  <2>3. Len(f[0]) = 0 + 1  BY <2>1, <2>2
  <2> QED  BY <1>17, <2>1, <2>3
<1>19. ASSUME NEW k \in 0 .. N - 1, k \in S PROVE k + 1 \in S
  <2>1. k \in 0 .. N /\ k + 1 \in 1 .. N /\ k + 1 \in 0 .. N /\ (k + 1) - 1 = k  BY <1>2
  <2>2. f[k] \in D /\ f[k + 1] = G[f[k]]  BY <1>10, <2>1 DEF Walk
  <2>3. /\ f[k + 1] = Onward(f[k])
        /\ IF nodes[Last(f[k])].next = Null THEN Onward(f[k]) = f[k] ELSE Len(Onward(f[k])) = Len(f[k]) + 1
    BY <1>8, <2>2
  <2>4. CASE nodes[Last(f[k])].next = Null
    <3>1. f[k + 1] = f[k]  BY <2>3, <2>4
    <3> QED  BY <1>17, <2>1, <2>4, <3>1
  <2>5. CASE nodes[Last(f[k])].next # Null
    <3>1. Len(f[k]) = k + 1  BY <1>17, <1>19, <2>5
    <3>2. Len(f[k + 1]) = (k + 1) + 1  BY <2>3, <2>5, <3>1
    <3> QED  BY <1>17, <2>1, <3>2
  <2> QED  BY <2>4, <2>5
<1>20. N \in S
  <2>1. \A k \in 0 .. N : k \in S  BY <1>2, <1>18, <1>19, Climb
  <2> QED  BY <1>16, <2>1
<1>21. GoodChain(leaves, span)  BY <1>5, <1>16
<1>22. /\ leaves \in Seq(DOMAIN nodes) /\ Len(leaves) \in Nat
       /\ \A i \in 1 .. Len(leaves) : leaves[i] \in DOMAIN nodes
       /\ Len(leaves) \in 1 .. Len(leaves) /\ Last(leaves) = leaves[Len(leaves)]
  <2> DEFINE Z == DOMAIN nodes
  <2> HIDE DEF Z
  <2>1. leaves \in Seq(Z) /\ Len(leaves) >= 1  BY <1>21 DEF GoodChain, Z
  <2>2. Len(leaves) \in Nat /\ (\A i \in 1 .. Len(leaves) : leaves[i] \in Z) /\ Len(leaves) \in 1 .. Len(leaves)
    BY <2>1
  <2> QED  BY <2>1, <2>2 DEF Last, Z
<1>23. Len(leaves) # N + 1
  <2> SUFFICES ASSUME Len(leaves) = N + 1 PROVE FALSE  OBVIOUS
  <2>1. PICK g : g = [k \in 0 .. N |-> leaves[k + 1]]  OBVIOUS
  <2>2. \A k \in 0 .. N : k + 1 \in 1 .. Len(leaves) /\ leaves[k + 1] \in 1 .. N
    <3>1. \A k \in 0 .. N : k + 1 \in 1 .. N + 1  BY <1>2
    <3> QED  BY <1>2, <1>22, <3>1
  <2>3. g \in [0 .. N -> 1 .. N]  BY <2>1, <2>2
  <2>4. PICK i, j \in 0 .. N : i < j /\ g[i] = g[j]
    <3>1. N \in Nat  BY <1>2
    <3> QED  BY ONLY <2>3, <3>1, Pigeons
  <2>5. leaves[i + 1] = leaves[j + 1] /\ i + 1 < j + 1  BY <1>2, <2>1, <2>4
  <2>6. PICK a \in span[leaves[i + 1]] : TRUE  BY <1>22, <2>2 DEF LinksOK
  <2>7. a < a  BY <1>21, <2>2, <2>5, <2>6 DEF GoodChain
  <2>8. a \in Int
    <3>1. span[leaves[i + 1]] \subseteq Int  BY <1>22, <2>2, Basics
    <3> QED  BY <2>6, <3>1
  <2> QED  BY <2>7, <2>8
<1>24. PICK last : last = leaves[Len(leaves)]  OBVIOUS
<1>25. last \in DOMAIN nodes /\ nodes[last].leaf /\ nodes[last].next = Null
  <2>1. nodes[Last(leaves)].next = Null  BY <1>16, <1>17, <1>20, <1>23
  <2> QED  BY <1>21, <1>22, <1>24, <2>1 DEF GoodChain
<1>26. Above(span[last]) = {}  BY <1>25 DEF LinksOK
<1> QED  BY <1>21, <1>24, <1>26 DEF GoodChain

\* L sequences over X, and the sequences made by joining the first of them, the
\* first two and so on.
Rows(ss, L, X) == L \in Nat /\ L >= 1 /\ ss \in [1 .. L -> Seq(X)]
Joined(ss, L, f) ==
  f[1] = ss[1] /\ (\A k \in 2 .. L : f[k] = f[k - 1] \o ss[k]) /\ FlattenSeq(ss) = f[L]

\* FlattenSeq concatenates from the left.
LEMMA Flattening ==
  ASSUME NEW X, NEW L, NEW ss, Rows(ss, L, X)
  PROVE  \E f : Joined(ss, L, f)
<1> L \in Nat /\ L >= 1 /\ ss \in [1 .. L -> Seq(X)]  BY DEF Rows
<1>1. PICK Z : Z = Seq(X)  OBVIOUS
<1>2. \A s, u \in Z : s \o u \in Z  BY <1>1, ConcatProperties
<1>3. ss \in [1 .. L -> Z]  BY <1>1
<1>4. Len(ss) = L
  <2>1. ss \in Seq(Z)  BY <1>3, SeqDef
  <2>2. Len(ss) \in Nat /\ DOMAIN ss = 1 .. Len(ss)  BY <2>1, LenProperties
  <2>3. 1 .. Len(ss) = 1 .. L  BY <1>3, <2>2
  <2>4. L \in 1 .. Len(ss)  BY <2>3
  <2>5. Len(ss) \in 1 .. L
    <3>1. Len(ss) \in 1 .. Len(ss)  BY <2>2, <2>4
    <3> QED  BY <2>3, <3>1
  <2> QED  BY <2>2, <2>4, <2>5
<1> DEFINE S == {m \in 0 .. L - 1 : \E f \in [1 .. m + 1 -> Z] :
                  f[1] = ss[1] /\ \A k \in 2 .. m + 1 : f[k] = f[k - 1] \o ss[k]}
<1>5. 0 \in S
  <2>1. PICK f : f = [k \in 1 .. 0 + 1 |-> ss[1]]  OBVIOUS
  <2>2. 1 \in 1 .. L /\ 1 \in 1 .. 0 + 1 /\ 0 \in 0 .. L - 1 /\ \A k \in 2 .. 0 + 1 : FALSE  OBVIOUS
  <2>3. ss[1] \in Z  BY <1>3, <2>2
  <2>4. f \in [1 .. 0 + 1 -> Z] /\ f[1] = ss[1]  BY <2>1, <2>2, <2>3
  <2> QED  BY <2>2, <2>4
<1>6. ASSUME NEW m \in 0 .. (L - 1) - 1, m \in S PROVE m + 1 \in S
  <2>1. PICK f \in [1 .. m + 1 -> Z] : f[1] = ss[1] /\ \A k \in 2 .. m + 1 : f[k] = f[k - 1] \o ss[k]
    BY <1>6
  <2>2. PICK last : last = f[m + 1] \o ss[m + 2]  OBVIOUS
  <2>3. PICK g : g = [k \in 1 .. m + 2 |-> IF k <= m + 1 THEN f[k] ELSE last]  OBVIOUS
  <2>4. m + 1 \in 1 .. m + 1 /\ m + 2 \in 1 .. L /\ m + 1 \in 0 .. L - 1 /\ (m + 1) + 1 = m + 2  OBVIOUS
  <2>5. last \in Z
    <3>1. f[m + 1] \in Z /\ ss[m + 2] \in Z  BY <1>3, <2>4
    <3> QED  BY <1>2, <2>2, <3>1
  <2>6. \A k \in 1 .. m + 2 : (k <= m + 1 => k \in 1 .. m + 1) /\ (~(k <= m + 1) => k = m + 2)  OBVIOUS
  <2>7. g \in [1 .. m + 2 -> Z]
    <3>1. \A k \in 1 .. m + 2 : (IF k <= m + 1 THEN f[k] ELSE last) \in Z  BY <2>5, <2>6
    <3> QED  BY <2>3, <3>1
  <2>8. \A k \in 1 .. m + 1 : k \in 1 .. m + 2 /\ k <= m + 1 /\ g[k] = f[k]
    <3>1. \A k \in 1 .. m + 1 : k \in 1 .. m + 2 /\ k <= m + 1  OBVIOUS
    <3> QED  BY <2>3, <3>1
  <2>9. g[m + 2] = last
    <3>1. m + 2 \in 1 .. m + 2 /\ ~(m + 2 <= m + 1)  OBVIOUS
    <3> QED  BY <2>3, <3>1
  <2>10. \A k \in 2 .. m + 2 : g[k] = g[k - 1] \o ss[k]
    <3> TAKE k \in 2 .. m + 2
    <3>1. CASE k = m + 2
      <4>1. k - 1 = m + 1  BY <3>1
      <4> QED  BY <2>2, <2>4, <2>8, <2>9, <3>1, <4>1
    <3>2. CASE k # m + 2
      <4>1. k \in 2 .. m + 1 /\ k \in 1 .. m + 1 /\ k - 1 \in 1 .. m + 1  BY <3>2
      <4> QED  BY <2>1, <2>8, <4>1
    <3> QED  BY <3>1, <3>2
  <2>11. g[1] = ss[1]
    <3>1. 1 \in 1 .. m + 1  OBVIOUS
    <3> QED  BY <2>1, <2>8, <3>1
  <2> QED  BY <2>4, <2>7, <2>10, <2>11
<1>7. L - 1 \in S
  <2> HIDE DEF S
  <2>1. L - 1 \in Nat /\ L - 1 \in 0 .. L - 1  OBVIOUS
  <2>2. \A k \in 0 .. L - 1 : k \in S  BY <1>5, <1>6, <2>1, Climb
  <2> QED  BY <2>1, <2>2
<1>8. PICK g \in [1 .. L -> Z] : g[1] = ss[1] /\ \A k \in 2 .. L : g[k] = g[k - 1] \o ss[k]
  <2>1. (L - 1) + 1 = L  OBVIOUS
  <2> QED  BY <1>7, <2>1
<1> DEFINE h == CHOOSE h : h = [i \in 1 .. Len(ss) |-> IF i = 1 THEN ss[i] ELSE h[i - 1] \o ss[i]]
<1>9. \A k \in 1 .. L : k # 1 => k \in 2 .. L  OBVIOUS
<1>10. g = [i \in 1 .. Len(ss) |-> IF i = 1 THEN ss[i] ELSE g[i - 1] \o ss[i]]
  <2>1. \A i \in 1 .. L : g[i] = IF i = 1 THEN ss[i] ELSE g[i - 1] \o ss[i]  BY <1>8, <1>9
  <2> QED  BY <1>4, <2>1
<1>11. h = [i \in 1 .. Len(ss) |-> IF i = 1 THEN ss[i] ELSE h[i - 1] \o ss[i]]  BY <1>10
<1>12. FlattenSeq(ss) = h[L]  BY <1>4 DEF FlattenSeq
<1> HIDE DEF h
<1>13. h[1] = ss[1] /\ \A k \in 2 .. L : h[k] = h[k - 1] \o ss[k]
  <2>1. 1 \in 1 .. L /\ \A k \in 2 .. L : k \in 1 .. L /\ k # 1  OBVIOUS
  <2> QED  BY <1>4, <1>11, <2>1
<1> QED  BY <1>12, <1>13 DEF Joined

\* The keys s and the entries v are those of wins with a key in A, in order.
Listed(s, v, A) ==
  /\ s \in Seq(Int) /\ v \in Seq(Entry) /\ Len(s) = Len(v)
  /\ \A i, j \in 1 .. Len(s) : i < j => s[i] < s[j]
  /\ \A i \in 1 .. Len(s) : s[i] \in A /\ v[i] \in wins /\ v[i].key = s[i]
  /\ \A w \in wins : w.key \in A => \E i \in 1 .. Len(s) : v[i] = w

\* Those of one leaf.
LEMMA ListedLeaf ==
  ASSUME TypeOK, NEW n \in DOMAIN nodes, NEW A,
         LeafOK(nodes[n].keys, nodes[n].values, nodes[n].count, A, wins)
  PROVE  Listed(KeysOf(n), Entries(n), A)
<1>1. PICK c, ks, vs : c = nodes[n].count /\ ks = nodes[n].keys /\ vs = nodes[n].values  OBVIOUS
<1>2. c \in 0 .. Fanout /\ c \in Nat /\ ks \in [0 .. Fanout - 1 -> Int] /\ vs \in [0 .. Fanout - 1 -> Entry]
  BY <1>1, NodeFacts DEF Arrays
<1>3. PICK s, v : s = KeysOf(n) /\ v = Entries(n)  OBVIOUS
<1>4. s = [i \in 1 .. c |-> ks[i - 1]] /\ v = [i \in 1 .. c |-> vs[i - 1]]  BY <1>1, <1>3 DEF KeysOf, Entries
<1>5. \A i \in 1 .. c : i - 1 \in 0 .. c - 1 /\ i - 1 \in 0 .. Fanout - 1  BY <1>2, FanoutFacts
<1>6. s \in [1 .. c -> Int] /\ v \in [1 .. c -> Entry]  BY <1>2, <1>4, <1>5
<1>7. s \in Seq(Int) /\ Len(s) = c /\ Len(v) = c
  <2>1. s \in Seq(Int)  BY <1>2, <1>6, SeqDef
  <2> QED  BY <1>2, <1>4, <2>1
<1>8. v \in Seq(Entry)
  <2> DEFINE E == Entry
  <2> HIDE DEF E
  <2>1. v \in [1 .. c -> E]  BY <1>6 DEF E
  <2>2. v \in Seq(E)  BY <1>2, <2>1, SeqDef
  <2> QED  BY <2>2 DEF E
<1>9. /\ \A i, j \in 0 .. c - 1 : i < j => ks[i] < ks[j]
      /\ \A i \in 0 .. c - 1 : ks[i] \in A /\ vs[i] \in wins /\ vs[i].key = ks[i]
      /\ \A w \in wins : w.key \in A => \E i \in 0 .. c - 1 : vs[i] = w
  BY <1>1 DEF LeafOK, Ascending
<1>10. \A i, j \in 1 .. c : i < j => s[i] < s[j]
  <2> SUFFICES ASSUME NEW i \in 1 .. c, NEW j \in 1 .. c, i < j PROVE s[i] < s[j]  OBVIOUS
  <2>1. i - 1 < j - 1  OBVIOUS
  <2> QED  BY <1>4, <1>5, <1>9, <2>1
<1>11. \A i \in 1 .. c : s[i] \in A /\ v[i] \in wins /\ v[i].key = s[i]  BY <1>4, <1>5, <1>9
<1>12. ASSUME NEW w \in wins, w.key \in A PROVE \E i \in 1 .. c : v[i] = w
  <2>1. PICK i \in 0 .. c - 1 : vs[i] = w  BY <1>9, <1>12
  <2>2. i + 1 \in 1 .. c /\ (i + 1) - 1 = i  BY <1>2
  <2>3. v[i + 1] = w  BY <1>4, <2>1, <2>2
  <2> QED  BY <2>2, <2>3
<1>13. Listed(s, v, A)  BY <1>7, <1>8, <1>10, <1>11, <1>12 DEF Listed
<1> QED  BY <1>3, <1>13

\* Those of two sets of keys, one below the other.
LEMMA ListedJoin ==
  ASSUME NEW s, NEW v, NEW A, Listed(s, v, A), NEW s2, NEW v2, NEW B, Listed(s2, v2, B),
         \A a \in A, b \in B : a < b
  PROVE  Listed(s \o s2, v \o v2, A \union B)
<1>1. /\ s \in Seq(Int) /\ s2 \in Seq(Int) /\ v \in Seq(Entry) /\ v2 \in Seq(Entry)
      /\ Len(s) = Len(v) /\ Len(s2) = Len(v2)
  BY DEF Listed
<1>2. PICK m, n : m = Len(s) /\ n = Len(s2)  OBVIOUS
<1>3. PICK p, q : p = s \o s2 /\ q = v \o v2  OBVIOUS
<1>4. m \in Nat /\ n \in Nat  BY <1>1, <1>2, LenProperties
<1>5. p \in Seq(Int) /\ Len(p) = m + n /\ \A i \in 1 .. m + n : p[i] = IF i <= m THEN s[i] ELSE s2[i - m]
  <2>1. PICK Z : Z = Int  OBVIOUS
  <2>2. s \in Seq(Z) /\ s2 \in Seq(Z)  BY <1>1, <2>1
  <2>3. p \in Seq(Z) /\ Len(p) = m + n /\ \A i \in 1 .. m + n : p[i] = IF i <= m THEN s[i] ELSE s2[i - m]
    BY <1>2, <1>3, <2>2, ConcatProperties
  <2> QED  BY <2>1, <2>3
<1>6. q \in Seq(Entry) /\ Len(q) = m + n /\ \A i \in 1 .. m + n : q[i] = IF i <= m THEN v[i] ELSE v2[i - m]
  <2> DEFINE E == Entry
  <2> HIDE DEF E
  <2>1. v \in Seq(E) /\ v2 \in Seq(E)  BY <1>1 DEF E
  <2>2. q \in Seq(E) /\ Len(q) = m + n /\ \A i \in 1 .. m + n : q[i] = IF i <= m THEN v[i] ELSE v2[i - m]
    BY <1>1, <1>2, <1>3, <2>1, ConcatProperties
  <2> QED  BY <2>2 DEF E
<1>7. \A i \in 1 .. m + n : (i <= m => i \in 1 .. m) /\ (~(i <= m) => i - m \in 1 .. n)  BY <1>4
<1>8. /\ \A i, j \in 1 .. m : i < j => s[i] < s[j]
      /\ \A i, j \in 1 .. n : i < j => s2[i] < s2[j]
      /\ \A i \in 1 .. m : s[i] \in A /\ v[i] \in wins /\ v[i].key = s[i]
      /\ \A i \in 1 .. n : s2[i] \in B /\ v2[i] \in wins /\ v2[i].key = s2[i]
      /\ \A w \in wins : w.key \in A => \E i \in 1 .. m : v[i] = w
      /\ \A w \in wins : w.key \in B => \E i \in 1 .. n : v2[i] = w
  BY <1>2 DEF Listed
<1>9. ASSUME NEW i \in 1 .. m + n, NEW j \in 1 .. m + n, i < j PROVE p[i] < p[j]
  <2>1. CASE j <= m
    <3>1. i <= m  BY <1>4, <1>9, <2>1
    <3> QED  BY <1>5, <1>7, <1>8, <1>9, <2>1, <3>1
  <2>2. CASE ~(j <= m) /\ i <= m
    <3>1. p[i] \in A /\ p[j] \in B  BY <1>5, <1>7, <1>8, <2>2
    <3> QED  BY <3>1
  <2>3. CASE ~(j <= m) /\ ~(i <= m)
    <3>1. i - m < j - m  BY <1>4, <1>9
    <3> QED  BY <1>5, <1>7, <1>8, <2>3, <3>1
  <2> QED  BY <2>1, <2>2, <2>3
<1>10. \A i \in 1 .. m + n : p[i] \in A \union B /\ q[i] \in wins /\ q[i].key = p[i]
  <2> TAKE i \in 1 .. m + n
  <2>1. CASE i <= m  BY <1>5, <1>6, <1>7, <1>8, <2>1
  <2>2. CASE ~(i <= m)  BY <1>5, <1>6, <1>7, <1>8, <2>2
  <2> QED  BY <2>1, <2>2
<1>11. ASSUME NEW w \in wins, w.key \in A \union B PROVE \E i \in 1 .. m + n : q[i] = w
  <2>1. CASE w.key \in A
    <3>1. PICK i \in 1 .. m : v[i] = w  BY <1>8, <2>1
    <3>2. i \in 1 .. m + n /\ i <= m  BY <1>4
    <3>3. q[i] = w  BY <1>6, <3>1, <3>2
    <3> QED  BY <3>2, <3>3
  <2>2. CASE w.key \in B
    <3>1. PICK i \in 1 .. n : v2[i] = w  BY <1>8, <2>2
    <3>2. i + m \in 1 .. m + n /\ ~(i + m <= m) /\ (i + m) - m = i  BY <1>4
    <3>3. q[i + m] = w  BY <1>6, <3>1, <3>2
    <3> QED  BY <3>2, <3>3
  <2> QED  BY <1>11, <2>1, <2>2
<1>12. Listed(p, q, A \union B)  BY <1>5, <1>6, <1>9, <1>10, <1>11 DEF Listed
<1> QED  BY <1>3, <1>12

\* Those of a chain of leaves.
LEMMA ChainListed ==
  ASSUME NEW span, NEW level, IInv(span, level), Quiet, NEW leaves, GoodChain(leaves, span),
         \A k \in Keys : \E i \in 1 .. Len(leaves) : k \in span[leaves[i]],
         NEW K, K = [i \in DOMAIN leaves |-> KeysOf(leaves[i])],
         NEW V, V = [i \in DOMAIN leaves |-> Entries(leaves[i])]
  PROVE  Listed(FlattenSeq(K), FlattenSeq(V), Keys)
<1>1. PICK L : L = Len(leaves)  OBVIOUS
<1>2. L \in Nat /\ L >= 1 /\ DOMAIN leaves = 1 .. L /\ \A i \in 1 .. L : leaves[i] \in DOMAIN nodes
  <2> DEFINE Z == DOMAIN nodes
  <2> HIDE DEF Z
  <2>1. leaves \in Seq(Z) /\ L >= 1  BY <1>1 DEF GoodChain, Z
  <2>2. L \in Nat /\ DOMAIN leaves = 1 .. L /\ \A i \in 1 .. L : leaves[i] \in Z
    BY <1>1, <2>1
  <2> QED  BY <2>1, <2>2 DEF Z
<1>3. \A i \in 1 .. L : Listed(K[i], V[i], span[leaves[i]])
  <2> TAKE i \in 1 .. L
  <2>1. PICK n : n = leaves[i]  OBVIOUS
  <2>2. n \in DOMAIN nodes /\ nodes[n].leaf  BY <1>1, <1>2, <2>1 DEF GoodChain
  <2>3. LeafOK(nodes[n].keys, nodes[n].values, nodes[n].count, span[n], wins)  BY <2>2, QuietOK DEF NodeOK
  <2>4. TypeOK  BY Basics
  <2>5. Listed(KeysOf(n), Entries(n), span[n])  BY <2>2, <2>3, <2>4, ListedLeaf
  <2> QED  BY <1>2, <2>1, <2>5
<1>4. K \in [1 .. L -> Seq(Int)] /\ V \in [1 .. L -> Seq(Entry)]
  <2>1. \A i \in 1 .. L : K[i] \in Seq(Int) /\ V[i] \in Seq(Entry)  BY <1>3 DEF Listed
  <2> QED  BY <1>2, <2>1
<1>5. PICK f : f[1] = K[1] /\ (\A k \in 2 .. L : f[k] = f[k - 1] \o K[k]) /\ FlattenSeq(K) = f[L]
  <2>1. Rows(K, L, Int)  BY <1>2, <1>4 DEF Rows
  <2>2. PICK f : Joined(K, L, f)  BY <2>1, Flattening
  <2> QED  BY <2>2 DEF Joined
<1>6. PICK g : g[1] = V[1] /\ (\A k \in 2 .. L : g[k] = g[k - 1] \o V[k]) /\ FlattenSeq(V) = g[L]
  <2>1. Rows(V, L, Entry)  BY <1>2, <1>4 DEF Rows
  <2>2. PICK g : Joined(V, L, g)  BY <2>1, Flattening
  <2> QED  BY <2>2 DEF Joined
<1>7. PICK U : U = [m \in 1 .. L |-> {k \in Keys : \E i \in 1 .. m : k \in span[leaves[i]]}]  OBVIOUS
<1>8. \A i \in 1 .. L : span[leaves[i]] \subseteq Keys  BY <1>2, Basics
<1>9. PICK S : S = {m \in 0 .. L - 1 : Listed(f[m + 1], g[m + 1], U[m + 1])}  OBVIOUS
<1>10. 0 \in S
  <2>1. 1 \in 1 .. L /\ 0 \in 0 .. L - 1 /\ 0 + 1 = 1 /\ 1 .. 1 = {1}  BY <1>2
  <2>2. U[1] = span[leaves[1]]  BY <1>7, <1>8, <2>1
  <2>3. Listed(f[1], g[1], U[1])  BY <1>3, <1>5, <1>6, <2>1, <2>2
  <2> QED  BY <1>9, <2>1, <2>3
<1>11. ASSUME NEW m \in 0 .. (L - 1) - 1, m \in S PROVE m + 1 \in S
  <2>1. PICK j : j = m + 2  OBVIOUS
  <2>2. /\ m + 1 \in 0 .. L - 1 /\ j \in 2 .. L /\ j \in 1 .. L /\ j - 1 = m + 1 /\ (m + 1) + 1 = j /\ m + 1 \in 1 .. L
        /\ \A i \in 1 .. j : i = j \/ i \in 1 .. m + 1
        /\ \A i \in 1 .. m + 1 : i \in 1 .. j /\ i < j /\ i \in 1 .. L
        /\ j \in 1 .. j
    BY <1>2, <2>1
  <2>3. PICK A, B : A = U[m + 1] /\ B = span[leaves[j]]  OBVIOUS
  <2>4. Listed(f[m + 1], g[m + 1], A)  BY <1>9, <1>11, <2>3
  <2>5. Listed(K[j], V[j], B)  BY <1>3, <2>2, <2>3
  <2>6. A = {k \in Keys : \E i \in 1 .. m + 1 : k \in span[leaves[i]]}  BY <1>7, <2>2, <2>3
  <2>7. \A a \in A, b \in B : a < b
    <3> SUFFICES ASSUME NEW a \in A, NEW b \in B PROVE a < b  OBVIOUS
    <3>1. PICK i \in 1 .. m + 1 : a \in span[leaves[i]]  BY <2>6
    <3>2. i \in 1 .. L /\ j \in 1 .. L /\ i < j  BY <2>2
    <3> QED  BY <1>1, <2>3, <3>1, <3>2 DEF GoodChain
  <2>8. U[j] = A \union B
    <3>1. U[j] = {k \in Keys : \E i \in 1 .. j : k \in span[leaves[i]]}  BY <1>7, <2>2
    <3>2. B \subseteq Keys  BY <1>8, <2>2, <2>3
    <3>3. \A k \in U[j] : k \in A \union B  BY <2>2, <2>3, <2>6, <3>1
    <3>4. \A k \in A \union B : k \in U[j]  BY <2>2, <2>3, <2>6, <3>1, <3>2
    <3> QED  BY <3>3, <3>4
  <2>9. f[j] = f[m + 1] \o K[j] /\ g[j] = g[m + 1] \o V[j]  BY <1>5, <1>6, <2>2
  <2>10. Listed(f[j], g[j], U[j])
    <3>1. Listed(f[m + 1] \o K[j], g[m + 1] \o V[j], A \union B)  BY <2>4, <2>5, <2>7, ListedJoin
    <3> QED  BY <2>8, <2>9, <3>1
  <2> QED  BY <1>9, <2>2, <2>10
<1>12. L - 1 \in S
  <2>1. L - 1 \in Nat /\ L - 1 \in 0 .. L - 1  BY <1>2
  <2>2. \A k \in 0 .. L - 1 : k \in S  BY <1>10, <1>11, <2>1, Climb
  <2> QED  BY <2>1, <2>2
<1>13. Listed(f[L], g[L], U[L]) /\ L \in 1 .. L
  <2>1. (L - 1) + 1 = L /\ L \in 1 .. L  BY <1>2
  <2> QED  BY <1>9, <1>12, <2>1
<1>14. U[L] = Keys  BY <1>1, <1>7, <1>13
<1> QED  BY <1>5, <1>6, <1>13, <1>14

\* The entries of the chain of leaves, taken together.
LEMMA TreeFollows ==
  ASSUME Inv
  PROVE  TreeRight
<1>1. PICK span, level : IInv(span, level) /\ LinksOK(nodes, span)  BY DEF Inv
<1>2. SUFFICES ASSUME Quiet, root # Null, NEW leaves, leaves = Chain(Leftmost),
                      NEW keys, keys = FlattenSeq([i \in DOMAIN leaves |-> KeysOf(leaves[i])]),
                      NEW stored, stored = FlattenSeq([i \in DOMAIN leaves |-> Entries(leaves[i])])
               PROVE  /\ \A i \in 1 .. Len(keys) - 1 : keys[i] < keys[i + 1]
                      /\ ToSet(stored) = wins /\ entries = Len(keys)
                      /\ \A i \in DOMAIN keys :
                           /\ stored[i].key = keys[i]
                           /\ Contains(KeysOf(LeafOf(keys[i])), keys[i])
  BY DEF TreeRight
<1>3. GoodChain(leaves, span) /\ \A k \in Keys : \E i \in 1 .. Len(leaves) : k \in span[leaves[i]]
  BY <1>1, <1>2, ChainWhole
<1>4. Listed(keys, stored, Keys)
  <2>1. PICK K, V : /\ K = [i \in DOMAIN leaves |-> KeysOf(leaves[i])]
                    /\ V = [i \in DOMAIN leaves |-> Entries(leaves[i])]
    OBVIOUS
  <2>2. Listed(FlattenSeq(K), FlattenSeq(V), Keys)  BY <1>1, <1>2, <1>3, <2>1, ChainListed
  <2> QED  BY <1>2, <2>1, <2>2
<1>5. PICK c : c = Len(keys)  OBVIOUS
<1>6. /\ keys \in Seq(Int) /\ stored \in Seq(Entry) /\ Len(stored) = c
      /\ \A i, j \in 1 .. c : i < j => keys[i] < keys[j]
      /\ \A i \in 1 .. c : keys[i] \in Keys /\ stored[i] \in wins /\ stored[i].key = keys[i]
      /\ \A w \in wins : w.key \in Keys => \E i \in 1 .. c : stored[i] = w
  BY <1>4, <1>5 DEF Listed
<1>7. c \in Nat /\ DOMAIN keys = 1 .. c /\ DOMAIN stored = 1 .. c
  BY <1>5, <1>6, LenProperties
<1>8. TypeOK /\ History /\ Tally  BY <1>1, Basics
<1>9. \A i \in 1 .. c - 1 : keys[i] < keys[i + 1]
  <2> TAKE i \in 1 .. c - 1
  <2>1. i \in 1 .. c /\ i + 1 \in 1 .. c /\ i < i + 1  BY <1>7
  <2> QED  BY <1>6, <2>1
<1>10. ToSet(stored) = wins
  <2>1. \A w \in wins : w.key \in Keys  BY <1>8 DEF History
  <2> QED  BY <1>6, <1>7, <2>1 DEF ToSet
<1>11. entries = c
  <2>1. PICK f : f = [i \in 1 .. c |-> stored[i]]  OBVIOUS
  <2>2. f \in [1 .. c -> wins] /\ \A w \in wins : \E i \in 1 .. c : f[i] = w
    <3>1. \A w \in wins : w.key \in Keys  BY <1>8 DEF History
    <3> QED  BY <1>6, <2>1, <3>1
  <2>3. ASSUME NEW i \in 1 .. c, NEW j \in 1 .. c, f[i] = f[j] PROVE i = j
    <3>1. keys[i] = keys[j]  BY <1>6, <2>1, <2>3
    <3>2. keys[i] \in Int
      <4>1. keys[i] \in Keys  BY <1>6
      <4> QED  BY <4>1, KeysAssumption
    <3>3. ~(i < j) /\ ~(j < i)  BY <1>6, <3>1, <3>2
    <3> QED  BY <3>3
  <2>4. f \in Bijection(1 .. c, wins)
    BY <2>2, <2>3 DEF Bijection, Injection, Surjection, IsInjective
  <2>5. IsFiniteSet(1 .. c) /\ Cardinality(1 .. c) = c
    <3>1. 1 \in Int /\ c \in Int  BY <1>7
    <3>2. IsFiniteSet(1 .. c) /\ Cardinality(1 .. c) = IF 1 > c THEN 0 ELSE c - 1 + 1  BY <3>1, FS_Interval
    <3> QED  BY <1>7, <3>2
  <2>6. Cardinality(wins) = c
    <3>1. ExistsBijection(1 .. c, wins)  BY <2>4 DEF ExistsBijection
    <3> QED  BY <2>5, <3>1, FS_Bijection
  <2>7. Counting = {}  BY <1>2 DEF Counting, Quiet
  <2>8. Cardinality(Counting) = 0  BY <2>7, FS_EmptySet
  <2> QED  BY <1>7, <1>8, <2>6, <2>8 DEF Tally, TypeOK
<1>12. ASSUME NEW i \in 1 .. c PROVE Contains(KeysOf(LeafOf(keys[i])), keys[i])
  <2>1. PICK k, n : k = keys[i] /\ n = LeafOf(k)  OBVIOUS
  <2>2. k \in Keys /\ stored[i] \in wins /\ stored[i].key = k  BY <1>6, <2>1
  <2>3. n \in DOMAIN nodes /\ nodes[n].leaf /\ k \in span[n]  BY <1>1, <1>2, <2>1, <2>2, LeafOfKey
  <2>4. LeafOK(nodes[n].keys, nodes[n].values, nodes[n].count, span[n], wins)
    BY <1>1, <1>2, <2>3, QuietOK DEF NodeOK
  <2>5. PICK x \in 0 .. nodes[n].count - 1 : nodes[n].keys[x] = k  BY <2>2, <2>3, <2>4 DEF LeafOK
  <2>6. nodes[n].count \in Nat
    <3>1. nodes[n].count \in 0 .. Fanout  BY <1>8, <2>3, NodeFacts
    <3> QED  BY <3>1, FanoutFacts
  <2>7. x + 1 \in 1 .. nodes[n].count /\ (x + 1) - 1 = x  BY <2>6
  <2>8. KeysOf(n)[x + 1] = k  BY <2>5, <2>7 DEF KeysOf
  <2>9. Len(KeysOf(n)) = nodes[n].count  BY <2>6 DEF KeysOf
  <2>10. Contains(KeysOf(n), k)  BY <2>7, <2>8, <2>9 DEF Contains
  <2> QED  BY <2>1, <2>10
<1> QED  BY <1>5, <1>6, <1>7, <1>9, <1>10, <1>11, <1>12

\* Splits and inserts of several threads lose, duplicate and misplace nothing:
\* whenever no lock is held, the chain of leaves holds the accepted entries in
\* ascending order, a descent for a key comes to its leaf, and count() counts.
THEOREM TreeHolds == Spec => []TreeRight
<1>1. Inv => TreeRight  BY TreeFollows
<1> QED  BY <1>1, InvHolds, PTL
=============================================================================
