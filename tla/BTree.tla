------------------------------- MODULE BTree -------------------------------
(***************************************************************************)
(* The concurrent interface of src/cflat/core/hpc/btree.cb, lookup() and   *)
(* insert(), over the version lock of hpc/olock.cb.  A step is one access  *)
(* to memory that another thread may write or read meanwhile: readers hold *)
(* no lock and see nodes in the middle of an insert or of a split.         *)
(*                                                                         *)
(* Keys are numbers, and the value stored under a key names the key and    *)
(* the thread that inserted it, so that a torn read shows.  Nodes are      *)
(* numbered in the order of their allocation; the concurrent interface     *)
(* frees none.  Memory is sequentially consistent.  A scan over the keys   *)
(* of a node is one step; reading count, a child or a value is another.    *)
(***************************************************************************)
EXTENDS Integers, Sequences, FiniteSets, SequencesExt

CONSTANTS
  Fanout,      \* BTREE_FANOUT: the keys of a full node
  Keys,        \* the values of the key type K
  Threads,
  Requests,    \* Requests[t]: the calls, [op, key], that thread t may make
  MaxCalls,    \* bound: calls of one thread
  Trees        \* the trees that single-threaded add() calls left behind

ASSUME FanoutAssumption == Fanout \in Nat \ {0, 1}
ASSUME KeysAssumption == Keys \subseteq Int
ASSUME ThreadsAssumption == IsFiniteSet(Threads)
ASSUME RequestsAssumption ==
  Requests \in [Threads -> SUBSET [op : {"lookup", "insert"}, key : Keys]]

Null == 0
Mid == Fanout \div 2
Default == [key |-> 0, by |-> Null]
Obsolete == 1
LockedBit == 2

VARIABLES
  nodes,       \* nodes[n]: the node number n
  root,        \* _root
  treeVer,     \* _ver, the lock of _root
  entries,     \* count(): _count + _mtCount
  th,          \* th[t]: where thread t is, and its locals
  calls,       \* calls[t]: the calls thread t has made
  known,       \* history: the keys that a completed call has inserted or seen
  wins         \* history: the entries that insert() was asked for and accepted

vars == <<nodes, root, treeVer, entries, th, calls, known, wins>>

IsLocked(v) == (v \div LockedBit) % 2 = 1
Raised(v) == v + 2        \* v | OLOCK_LOCKED of a free lock; release() of a held one

Full(n) == nodes[n].count >= Fanout

\* Before its first call; with its op, key and before, how a descent starts.
Idle == [pc |-> "idle", op |-> "none", key |-> 0, answer |-> FALSE, before |-> {},
         node |-> Null, ver |-> 0, count |-> 0, slot |-> 0, child |-> Null,
         childVer |-> 0, found |-> Default, grow |-> FALSE, sep |-> 0, right |-> Null]

----------------------------------------------------------------------------
(* The trees that the threads may find.  The keys span[n] belong below node  *)
(* n, whose level is 0 in a leaf.  Single-threaded calls of add() keep them. *)

Entry == [key : Int, by : Threads \union {Null}]

Node(size) ==
  [ver : Nat, leaf : BOOLEAN, count : 0 .. Fanout, next : 0 .. size,
   keys : [0 .. Fanout - 1 -> Int], values : [0 .. Fanout - 1 -> Entry],
   kids : [0 .. Fanout -> 0 .. size]]

Ascending(ks, c) == \A i, j \in 0 .. c - 1 : i < j => ks[i] < ks[j]

\* The first c of the keys ks and values vs are the entries of W with a key in S.
LeafOK(ks, vs, c, S, W) ==
  /\ Ascending(ks, c)
  /\ \A i \in 0 .. c - 1 : ks[i] \in S /\ vs[i] \in W /\ vs[i].key = ks[i]
  /\ \A w \in W : w.key \in S => \E i \in 0 .. c - 1 : vs[i] = w

\* The keys of S between the separators on both sides of the child in slot i.
Segment(S, ks, c, i) == {k \in S : (i > 0 => ks[i - 1] <= k) /\ (i < c => k < ks[i])}

\* The children cs of an inner node with c separators ks divide S among them.
InnerOK(ks, cs, c, S, l, span, level) ==
  /\ Ascending(ks, c)
  /\ \A i \in 0 .. c - 1 : ks[i] \in S
  /\ \A i \in 0 .. c : /\ cs[i] \in DOMAIN span
                      /\ level[cs[i]] = l - 1
                      /\ span[cs[i]] = Segment(S, ks, c, i)

\* The leaves are linked in the order of their keys, and leave no key out.
Convex(S) == \A i, j \in S, k \in Keys : i < k /\ k < j => k \in S
Above(S) == {k \in Keys : \A j \in S : j < k}
LinksOK(ns, span) == \A n \in DOMAIN ns :
  /\ span[n] # {} /\ Convex(span[n])
  /\ ns[n].leaf =>
       LET next == ns[n].next
       IN  IF next = Null THEN Above(span[n]) = {}
           ELSE ns[next].leaf /\ Above(span[n]) = span[next] \union Above(span[next])

Stored(tree) == UNION {{tree.nodes[n].keys[i] : i \in 0 .. tree.nodes[n].count - 1} :
                       n \in {m \in DOMAIN tree.nodes : tree.nodes[m].leaf}}

StoredEntries(tree) == {[key |-> k, by |-> Null] : k \in Stored(tree)}

WellFormed(tree) ==
  LET ns == tree.nodes  span == tree.span  level == tree.level
  IN  /\ ns \in Seq(Node(Len(ns))) /\ \A n \in DOMAIN ns : ns[n].ver = 0
      /\ span \in Seq(SUBSET Keys) /\ Len(span) = Len(ns)
      /\ level \in Seq(Nat) /\ Len(level) = Len(ns)
      /\ tree.root \in 0 .. Len(ns) /\ (tree.root = Null <=> ns = <<>>)
      /\ tree.root # Null => span[tree.root] = Keys
      /\ \A n \in DOMAIN ns : level[n] <= level[tree.root] /\ (ns[n].leaf <=> level[n] = 0)
      /\ \A m, n \in DOMAIN ns : m # n /\ level[m] = level[n] => span[m] \intersect span[n] = {}
      /\ \A n \in DOMAIN ns :
           IF ns[n].leaf THEN LeafOK(ns[n].keys, ns[n].values, ns[n].count, span[n], StoredEntries(tree))
                         ELSE InnerOK(ns[n].keys, ns[n].kids, ns[n].count, span[n], level[n], span, level)
      /\ LinksOK(ns, span)

ASSUME TreesAssumption == \A tree \in Trees : WellFormed(tree)

Init == \E tree \in Trees :
  /\ nodes = tree.nodes
  /\ root = tree.root
  /\ treeVer = 0
  /\ entries = Cardinality(Stored(tree))
  /\ th = [t \in Threads |-> Idle]
  /\ calls = [t \in Threads |-> 0]
  /\ known = Stored(tree)
  /\ wins = StoredEntries(tree)

----------------------------------------------------------------------------
(* Helpers for the actions. *)

At(t, pc) == th[t].pc = pc
Go(t, pc) == th' = [th EXCEPT ![t].pc = pc]
Set(t, r) == th' = [th EXCEPT ![t] = r]

\* A fresh descent: from the top of _descendOptimistic, or of the slow path.
Afresh(r, pc) == [Idle EXCEPT !.pc = pc, !.op = r.op, !.key = r.key, !.before = r.before]
Again(t, pc) == Set(t, Afresh(th[t], pc))
Restart(t) == Again(t, "snapshot_tree")

Return(t, answer) ==
  Set(t, [Afresh(th[t], "returned") EXCEPT !.answer = answer, !.found = th[t].found])

\* read_begin() waits for the writer; the value is the snapshot.
ReadBegin(v) == ~IsLocked(v)

\* Where a scan over the first c positions ends, if it may stop at stops.
FirstStop(c, stops) ==
  IF stops = {} THEN c ELSE CHOOSE i \in stops : \A j \in stops : i <= j

\* The first of the first c positions in ks whose key is not below key.
LowerBound(ks, c, key) == FirstStop(c, {i \in 0 .. c - 1 : ks[i] >= key})

\* _childIndex and _childIndexSpec: count is read first, and clamped.
ChildIndex(ks, c, key) == FirstStop(c, {i \in 0 .. c - 1 : ks[i] > key})

\* _leafFind and _leafSlotSpec.
LeafSlot(ks, c, key) ==
  LET i == LowerBound(ks, c, key)
  IN  IF i < c /\ ks[i] = key THEN i ELSE -1

\* A lock operation on a node: acquire, upgrade and release all add 2.
Raise(n) == nodes' = [nodes EXCEPT ![n].ver = Raised(@)]

----------------------------------------------------------------------------
(* Optimistic descent, shared by lookup() and the fast path of insert(). *)

Call(t) ==
  /\ th[t].pc \in {"idle", "returned"} /\ calls[t] < MaxCalls
  /\ calls' = [calls EXCEPT ![t] = @ + 1]
  /\ \E r \in Requests[t] :
       Set(t, [Idle EXCEPT !.pc = "snapshot_tree", !.op = r.op, !.key = r.key, !.before = known])
  /\ UNCHANGED <<nodes, root, treeVer, entries, known, wins>>

SnapshotTree(t) ==
  /\ At(t, "snapshot_tree") /\ ReadBegin(treeVer)
  /\ Set(t, [th[t] EXCEPT !.pc = "read_root", !.ver = treeVer])
  /\ UNCHANGED <<nodes, root, treeVer, entries, calls, known, wins>>

ReadRoot(t) ==
  /\ At(t, "read_root")
  /\ Set(t, [th[t] EXCEPT !.pc = IF root = Null THEN "validate_empty" ELSE "snapshot_root", !.child = root])
  /\ UNCHANGED <<nodes, root, treeVer, entries, calls, known, wins>>

\* An empty tree: lookup() is done, insert() takes the slow path.
ValidateEmpty(t) ==
  /\ At(t, "validate_empty")
  /\ IF treeVer # th[t].ver THEN Restart(t)
     ELSE IF th[t].op = "lookup" THEN Return(t, FALSE)
     ELSE Again(t, "lock_tree")
  /\ UNCHANGED <<nodes, root, treeVer, entries, calls, known, wins>>

SnapshotRoot(t) ==
  /\ At(t, "snapshot_root") /\ ReadBegin(nodes[th[t].child].ver)
  /\ Set(t, [th[t] EXCEPT !.pc = "validate_tree", !.childVer = nodes[th[t].child].ver])
  /\ UNCHANGED <<nodes, root, treeVer, entries, calls, known, wins>>

\* The child becomes the node of the descent; its kind decides what comes next.
Enter(t) ==
  LET r == th[t]
  IN  Set(t, [th[t] EXCEPT !.pc = IF nodes[r.child].leaf /\ r.op = "insert" THEN "upgrade" ELSE "read_count",
              !.node = r.child, !.ver = r.childVer, !.child = Null, !.childVer = 0])

ValidateTree(t) ==
  /\ At(t, "validate_tree")
  /\ IF treeVer = th[t].ver THEN Enter(t) ELSE Restart(t)
  /\ UNCHANGED <<nodes, root, treeVer, entries, calls, known, wins>>

ReadCount(t) ==
  /\ At(t, "read_count")
  /\ Set(t, [th[t] EXCEPT !.pc = IF nodes[th[t].node].leaf THEN "search" ELSE "pick",
             !.count = nodes[th[t].node].count])
  /\ UNCHANGED <<nodes, root, treeVer, entries, calls, known, wins>>

PickSlot(t) ==
  /\ At(t, "pick")
  /\ Set(t, [th[t] EXCEPT !.pc = "read_child", !.slot = ChildIndex(nodes[th[t].node].keys, th[t].count, th[t].key)])
  /\ UNCHANGED <<nodes, root, treeVer, entries, calls, known, wins>>

ReadChild(t) ==
  LET child == nodes[th[t].node].kids[th[t].slot]
  IN  /\ At(t, "read_child")
      /\ IF child = Null THEN Restart(t)
         ELSE Set(t, [th[t] EXCEPT !.pc = "snapshot_child", !.child = child, !.count = 0, !.slot = 0])
      /\ UNCHANGED <<nodes, root, treeVer, entries, calls, known, wins>>

SnapshotChild(t) ==
  /\ At(t, "snapshot_child") /\ ReadBegin(nodes[th[t].child].ver)
  /\ Set(t, [th[t] EXCEPT !.pc = "couple", !.childVer = nodes[th[t].child].ver])
  /\ UNCHANGED <<nodes, root, treeVer, entries, calls, known, wins>>

\* A bug: the parent is not validated once more after the child's snapshot.
CoupleUnvalidated(t) ==
  /\ At(t, "couple") /\ Enter(t)
  /\ UNCHANGED <<nodes, root, treeVer, entries, calls, known, wins>>

\* The coupling point: the parent is validated after the child's snapshot.
Couple(t) ==
  /\ At(t, "couple")
  /\ IF nodes[th[t].node].ver = th[t].ver THEN Enter(t) ELSE Restart(t)
  /\ UNCHANGED <<nodes, root, treeVer, entries, calls, known, wins>>

----------------------------------------------------------------------------
(* lookup() in the leaf. *)

Search(t) ==
  LET slot == LeafSlot(nodes[th[t].node].keys, th[t].count, th[t].key)
  IN  /\ At(t, "search")
      /\ Set(t, [th[t] EXCEPT !.pc = IF slot < 0 THEN "validate_leaf" ELSE "read_value", !.slot = slot, !.count = 0])
      /\ UNCHANGED <<nodes, root, treeVer, entries, calls, known, wins>>

ReadValue(t) ==
  /\ At(t, "read_value")
  /\ Set(t, [th[t] EXCEPT !.pc = "validate_leaf", !.found = nodes[th[t].node].values[th[t].slot]])
  /\ UNCHANGED <<nodes, root, treeVer, entries, calls, known, wins>>

ValidateLeaf(t) ==
  LET hit == th[t].slot >= 0
  IN  /\ At(t, "validate_leaf")
      /\ IF nodes[th[t].node].ver # th[t].ver
         THEN Restart(t) /\ UNCHANGED known
         ELSE Return(t, hit) /\ known' = known \union (IF hit THEN {th[t].key} ELSE {})
      /\ UNCHANGED <<nodes, root, treeVer, entries, calls, wins>>

----------------------------------------------------------------------------
(* insert(): the leaf becomes locked, by upgrade() or on the slow path. *)

\* Where insert() stands with the leaf n locked.
Room(n) == IF Full(n) THEN "no_room" ELSE "find"

\* A bug: the leaf is locked as it is now, not as it was when it was found.
UpgradeAny(t) ==
  /\ At(t, "upgrade") /\ ~IsLocked(nodes[th[t].node].ver)
  /\ Raise(th[t].node)
  /\ Go(t, Room(th[t].node))
  /\ UNCHANGED <<root, treeVer, entries, calls, known, wins>>

Upgrade(t) ==
  /\ At(t, "upgrade")
  /\ IF nodes[th[t].node].ver = th[t].ver
     THEN Raise(th[t].node) /\ Set(t, [th[t] EXCEPT !.pc = Room(th[t].node), !.ver = 0])
     ELSE Restart(t) /\ UNCHANGED nodes
  /\ UNCHANGED <<root, treeVer, entries, calls, known, wins>>

\* A full leaf is released and reached again on the slow path.
NoRoom(t) ==
  /\ At(t, "no_room")
  /\ Raise(th[t].node)
  /\ Again(t, "lock_tree")
  /\ UNCHANGED <<root, treeVer, entries, calls, known, wins>>

\* A bug: the duplicate is refused without a release of the leaf.
FindKeepsLock(t) ==
  LET r == th[t]  slot == LeafSlot(nodes[r.node].keys, nodes[r.node].count, r.key)
  IN  /\ At(t, "find")
      /\ IF slot >= 0
         THEN Return(t, FALSE) /\ known' = known \union {r.key}
         ELSE Set(t, [th[t] EXCEPT !.pc = "shift", !.slot = nodes[r.node].count]) /\ UNCHANGED known
      /\ UNCHANGED <<nodes, root, treeVer, entries, calls, wins>>

\* A duplicate is refused; otherwise the rotation starts at the end.
Find(t) ==
  LET r == th[t]  slot == LeafSlot(nodes[r.node].keys, nodes[r.node].count, r.key)
  IN  /\ At(t, "find")
      /\ IF slot >= 0
         THEN Raise(r.node) /\ Return(t, FALSE) /\ known' = known \union {r.key}
         ELSE Set(t, [th[t] EXCEPT !.pc = "shift", !.slot = nodes[r.node].count]) /\ UNCHANGED <<nodes, known>>
      /\ UNCHANGED <<root, treeVer, entries, calls, wins>>

\* _leafOpenSlot, one entry at a time, down to the place of the key.
Shift(t) ==
  LET r == th[t]  n == r.node
      goal == LowerBound(nodes[n].keys, nodes[n].count, r.key)
  IN  /\ At(t, "shift")
      /\ IF r.slot > goal
         THEN /\ nodes' = [nodes EXCEPT ![n].keys[r.slot] = nodes[n].keys[r.slot - 1],
                                        ![n].values[r.slot] = nodes[n].values[r.slot - 1]]
              /\ Set(t, [th[t] EXCEPT !.slot = r.slot - 1])
         ELSE /\ nodes' = [nodes EXCEPT ![n].keys[r.slot] = r.key]
              /\ Go(t, "store_value")
      /\ UNCHANGED <<root, treeVer, entries, calls, known, wins>>

StoreValue(t) ==
  LET r == th[t]
  IN  /\ At(t, "store_value")
      /\ nodes' = [nodes EXCEPT ![r.node].values[r.slot] = [key |-> r.key, by |-> t]]
      /\ Set(t, [th[t] EXCEPT !.pc = "count_up", !.slot = 0])
      /\ UNCHANGED <<root, treeVer, entries, calls, known, wins>>

CountUp(t) ==
  /\ At(t, "count_up")
  /\ nodes' = [nodes EXCEPT ![th[t].node].count = @ + 1]
  /\ Go(t, "release_leaf")
  /\ UNCHANGED <<root, treeVer, entries, calls, known, wins>>

ReleaseLeaf(t) ==
  /\ At(t, "release_leaf")
  /\ Raise(th[t].node)
  /\ Go(t, "count_entry")
  /\ wins' = wins \union {[key |-> th[t].key, by |-> t]}
  /\ UNCHANGED <<root, treeVer, entries, calls, known>>

CountEntry(t) ==
  /\ At(t, "count_entry")
  /\ entries' = entries + 1
  /\ known' = known \union {th[t].key}
  /\ Return(t, TRUE)
  /\ UNCHANGED <<nodes, root, treeVer, calls, wins>>

----------------------------------------------------------------------------
(* The slow path: locks from the root down, full nodes split on the way. *)

NewNode(leaf) ==
  [ver |-> 0, leaf |-> leaf, count |-> 0, next |-> Null,
   keys |-> [i \in 0 .. Fanout - 1 |-> 0],
   values |-> [i \in 0 .. Fanout - 1 |-> Default],
   kids |-> [i \in 0 .. Fanout |-> Null]]

LockTree(t) ==
  /\ At(t, "lock_tree") /\ ~IsLocked(treeVer)
  /\ treeVer' = Raised(treeVer)
  /\ Go(t, IF root = Null THEN "plant" ELSE "lock_root")
  /\ UNCHANGED <<nodes, root, entries, calls, known, wins>>

Plant(t) ==
  /\ At(t, "plant")
  /\ nodes' = Append(nodes, NewNode(TRUE))
  /\ root' = Len(nodes')
  /\ Go(t, "lock_root")
  /\ UNCHANGED <<treeVer, entries, calls, known, wins>>

\* A bug: the root is not split before the descent.
LockRootAnyway(t) ==
  /\ At(t, "lock_root") /\ ~IsLocked(nodes[root].ver)
  /\ Raise(root)
  /\ Set(t, [th[t] EXCEPT !.pc = "release_tree", !.node = root])
  /\ UNCHANGED <<root, treeVer, entries, calls, known, wins>>

\* A full root will be split.
LockRoot(t) ==
  /\ At(t, "lock_root") /\ ~IsLocked(nodes[root].ver)
  /\ Raise(root)
  /\ Set(t, [th[t] EXCEPT !.pc = IF Full(root) THEN "grow" ELSE "release_tree", !.node = root])
  /\ UNCHANGED <<root, treeVer, entries, calls, known, wins>>

\* A full root gets a new node above it, which nobody can reach yet.
Grow(t) ==
  /\ At(t, "grow")
  /\ nodes' = Append(nodes, [NewNode(FALSE) EXCEPT !.kids[0] = root])
  /\ Set(t, [th[t] EXCEPT !.pc = "split", !.grow = TRUE, !.node = Len(nodes'), !.child = root, !.slot = 0])
  /\ UNCHANGED <<root, treeVer, entries, calls, known, wins>>

\* _splitChild up to the call of _insertChildAt: the new right node is not
\* reachable yet, so of all its stores only left->count shows to a reader.
Split(t) ==
  LET r == th[t]  left == nodes[r.child]  new == Len(nodes) + 1
      from == IF left.leaf THEN Mid ELSE Mid + 1
      right == [NewNode(left.leaf) EXCEPT
        !.count = left.count - from,
        !.next = left.next,
        !.keys = [i \in DOMAIN @ |-> IF i < left.count - from THEN left.keys[from + i] ELSE @[i]],
        !.values = [i \in DOMAIN @ |->
                      IF left.leaf /\ i < left.count - from THEN left.values[from + i] ELSE @[i]],
        !.kids = [i \in DOMAIN @ |->
                      IF ~left.leaf /\ i <= left.count - from THEN left.kids[from + i] ELSE @[i]]]
  IN  /\ At(t, "split")
      /\ nodes' = Append([nodes EXCEPT ![r.child].count = Mid,
                                       ![r.child].next = IF left.leaf THEN new ELSE @], right)
      /\ Set(t, [th[t] EXCEPT !.pc = "shift_child", !.sep = left.keys[Mid], !.right = new,
                 !.count = nodes[r.node].count])
      /\ UNCHANGED <<root, treeVer, entries, calls, known, wins>>

\* _insertChildAt, one entry at a time; at the end the separator is stored.
ShiftChild(t) ==
  LET r == th[t]  n == r.node
  IN  /\ At(t, "shift_child")
      /\ IF r.count > r.slot
         THEN /\ nodes' = [nodes EXCEPT ![n].keys[r.count] = nodes[n].keys[r.count - 1],
                                        ![n].kids[r.count + 1] = nodes[n].kids[r.count]]
              /\ Set(t, [th[t] EXCEPT !.count = r.count - 1])
         ELSE /\ nodes' = [nodes EXCEPT ![n].keys[r.slot] = r.sep]
              /\ Set(t, [th[t] EXCEPT !.pc = "store_child", !.count = 0])
      /\ UNCHANGED <<root, treeVer, entries, calls, known, wins>>

StoreChild(t) ==
  LET r == th[t]
  IN  /\ At(t, "store_child")
      /\ nodes' = [nodes EXCEPT ![r.node].kids[r.slot + 1] = r.right]
      /\ Set(t, [th[t] EXCEPT !.pc = "count_child", !.sep = 0, !.right = Null])
      /\ UNCHANGED <<root, treeVer, entries, calls, known, wins>>

CountChild(t) ==
  /\ At(t, "count_child")
  /\ nodes' = [nodes EXCEPT ![th[t].node].count = @ + 1]
  /\ Set(t, [th[t] EXCEPT !.pc = IF th[t].grow THEN "publish_root" ELSE "release_child", !.slot = 0])
  /\ UNCHANGED <<root, treeVer, entries, calls, known, wins>>

\* The new root is locked, which nobody can see, and then published.
PublishRoot(t) ==
  /\ At(t, "publish_root")
  /\ Raise(th[t].node)
  /\ root' = th[t].node
  /\ Go(t, "release_child")
  /\ UNCHANGED <<treeVer, entries, calls, known, wins>>

\* After a split the child, or the old root, is released; the node stays held.
ReleaseChild(t) ==
  /\ At(t, "release_child")
  /\ Raise(th[t].child)
  /\ Set(t, [th[t] EXCEPT !.pc = IF th[t].grow THEN "release_tree" ELSE "lock_child", !.child = Null, !.grow = FALSE])
  /\ UNCHANGED <<root, treeVer, entries, calls, known, wins>>

\* Where the slow path stands with node n locked: at its leaf, or above it.
Standing(n) == IF nodes[n].leaf THEN "slow_room" ELSE "lock_child"

ReleaseTree(t) ==
  /\ At(t, "release_tree")
  /\ treeVer' = Raised(treeVer)
  /\ Go(t, Standing(th[t].node))
  /\ UNCHANGED <<nodes, root, entries, calls, known, wins>>

LockChild(t) ==
  LET n == th[t].node  i == ChildIndex(nodes[n].keys, nodes[n].count, th[t].key)  child == nodes[n].kids[i]
  IN  /\ At(t, "lock_child") /\ ~IsLocked(nodes[child].ver)
      /\ Raise(child)
      /\ Set(t, [th[t] EXCEPT !.pc = "child_room", !.slot = i, !.child = child])
      /\ UNCHANGED <<root, treeVer, entries, calls, known, wins>>

\* A full child is split.  The code restarts, defensively, should the parent
\* be full as well.
ChildRoom(t) ==
  LET r == th[t]  overfull == Full(r.child) /\ Full(r.node)
  IN  /\ At(t, "child_room")
      /\ IF overfull
         THEN /\ nodes' = [nodes EXCEPT ![r.child].ver = Raised(@), ![r.node].ver = Raised(@)]
              /\ Again(t, "lock_tree")
         ELSE Go(t, IF Full(r.child) THEN "split" ELSE "release_parent") /\ UNCHANGED nodes
      /\ UNCHANGED <<root, treeVer, entries, calls, known, wins>>

ReleaseParent(t) ==
  /\ At(t, "release_parent")
  /\ Raise(th[t].node)
  /\ Set(t, [th[t] EXCEPT !.pc = Standing(th[t].child), !.node = th[t].child, !.child = Null, !.slot = 0])
  /\ UNCHANGED <<root, treeVer, entries, calls, known, wins>>

\* The leaf has room; the code restarts, defensively, should it have none.
SlowRoom(t) ==
  LET n == th[t].node
  IN  /\ At(t, "slow_room")
      /\ IF Full(n) THEN Raise(n) /\ Again(t, "lock_tree") ELSE Go(t, "find") /\ UNCHANGED nodes
      /\ UNCHANGED <<root, treeVer, entries, calls, known, wins>>

----------------------------------------------------------------------------
Descend(t) ==
  \/ SnapshotTree(t) \/ ReadRoot(t) \/ ValidateEmpty(t) \/ SnapshotRoot(t) \/ ValidateTree(t)
  \/ ReadCount(t) \/ PickSlot(t) \/ ReadChild(t) \/ SnapshotChild(t) \/ Couple(t)
  \/ Search(t) \/ ReadValue(t) \/ ValidateLeaf(t)

Place(t) ==
  \/ Upgrade(t) \/ NoRoom(t) \/ Find(t) \/ Shift(t) \/ StoreValue(t) \/ CountUp(t)
  \/ ReleaseLeaf(t) \/ CountEntry(t)

Slow(t) ==
  \/ LockTree(t) \/ Plant(t) \/ LockRoot(t) \/ Grow(t) \/ Split(t) \/ ShiftChild(t)
  \/ StoreChild(t) \/ CountChild(t) \/ PublishRoot(t) \/ ReleaseChild(t) \/ ReleaseTree(t)
  \/ LockChild(t) \/ ChildRoom(t) \/ ReleaseParent(t) \/ SlowRoom(t)

Work(t) == Descend(t) \/ Place(t) \/ Slow(t)

Next == \E t \in Threads : Call(t) \/ Work(t)
Spec == Init /\ [][Next]_vars

\* A thread inside a call keeps running; nobody has to make a call.
FairSpec == Spec /\ \A t \in Threads : WF_vars(Work(t))
----------------------------------------------------------------------------
(* Properties. *)

\* lookup() and insert() are linearizable: what a call answers was true of the
\* tree at a moment of the call.  A lookup that finds returns the value that
\* was inserted under that key, never the one of a neighbour that a rotation or
\* a split moved past it; a lookup that finds nothing, and an insert that is
\* accepted, contradict no call that had ended before (btree.cb:609, :664).
AnswersRight == \A t \in Threads : At(t, "returned") =>
  IF th[t].op = "lookup"
  THEN IF th[t].answer THEN th[t].found \in wins /\ th[t].found.key = th[t].key
                       ELSE th[t].key \notin th[t].before
  ELSE IF th[t].answer THEN th[t].key \notin th[t].before
                       ELSE th[t].key \in {w.key : w \in wins}

\* The entries of node n, in the order of its slots.
Entries(n) == [i \in 1 .. nodes[n].count |-> nodes[n].values[i - 1]]
KeysOf(n) == [i \in 1 .. nodes[n].count |-> nodes[n].keys[i - 1]]

\* One step down, towards the first leaf or towards a key, and one step along.
FirstChild(n) == IF nodes[n].leaf THEN n ELSE nodes[n].kids[0]
ChildFor(n, key) ==
  IF nodes[n].leaf THEN n ELSE nodes[n].kids[ChildIndex(nodes[n].keys, nodes[n].count, key)]
Onward(leaves) ==
  LET next == nodes[Last(leaves)].next
  IN  IF next = Null THEN leaves ELSE Append(leaves, next)

\* Where first() starts, and the leaf that a descent for key reaches.
Leftmost ==
  LET down[k \in 0 .. Len(nodes)] == IF k = 0 THEN root ELSE FirstChild(down[k - 1])
  IN  down[Len(nodes)]
LeafOf(key) ==
  LET down[k \in 0 .. Len(nodes)] == IF k = 0 THEN root ELSE ChildFor(down[k - 1], key)
  IN  down[Len(nodes)]

\* The leaves from n on along the links, at most every node once.
Chain(n) ==
  LET from[k \in 0 .. Len(nodes)] == IF k = 0 THEN <<n>> ELSE Onward(from[k - 1])
  IN  from[Len(nodes)]

Quiet ==
  /\ ~IsLocked(treeVer) /\ \A n \in DOMAIN nodes : ~IsLocked(nodes[n].ver)
  /\ \A t \in Threads : ~At(t, "count_entry")

\* Whenever no lock is held, the chain of leaves from the leftmost one, which
\* first() and next() walk, holds exactly the accepted entries in ascending
\* order of their keys, each of them where a descent for its key looks, and
\* count() is their number: splits and inserts of several threads lose,
\* duplicate and misplace nothing (btree.cb:258-308, :715-729, :771-834).
TreeRight == Quiet /\ root # Null =>
  LET leaves == Chain(Leftmost)
      keys == FlattenSeq([i \in DOMAIN leaves |-> KeysOf(leaves[i])])
      stored == FlattenSeq([i \in DOMAIN leaves |-> Entries(leaves[i])])
  IN  /\ \A i \in 1 .. Len(keys) - 1 : keys[i] < keys[i + 1]
      /\ ToSet(stored) = wins /\ entries = Len(keys)
      /\ \A i \in DOMAIN keys :
           /\ stored[i].key = keys[i]
           /\ Contains(KeysOf(LeafOf(keys[i])), keys[i])

\* The branches that the code calls defensive are not needed: a node whose
\* child is about to be split has room for the separator, and the leaf that the
\* slow path reaches has room for the key, although other threads descended to
\* it before it was locked (btree.cb:801-804, :822-823).
RoomForSplit == \A t \in Threads :
  /\ At(t, "child_room") => ~(Full(th[t].child) /\ Full(th[t].node))
  /\ At(t, "slow_room") => ~Full(th[t].node)

\* Every call returns: locks taken from the root down never wait in a circle,
\* every path gives its locks back, and restarts come to an end once the
\* writers have (btree.cb:764-765).
CallsReturn == []<>(\A t \in Threads : th[t].pc \in {"idle", "returned"})
=============================================================================
