--------------------------- MODULE BTreeInvariant --------------------------
(***************************************************************************)
(* The inductive invariant of BTree, and why the steps that leave the      *)
(* shape of the tree alone keep it: those of the readers, of a thread that *)
(* writes a leaf, and of one that locks its way down to a full node.       *)
(* BTreeProofs has the other steps and the theorems.                       *)
(*                                                                         *)
(* The invariant is about two functions that no variable holds: span[n],   *)
(* the keys that belong below node n, and level[n], its height.  It is     *)
(* shown that there always are such functions.  One step of a thread is    *)
(* summarised by what it may do to the others (LockStep and Frame), as in  *)
(* rely-guarantee reasoning, so that what each thread knows is carried     *)
(* over once for all.                                                      *)
(***************************************************************************)
EXTENDS BTree, FiniteSetTheorems, SequenceTheorems, WellFoundedInduction, TLAPS

----------------------------------------------------------------------------
(* The inductive invariant.  span and level are those of WellFormed. *)

Outside == {"idle", "returned"}
AtTree == {"read_root", "validate_empty", "snapshot_root", "validate_tree"}
Coupling == {"read_child", "snapshot_child", "couple"}
InLeaf == {"search", "read_value", "validate_leaf", "upgrade"}
Entered == {"read_count", "pick"} \union Coupling \union InLeaf
LeafHeld == {"no_room", "find", "shift", "store_value", "count_up", "release_leaf"}
Moving == {"shift", "store_value", "count_up", "release_leaf"}
TreeHeld == {"plant", "lock_root", "grow", "publish_root", "release_tree"}
Opening == {"shift_child", "store_child", "count_child"}
Splitting == {"split"} \union Opening
Walking == {"lock_child", "child_room", "release_parent", "slow_room"}
SlowPath == {"lock_tree"} \union TreeHeld \union Splitting \union {"release_child"} \union Walking
Places == Outside \union {"snapshot_tree"} \union AtTree \union Entered \union LeafHeld
          \union {"count_entry"} \union SlowPath

Locals ==
  [pc : Places, op : {"none", "lookup", "insert"}, key : Int, answer : BOOLEAN, before : SUBSET Int,
   node : 0 .. Len(nodes), ver : Nat, count : 0 .. Fanout, slot : -1 .. Fanout,
   child : 0 .. Len(nodes), childVer : Nat, found : Entry, grow : BOOLEAN, sep : Int,
   right : 0 .. Len(nodes)]

TypeOK ==
  /\ nodes \in Seq(Node(Len(nodes)))
  /\ root \in 0 .. Len(nodes)
  /\ treeVer \in Nat
  /\ entries \in Int
  /\ th \in [Threads -> Locals]
  /\ known \in SUBSET Int
  /\ wins \in SUBSET Entry

\* The nodes whose locks a thread holds, and whether it holds the tree's.
HoldsNode(t) ==
  \/ th[t].pc \in LeafHeld \union Walking \union {"grow", "release_tree", "release_child"}
  \/ th[t].pc \in Splitting /\ ~th[t].grow
HoldsChild(t) == th[t].pc \in Splitting \union {"publish_root", "release_child", "child_room", "release_parent"}
Holds(t, n) == (HoldsNode(t) /\ n = th[t].node) \/ (HoldsChild(t) /\ n = th[t].child)
HoldsTree(t) ==
  \/ th[t].pc \in TreeHeld
  \/ th[t].pc \in Splitting \union {"release_child"} /\ th[t].grow

\* A lock is held by one thread, and its word says so.
Locks ==
  /\ \A t \in Threads : HoldsNode(t) => th[t].node \in DOMAIN nodes /\ IsLocked(nodes[th[t].node].ver)
  /\ \A t \in Threads : HoldsChild(t) => th[t].child \in DOMAIN nodes /\ IsLocked(nodes[th[t].child].ver)
  /\ \A t, u \in Threads : t # u => \A n \in DOMAIN nodes : ~(Holds(t, n) /\ Holds(u, n))
  /\ \A n \in DOMAIN nodes : IsLocked(nodes[n].ver) => \E t \in Threads : Holds(t, n)
  /\ \A t \in Threads : HoldsTree(t) => IsLocked(treeVer)
  /\ \A t, u \in Threads : t # u => ~(HoldsTree(t) /\ HoldsTree(u))

\* A node that its holder is writing; a new root that is not published yet.
Busy(n) == \E t \in Threads : th[t].node = n /\ th[t].pc \in Moving \union Opening
Private(t, n) ==
  th[t].grow /\ th[t].pc \in Splitting \union {"publish_root"} /\ n = th[t].node
Reduced == \E t \in Threads : th[t].grow /\ th[t].pc \in Opening \union {"publish_root"}

\* The nodes of one level have no key in common; the root is responsible for all.
Spans(span, level) ==
  /\ span \in Seq(SUBSET Keys) /\ Len(span) = Len(nodes)
  /\ level \in Seq(Nat) /\ Len(level) = Len(nodes)
  /\ (root = Null <=> nodes = <<>>)
  /\ root # Null /\ ~Reduced => span[root] = Keys
  /\ \A n \in DOMAIN nodes : (nodes[n].leaf <=> level[n] = 0)
  /\ \A n \in DOMAIN nodes : level[n] <= level[root] \/ \E t \in Threads : Private(t, n)
  /\ \A m, n \in DOMAIN nodes : m # n /\ level[m] = level[n] => span[m] \intersect span[n] = {}

\* A node that nobody is writing holds what it is responsible for.
NodeOK(n, span, level) ==
  IF nodes[n].leaf
  THEN LeafOK(nodes[n].keys, nodes[n].values, nodes[n].count, span[n], wins)
  ELSE InnerOK(nodes[n].keys, nodes[n].kids, nodes[n].count, span[n], level[n], span, level)
Contents(span, level) == \A n \in DOMAIN nodes : ~Busy(n) => NodeOK(n, span, level)

\* Node n is where a descent of thread t has to pass.
OnPath(t, n, span, level) ==
  n \in DOMAIN nodes /\ th[t].key \in span[n] /\ level[n] <= level[root]

\* What a reader has seen of the root and of a node is so while the version stands.
SeesTree(t) ==
  /\ th[t].pc \in AtTree => th[t].ver <= treeVer /\ ~IsLocked(th[t].ver)
  /\ th[t].pc \in {"snapshot_root", "validate_tree"} =>
       /\ th[t].child \in DOMAIN nodes
       /\ th[t].ver = treeVer => th[t].child = root
  /\ th[t].pc = "validate_empty" => (th[t].ver = treeVer => root = Null)
  /\ th[t].pc \in {"validate_tree", "couple"} =>
       /\ th[t].childVer <= nodes[th[t].child].ver /\ ~IsLocked(th[t].childVer)

Valid(t) == th[t].pc \in Entered /\ th[t].ver = nodes[th[t].node].ver
NextNode(t) == nodes[th[t].node].kids[ChildIndex(nodes[th[t].node].keys, nodes[th[t].node].count, th[t].key)]

SeesNode(t, span, level) ==
  LET r == th[t]  n == nodes[r.node]
  IN  /\ r.pc \in Entered => r.node \in DOMAIN nodes /\ r.ver <= n.ver /\ ~IsLocked(r.ver)
      /\ r.pc \in InLeaf => n.leaf
      /\ r.pc \in {"pick"} \union Coupling => ~n.leaf
      /\ r.pc = "read_child" => r.slot \in 0 .. Fanout
      /\ r.pc \in {"snapshot_child", "couple"} => r.child \in DOMAIN nodes
      /\ r.pc = "read_value" => r.slot \in 0 .. Fanout - 1
      /\ Valid(t) =>
           /\ OnPath(t, r.node, span, level)
           /\ r.pc \in {"pick", "search"} => r.count = n.count
           /\ r.pc = "read_child" => r.slot = ChildIndex(n.keys, n.count, r.key)
           /\ r.pc \in {"snapshot_child", "couple"} => r.child = NextNode(t)
           /\ r.pc = "read_value" => r.slot < n.count /\ n.keys[r.slot] = r.key
           /\ r.pc = "validate_leaf" =>
                IF r.slot >= 0 THEN r.found \in wins /\ r.found.key = r.key
                ELSE \A i \in 0 .. n.count - 1 : n.keys[i] # r.key

\* What a thread that holds nodes knows of them.
Without(f, p, size) == [i \in 0 .. size - 1 |-> IF i < p THEN f[i] ELSE f[i + 1]]
NotYet(t) == th[t].key \notin th[t].before /\ \A w \in wins : w.key # th[t].key
Mine(t) == [key |-> th[t].key, by |-> t]

WritesLeaf(t, span, level) ==
  LET r == th[t]  n == nodes[r.node]  S == span[r.node]
  IN  /\ r.pc \in LeafHeld => n.leaf /\ OnPath(t, r.node, span, level)
      /\ r.pc = "find" => n.count < Fanout
      /\ r.pc \in Moving => NotYet(t)
      /\ r.pc \in {"shift", "store_value"} =>
           /\ n.count < Fanout /\ r.slot \in 0 .. n.count
           /\ LeafOK(Without(n.keys, r.slot, Fanout - 1), Without(n.values, r.slot, Fanout - 1),
                     n.count, S, wins)
           /\ \A i \in r.slot .. n.count - 1 : r.key < n.keys[i + 1]
      /\ r.pc = "store_value" => n.keys[r.slot] = r.key /\ \A i \in 0 .. r.slot - 1 : n.keys[i] < r.key
      /\ r.pc = "count_up" =>
           n.count < Fanout /\ LeafOK(n.keys, n.values, n.count + 1, S, wins \union {Mine(t)})
      /\ r.pc = "release_leaf" => LeafOK(n.keys, n.values, n.count, S, wins \union {Mine(t)})
      /\ r.pc = "count_entry" => Mine(t) \in wins /\ r.key \notin r.before

\* The keys and children that node n will have when the separator is in.
KeysAfter(ks, c, s, sep) ==
  [i \in 0 .. Fanout - 1 |-> IF i = s THEN sep ELSE IF s < i /\ i <= c THEN ks[i - 1] ELSE ks[i]]
KidsAfter(cs, c, s, right) ==
  [i \in 0 .. Fanout |-> IF i = s + 1 THEN right ELSE IF s + 1 < i /\ i <= c + 1 THEN cs[i - 1] ELSE cs[i]]

\* Nobody has a snapshot of node n, and nobody holds it.
Untouched(n) ==
  /\ ~IsLocked(nodes[n].ver)
  /\ \A u \in Threads : th[u].pc \in Entered /\ th[u].node = n => th[u].ver # nodes[n].ver

\* The child that a descent for the key of t takes from a full node has room,
\* and nobody but t can fill it.
ChildHasRoom(t, n, span, level) ==
  /\ n \in DOMAIN nodes /\ nodes[n].count < Fanout /\ Untouched(n)
  /\ level[n] = level[th[t].node] - 1 /\ span[n] \subseteq span[th[t].node]

Descends(t, span, level) ==
  LET r == th[t]  n == nodes[r.node]  c == nodes[r.child]
  IN  /\ r.pc \in SlowPath => r.op = "insert"
      /\ r.grow => r.pc \in Splitting \union {"publish_root", "release_child"}
      /\ r.pc = "publish_root" => r.grow
      /\ r.pc = "plant" => root = Null
      /\ r.pc \in TreeHeld \ {"plant"} => root # Null
      /\ r.pc \in {"grow", "release_tree"} => r.node = root
      /\ r.pc = "grow" => n.count = Fanout
      /\ r.pc = "release_tree" => n.count < Fanout
      /\ r.pc = "release_child" /\ r.grow => r.node = root /\ n.count < Fanout
      /\ r.pc \in Walking \union Splitting \union {"release_child"} => r.key \in span[r.node]
      /\ HoldsNode(t) => r.node \in DOMAIN nodes /\ level[r.node] <= level[root]
      /\ HoldsChild(t) => r.child \in DOMAIN nodes /\ level[r.child] = level[r.node] - 1
      /\ r.pc \in Splitting \union {"lock_child", "child_room", "release_parent", "publish_root", "release_child"} =>
           ~n.leaf
      /\ r.pc = "slow_room" => n.leaf /\ n.count < Fanout
      /\ r.grow /\ r.pc # "release_child" =>
           /\ r.node \in DOMAIN nodes /\ r.child = root /\ span[r.node] = Keys
           /\ level[r.node] = level[root] + 1
           /\ ~IsLocked(nodes[r.node].ver)
      /\ r.pc = "split" => c.count = Fanout /\ n.count < Fanout /\ r.slot \in 0 .. n.count
      /\ r.pc \in Splitting /\ r.grow => n.count = 0
      /\ r.pc = "publish_root" => n.count < Fanout /\ c.count < Fanout
      /\ r.pc \in {"split", "child_room", "release_parent"} =>
           r.slot = ChildIndex(n.keys, n.count, r.key) /\ r.child = n.kids[r.slot]
      /\ r.pc = "release_parent" => c.count < Fanout

\* The separator goes into node n: what n will hold when it is in.
Opens(t, span, level) ==
  LET r == th[t]  n == nodes[r.node]
  IN  /\ r.pc \in Opening => /\ n.count < Fanout /\ r.slot \in 0 .. n.count
                             /\ nodes[r.child].count < Fanout
      /\ r.pc = "shift_child" =>
           /\ r.count \in r.slot .. n.count
           /\ InnerOK(KeysAfter(n.keys, r.count, r.slot, r.sep), KidsAfter(n.kids, r.count, r.slot, r.right),
                      n.count + 1, span[r.node], level[r.node], span, level)
      /\ r.pc = "store_child" =>
           InnerOK(n.keys, [n.kids EXCEPT ![r.slot + 1] = r.right],
                   n.count + 1, span[r.node], level[r.node], span, level)
      /\ r.pc = "count_child" =>
           InnerOK(n.keys, n.kids, n.count + 1, span[r.node], level[r.node], span, level)

\* The child that the key of t leads to in a full node: one half of a split.
HasRoom(t, span, level) ==
  LET r == th[t]  n == nodes[r.node]
      picked == n.kids[ChildIndex(n.keys, n.count, r.key)]
  IN  /\ r.pc \in {"shift_child", "store_child"} =>
           /\ n.kids[r.slot] = r.child
           /\ r.right \in DOMAIN nodes /\ level[r.right] = level[r.child]
           /\ r.key \in span[r.child] \union span[r.right]
           /\ r.grow \/ ChildHasRoom(t, r.right, span, level)
      /\ r.pc = "count_child" /\ ~r.grow =>
           LET next == n.kids[ChildIndex(n.keys, n.count + 1, r.key)]
           IN  next = r.child \/ ChildHasRoom(t, next, span, level)
      /\ r.pc = "release_child" =>
           /\ nodes[r.child].count < Fanout
           /\ n.count < Fanout \/ picked = r.child \/ ChildHasRoom(t, picked, span, level)
      /\ r.pc = "lock_child" => n.count < Fanout \/ ChildHasRoom(t, picked, span, level)
      /\ r.pc = "child_room" => n.count < Fanout \/ nodes[r.child].count < Fanout

Calls(t) ==
  LET r == th[t]
  IN  /\ r.pc # "idle" => r.op \in {"lookup", "insert"} /\ r.key \in Keys
      /\ r.before \subseteq known
      /\ r.pc \in {"search", "read_value", "validate_leaf"} => r.op = "lookup"
      /\ r.pc = "read_count" /\ nodes[r.node].leaf => r.op = "lookup"
      /\ r.pc \in {"upgrade", "count_entry"} \union LeafHeld => r.op = "insert"
      /\ r.pc = "returned" =>
           IF r.op = "lookup"
           THEN IF r.answer THEN r.found \in wins /\ r.found.key = r.key ELSE r.key \notin r.before
           ELSE IF r.answer THEN r.key \notin r.before ELSE \E w \in wins : w.key = r.key

Counting == {t \in Threads : At(t, "count_entry")}

History ==
  /\ \A k \in known : \E w \in wins : w.key = k
  /\ \A v, w \in wins : v.key = w.key => v = w
  /\ \A w \in wins : w.key \in Keys
  /\ root = Null => wins = {}

\* What thread t knows.
Own(t, span, level) ==
  /\ SeesTree(t)
  /\ SeesNode(t, span, level)
  /\ WritesLeaf(t, span, level)
  /\ Descends(t, span, level)
  /\ Opens(t, span, level)
  /\ HasRoom(t, span, level)
  /\ Calls(t)

\* count() counts the entries whose insert() has come that far.
Tally == IsFiniteSet(wins) /\ entries + Cardinality(Counting) = Cardinality(wins)

IInv(span, level) ==
  /\ TypeOK
  /\ Locks
  /\ Spans(span, level)
  /\ Contents(span, level)
  /\ \A t \in Threads : Own(t, span, level)
  /\ History
  /\ Tally

----------------------------------------------------------------------------
(* Numbers, and where a scan stops.                                         *)

\* Induction over the naturals without an operator parameter: the intervals
\* 0 .. n are well-founded by inclusion.
LEMMA LeastNumber == \A T \in SUBSET Nat : T # {} => \E m \in T : \A k \in T : m <= k
<1> SUFFICES ASSUME NEW T \in SUBSET Nat, T # {}
             PROVE  \E m \in T : \A k \in T : m <= k
  OBVIOUS
<1> DEFINE C == {0 .. n : n \in T}
           R == StrictSubsetOrdering(Nat)
<1>1. C \subseteq FiniteSubsetsOf(Nat)
  <2> SUFFICES ASSUME NEW n \in T PROVE 0 .. n \in FiniteSubsetsOf(Nat)  OBVIOUS
  <2> QED  BY FS_Interval DEF FiniteSubsetsOf
<1>2. PICK x \in C : \A y \in C : <<y, x>> \notin R
  <2>1. IsWellFoundedOn(R, FiniteSubsetsOf(Nat))  BY FS_StrictSubsetOrderingWellFounded
  <2>2. C # {}  OBVIOUS
  <2> HIDE DEF C, R
  <2> QED  BY <1>1, <2>1, <2>2, WFMin
<1>3. PICK m \in T : x = 0 .. m  OBVIOUS
<1>4. ASSUME NEW k \in T, k < m PROVE FALSE
  <2>1. 0 .. k \subseteq 0 .. m /\ 0 .. k # 0 .. m  BY <1>4
  <2>2. 0 .. k \subseteq Nat /\ 0 .. m \subseteq Nat  OBVIOUS
  <2>3. <<0 .. k, x>> \in R  BY <1>3, <2>1, <2>2 DEF StrictSubsetOrdering
  <2> QED  BY <1>2, <2>3
<1> QED  BY <1>4

\* A lock operation changes the lock bit and never takes a version back.
LEMMA Parity ==
  ASSUME NEW v \in Nat
  PROVE  /\ Raised(v) \in Nat /\ v < Raised(v)
         /\ IsLocked(v) \in BOOLEAN
         /\ IsLocked(Raised(v)) <=> ~IsLocked(v)
<1>1. PICK q \in Nat, r \in 0 .. 3 : v = 4 * q + r
  <2>1. v = 4 * (v \div 4) + (v % 4) /\ v \div 4 \in Nat /\ v % 4 \in 0 .. 3  OBVIOUS
  <2> QED  BY <2>1
<1>2. CASE r \in {0, 1}
  <2>1. v \div 2 = 2 * q /\ (v + 2) \div 2 = 2 * q + 1  BY <1>1, <1>2
  <2>2. (2 * q) % 2 = 0 /\ (2 * q + 1) % 2 = 1  OBVIOUS
  <2> QED  BY <2>1, <2>2 DEF Raised, IsLocked, LockedBit
<1>3. CASE r \in {2, 3}
  <2>1. v \div 2 = 2 * q + 1 /\ (v + 2) \div 2 = 2 * q + 2  BY <1>1, <1>3
  <2>2. (2 * q + 1) % 2 = 1 /\ (2 * q + 2) % 2 = 0  OBVIOUS
  <2> QED  BY <2>1, <2>2 DEF Raised, IsLocked, LockedBit
<1> QED  BY <1>1, <1>2, <1>3

\* A scan ends at the first stop, or at the end.
LEMMA Stops ==
  ASSUME NEW c \in Nat, NEW stops \in SUBSET (0 .. c - 1)
  PROVE  /\ FirstStop(c, stops) \in 0 .. c
         /\ FirstStop(c, stops) < c => FirstStop(c, stops) \in stops
         /\ \A j \in 0 .. FirstStop(c, stops) - 1 : j \notin stops
<1>1. CASE stops = {}  BY <1>1 DEF FirstStop
<1>2. CASE stops # {}
  <2>1. \E i \in stops : \A j \in stops : i <= j
    <3>1. stops \in SUBSET Nat  OBVIOUS
    <3> QED  BY <3>1, <1>2, LeastNumber
  <2>2. FirstStop(c, stops) \in stops /\ \A j \in stops : FirstStop(c, stops) <= j
    BY <1>2, <2>1 DEF FirstStop
  <2> DEFINE f == FirstStop(c, stops)
  <2>3. f \in stops /\ \A j \in stops : f <= j  BY <2>2
  <2> HIDE DEF f
  <2>4. f \in 0 .. c - 1  BY <2>3
  <2>5. f \in 0 .. c /\ \A j \in 0 .. f - 1 : j \notin stops  BY <2>3, <2>4
  <2> QED  BY <2>3, <2>5 DEF f
<1> QED  BY <1>1, <1>2

\* The fanout, and where a node is split.
LEMMA FanoutFacts == /\ Fanout \in Nat /\ Fanout >= 2
                     /\ Mid \in Nat /\ Mid >= 1 /\ Mid < Fanout
BY FanoutAssumption DEF Mid

\* child_index(): the first key above the one sought.
LEMMA ChildIndexFacts ==
  ASSUME NEW ks, NEW c \in 0 .. Fanout, NEW key \in Int,
         \A i \in 0 .. Fanout - 1 : ks[i] \in Int
  PROVE  /\ ChildIndex(ks, c, key) \in 0 .. c
         /\ ChildIndex(ks, c, key) < c => key < ks[ChildIndex(ks, c, key)]
         /\ \A j \in 0 .. ChildIndex(ks, c, key) - 1 : ks[j] <= key
<1> DEFINE stops == {i \in 0 .. c - 1 : ks[i] > key}
<1>1. c \in Nat /\ stops \in SUBSET (0 .. c - 1)  BY FanoutFacts
<1>2. ChildIndex(ks, c, key) = FirstStop(c, stops)  BY DEF ChildIndex
<1>3. /\ FirstStop(c, stops) \in 0 .. c
      /\ FirstStop(c, stops) < c => FirstStop(c, stops) \in stops
      /\ \A j \in 0 .. FirstStop(c, stops) - 1 : j \notin stops
  BY <1>1, Stops
<1> QED  BY <1>2, <1>3, FanoutFacts

\* lower_bound(): the first key not below the one sought.
LEMMA LowerBoundFacts ==
  ASSUME NEW ks, NEW c \in 0 .. Fanout, NEW key \in Int,
         \A i \in 0 .. Fanout - 1 : ks[i] \in Int
  PROVE  /\ LowerBound(ks, c, key) \in 0 .. c
         /\ LowerBound(ks, c, key) < c => key <= ks[LowerBound(ks, c, key)]
         /\ \A j \in 0 .. LowerBound(ks, c, key) - 1 : ks[j] < key
<1> DEFINE stops == {i \in 0 .. c - 1 : ks[i] >= key}
<1>1. c \in Nat /\ stops \in SUBSET (0 .. c - 1)  BY FanoutFacts
<1> DEFINE f == LowerBound(ks, c, key)
<1>2. f = FirstStop(c, stops)  BY DEF LowerBound
<1>3. /\ f \in 0 .. c
      /\ f < c => f \in stops
      /\ \A j \in 0 .. f - 1 : j \notin stops
  BY <1>1, <1>2, Stops
<1> HIDE DEF f
<1>4. \A j \in 0 .. f - 1 : j \in 0 .. Fanout - 1 /\ j \in 0 .. c - 1  BY <1>3, FanoutFacts
<1>5. \A j \in 0 .. f - 1 : ~(ks[j] >= key)  BY <1>3, <1>4
<1>6. \A j \in 0 .. f - 1 : ks[j] < key  BY <1>4, <1>5
<1> QED  BY <1>3, <1>6 DEF f

\* The search of a leaf finds the key if it is there.
LEMMA LeafSlotFacts ==
  ASSUME NEW ks, NEW c \in 0 .. Fanout, NEW key \in Int,
         \A i \in 0 .. Fanout - 1 : ks[i] \in Int
  PROVE  LET slot == LeafSlot(ks, c, key)
         IN  /\ slot \in -1 .. c - 1
             /\ slot >= 0 => ks[slot] = key
             /\ slot < 0 /\ Ascending(ks, c) => \A i \in 0 .. c - 1 : ks[i] # key
<1> DEFINE i == LowerBound(ks, c, key)
<1>1. /\ i \in 0 .. c
      /\ i < c => key <= ks[i]
      /\ \A j \in 0 .. i - 1 : ks[j] < key
  BY LowerBoundFacts
<1>2. LeafSlot(ks, c, key) = IF i < c /\ ks[i] = key THEN i ELSE -1  BY DEF LeafSlot
<1> HIDE DEF i
<1>3. CASE i < c /\ ks[i] = key  BY <1>1, <1>2, <1>3, FanoutFacts
<1>4. CASE ~(i < c /\ ks[i] = key)
  <2>1. LeafSlot(ks, c, key) = -1  BY <1>2, <1>4
  <2>2. ASSUME Ascending(ks, c), NEW j \in 0 .. c - 1, ks[j] = key PROVE FALSE
    <3>1. j >= i  BY <1>1, <2>2, FanoutFacts
    <3>2. i < c /\ j # i  BY <1>1, <1>4, <2>2, <3>1, FanoutFacts
    <3>3. ks[i] < ks[j]  BY <1>1, <2>2, <3>1, <3>2, FanoutFacts DEF Ascending
    <3> QED  BY <1>1, <3>2, <3>3, <2>2, FanoutFacts
  <2> QED  BY <2>1, <2>2, FanoutFacts
<1> QED  BY <1>3, <1>4

----------------------------------------------------------------------------
(* The shape of leaves and of inner nodes.                                  *)

Arrays == [0 .. Fanout - 1 -> Int]

\* Only the first c slots count.
LEMMA LeafSame ==
  ASSUME NEW ks, NEW vs, NEW ks2, NEW vs2, NEW c, NEW S, NEW W,
         LeafOK(ks, vs, c, S, W),
         \A i \in 0 .. c - 1 : ks2[i] = ks[i] /\ vs2[i] = vs[i]
  PROVE  LeafOK(ks2, vs2, c, S, W)
BY DEF LeafOK, Ascending

\* An entry that belongs elsewhere changes nothing.
LEMMA LeafElsewhere ==
  ASSUME NEW ks, NEW vs, NEW c, NEW S, NEW W, NEW e,
         LeafOK(ks, vs, c, S, W), e.key \notin S
  PROVE  LeafOK(ks, vs, c, S, W \union {e})
BY DEF LeafOK

\* The two halves of a full leaf.
LEMMA LeafSplit ==
  ASSUME NEW ks \in Arrays, NEW vs, NEW S \in SUBSET Int, NEW W, NEW ks2, NEW vs2,
         LeafOK(ks, vs, Fanout, S, W),
         \A i \in 0 .. Fanout - Mid - 1 : ks2[i] = ks[Mid + i] /\ vs2[i] = vs[Mid + i]
  PROVE  /\ ks[Mid] \in S /\ ks[0] \in S /\ ks[0] < ks[Mid]
         /\ LeafOK(ks, vs, Mid, {k \in S : k < ks[Mid]}, W)
         /\ LeafOK(ks2, vs2, Fanout - Mid, {k \in S : k >= ks[Mid]}, W)
<1> DEFINE sep == ks[Mid]
           L == {k \in S : k < sep}
           R == {k \in S : k >= sep}
<1>1. /\ \A i, j \in 0 .. Fanout - 1 : i < j => ks[i] < ks[j]
      /\ \A i \in 0 .. Fanout - 1 : ks[i] \in Int /\ ks[i] \in S /\ vs[i] \in W /\ vs[i].key = ks[i]
      /\ \A w \in W : w.key \in S => \E i \in 0 .. Fanout - 1 : vs[i] = w
  BY DEF LeafOK, Ascending, Arrays
<1>2. Mid \in 0 .. Fanout - 1 /\ 0 \in 0 .. Fanout - 1 /\ 0 < Mid  BY FanoutFacts
<1>3. sep \in S /\ sep \in Int /\ ks[0] \in S /\ ks[0] < sep  BY <1>1, <1>2
<1>4. LeafOK(ks, vs, Mid, L, W)
  <2>1. \A i \in 0 .. Mid - 1 : i \in 0 .. Fanout - 1 /\ i < Mid  BY FanoutFacts
  <2>2. Ascending(ks, Mid)  BY <1>1, <2>1 DEF Ascending
  <2>3. \A i \in 0 .. Mid - 1 : ks[i] \in L /\ vs[i] \in W /\ vs[i].key = ks[i]  BY <1>1, <1>2, <2>1
  <2>4. ASSUME NEW w \in W, w.key \in L PROVE \E i \in 0 .. Mid - 1 : vs[i] = w
    <3>1. PICK i \in 0 .. Fanout - 1 : vs[i] = w  BY <1>1, <2>4
    <3>2. ks[i] < sep  BY <1>1, <3>1, <2>4
    <3>3. ~(i > Mid) /\ i # Mid  BY <1>1, <1>2, <1>3, <3>2
    <3> QED  BY <3>1, <3>3, FanoutFacts
  <2> HIDE DEF L
  <2> QED  BY <2>2, <2>3, <2>4 DEF LeafOK
<1>5. LeafOK(ks2, vs2, Fanout - Mid, R, W)
  <2>1. \A i \in 0 .. Fanout - Mid - 1 : Mid + i \in 0 .. Fanout - 1 /\ Mid + i >= Mid  BY FanoutFacts
  <2>2. Ascending(ks2, Fanout - Mid)
    <3> SUFFICES ASSUME NEW i \in 0 .. Fanout - Mid - 1, NEW j \in 0 .. Fanout - Mid - 1, i < j
                 PROVE  ks2[i] < ks2[j]
      BY DEF Ascending
    <3>1. Mid + i < Mid + j  BY FanoutFacts
    <3> QED  BY <1>1, <2>1, <3>1
  <2>3. \A i \in 0 .. Fanout - Mid - 1 : ks2[i] \in R /\ vs2[i] \in W /\ vs2[i].key = ks2[i]
    <3> SUFFICES ASSUME NEW i \in 0 .. Fanout - Mid - 1
                 PROVE  ks2[i] \in R /\ vs2[i] \in W /\ vs2[i].key = ks2[i]
      OBVIOUS
    <3>1. ks[Mid + i] >= sep
      <4>1. CASE i = 0  BY <1>3, <4>1, FanoutFacts
      <4>2. CASE i # 0
        <5>1. Mid < Mid + i  BY <4>2, FanoutFacts
        <5> QED  BY <1>1, <1>2, <1>3, <2>1, <5>1
      <4> QED  BY <4>1, <4>2
    <3> QED  BY <1>1, <2>1, <3>1
  <2>4. ASSUME NEW w \in W, w.key \in R PROVE \E i \in 0 .. Fanout - Mid - 1 : vs2[i] = w
    <3>1. PICK i \in 0 .. Fanout - 1 : vs[i] = w  BY <1>1, <2>4
    <3>2. ks[i] >= sep  BY <1>1, <3>1, <2>4
    <3>3. ~(i < Mid)  BY <1>1, <1>2, <1>3, <3>2
    <3>4. i - Mid \in 0 .. Fanout - Mid - 1 /\ Mid + (i - Mid) = i  BY <3>3, FanoutFacts
    <3> QED  BY <3>1, <3>4
  <2> HIDE DEF R
  <2> QED  BY <2>2, <2>3, <2>4 DEF LeafOK
<1> QED  BY <1>3, <1>4, <1>5

\* The rotation of a leaf moves the open slot and nothing else.
LEMMA LeafRotate ==
  ASSUME NEW f, DOMAIN f = 0 .. Fanout - 1, NEW p \in 1 .. Fanout - 1
  PROVE  Without([f EXCEPT ![p] = f[p - 1]], p - 1, Fanout - 1) = Without(f, p, Fanout - 1)
<1> DEFINE g == [f EXCEPT ![p] = f[p - 1]]
<1>1. \A i \in 0 .. Fanout - 1 : g[i] = IF i = p THEN f[p - 1] ELSE f[i]  OBVIOUS
<1>2. \A i \in 0 .. Fanout - 1 - 1 : i \in 0 .. Fanout - 1 /\ i + 1 \in 0 .. Fanout - 1  BY FanoutFacts
<1> HIDE DEF g
<1>3. \A i \in 0 .. Fanout - 1 - 1 :
        (IF i < p - 1 THEN g[i] ELSE g[i + 1]) = (IF i < p THEN f[i] ELSE f[i + 1])
  <2> SUFFICES ASSUME NEW i \in 0 .. Fanout - 1 - 1
               PROVE  (IF i < p - 1 THEN g[i] ELSE g[i + 1]) = (IF i < p THEN f[i] ELSE f[i + 1])
    OBVIOUS
  <2>1. CASE i < p - 1  BY <1>1, <1>2, <2>1, FanoutFacts
  <2>2. CASE i = p - 1  BY <1>1, <1>2, <2>2, FanoutFacts
  <2>3. CASE i > p - 1
    <3>1. i + 1 # p /\ ~(i < p - 1) /\ ~(i < p)  BY <2>3, FanoutFacts
    <3> QED  BY <1>1, <1>2, <3>1
  <2> QED  BY <2>1, <2>2, <2>3, FanoutFacts
<1>4. Without(g, p - 1, Fanout - 1) = Without(f, p, Fanout - 1)  BY <1>3 DEF Without
<1> QED  BY <1>4 DEF g

\* With key and value in the open slot the leaf has one entry more.
LEMMA LeafInsert ==
  ASSUME NEW ks \in Arrays, NEW vs, NEW c \in 0 .. Fanout - 1, NEW p \in 0 .. c, NEW S, NEW W, NEW e,
         LeafOK(Without(ks, p, Fanout - 1), Without(vs, p, Fanout - 1), c, S, W),
         ks[p] = e.key, vs[p] = e, e.key \in S, 
         \A i \in 0 .. p - 1 : ks[i] < e.key,
         \A i \in p .. c - 1 : e.key < ks[i + 1]
  PROVE  LeafOK(ks, vs, c + 1, S, W \union {e})
<1> DEFINE wk == Without(ks, p, Fanout - 1)
           wv == Without(vs, p, Fanout - 1)
<1>1. \A i \in 0 .. c - 1 : /\ wk[i] = IF i < p THEN ks[i] ELSE ks[i + 1]
                            /\ wv[i] = IF i < p THEN vs[i] ELSE vs[i + 1]
  <2>1. \A i \in 0 .. c - 1 : i \in 0 .. Fanout - 1 - 1  BY FanoutFacts
  <2> QED  BY <2>1 DEF Without
<1>2. /\ \A i, j \in 0 .. c - 1 : i < j => wk[i] < wk[j]
      /\ \A i \in 0 .. c - 1 : wk[i] \in S /\ wv[i] \in W /\ wv[i].key = wk[i]
      /\ \A w \in W : w.key \in S => \E i \in 0 .. c - 1 : wv[i] = w
  BY DEF LeafOK, Ascending
<1> HIDE DEF wk, wv
<1>3. \A i \in 0 .. c : i \in 0 .. Fanout - 1 /\ ks[i] \in Int  BY FanoutFacts DEF Arrays
<1>4. \A i \in 0 .. c : /\ i < p => i \in 0 .. c - 1 /\ wk[i] = ks[i] /\ wv[i] = vs[i]
                        /\ i > p => i - 1 \in 0 .. c - 1 /\ wk[i - 1] = ks[i] /\ wv[i - 1] = vs[i]
  <2> SUFFICES ASSUME NEW i \in 0 .. c
               PROVE  /\ i < p => i \in 0 .. c - 1 /\ wk[i] = ks[i] /\ wv[i] = vs[i]
                      /\ i > p => i - 1 \in 0 .. c - 1 /\ wk[i - 1] = ks[i] /\ wv[i - 1] = vs[i]
    OBVIOUS
  <2>1. CASE i < p  BY <1>1, <2>1, FanoutFacts
  <2>2. CASE i > p
    <3>1. i - 1 \in 0 .. c - 1 /\ ~(i - 1 < p) /\ (i - 1) + 1 = i  BY <2>2, FanoutFacts
    <3> QED  BY <1>1, <2>2, <3>1
  <2> QED  BY <2>1, <2>2, FanoutFacts
<1>5. \A i \in 0 .. c : i > p => e.key < ks[i]
  <2> SUFFICES ASSUME NEW i \in 0 .. c, i > p PROVE e.key < ks[i]  OBVIOUS
  <2>1. i - 1 \in p .. c - 1 /\ (i - 1) + 1 = i  BY FanoutFacts
  <2> QED  BY <2>1
<1>6. Ascending(ks, c + 1)
  <2> SUFFICES ASSUME NEW i \in 0 .. c, NEW j \in 0 .. c, i < j PROVE ks[i] < ks[j]
    BY FanoutFacts DEF Ascending
  <2>1. CASE j < p
    <3>1. i < p  BY <2>1, FanoutFacts
    <3> QED  BY <1>2, <1>4, <2>1, <3>1
  <2>2. CASE j = p  BY <2>2, FanoutFacts
  <2>3. CASE j > p /\ i = p  BY <1>5, <2>3
  <2>4. CASE j > p /\ i < p
    <3>1. ks[i] < e.key  BY <2>4, FanoutFacts
    <3>2. e.key < ks[j]  BY <1>5, <2>4
    <3>3. ks[i] \in Int /\ ks[j] \in Int /\ e.key \in Int  BY <1>3, FanoutFacts
    <3> QED  BY <3>1, <3>2, <3>3
  <2>5. CASE j > p /\ i > p
    <3>1. i - 1 < j - 1  BY FanoutFacts
    <3> QED  BY <1>2, <1>4, <2>5, <3>1
  <2> QED  BY <2>1, <2>2, <2>3, <2>4, <2>5, FanoutFacts
<1>7. \A i \in 0 .. c : ks[i] \in S /\ vs[i] \in W \union {e} /\ vs[i].key = ks[i]
  <2> SUFFICES ASSUME NEW i \in 0 .. c PROVE ks[i] \in S /\ vs[i] \in W \union {e} /\ vs[i].key = ks[i]
    OBVIOUS
  <2>1. CASE i = p  BY <2>1
  <2>2. CASE i # p  BY <1>2, <1>4, <2>2, FanoutFacts
  <2> QED  BY <2>1, <2>2
<1>8. ASSUME NEW w \in W \union {e}, w.key \in S PROVE \E i \in 0 .. c : vs[i] = w
  <2>1. CASE w = e  BY <2>1, FanoutFacts
  <2>2. CASE w \in W
    <3>1. PICK i \in 0 .. c - 1 : wv[i] = w  BY <1>2, <1>8, <2>2
    <3>2. i \in 0 .. c /\ i + 1 \in 0 .. c  BY FanoutFacts
    <3> QED  BY <1>1, <3>1, <3>2
  <2> QED  BY <2>1, <2>2, <1>8
<1>9. 0 .. (c + 1) - 1 = 0 .. c  BY FanoutFacts
<1> QED  BY <1>6, <1>7, <1>8, <1>9 DEF LeafOK

\* The segments of two slots have no key in common.
LEMMA SegmentsApart ==
  ASSUME NEW ks \in Arrays, NEW c \in 0 .. Fanout, NEW S \in SUBSET Int, Ascending(ks, c),
         NEW i \in 0 .. c, NEW j \in 0 .. c, NEW k \in Segment(S, ks, c, i), k \in Segment(S, ks, c, j)
  PROVE  i = j
<1>1. ASSUME NEW a \in 0 .. c, NEW b \in 0 .. c, a < b,
             k \in Segment(S, ks, c, a), k \in Segment(S, ks, c, b)
      PROVE  FALSE
  <2>1. a < c /\ b > 0 /\ a \in 0 .. c - 1 /\ b - 1 \in 0 .. c - 1  BY <1>1, FanoutFacts
  <2>2. k < ks[a] /\ ks[b - 1] <= k /\ k \in Int  BY <1>1, <2>1 DEF Segment
  <2>3. ks[a] \in Int /\ ks[b - 1] \in Int  BY <2>1, FanoutFacts DEF Arrays
  <2>4. CASE a = b - 1  BY <2>2, <2>3, <2>4
  <2>5. CASE a < b - 1
    <3>1. ks[a] < ks[b - 1]  BY <2>1, <2>5 DEF Ascending
    <3> QED  BY <2>2, <2>3, <3>1
  <2> QED  BY <1>1, <2>4, <2>5, FanoutFacts
<1>2. ~(i < j) /\ ~(j < i)  BY <1>1
<1> QED  BY <1>2, FanoutFacts

\* A child in one slot is the child of no other slot that a key belongs to.
LEMMA OneSlot ==
  ASSUME NEW ks \in Arrays, NEW cs, NEW c \in 0 .. Fanout, NEW S \in SUBSET Int, NEW l, NEW span, NEW level,
         InnerOK(ks, cs, c, S, l, span, level),
         NEW i \in 0 .. c, NEW j \in 0 .. c, NEW k \in span[cs[i]], k \in span[cs[j]]
  PROVE  i = j
<1>1. k \in Segment(S, ks, c, i) /\ k \in Segment(S, ks, c, j) /\ Ascending(ks, c)  BY DEF InnerOK
<1> QED  BY <1>1, SegmentsApart

\* Only the first c separators and the first c + 1 children count, and of span
\* and level only what they say of the children.
LEMMA InnerSame ==
  ASSUME NEW ks, NEW cs, NEW ks2, NEW cs2, NEW c \in Nat, NEW S, NEW l,
         NEW span, NEW level, NEW span2, NEW level2,
         InnerOK(ks, cs, c, S, l, span, level),
         \A i \in 0 .. c - 1 : ks2[i] = ks[i],
         \A i \in 0 .. c : cs2[i] = cs[i],
         \A i \in 0 .. c : /\ cs[i] \in DOMAIN span2
                           /\ span2[cs[i]] = span[cs[i]] /\ level2[cs[i]] = level[cs[i]]
  PROVE  InnerOK(ks2, cs2, c, S, l, span2, level2)
<1>1. /\ Ascending(ks, c) /\ \A i \in 0 .. c - 1 : ks[i] \in S
      /\ \A i \in 0 .. c : level[cs[i]] = l - 1 /\ span[cs[i]] = Segment(S, ks, c, i)
  BY DEF InnerOK
<1>2. Ascending(ks2, c) /\ \A i \in 0 .. c - 1 : ks2[i] \in S  BY <1>1 DEF Ascending
<1>3. \A i \in 0 .. c : Segment(S, ks2, c, i) = Segment(S, ks, c, i)
  <2> SUFFICES ASSUME NEW i \in 0 .. c PROVE Segment(S, ks2, c, i) = Segment(S, ks, c, i)  OBVIOUS
  <2>1. (i > 0 => ks2[i - 1] = ks[i - 1]) /\ (i < c => ks2[i] = ks[i])
    <3>1. (i > 0 => i - 1 \in 0 .. c - 1) /\ (i < c => i \in 0 .. c - 1)  OBVIOUS
    <3> QED  BY <3>1
  <2> QED  BY <2>1 DEF Segment
<1> QED  BY <1>1, <1>2, <1>3 DEF InnerOK

\* The two halves of a full inner node; the separator between them moves up.
LEMMA InnerSplit ==
  ASSUME NEW ks \in Arrays, NEW cs, NEW S \in SUBSET Int, NEW l, NEW span, NEW level, NEW ks2, NEW cs2,
         InnerOK(ks, cs, Fanout, S, l, span, level),
         \A i \in 0 .. Fanout - Mid - 1 - 1 : ks2[i] = ks[Mid + 1 + i],
         \A i \in 0 .. Fanout - Mid - 1 : cs2[i] = cs[Mid + 1 + i]
  PROVE  /\ ks[Mid] \in S /\ ks[0] \in S /\ ks[0] < ks[Mid]
         /\ InnerOK(ks, cs, Mid, {k \in S : k < ks[Mid]}, l, span, level)
         /\ InnerOK(ks2, cs2, Fanout - Mid - 1, {k \in S : k >= ks[Mid]}, l, span, level)
<1> DEFINE sep == ks[Mid]
           L == {k \in S : k < sep}
           R == {k \in S : k >= sep}
           size == Fanout - Mid - 1
<1>1. /\ \A i, j \in 0 .. Fanout - 1 : i < j => ks[i] < ks[j]
      /\ \A i \in 0 .. Fanout - 1 : ks[i] \in Int /\ ks[i] \in S
      /\ \A i \in 0 .. Fanout : /\ cs[i] \in DOMAIN span /\ level[cs[i]] = l - 1
                                /\ span[cs[i]] = Segment(S, ks, Fanout, i)
  BY DEF InnerOK, Ascending, Arrays
<1>2. Mid \in 0 .. Fanout - 1 /\ 0 \in 0 .. Fanout - 1 /\ 0 < Mid /\ size \in Nat  BY FanoutFacts
<1>3. sep \in S /\ sep \in Int /\ ks[0] \in S /\ ks[0] < sep  BY <1>1, <1>2
<1>4. InnerOK(ks, cs, Mid, L, l, span, level)
  <2>1. \A i \in 0 .. Mid - 1 : i \in 0 .. Fanout - 1 /\ i < Mid /\ ks[i] < sep  BY <1>1, <1>2, FanoutFacts
  <2>2. Ascending(ks, Mid)  BY <1>1, <2>1 DEF Ascending
  <2>3. \A i \in 0 .. Mid - 1 : ks[i] \in L  BY <1>1, <2>1
  <2>4. ASSUME NEW i \in 0 .. Mid PROVE Segment(L, ks, Mid, i) = Segment(S, ks, Fanout, i)
    <3>1. i < Fanout /\ i \in 0 .. Fanout - 1  BY FanoutFacts
    <3>2. CASE i < Mid
      <4>1. ks[i] \in Int /\ ks[i] < sep  BY <2>1, <1>1, <3>2, FanoutFacts
      <4>2. \A k \in S : k < ks[i] => k < sep  BY <1>3, <4>1
      <4> QED  BY <3>1, <3>2, <4>2 DEF Segment
    <3>3. CASE i = Mid  BY <3>1, <3>3, FanoutFacts DEF Segment
    <3> QED  BY <3>2, <3>3, FanoutFacts
  <2>5. \A i \in 0 .. Mid : i \in 0 .. Fanout  BY FanoutFacts
  <2> HIDE DEF L
  <2> QED  BY <1>1, <2>2, <2>3, <2>4, <2>5 DEF InnerOK
<1>5. InnerOK(ks2, cs2, size, R, l, span, level)
  <2>1. \A i \in 0 .. size - 1 : /\ Mid + 1 + i \in 0 .. Fanout - 1 /\ Mid < Mid + 1 + i
                                 /\ ks2[i] = ks[Mid + 1 + i]
    BY FanoutFacts
  <2>2. Ascending(ks2, size)
    <3> SUFFICES ASSUME NEW i \in 0 .. size - 1, NEW j \in 0 .. size - 1, i < j PROVE ks2[i] < ks2[j]
      BY DEF Ascending
    <3>1. Mid + 1 + i < Mid + 1 + j  BY FanoutFacts
    <3> QED  BY <1>1, <2>1, <3>1
  <2>3. \A i \in 0 .. size - 1 : ks2[i] \in Int /\ ks2[i] \in S /\ sep < ks2[i]  BY <1>1, <1>2, <2>1
  <2>4. \A i \in 0 .. size - 1 : ks2[i] \in R  BY <1>3, <2>3
  <2>5. ASSUME NEW i \in 0 .. size PROVE Segment(R, ks2, size, i) = Segment(S, ks, Fanout, Mid + 1 + i)
    <3>1. /\ i < size <=> Mid + 1 + i < Fanout
          /\ Mid + 1 + i > 0 /\ (Mid + 1 + i) - 1 = Mid + i
      BY FanoutFacts
    <3>2. i < size => ks2[i] = ks[Mid + 1 + i]
      <4>1. i < size => i \in 0 .. size - 1  BY <1>2
      <4> QED  BY <4>1, <2>1
    <3>3. CASE i = 0
      <4>1. Mid + i = Mid  BY <3>3, FanoutFacts
      <4>2. \A k : k \in Segment(S, ks, Fanout, Mid + 1 + i) <=>
                     k \in S /\ sep <= k /\ (i < size => k < ks2[i])
        BY <3>1, <3>2, <4>1 DEF Segment
      <4>3. \A k : k \in Segment(R, ks2, size, i) <=> k \in S /\ k >= sep /\ (i < size => k < ks2[i])
        BY <3>3 DEF Segment
      <4>4. \A k \in S : k >= sep <=> sep <= k  BY <1>3
      <4> QED  BY <4>2, <4>3, <4>4
    <3>4. CASE i > 0
      <4>1. i - 1 \in 0 .. size - 1 /\ Mid + 1 + (i - 1) = Mid + i  BY <1>2, <3>4, FanoutFacts
      <4>2. ks2[i - 1] = ks[Mid + i] /\ sep < ks2[i - 1] /\ ks2[i - 1] \in Int  BY <2>1, <2>3, <4>1
      <4>3. \A k : k \in Segment(S, ks, Fanout, Mid + 1 + i) <=>
                     k \in S /\ ks2[i - 1] <= k /\ (i < size => k < ks2[i])
        BY <3>1, <3>2, <4>2 DEF Segment
      <4>4. \A k : k \in Segment(R, ks2, size, i) <=>
                     k \in S /\ k >= sep /\ ks2[i - 1] <= k /\ (i < size => k < ks2[i])
        BY <3>4 DEF Segment
      <4>5. \A k \in S : ks2[i - 1] <= k => k >= sep  BY <1>3, <4>2
      <4> QED  BY <4>3, <4>4, <4>5
    <3> QED  BY <3>3, <3>4, <1>2
  <2>6. \A i \in 0 .. size : Mid + 1 + i \in 0 .. Fanout /\ cs2[i] = cs[Mid + 1 + i]  BY FanoutFacts
  <2> HIDE DEF R, size
  <2> QED  BY <1>1, <2>2, <2>4, <2>5, <2>6 DEF InnerOK
<1> QED  BY <1>3, <1>4, <1>5

\* The rotation of separators and children moves the open slot and nothing else.
LEMMA KeysRotate ==
  ASSUME NEW ks, DOMAIN ks = 0 .. Fanout - 1, NEW s \in Nat, NEW c \in 1 .. Fanout - 1, s < c, NEW sep
  PROVE  KeysAfter([ks EXCEPT ![c] = ks[c - 1]], c - 1, s, sep) = KeysAfter(ks, c, s, sep)
<1> DEFINE g == [ks EXCEPT ![c] = ks[c - 1]]
           New(i) == IF i = s THEN sep ELSE IF s < i /\ i <= c - 1 THEN g[i - 1] ELSE g[i]
           Old(i) == IF i = s THEN sep ELSE IF s < i /\ i <= c THEN ks[i - 1] ELSE ks[i]
<1>1. \A i \in 0 .. Fanout - 1 : g[i] = IF i = c THEN ks[c - 1] ELSE ks[i]  OBVIOUS
<1> HIDE DEF g
<1>2. \A i \in 0 .. Fanout - 1 : New(i) = Old(i)
  <2> SUFFICES ASSUME NEW i \in 0 .. Fanout - 1 PROVE New(i) = Old(i)  OBVIOUS
  <2>1. CASE i = s  BY <2>1
  <2>2. CASE i < s  BY <1>1, <2>2, FanoutFacts
  <2>3. CASE s < i /\ i < c
    <3>1. i - 1 \in 0 .. Fanout - 1 /\ i - 1 # c  BY <2>3, FanoutFacts
    <3> QED  BY <1>1, <2>3, <3>1, FanoutFacts
  <2>4. CASE i = c  BY <1>1, <2>4, FanoutFacts
  <2>5. CASE i > c  BY <1>1, <2>5, FanoutFacts
  <2> QED  BY <2>1, <2>2, <2>3, <2>4, <2>5, FanoutFacts
<1>3. [i \in 0 .. Fanout - 1 |-> New(i)] = [i \in 0 .. Fanout - 1 |-> Old(i)]  BY <1>2
<1>4. KeysAfter(g, c - 1, s, sep) = KeysAfter(ks, c, s, sep)  BY <1>3 DEF KeysAfter
<1> QED  BY <1>4 DEF g

\* The same of the children.
LEMMA KidsRotate ==
  ASSUME NEW cs, DOMAIN cs = 0 .. Fanout, NEW s \in Nat, NEW c \in 1 .. Fanout - 1, s < c, NEW right
  PROVE  KidsAfter([cs EXCEPT ![c + 1] = cs[c]], c - 1, s, right) = KidsAfter(cs, c, s, right)
<1> DEFINE g == [cs EXCEPT ![c + 1] = cs[c]]
           New(i) == IF i = s + 1 THEN right ELSE IF s + 1 < i /\ i <= (c - 1) + 1 THEN g[i - 1] ELSE g[i]
           Old(i) == IF i = s + 1 THEN right ELSE IF s + 1 < i /\ i <= c + 1 THEN cs[i - 1] ELSE cs[i]
<1>1. \A i \in 0 .. Fanout : g[i] = IF i = c + 1 THEN cs[c] ELSE cs[i]  OBVIOUS
<1> HIDE DEF g
<1>2. \A i \in 0 .. Fanout : New(i) = Old(i)
  <2> SUFFICES ASSUME NEW i \in 0 .. Fanout PROVE New(i) = Old(i)  OBVIOUS
  <2>1. CASE i = s + 1  BY <2>1
  <2>2. CASE i < s + 1  BY <1>1, <2>2, FanoutFacts
  <2>3. CASE s + 1 < i /\ i < c + 1
    <3>1. i - 1 \in 0 .. Fanout /\ i - 1 # c + 1  BY <2>3, FanoutFacts
    <3> QED  BY <1>1, <2>3, <3>1, FanoutFacts
  <2>4. CASE i = c + 1  BY <1>1, <2>4, FanoutFacts
  <2>5. CASE i > c + 1  BY <1>1, <2>5, FanoutFacts
  <2> QED  BY <2>1, <2>2, <2>3, <2>4, <2>5, FanoutFacts
<1>3. [i \in 0 .. Fanout |-> New(i)] = [i \in 0 .. Fanout |-> Old(i)]  BY <1>2
<1>4. KidsAfter(g, c - 1, s, right) = KidsAfter(cs, c, s, right)  BY <1>3 DEF KidsAfter
<1> QED  BY <1>4 DEF g

\* At the end of the rotation the store of the separator is left to do.
LEMMA KeysDone ==
  ASSUME NEW ks, DOMAIN ks = 0 .. Fanout - 1, NEW s \in 0 .. Fanout - 1, NEW sep
  PROVE  KeysAfter(ks, s, s, sep) = [ks EXCEPT ![s] = sep]
<1>1. \A i \in 0 .. Fanout - 1 : (IF i = s THEN sep ELSE IF s < i /\ i <= s THEN ks[i - 1] ELSE ks[i])
                                 = [ks EXCEPT ![s] = sep][i]
  BY FanoutFacts
<1>2. KeysAfter(ks, s, s, sep) = [i \in 0 .. Fanout - 1 |-> [ks EXCEPT ![s] = sep][i]]
  BY <1>1 DEF KeysAfter
<1> QED  BY <1>2

\* Child s of an inner node is split: the child right takes the keys from sep on.
Inserts(ks, cs, c, S, l, span, level, span2, level2, s, sep, right) ==
  /\ ks \in Arrays /\ c \in 0 .. Fanout - 1 /\ S \in SUBSET Int /\ s \in 0 .. c /\ sep \in Int
  /\ InnerOK(ks, cs, c, S, l, span, level)
  /\ sep \in span[cs[s]] /\ (s > 0 => ks[s - 1] < sep)
  /\ span2[cs[s]] = {k \in span[cs[s]] : k < sep} /\ level2[cs[s]] = level[cs[s]] /\ cs[s] \in DOMAIN span2
  /\ span2[right] = {k \in span[cs[s]] : k >= sep} /\ level2[right] = level[cs[s]] /\ right \in DOMAIN span2
  /\ \A i \in 0 .. c : i # s => /\ span2[cs[i]] = span[cs[i]] /\ level2[cs[i]] = level[cs[i]]
                                 /\ cs[i] \in DOMAIN span2

\* A separator in slot s divides the span of the child there between the child
\* and its new right half.
LEMMA InnerInsert ==
  ASSUME NEW ks, NEW cs, NEW c, NEW S, NEW l, NEW span, NEW level, NEW span2, NEW level2, NEW s, NEW sep, NEW right,
         Inserts(ks, cs, c, S, l, span, level, span2, level2, s, sep, right)
  PROVE  InnerOK(KeysAfter(ks, c, s, sep), KidsAfter(cs, c, s, right), c + 1, S, l, span2, level2)
<1>h. /\ ks \in Arrays /\ c \in 0 .. Fanout - 1 /\ S \in SUBSET Int /\ s \in 0 .. c /\ sep \in Int
      /\ InnerOK(ks, cs, c, S, l, span, level)
      /\ sep \in span[cs[s]] /\ (s > 0 => ks[s - 1] < sep)
      /\ span2[cs[s]] = {k \in span[cs[s]] : k < sep} /\ level2[cs[s]] = level[cs[s]] /\ cs[s] \in DOMAIN span2
      /\ span2[right] = {k \in span[cs[s]] : k >= sep} /\ level2[right] = level[cs[s]] /\ right \in DOMAIN span2
      /\ \A i \in 0 .. c : i # s => /\ span2[cs[i]] = span[cs[i]] /\ level2[cs[i]] = level[cs[i]]
                                     /\ cs[i] \in DOMAIN span2
  BY DEF Inserts
<1> USE <1>h
<1> DEFINE ka == KeysAfter(ks, c, s, sep)
           ca == KidsAfter(cs, c, s, right)
<1>0. /\ \A i \in 0 .. c : i \in 0 .. Fanout - 1
      /\ \A i \in 0 .. c + 1 : i \in 0 .. Fanout
      /\ \A i \in 0 .. Fanout - 1 : ks[i] \in Int
  BY FanoutFacts DEF Arrays
<1>1. \A i \in 0 .. c : ka[i] = IF i = s THEN sep ELSE IF s < i THEN ks[i - 1] ELSE ks[i]
  BY <1>0, FanoutFacts DEF KeysAfter
<1>2. \A i \in 0 .. c + 1 : ca[i] = IF i = s + 1 THEN right ELSE IF s + 1 < i THEN cs[i - 1] ELSE cs[i]
  BY <1>0, FanoutFacts DEF KidsAfter
<1> HIDE DEF ka, ca
<1>3. /\ \A i, j \in 0 .. c - 1 : i < j => ks[i] < ks[j]
      /\ \A i \in 0 .. c - 1 : ks[i] \in S
      /\ \A i \in 0 .. c : level[cs[i]] = l - 1 /\ span[cs[i]] = Segment(S, ks, c, i)
  BY DEF InnerOK, Ascending
<1>4. sep \in S /\ (s < c => sep < ks[s])  BY <1>3 DEF Segment
<1>5. \A i \in 0 .. c - 1 : i < s => ks[i] < sep
  <2> SUFFICES ASSUME NEW i \in 0 .. c - 1, i < s PROVE ks[i] < sep  OBVIOUS
  <2>1. CASE i = s - 1  BY <2>1, FanoutFacts
  <2>2. CASE i < s - 1
    <3>1. s - 1 \in 0 .. c - 1  BY FanoutFacts
    <3>2. ks[i] < ks[s - 1] /\ ks[s - 1] < sep  BY <1>3, <2>2, <3>1, FanoutFacts
    <3>3. ks[i] \in Int /\ ks[s - 1] \in Int  BY <1>0, <3>1, FanoutFacts
    <3> QED  BY <3>2, <3>3
  <2> QED  BY <2>1, <2>2, FanoutFacts
<1>6. \A i \in 0 .. c - 1 : i >= s => sep < ks[i]
  <2> SUFFICES ASSUME NEW i \in 0 .. c - 1, i >= s PROVE sep < ks[i]  OBVIOUS
  <2>1. s < c /\ s \in 0 .. c - 1  BY FanoutFacts
  <2>2. CASE i = s  BY <1>4, <2>1, <2>2
  <2>3. CASE i > s
    <3>1. ks[s] < ks[i] /\ ks[s] \in Int /\ ks[i] \in Int  BY <1>0, <1>3, <2>1, <2>3, FanoutFacts
    <3> QED  BY <1>4, <2>1, <3>1
  <2> QED  BY <2>2, <2>3, FanoutFacts
<1>7. Ascending(ka, c + 1)
  <2> SUFFICES ASSUME NEW i \in 0 .. c, NEW j \in 0 .. c, i < j PROVE ka[i] < ka[j]
    BY FanoutFacts DEF Ascending
  <2>1. CASE j < s
    <3>1. i \in 0 .. c - 1 /\ j \in 0 .. c - 1 /\ i < s  BY <2>1, FanoutFacts
    <3> QED  BY <1>1, <1>3, <2>1, <3>1
  <2>2. CASE j = s
    <3>1. i \in 0 .. c - 1 /\ i < s  BY <2>2, FanoutFacts
    <3> QED  BY <1>1, <1>5, <2>2, <3>1
  <2>3. CASE j > s /\ i = s
    <3>1. j - 1 \in 0 .. c - 1 /\ j - 1 >= s  BY <2>3, FanoutFacts
    <3> QED  BY <1>1, <1>6, <2>3, <3>1
  <2>4. CASE j > s /\ i < s
    <3>1. j - 1 \in 0 .. c - 1 /\ i \in 0 .. c - 1 /\ i < j - 1  BY <2>4, FanoutFacts
    <3> QED  BY <1>1, <1>3, <2>4, <3>1
  <2>5. CASE j > s /\ i > s
    <3>1. j - 1 \in 0 .. c - 1 /\ i - 1 \in 0 .. c - 1 /\ i - 1 < j - 1  BY <2>5, FanoutFacts
    <3> QED  BY <1>1, <1>3, <2>5, <3>1
  <2> QED  BY <2>1, <2>2, <2>3, <2>4, <2>5, FanoutFacts
<1>8. \A i \in 0 .. c : ka[i] \in S
  <2> SUFFICES ASSUME NEW i \in 0 .. c PROVE ka[i] \in S  OBVIOUS
  <2>1. CASE i = s  BY <1>1, <1>4, <2>1
  <2>2. CASE i < s
    <3>1. i \in 0 .. c - 1  BY <2>2, FanoutFacts
    <3> QED  BY <1>1, <1>3, <2>2, <3>1
  <2>3. CASE i > s
    <3>1. i - 1 \in 0 .. c - 1  BY <2>3, FanoutFacts
    <3> QED  BY <1>1, <1>3, <2>3, <3>1
  <2> QED  BY <2>1, <2>2, <2>3, FanoutFacts
<1>9. ASSUME NEW i \in 0 .. c + 1
      PROVE  ca[i] \in DOMAIN span2 /\ level2[ca[i]] = l - 1 /\ span2[ca[i]] = Segment(S, ka, c + 1, i)
  <2>1. CASE i < s
    <3>1. i \in 0 .. c /\ i # s /\ i < c /\ ~(i = s + 1) /\ ~(s + 1 < i)  BY <2>1, FanoutFacts
    <3>2. ca[i] = cs[i]  BY <1>2, <3>1
    <3>3. i > 0 => i - 1 \in 0 .. c /\ i - 1 < s  BY <2>1, FanoutFacts
    <3>4. (i > 0 => ka[i - 1] = ks[i - 1]) /\ ka[i] = ks[i]  BY <1>1, <2>1, <3>1, <3>3
    <3>5. Segment(S, ka, c + 1, i) = Segment(S, ks, c, i)  BY <3>1, <3>4, FanoutFacts DEF Segment
    <3> QED  BY <1>3, <3>1, <3>2, <3>5
  <2>2. CASE i = s
    <3>1. ca[i] = cs[s] /\ ka[s] = sep  BY <1>1, <1>2, <2>2, FanoutFacts
    <3>2. s > 0 => ka[s - 1] = ks[s - 1]
      <4>1. s > 0 => s - 1 \in 0 .. c /\ s - 1 < s  BY FanoutFacts
      <4> QED  BY <1>1, <4>1
    <3>3. \A k : k \in Segment(S, ka, c + 1, s) <=> k \in S /\ (s > 0 => ks[s - 1] <= k) /\ k < sep
      BY <3>1, <3>2, FanoutFacts DEF Segment
    <3>4. \A k : k \in span2[cs[s]] <=>
                   k \in S /\ (s > 0 => ks[s - 1] <= k) /\ (s < c => k < ks[s]) /\ k < sep
      BY <1>3 DEF Segment
    <3>5. \A k \in S : k < sep /\ s < c => k < ks[s]
      <4>1. s < c => s \in 0 .. c - 1 /\ ks[s] \in Int  BY <1>0, FanoutFacts
      <4>2. CASE s < c
        <5>1. ks[s] \in Int /\ sep < ks[s] /\ sep \in Int /\ \A k \in S : k \in Int  BY <1>4, <4>1, <4>2
        <5> QED  BY ONLY <5>1
      <4> QED  BY <4>2
    <3>6. span2[cs[s]] = Segment(S, ka, c + 1, s)  BY <3>3, <3>4, <3>5
    <3> QED  BY <1>3, <2>2, <3>1, <3>6
  <2>3. CASE i = s + 1
    <3>1. ca[i] = right /\ ka[s] = sep /\ i > 0 /\ i - 1 = s  BY <1>1, <1>2, <2>3, FanoutFacts
    <3>2. (i < c + 1 <=> s < c) /\ (s < c => ka[i] = ks[s])
      <4>1. s < c => i \in 0 .. c /\ s < i  BY <2>3, FanoutFacts
      <4> QED  BY <1>1, <2>3, <3>1, <4>1, FanoutFacts
    <3>3. \A k : k \in Segment(S, ka, c + 1, i) <=> k \in S /\ sep <= k /\ (s < c => k < ks[s])
      BY <3>1, <3>2 DEF Segment
    <3>4. \A k : k \in span2[right] <=>
                   k \in S /\ (s > 0 => ks[s - 1] <= k) /\ (s < c => k < ks[s]) /\ k >= sep
      BY <1>3 DEF Segment
    <3>5. \A k \in S : (sep <= k <=> k >= sep) /\ (sep <= k /\ s > 0 => ks[s - 1] <= k)
      <4>1. s > 0 => s - 1 \in 0 .. c - 1 /\ ks[s - 1] \in Int  BY <1>0, FanoutFacts
      <4> QED  BY <4>1
    <3>6. span2[right] = Segment(S, ka, c + 1, i)  BY <3>3, <3>4, <3>5
    <3> QED  BY <1>3, <3>1, <3>6
  <2>4. CASE i > s + 1
    <3>1. i - 1 \in 0 .. c /\ i - 1 # s /\ i \in 1 .. c + 1 /\ ~(i = s + 1) /\ s + 1 < i
      BY <2>4, FanoutFacts
    <3>2. ca[i] = cs[i - 1]  BY <1>2, <3>1
    <3>3. ka[i - 1] = ks[(i - 1) - 1]  BY <1>1, <2>4, <3>1, FanoutFacts
    <3>4. (i < c + 1 <=> i - 1 < c) /\ (i - 1 < c => ka[i] = ks[i - 1])
      <4>1. i - 1 < c => i \in 0 .. c /\ i # s /\ s < i  BY <2>4, <3>1, FanoutFacts
      <4> QED  BY <1>1, <4>1, <3>1, FanoutFacts
    <3>5. Segment(S, ka, c + 1, i) = Segment(S, ks, c, i - 1)  BY <3>1, <3>3, <3>4, FanoutFacts DEF Segment
    <3> QED  BY <1>3, <3>1, <3>2, <3>5
  <2> QED  BY <2>1, <2>2, <2>3, <2>4, FanoutFacts
<1>10. 0 .. (c + 1) - 1 = 0 .. c  BY FanoutFacts
<1>11. InnerOK(ka, ca, c + 1, S, l, span2, level2)  BY <1>7, <1>8, <1>9, <1>10 DEF InnerOK
<1> QED  BY <1>11 DEF ka, ca

----------------------------------------------------------------------------
(* A step of one thread, as the other threads see it.                       *)

\* The nodes that thread t does not hold.
Foreign(t, n) == ~Holds(t, n) /\ ~Private(t, n)

\* How t can come to a node that it does not hold: it has a valid snapshot of
\* it, or it is the root, or it comes from the node above.
Reaches(t, n, span, level) ==
  \/ Valid(t) /\ n = th[t].node
  \/ n = root
  \/ \E p \in DOMAIN nodes :
       /\ level[p] = level[n] + 1 /\ level[p] <= level[root]
       /\ span[n] \subseteq span[p] /\ th[t].key \in span[n]
       /\ ~IsLocked(nodes[p].ver) \/ Holds(t, p)

\* The step writes node n, or thread t has a valid snapshot of n after it.
Takes(t, n) ==
  \/ nodes'[n] # nodes[n]
  \/ th'[t].pc \in Entered /\ th'[t].node = n /\ th'[t].ver = nodes[n].ver

Others(t) == \A u \in Threads \ {t} : th'[u] = th[u]

\* The lock bit of a node changes as thread t comes to hold it or lets it go.
LockStep(t) ==
  /\ \A n \in DOMAIN nodes :
       \/ nodes'[n].ver = nodes[n].ver /\ (Holds(t, n)' <=> Holds(t, n))
       \/ ~IsLocked(nodes[n].ver) /\ IsLocked(nodes'[n].ver) /\ Holds(t, n)'
       \/ Holds(t, n) /\ ~IsLocked(nodes'[n].ver) /\ ~Holds(t, n)'
  /\ \A n \in DOMAIN nodes' : n \notin DOMAIN nodes => ~IsLocked(nodes'[n].ver) /\ ~Holds(t, n)'
  /\ HoldsNode(t)' => th'[t].node \in DOMAIN nodes'
  /\ HoldsChild(t)' => th'[t].child \in DOMAIN nodes'
  /\ \/ treeVer' = treeVer /\ (HoldsTree(t)' <=> HoldsTree(t))
     \/ ~IsLocked(treeVer) /\ IsLocked(treeVer') /\ treeVer < treeVer' /\ HoldsTree(t)'
     \/ HoldsTree(t) /\ ~IsLocked(treeVer') /\ treeVer < treeVer' /\ ~HoldsTree(t)'

\* What the step leaves alone.
Frame(t, span, level, span2, level2) ==
  /\ DOMAIN nodes \subseteq DOMAIN nodes' /\ DOMAIN span \subseteq DOMAIN span2
  /\ \A n \in DOMAIN nodes :
       /\ nodes'[n].ver \in Nat /\ nodes[n].ver <= nodes'[n].ver
       /\ nodes'[n].leaf = nodes[n].leaf
       /\ level2[n] = level[n]
       /\ span2[n] = span[n] \/ (At(t, "split") /\ n = th[t].child)
       /\ Foreign(t, n) /\ nodes'[n] # nodes[n] =>
            ~IsLocked(nodes[n].ver) /\ nodes'[n].ver # nodes[n].ver
       /\ Foreign(t, n) /\ Takes(t, n) => Reaches(t, n, span, level)
  /\ root' = root \/ HoldsTree(t)
  /\ root # Null => root' # Null /\ level2[root'] \in Nat /\ level[root] <= level2[root']
  /\ known \subseteq known'
  /\ wins' = wins \/ (At(t, "release_leaf") /\ wins' = wins \union {Mine(t)})

----------------------------------------------------------------------------
(* First consequences of the invariant.                                     *)

\* The types of a node's fields.
LEMMA NodeFacts ==
  ASSUME TypeOK
  PROVE  /\ nodes \in Seq(Node(Len(nodes))) /\ Len(nodes) \in Nat /\ DOMAIN nodes = 1 .. Len(nodes)
         /\ \A n \in DOMAIN nodes :
              /\ nodes[n] \in Node(Len(nodes))
              /\ nodes[n].ver \in Nat /\ nodes[n].leaf \in BOOLEAN /\ nodes[n].count \in 0 .. Fanout
              /\ nodes[n].next \in 0 .. Len(nodes) /\ nodes[n].keys \in Arrays
              /\ nodes[n].values \in [0 .. Fanout - 1 -> Entry]
              /\ nodes[n].kids \in [0 .. Fanout -> 0 .. Len(nodes)]
<1>1. nodes \in Seq(Node(Len(nodes)))  BY DEF TypeOK
<1>2. Len(nodes) \in Nat /\ DOMAIN nodes = 1 .. Len(nodes)  BY <1>1
<1>3. \A n \in DOMAIN nodes : nodes[n] \in Node(Len(nodes))  BY <1>1
<1> QED  BY <1>1, <1>2, <1>3 DEF Node, Arrays

\* The types of a thread's locals.
LEMMA ThreadFacts ==
  ASSUME TypeOK, NEW t \in Threads
  PROVE  /\ th[t] \in Locals
         /\ th[t].pc \in Places /\ th[t].op \in {"none", "lookup", "insert"} /\ th[t].key \in Int
         /\ th[t].answer \in BOOLEAN /\ th[t].before \in SUBSET Int /\ th[t].node \in 0 .. Len(nodes)
         /\ th[t].ver \in Nat /\ th[t].count \in 0 .. Fanout /\ th[t].slot \in -1 .. Fanout
         /\ th[t].child \in 0 .. Len(nodes) /\ th[t].childVer \in Nat /\ th[t].found \in Entry
         /\ th[t].grow \in BOOLEAN /\ th[t].sep \in Int /\ th[t].right \in 0 .. Len(nodes)
<1>1. th[t] \in Locals  BY DEF TypeOK
<1> QED  BY <1>1 DEF Locals

\* The types of the spans and the levels.
LEMMA SpanFacts ==
  ASSUME NEW span, NEW level, Spans(span, level)
  PROVE  /\ Len(span) = Len(nodes) /\ Len(level) = Len(nodes)
         /\ DOMAIN span = 1 .. Len(span) /\ DOMAIN level = 1 .. Len(level)
         /\ \A n \in DOMAIN span : span[n] \subseteq Keys /\ span[n] \subseteq Int
         /\ \A n \in DOMAIN level : level[n] \in Nat
<1>1. span \in Seq(SUBSET Keys) /\ level \in Seq(Nat) /\ Len(span) = Len(nodes) /\ Len(level) = Len(nodes)
  BY DEF Spans
<1>2. /\ DOMAIN span = 1 .. Len(span) /\ DOMAIN level = 1 .. Len(level)
      /\ \A n \in DOMAIN span : span[n] \in SUBSET Keys
      /\ \A n \in DOMAIN level : level[n] \in Nat
  BY <1>1
<1> QED  BY <1>1, <1>2, KeysAssumption

\* The facts above, of a state that satisfies the invariant.
LEMMA Basics ==
  ASSUME NEW span, NEW level, IInv(span, level)
  PROVE  /\ TypeOK /\ Locks /\ Spans(span, level) /\ Contents(span, level) /\ History /\ Tally
         /\ nodes \in Seq(Node(Len(nodes)))
         /\ Len(nodes) \in Nat /\ DOMAIN nodes = 1 .. Len(nodes)
         /\ DOMAIN span = DOMAIN nodes /\ DOMAIN level = DOMAIN nodes
         /\ \A n \in DOMAIN nodes : span[n] \subseteq Keys /\ span[n] \subseteq Int /\ level[n] \in Nat
         /\ (root = Null <=> DOMAIN nodes = {}) /\ (root # Null => root \in DOMAIN nodes)
         /\ treeVer \in Nat
<1>1. /\ TypeOK /\ Locks /\ Spans(span, level) /\ Contents(span, level) /\ History /\ Tally
  BY DEF IInv
<1>2. Len(nodes) \in Nat /\ DOMAIN nodes = 1 .. Len(nodes) /\ nodes \in Seq(Node(Len(nodes)))
  BY <1>1, NodeFacts
<1>3. root \in 0 .. Len(nodes) /\ treeVer \in Nat  BY <1>1 DEF TypeOK
<1>4. root = Null <=> nodes = <<>>  BY <1>1 DEF Spans
<1>5. nodes = <<>> <=> DOMAIN nodes = {}
  <2> DEFINE S == Node(Len(nodes))
  <2> HIDE DEF S
  <2>0. nodes \in Seq(S)  BY <1>2 DEF S
  <2>1. nodes # <<>> => Len(nodes) \in Nat \ {0}  BY <2>0, EmptySeq
  <2>2. nodes = <<>> => Len(nodes) = 0  BY <2>0, EmptySeq
  <2>3. Len(nodes) # 0 => 1 \in DOMAIN nodes  BY <1>2
  <2>4. Len(nodes) = 0 => DOMAIN nodes = {}  BY <1>2
  <2> QED  BY <2>1, <2>2, <2>3, <2>4
<1>6. root # Null => root \in DOMAIN nodes  BY <1>2, <1>3 DEF Null
<1> QED  BY <1>1, <1>2, <1>3, <1>4, <1>5, <1>6, SpanFacts

\* Two nodes of one level that have a key in common are one node.
LEMMA OneNode ==
  ASSUME NEW span, NEW level, Spans(span, level), NEW m \in DOMAIN nodes, NEW n \in DOMAIN nodes,
         level[m] = level[n], NEW k \in span[m], k \in span[n]
  PROVE  m = n
BY DEF Spans

\* What a thread holds is locked, and is below the root or the root itself; a
\* root that is not published yet is above, unlocked, and implies the tree's lock.
LEMMA Holding ==
  ASSUME NEW span, NEW level, IInv(span, level), NEW t \in Threads
  PROVE  /\ \A n : Holds(t, n) => /\ n \in DOMAIN nodes /\ IsLocked(nodes[n].ver)
                                  /\ level[n] <= level[root]
         /\ \A n : Private(t, n) => /\ n \in DOMAIN nodes /\ ~IsLocked(nodes[n].ver)
                                    /\ level[n] = level[root] + 1 /\ HoldsTree(t)
         /\ HoldsTree(t) => IsLocked(treeVer) /\ (~At(t, "plant") => root # Null)
<1>1. Locks /\ Descends(t, span, level) /\ TypeOK  BY DEF IInv, Own
<1>2. HoldsNode(t) => th[t].node \in DOMAIN nodes /\ IsLocked(nodes[th[t].node].ver)  BY <1>1 DEF Locks
<1>3. HoldsChild(t) => th[t].child \in DOMAIN nodes /\ IsLocked(nodes[th[t].child].ver)  BY <1>1 DEF Locks
<1>4. HoldsTree(t) => IsLocked(treeVer)  BY <1>1 DEF Locks
<1>5. HoldsNode(t) => level[th[t].node] <= level[root]  BY <1>1 DEF Descends
<1>6. HoldsChild(t) => level[th[t].child] = level[th[t].node] - 1  BY <1>1 DEF Descends
<1>7. th[t].grow => th[t].pc \in Splitting \union {"publish_root", "release_child"}  BY <1>1 DEF Descends
<1>8. th[t].grow /\ th[t].pc # "release_child" =>
        /\ th[t].node \in DOMAIN nodes /\ th[t].child = root
        /\ level[th[t].node] = level[root] + 1 /\ ~IsLocked(nodes[th[t].node].ver)
  BY <1>1 DEF Descends
<1>9. th[t].pc = "publish_root" => th[t].grow  BY <1>1 DEF Descends
<1>10. \A n \in DOMAIN nodes : level[n] \in Nat  BY Basics
<1>11. HoldsChild(t) => level[th[t].child] <= level[root]
  <2>1. CASE th[t].grow /\ th[t].pc # "release_child"
    <3>1. HoldsChild(t) => th[t].child = root /\ root \in DOMAIN nodes  BY <1>3, <1>8, <2>1
    <3> QED  BY <1>10, <3>1
  <2>2. CASE ~(th[t].grow /\ th[t].pc # "release_child")
    <3>1. HoldsChild(t) => HoldsNode(t)  BY <1>9, <2>2 DEF HoldsChild, HoldsNode, Splitting, Opening, Walking
    <3>2. HoldsNode(t) /\ HoldsChild(t) => th[t].node \in DOMAIN nodes /\ root \in DOMAIN nodes
      <4>1. HoldsNode(t) => DOMAIN nodes # {}  BY <1>2
      <4> QED  BY <1>2, <4>1, Basics
    <3> QED  BY <1>3, <1>5, <1>6, <1>10, <3>1, <3>2
  <2> QED  BY <2>1, <2>2
<1>12. ASSUME NEW n, Holds(t, n)
       PROVE  n \in DOMAIN nodes /\ IsLocked(nodes[n].ver) /\ level[n] <= level[root]
  BY <1>2, <1>3, <1>5, <1>11, <1>12 DEF Holds
<1>13. ASSUME NEW n, Private(t, n)
       PROVE  n \in DOMAIN nodes /\ ~IsLocked(nodes[n].ver) /\ level[n] = level[root] + 1 /\ HoldsTree(t)
  <2>1. th[t].grow /\ th[t].pc # "release_child" /\ n = th[t].node
    BY <1>13 DEF Private, Splitting, Opening
  <2>2. HoldsTree(t)  BY <1>13 DEF Private, HoldsTree, TreeHeld
  <2> QED  BY <1>8, <2>1, <2>2
<1>14. HoldsTree(t) /\ ~At(t, "plant") => root # Null
  <2>1. th[t].pc \in TreeHeld \ {"plant"} => root # Null  BY <1>1 DEF Descends
  <2>2. th[t].pc = "release_child" /\ th[t].grow => th[t].node = root  BY <1>1 DEF Descends
  <2>3. CASE th[t].pc = "release_child" /\ th[t].grow
    <3>1. HoldsNode(t)  BY <2>3 DEF HoldsNode
    <3> QED  BY <1>2, <2>2, <2>3, <3>1, Basics DEF Null
  <2>4. CASE th[t].pc \in Splitting /\ th[t].grow
    <3>1. HoldsChild(t) /\ th[t].pc # "release_child"  BY <2>4 DEF HoldsChild, Splitting, Opening
    <3> QED  BY <1>3, <1>8, <2>4, <3>1, Basics DEF Null
  <2> QED  BY <2>1, <2>3, <2>4 DEF HoldsTree, At
<1> QED  BY <1>4, <1>12, <1>13, <1>14

\* No two threads hold the same node, or both prepare a new root.
LEMMA Apart ==
  ASSUME NEW span, NEW level, IInv(span, level), NEW t \in Threads, NEW u \in Threads, t # u, NEW n
  PROVE  /\ Holds(t, n) => ~Holds(u, n) /\ ~Private(u, n)
         /\ Private(t, n) => ~Holds(u, n) /\ ~Private(u, n)
         /\ ~(HoldsTree(t) /\ HoldsTree(u))
<1>1. Locks  BY DEF IInv
<1>2. ~(HoldsTree(t) /\ HoldsTree(u))  BY <1>1 DEF Locks
<1>3. Holds(t, n) => ~Holds(u, n)
  <2>1. Holds(t, n) => n \in DOMAIN nodes  BY Holding
  <2> QED  BY <1>1, <2>1 DEF Locks
<1>4. Holds(t, n) => ~Private(u, n)  BY Holding
<1>5. Private(t, n) => ~Holds(u, n)  BY Holding
<1>6. Private(t, n) => ~Private(u, n)  BY <1>2, Holding
<1> QED  BY <1>2, <1>3, <1>4, <1>5, <1>6

\* Whoever is writing a node holds it, or it is its new root.
LEMMA BusyHeld ==
  ASSUME NEW span, NEW level, IInv(span, level), NEW n, Busy(n)
  PROVE  \E t \in Threads : /\ th[t].node = n /\ th[t].pc \in Moving \union Opening
                            /\ Holds(t, n) \/ Private(t, n)
<1>1. PICK t \in Threads : th[t].node = n /\ th[t].pc \in Moving \union Opening  BY DEF Busy
<1>2. CASE th[t].grow
  <2>1. Descends(t, span, level)  BY DEF IInv, Own
  <2>2. th[t].pc \in Splitting \union {"publish_root", "release_child"}  BY <1>2, <2>1 DEF Descends
  <2>3. th[t].pc \in Splitting  BY <1>1, <2>2 DEF Moving, Opening, Splitting
  <2> QED  BY <1>1, <1>2, <2>3 DEF Private
<1>3. CASE ~th[t].grow
  <2>1. HoldsNode(t)  BY <1>1, <1>3 DEF HoldsNode, Moving, LeafHeld, Splitting
  <2> QED  BY <1>1, <2>1 DEF Holds
<1> QED  BY <1>1, <1>2, <1>3

\* An unlocked node that is reachable holds what it is responsible for.
LEMMA UnlockedOK ==
  ASSUME NEW span, NEW level, IInv(span, level), NEW n \in DOMAIN nodes,
         ~IsLocked(nodes[n].ver), level[n] <= level[root]
  PROVE  ~Busy(n) /\ NodeOK(n, span, level)
<1>1. ASSUME Busy(n) PROVE FALSE
  <2>1. PICK t \in Threads : Holds(t, n) \/ Private(t, n)  BY <1>1, BusyHeld
  <2>2. ~Holds(t, n)  BY Holding
  <2>3. Private(t, n) => level[n] = level[root] + 1  BY Holding
  <2>4. level[n] \in Nat /\ level[root] \in Nat
    <3>1. root \in DOMAIN nodes  BY Basics
    <3> QED  BY <3>1, Basics
  <2> QED  BY <2>1, <2>2, <2>3, <2>4
<1>2. Contents(span, level)  BY DEF IInv
<1> QED  BY <1>1, <1>2 DEF Contents

\* So does a node that its holder is not writing.
LEMMA HeldOK ==
  ASSUME NEW span, NEW level, IInv(span, level), NEW t \in Threads, NEW n,
         Holds(t, n) \/ Private(t, n), n # th[t].node \/ th[t].pc \notin Moving \union Opening
  PROVE  ~Busy(n) /\ NodeOK(n, span, level)
<1>1. ASSUME Busy(n) PROVE FALSE
  <2>1. PICK u \in Threads : /\ th[u].node = n /\ th[u].pc \in Moving \union Opening
                             /\ Holds(u, n) \/ Private(u, n)
    BY <1>1, BusyHeld
  <2>2. u # t  BY <2>1
  <2> QED  BY <2>1, <2>2, Apart
<1>2. Contents(span, level) /\ n \in DOMAIN nodes  BY Holding DEF IInv
<1> QED  BY <1>1, <1>2 DEF Contents

\* The search of an inner node leads to the child that the key belongs to.
LEMMA InnerPick ==
  ASSUME NEW span, NEW level, IInv(span, level), NEW n \in DOMAIN nodes, NEW key \in Int, NEW c \in 0 .. Fanout,
         InnerOK(nodes[n].keys, nodes[n].kids, c, span[n], level[n], span, level), key \in span[n],
         NEW i, i = ChildIndex(nodes[n].keys, c, key)
  PROVE  /\ i \in 0 .. c
         /\ nodes[n].kids[i] \in DOMAIN nodes /\ level[nodes[n].kids[i]] = level[n] - 1
         /\ key \in span[nodes[n].kids[i]] /\ span[nodes[n].kids[i]] \subseteq span[n]
<1> DEFINE ks == nodes[n].keys
           child == nodes[n].kids[i]
<1>1. \A j \in 0 .. Fanout - 1 : ks[j] \in Int
  <2>1. TypeOK  BY DEF IInv
  <2>2. ks \in Arrays  BY <2>1, NodeFacts
  <2> QED  BY <2>2 DEF Arrays
<1>2. i \in 0 .. c /\ (i < c => key < ks[i]) /\ \A j \in 0 .. i - 1 : ks[j] <= key
  BY <1>1, ChildIndexFacts
<1>3. child \in DOMAIN span /\ level[child] = level[n] - 1 /\ span[child] = Segment(span[n], ks, c, i)
  BY <1>2 DEF InnerOK
<1>4. DOMAIN span = DOMAIN nodes  BY Basics
<1> HIDE DEF ks, child
<1>5. i > 0 => ks[i - 1] <= key
  <2>1. i > 0 => i - 1 \in 0 .. i - 1  BY <1>2, FanoutFacts
  <2> QED  BY <1>2, <2>1
<1>6. key \in Segment(span[n], ks, c, i)  BY <1>2, <1>5 DEF Segment
<1>7. Segment(span[n], ks, c, i) \subseteq span[n]  BY DEF Segment
<1> QED  BY <1>2, <1>3, <1>4, <1>6, <1>7 DEF ks, child

\* The child about to be split, or entered from a held node, is the one that the
\* key of the thread belongs to.
LEMMA HeldChild ==
  ASSUME NEW span, NEW level, IInv(span, level), NEW t \in Threads,
         th[t].pc \in {"split", "child_room", "release_parent"}
  PROVE  /\ th[t].node \in DOMAIN nodes /\ th[t].child \in DOMAIN nodes
         /\ level[th[t].child] = level[th[t].node] - 1
         /\ th[t].key \in span[th[t].node] /\ th[t].key \in span[th[t].child]
         /\ span[th[t].child] \subseteq span[th[t].node]
         /\ NodeOK(th[t].node, span, level) /\ ~nodes[th[t].node].leaf
         /\ th[t].slot \in 0 .. nodes[th[t].node].count
         /\ th[t].child = nodes[th[t].node].kids[th[t].slot]
<1> DEFINE n == th[t].node
<1>1. Descends(t, span, level) /\ TypeOK  BY DEF IInv, Own
<1>2. Holds(t, n) \/ Private(t, n)
  BY DEF Holds, HoldsNode, Private, Splitting, Walking
<1>3. th[t].pc \notin Moving \union Opening  BY DEF Moving, Opening
<1>4. NodeOK(n, span, level) /\ n \in DOMAIN nodes
  <2>1. NodeOK(n, span, level)  BY <1>2, <1>3, HeldOK
  <2>2. n \in DOMAIN nodes  BY <1>2, Holding
  <2> QED  BY <2>1, <2>2
<1>5. ~nodes[n].leaf /\ th[t].key \in span[n]  BY <1>1 DEF Descends, Walking, Splitting
<1>6. /\ th[t].slot = ChildIndex(nodes[n].keys, nodes[n].count, th[t].key)
      /\ th[t].child = nodes[n].kids[th[t].slot]
  BY <1>1 DEF Descends
<1>7. /\ th[t].key \in Int /\ nodes[n].count \in 0 .. Fanout
      /\ InnerOK(nodes[n].keys, nodes[n].kids, nodes[n].count, span[n], level[n], span, level)
  BY <1>1, <1>4, <1>5, ThreadFacts, NodeFacts DEF NodeOK
<1> HIDE DEF n
<1>8. /\ th[t].slot \in 0 .. nodes[n].count
      /\ th[t].child \in DOMAIN nodes /\ level[th[t].child] = level[n] - 1
      /\ th[t].key \in span[th[t].child] /\ span[th[t].child] \subseteq span[n]
  BY <1>4, <1>5, <1>6, <1>7, InnerPick
<1> QED  BY <1>4, <1>5, <1>6, <1>8 DEF n

----------------------------------------------------------------------------
(* What the frame of a step of thread t leaves to another thread u.         *)

\* The nodes that u holds, and its new root, stay as they are.
LEMMA FrameHeld ==
  ASSUME NEW span, NEW level, NEW span2, NEW level2,
         NEW t \in Threads, NEW u \in Threads, NEW n,
         IInv(span, level), u # t, Frame(t, span, level, span2, level2), Holds(u, n) \/ Private(u, n)
  PROVE  n \in DOMAIN nodes /\ nodes'[n] = nodes[n] /\ span2[n] = span[n] /\ level2[n] = level[n]
<1>1. n \in DOMAIN nodes /\ level[n] \in Nat /\ root \in DOMAIN nodes /\ level[root] \in Nat
  <2>1. n \in DOMAIN nodes  BY Holding
  <2>2. root \in DOMAIN nodes  BY <2>1, Basics
  <2> QED  BY <2>1, <2>2, Basics
<1>2. Foreign(t, n)  BY Apart DEF Foreign
<1>3. span2[n] = span[n]
  <2>1. At(t, "split") => Holds(t, th[t].child)  BY DEF At, Holds, HoldsChild, Splitting
  <2>2. n = th[t].child => ~At(t, "split")  BY <2>1, Apart
  <2> QED  BY <1>1, <2>2 DEF Frame
<1>4. nodes'[n] = nodes[n]
  <2>1. CASE Holds(u, n)
    <3>1. IsLocked(nodes[n].ver)  BY <2>1, Holding
    <3> QED  BY <1>1, <1>2, <3>1 DEF Frame
  <2>2. CASE Private(u, n)
    <3> SUFFICES ASSUME nodes'[n] # nodes[n] PROVE FALSE  OBVIOUS
    <3>1. Reaches(t, n, span, level)  BY <1>1, <1>2 DEF Frame, Takes
    <3>2. level[n] = level[root] + 1  BY <2>2, Holding
    <3>3. CASE Valid(t) /\ n = th[t].node
      <4>1. SeesNode(t, span, level)  BY DEF IInv, Own
      <4>2. level[n] <= level[root]  BY <3>3, <4>1 DEF SeesNode, OnPath
      <4> QED  BY <1>1, <3>2, <4>2
    <3>4. CASE n = root  BY <1>1, <3>2, <3>4
    <3>5. CASE \E p \in DOMAIN nodes : level[p] = level[n] + 1 /\ level[p] <= level[root]
      <4>1. PICK p \in DOMAIN nodes : level[p] = level[n] + 1 /\ level[p] <= level[root]  BY <3>5
      <4> QED  BY <1>1, <3>2, <4>1
    <3> QED  BY <3>1, <3>3, <3>4, <3>5 DEF Reaches
  <2> QED  BY <2>1, <2>2
<1> QED  BY <1>1, <1>3, <1>4 DEF Frame

\* A snapshot of u that is still valid after the step was valid before it, and
\* its node is the same.
LEMMA FrameValid ==
  ASSUME NEW span, NEW level, NEW span2, NEW level2,
         NEW t \in Threads, NEW u \in Threads, IInv(span, level), u # t, Frame(t, span, level, span2, level2),
         th[u].pc \in Entered, th[u].ver = nodes'[th[u].node].ver
  PROVE  /\ Valid(u) /\ nodes'[th[u].node] = nodes[th[u].node]
         /\ span2[th[u].node] = span[th[u].node] /\ level2[th[u].node] = level[th[u].node]
<1> DEFINE n == th[u].node
<1>1. SeesNode(u, span, level) /\ TypeOK  BY DEF IInv, Own
<1>2. n \in DOMAIN nodes /\ th[u].ver <= nodes[n].ver /\ ~IsLocked(th[u].ver)  BY <1>1 DEF SeesNode
<1>3. nodes[n].ver <= nodes'[n].ver  BY <1>2 DEF Frame
<1>4. nodes[n].ver \in Nat /\ th[u].ver \in Nat  BY <1>1, <1>2, NodeFacts, ThreadFacts
<1>5. nodes[n].ver = th[u].ver  BY <1>2, <1>3, <1>4
<1>6. Valid(u)  BY <1>5 DEF Valid
<1>7. ~IsLocked(nodes[n].ver) /\ level[n] <= level[root]  BY <1>1, <1>2, <1>5, <1>6 DEF SeesNode, OnPath
<1>8. level[n] \in Nat /\ level[root] \in Nat
  <2>1. root \in DOMAIN nodes  BY <1>2, Basics
  <2> QED  BY <1>2, <2>1, Basics
<1>9. Foreign(t, n)
  <2>1. ~Holds(t, n)  BY <1>7, Holding
  <2>2. Private(t, n) => level[n] = level[root] + 1  BY Holding
  <2> QED  BY <1>7, <1>8, <2>1, <2>2 DEF Foreign
<1>10. nodes'[n] = nodes[n]  BY <1>2, <1>5, <1>9 DEF Frame
<1>11. span2[n] = span[n]
  <2>1. At(t, "split") => Holds(t, th[t].child)  BY DEF At, Holds, HoldsChild, Splitting
  <2>2. n = th[t].child => ~At(t, "split")  BY <1>9, <2>1 DEF Foreign
  <2> QED  BY <1>2, <2>2 DEF Frame
<1> QED  BY <1>2, <1>6, <1>10, <1>11 DEF Frame

\* A child with room stays one.
LEMMA FrameRoom ==
  ASSUME NEW span, NEW level, NEW span2, NEW level2,
         NEW t \in Threads, NEW u \in Threads, NEW n,
         IInv(span, level), u # t, Frame(t, span, level, span2, level2), Others(t), HoldsNode(u),
         ChildHasRoom(u, n, span, level)
  PROVE  n \in DOMAIN nodes /\ ChildHasRoom(u, n, span2, level2)'
<1> DEFINE m == th[u].node
<1>1. Holds(u, m)  BY DEF Holds
<1>2. /\ m \in DOMAIN nodes /\ span2[m] = span[m] /\ level2[m] = level[m]
      /\ level[m] <= level[root]
  <2> HIDE DEF m
  <2>1. m \in DOMAIN nodes /\ level[m] <= level[root]  BY <1>1, Holding
  <2>2. span2[m] = span[m] /\ level2[m] = level[m]  BY <1>1, FrameHeld
  <2> QED  BY <2>1, <2>2
<1>3. /\ n \in DOMAIN nodes /\ nodes[n].count < Fanout /\ ~IsLocked(nodes[n].ver)
      /\ level[n] = level[m] - 1 /\ span[n] \subseteq span[m]
      /\ \A w \in Threads : th[w].pc \in Entered /\ th[w].node = n => th[w].ver # nodes[n].ver
  BY DEF ChildHasRoom, Untouched
<1>4. /\ level[n] \in Nat /\ level[m] \in Nat /\ level[root] \in Nat /\ th[t].key \in Int
      /\ root \in DOMAIN nodes
  <2>1. root \in DOMAIN nodes /\ TypeOK  BY <1>2, Basics
  <2> QED  BY <1>2, <1>3, <2>1, Basics, ThreadFacts
<1>5. Foreign(t, n)
  <2>1. ~Holds(t, n)  BY <1>3, Holding
  <2>2. Private(t, n) => level[n] = level[root] + 1  BY Holding
  <2> QED  BY <1>2, <1>3, <1>4, <2>1, <2>2 DEF Foreign
<1>6. ~Reaches(t, n, span, level)
  <2>1. ASSUME Valid(t), n = th[t].node PROVE FALSE  BY <1>3, <2>1 DEF Valid
  <2>2. ASSUME n = root PROVE FALSE  BY <1>2, <1>3, <1>4, <2>2
  <2>3. ASSUME NEW p \in DOMAIN nodes, level[p] = level[n] + 1,
               span[n] \subseteq span[p], th[t].key \in span[n],
               ~IsLocked(nodes[p].ver) \/ Holds(t, p)
        PROVE  FALSE
    <3>1. level[p] = level[m] /\ th[t].key \in span[p] /\ th[t].key \in span[m]  BY <1>3, <1>4, <2>3
    <3>2. Spans(span, level)  BY DEF IInv
    <3>3. p = m  BY <1>2, <3>1, <3>2, <2>3, OneNode
    <3>4. IsLocked(nodes[m].ver) /\ ~Holds(t, m)  BY <1>1, Holding, Apart
    <3> QED  BY <2>3, <3>3, <3>4
  <2> QED  BY <2>1, <2>2, <2>3 DEF Reaches
<1>7. ~Takes(t, n)  BY <1>3, <1>5, <1>6 DEF Frame
<1>8. nodes'[n] = nodes[n]  BY <1>7 DEF Takes
<1>9. span2[n] = span[n] /\ level2[n] = level[n]
  <2>1. At(t, "split") => Holds(t, th[t].child)  BY DEF At, Holds, HoldsChild, Splitting
  <2>2. n = th[t].child => ~At(t, "split")  BY <1>5, <2>1 DEF Foreign
  <2> QED  BY <1>3, <2>2 DEF Frame
<1>10. \A w \in Threads : th'[w].pc \in Entered /\ th'[w].node = n => th'[w].ver # nodes'[n].ver
  <2> SUFFICES ASSUME NEW w \in Threads, th'[w].pc \in Entered, th'[w].node = n
               PROVE  th'[w].ver # nodes'[n].ver
    OBVIOUS
  <2>1. CASE w = t  BY <1>7, <1>8, <2>1 DEF Takes
  <2>2. CASE w # t
    <3>1. th'[w] = th[w]  BY <2>2 DEF Others
    <3> QED  BY <1>3, <1>8, <3>1
  <2> QED  BY <2>1, <2>2
<1>11. th'[u] = th[u]  BY DEF Others
<1>12. n \in DOMAIN nodes'  BY <1>3 DEF Frame
<1> QED  BY <1>2, <1>3, <1>8, <1>9, <1>10, <1>11, <1>12 DEF ChildHasRoom, Untouched

\* The children of a node stay what they are, unless the step splits one of them.
LEMMA FrameInner ==
  ASSUME NEW span, NEW level, NEW span2, NEW level2,
         NEW t \in Threads, NEW m \in DOMAIN nodes, NEW ks, NEW cs, NEW c \in Nat,
         IInv(span, level), Frame(t, span, level, span2, level2), At(t, "split") => m # th[t].node,
         InnerOK(ks, cs, c, span[m], level[m], span, level)
  PROVE  InnerOK(ks, cs, c, span[m], level[m], span2, level2)
<1>1. ASSUME NEW i \in 0 .. c
      PROVE  cs[i] \in DOMAIN span2 /\ span2[cs[i]] = span[cs[i]] /\ level2[cs[i]] = level[cs[i]]
  <2>1. cs[i] \in DOMAIN span /\ level[cs[i]] = level[m] - 1 /\ span[cs[i]] \subseteq span[m]
    BY DEF InnerOK, Segment
  <2>2. cs[i] \in DOMAIN nodes /\ DOMAIN span \subseteq DOMAIN span2  BY <2>1, Basics DEF Frame
  <2>3. ASSUME At(t, "split"), cs[i] = th[t].child PROVE FALSE
    <3>1. /\ th[t].node \in DOMAIN nodes
          /\ level[th[t].child] = level[th[t].node] - 1
          /\ th[t].key \in span[th[t].node] /\ th[t].key \in span[th[t].child]
      BY <2>3, HeldChild DEF At
    <3>2. level[m] = level[th[t].node]
      <4>1. level[m] \in Nat /\ level[th[t].node] \in Nat  BY <3>1, Basics
      <4> QED  BY <2>1, <2>3, <3>1, <4>1
    <3>3. th[t].key \in span[m]  BY <2>1, <2>3, <3>1
    <3>4. Spans(span, level)  BY DEF IInv
    <3>5. m = th[t].node  BY <3>1, <3>2, <3>3, <3>4, OneNode
    <3> QED  BY <2>3, <3>5
  <2> QED  BY <2>1, <2>2, <2>3 DEF Frame
<1> QED  BY <1>1 DEF InnerOK

\* A step of t accepts no key that another thread is about to insert.
LEMMA FrameWins ==
  ASSUME NEW span, NEW level, NEW span2, NEW level2, NEW t \in Threads,
         IInv(span, level), Frame(t, span, level, span2, level2)
  PROVE  /\ wins \subseteq wins'
         /\ \A n \in DOMAIN nodes : nodes[n].leaf /\ n # th[t].node =>
              /\ \A w \in wins' : w.key \in span[n] => w \in wins
              /\ \A ks, vs, c : LeafOK(ks, vs, c, span[n], wins) => LeafOK(ks, vs, c, span[n], wins')
<1>1. CASE wins' = wins  BY <1>1
<1>2. CASE At(t, "release_leaf") /\ wins' = wins \union {Mine(t)}
  <2>1. WritesLeaf(t, span, level) /\ TypeOK /\ Spans(span, level)  BY DEF IInv, Own
  <2>2. nodes[th[t].node].leaf /\ OnPath(t, th[t].node, span, level)
    BY <1>2, <2>1 DEF WritesLeaf, LeafHeld, At
  <2>3. Mine(t).key = th[t].key  BY DEF Mine
  <2>4. ASSUME NEW n \in DOMAIN nodes, nodes[n].leaf, n # th[t].node PROVE Mine(t).key \notin span[n]
    <3>1. level[n] = 0 /\ level[th[t].node] = 0  BY <2>1, <2>2, <2>4 DEF Spans, OnPath
    <3> QED  BY <2>1, <2>2, <2>3, <2>4, <3>1, OneNode DEF OnPath
  <2>5. ASSUME NEW n \in DOMAIN nodes, nodes[n].leaf, n # th[t].node
        PROVE  /\ \A w \in wins' : w.key \in span[n] => w \in wins
               /\ \A ks, vs, c : LeafOK(ks, vs, c, span[n], wins) => LeafOK(ks, vs, c, span[n], wins')
    <3>1. Mine(t).key \notin span[n]  BY <2>4, <2>5
    <3>2. \A ks, vs, c : LeafOK(ks, vs, c, span[n], wins) => LeafOK(ks, vs, c, span[n], wins')
      BY <1>2, <3>1 DEF LeafOK
    <3> QED  BY <1>2, <3>1, <3>2
  <2> QED  BY <1>2, <2>5
<1> QED  BY <1>1, <1>2 DEF Frame

----------------------------------------------------------------------------
(* What another thread knows is so after the step.                          *)

\* What thread u has read of the root stays so while the tree's version stands.
LEMMA StableTree ==
  ASSUME NEW span, NEW level, NEW span2, NEW level2,
         NEW t \in Threads, NEW u \in Threads, IInv(span, level), u # t,
         Others(t), LockStep(t), Frame(t, span, level, span2, level2), treeVer' \in Nat
  PROVE  SeesTree(u)'
<1>1. SeesTree(u) /\ SeesNode(u, span, level) /\ TypeOK  BY DEF IInv, Own
<1>2. th'[u] = th[u]  BY DEF Others
<1>3. th[u].ver \in Nat /\ treeVer \in Nat  BY <1>1, ThreadFacts, Basics
<1>4. treeVer <= treeVer'  BY <1>3 DEF LockStep
<1>5. th[u].pc \in AtTree => th[u].ver <= treeVer' /\ ~IsLocked(th[u].ver)
  BY <1>1, <1>3, <1>4 DEF SeesTree
<1>6. th[u].pc \in AtTree /\ th[u].ver = treeVer' => treeVer' = treeVer /\ root' = root
  <2> SUFFICES ASSUME th[u].pc \in AtTree, th[u].ver = treeVer' PROVE treeVer' = treeVer /\ root' = root
    OBVIOUS
  <2>1. th[u].ver <= treeVer /\ ~IsLocked(th[u].ver)  BY <1>1 DEF SeesTree
  <2>2. treeVer' = treeVer  BY <1>3, <1>4, <2>1
  <2>3. ~HoldsTree(t)  BY <2>1, <2>2, Holding
  <2> QED  BY <2>2, <2>3 DEF Frame
<1>7. th[u].pc \in {"snapshot_root", "validate_tree"} =>
        th[u].child \in DOMAIN nodes' /\ (th[u].ver = treeVer' => th[u].child = root')
  BY <1>1, <1>6 DEF SeesTree, Frame, AtTree
<1>8. th[u].pc = "validate_empty" => (th[u].ver = treeVer' => root' = Null)
  BY <1>1, <1>6 DEF SeesTree, AtTree
<1>9. th[u].pc \in {"validate_tree", "couple"} =>
        th[u].childVer <= nodes'[th[u].child].ver /\ ~IsLocked(th[u].childVer)
  <2> SUFFICES ASSUME th[u].pc \in {"validate_tree", "couple"}
               PROVE  th[u].childVer <= nodes'[th[u].child].ver /\ ~IsLocked(th[u].childVer)
    OBVIOUS
  <2>1. th[u].childVer <= nodes[th[u].child].ver /\ ~IsLocked(th[u].childVer)  BY <1>1 DEF SeesTree
  <2>2. th[u].child \in DOMAIN nodes  BY <1>1 DEF SeesTree, SeesNode
  <2>3. nodes[th[u].child].ver <= nodes'[th[u].child].ver /\ nodes'[th[u].child].ver \in Nat
    BY <2>2 DEF Frame
  <2>4. nodes[th[u].child].ver \in Nat /\ th[u].childVer \in Nat  BY <1>1, <2>2, NodeFacts, ThreadFacts
  <2> QED  BY <2>1, <2>3, <2>4
<1> QED  BY <1>2, <1>5, <1>7, <1>8, <1>9 DEF SeesTree

\* A node on the path of u stays on it, unless the step divides its span.
LEMMA FramePath ==
  ASSUME NEW span, NEW level, NEW span2, NEW level2,
         NEW t \in Threads, NEW u \in Threads, NEW n,
         IInv(span, level), th'[u].key = th[u].key, Frame(t, span, level, span2, level2),
         OnPath(u, n, span, level), span2[n] = span[n]
  PROVE  OnPath(u, n, span2, level2)'
<1>1. n \in DOMAIN nodes /\ th[u].key \in span[n] /\ level[n] <= level[root]  BY DEF OnPath
<1>2. root \in DOMAIN nodes /\ root # Null /\ level[n] \in Nat /\ level[root] \in Nat
  BY <1>1, Basics DEF Null
<1>3. level2[n] = level[n] /\ n \in DOMAIN nodes'  BY <1>1 DEF Frame
<1>4. level2[root'] \in Nat /\ level[root] <= level2[root']  BY <1>2 DEF Frame
<1> QED  BY <1>1, <1>2, <1>3, <1>4 DEF OnPath

\* What u has read of a node stays so while the node's version stands.
LEMMA StableNode ==
  ASSUME NEW span, NEW level, NEW span2, NEW level2,
         NEW t \in Threads, NEW u \in Threads, IInv(span, level), u # t,
         Others(t), Frame(t, span, level, span2, level2)
  PROVE  SeesNode(u, span2, level2)'
<1> DEFINE r == th[u]
<1>0. PICK n : n = th[u].node  OBVIOUS
<1>1. SeesNode(u, span, level) /\ TypeOK  BY DEF IInv, Own
<1>2. th'[u] = th[u]  BY DEF Others
<1>3. th[u].pc \in Entered => /\ n \in DOMAIN nodes /\ n \in DOMAIN nodes'
                              /\ th[u].ver <= nodes'[n].ver /\ ~IsLocked(th[u].ver)
                              /\ nodes'[n].leaf = nodes[n].leaf
  <2> SUFFICES ASSUME th[u].pc \in Entered
               PROVE  /\ n \in DOMAIN nodes /\ n \in DOMAIN nodes'
                      /\ th[u].ver <= nodes'[n].ver /\ ~IsLocked(th[u].ver)
                      /\ nodes'[n].leaf = nodes[n].leaf
    OBVIOUS
  <2>1. n \in DOMAIN nodes /\ th[u].ver <= nodes[n].ver /\ ~IsLocked(th[u].ver)  BY <1>0, <1>1 DEF SeesNode
  <2>2. /\ nodes[n].ver <= nodes'[n].ver /\ nodes'[n].ver \in Nat
        /\ nodes'[n].leaf = nodes[n].leaf /\ n \in DOMAIN nodes'
    BY <2>1 DEF Frame
  <2>3. nodes[n].ver \in Nat /\ th[u].ver \in Nat  BY <1>1, <2>1, NodeFacts, ThreadFacts
  <2> QED  BY <2>1, <2>2, <2>3
<1>4. th[u].pc \in {"snapshot_child", "couple"} => th[u].child \in DOMAIN nodes'
  BY <1>1 DEF SeesNode, Frame
<1>5. ASSUME th[u].pc \in Entered, th[u].ver = nodes'[n].ver
      PROVE  Valid(u) /\ nodes'[n] = nodes[n] /\ OnPath(u, n, span2, level2)' /\ wins \subseteq wins'
  <2>1. Valid(u) /\ nodes'[n] = nodes[n] /\ span2[n] = span[n]  BY <1>0, <1>5, FrameValid
  <2>2. OnPath(u, n, span, level)  BY <1>0, <1>1, <2>1 DEF SeesNode
  <2>3. OnPath(u, n, span2, level2)'  BY <1>2, <2>1, <2>2, FramePath
  <2> QED  BY <2>1, <2>3, FrameWins
<1>6. Valid(u)' => th[u].pc \in Entered /\ th[u].ver = nodes'[n].ver  BY <1>0, <1>2 DEF Valid
<1>7. Valid(u)' =>
        /\ OnPath(u, n, span2, level2)'
        /\ r.pc \in {"pick", "search"} => r.count = nodes'[n].count
        /\ r.pc = "read_child" => r.slot = ChildIndex(nodes'[n].keys, nodes'[n].count, r.key)
        /\ r.pc \in {"snapshot_child", "couple"} => r.child = NextNode(u)'
        /\ r.pc = "read_value" => r.slot < nodes'[n].count /\ nodes'[n].keys[r.slot] = r.key
        /\ r.pc = "validate_leaf" =>
             IF r.slot >= 0 THEN r.found \in wins' /\ r.found.key = r.key
             ELSE \A i \in 0 .. nodes'[n].count - 1 : nodes'[n].keys[i] # r.key
  <2> SUFFICES ASSUME Valid(u)' PROVE <1>7!2  OBVIOUS
  <2>1. Valid(u) /\ nodes'[n] = nodes[n] /\ OnPath(u, n, span2, level2)' /\ wins \subseteq wins'
    BY <1>5, <1>6
  <2>2. NextNode(u)' = NextNode(u)  BY <1>0, <1>2, <2>1 DEF NextNode
  <2> QED  BY <1>0, <1>1, <2>1, <2>2 DEF SeesNode
<1>8. /\ r.pc \in InLeaf => nodes'[n].leaf
      /\ r.pc \in {"pick"} \union Coupling => ~nodes'[n].leaf
  BY <1>0, <1>1, <1>3 DEF SeesNode, Entered
<1>9. /\ r.pc = "read_child" => r.slot \in 0 .. Fanout
      /\ r.pc = "read_value" => r.slot \in 0 .. Fanout - 1
  BY <1>1 DEF SeesNode
<1> QED  BY <1>0, <1>2, <1>3, <1>4, <1>7, <1>8, <1>9 DEF SeesNode

\* What u knows of the leaf that it has locked.
LEMMA StableLeaf ==
  ASSUME NEW span, NEW level, NEW span2, NEW level2,
         NEW t \in Threads, NEW u \in Threads, IInv(span, level), u # t,
         Others(t), Frame(t, span, level, span2, level2)
  PROVE  WritesLeaf(u, span2, level2)'
<1>0. PICK n : n = th[u].node  OBVIOUS
<1>1. WritesLeaf(u, span, level) /\ TypeOK  BY DEF IInv, Own
<1>2. th'[u] = th[u] /\ wins \subseteq wins'  BY FrameWins DEF Others
<1>3. CASE th[u].pc \in LeafHeld
  <2>1. Holds(u, n)  BY <1>0, <1>3 DEF Holds, HoldsNode
  <2>2. n \in DOMAIN nodes /\ nodes'[n] = nodes[n] /\ span2[n] = span[n]  BY <2>1, FrameHeld
  <2>3. nodes[n].leaf /\ OnPath(u, n, span, level)  BY <1>0, <1>1, <1>3 DEF WritesLeaf
  <2>4. OnPath(u, n, span2, level2)'  BY <1>2, <2>2, <2>3, FramePath
  <2>5. th[u].key \in span[n] /\ Mine(u)' = Mine(u)  BY <1>2, <2>3 DEF OnPath, Mine
  <2>6. /\ \A w \in wins' : w.key \in span[n] => w \in wins
        /\ \A ks, vs, c : LeafOK(ks, vs, c, span[n], wins) => LeafOK(ks, vs, c, span[n], wins')
    <3>1. CASE n # th[t].node  BY <2>2, <2>3, <3>1, FrameWins
    <3>2. CASE n = th[t].node
      <4>1. ~At(t, "release_leaf")
        <5>1. At(t, "release_leaf") => Holds(t, n)  BY <3>2 DEF Holds, HoldsNode, LeafHeld, At
        <5> QED  BY <2>1, <5>1, Apart
      <4>2. wins' = wins  BY <4>1 DEF Frame
      <4> QED  BY <4>2
    <3> QED  BY <3>1, <3>2
  <2>7. \A ks, vs, c : LeafOK(ks, vs, c, span[n], wins \union {Mine(u)})
                       => LeafOK(ks, vs, c, span[n], wins' \union {Mine(u)})
    BY <1>2, <2>6 DEF LeafOK
  <2>8. NotYet(u) => NotYet(u)'
    <3>1. NotYet(u) => \A w \in wins' : w.key # th[u].key  BY <2>5, <2>6 DEF NotYet
    <3> QED  BY <1>2, <3>1 DEF NotYet
  <2>9. Mine(u) \in wins => Mine(u) \in wins'  BY <1>2
  <2> QED  BY <1>0, <1>1, <1>2, <2>2, <2>3, <2>4, <2>5, <2>6, <2>7, <2>8, <2>9 DEF WritesLeaf
<1>4. CASE th[u].pc \notin LeafHeld
  <2>1. Mine(u)' = Mine(u)  BY <1>2 DEF Mine
  <2> QED  BY <1>1, <1>2, <1>4, <2>1 DEF WritesLeaf, LeafHeld, Moving
<1> QED  BY <1>3, <1>4

\* What u knows of the nodes that it has locked on the slow path.
LEMMA StableDescent ==
  ASSUME NEW span, NEW level, NEW span2, NEW level2,
         NEW t \in Threads, NEW u \in Threads, IInv(span, level), u # t,
         Others(t), Frame(t, span, level, span2, level2)
  PROVE  Descends(u, span2, level2)'
<1> DEFINE r == th[u]
<1>0. PICK n, c : n = th[u].node /\ c = th[u].child  OBVIOUS
<1>1. Descends(u, span, level) /\ TypeOK  BY DEF IInv, Own
<1>2. th'[u] = th[u]  BY DEF Others
<1>3. HoldsTree(u) => root' = root /\ ((root # Null => root \in DOMAIN nodes /\ level2[root] = level[root]))
  <2>1. HoldsTree(u) => root' = root  BY Apart DEF Frame
  <2>2. root # Null => root \in DOMAIN nodes  BY Basics
  <2>3. root # Null => level2[root] = level[root]  BY <2>2 DEF Frame
  <2> QED  BY <2>1, <2>2, <2>3
<1>4. HoldsNode(u) \/ Private(u, n) =>
        /\ n \in DOMAIN nodes /\ n \in DOMAIN nodes'
        /\ nodes'[n] = nodes[n] /\ span2[n] = span[n] /\ level2[n] = level[n]
  <2>1. HoldsNode(u) => Holds(u, n)  BY <1>0 DEF Holds
  <2>2. Holds(u, n) \/ Private(u, n) =>
          n \in DOMAIN nodes /\ nodes'[n] = nodes[n] /\ span2[n] = span[n] /\ level2[n] = level[n]
    BY FrameHeld
  <2>3. n \in DOMAIN nodes => n \in DOMAIN nodes'  BY DEF Frame
  <2> QED  BY <2>1, <2>2, <2>3
<1>5. HoldsChild(u) =>
        /\ c \in DOMAIN nodes /\ c \in DOMAIN nodes'
        /\ nodes'[c] = nodes[c] /\ span2[c] = span[c] /\ level2[c] = level[c]
  <2>1. HoldsChild(u) => Holds(u, c)  BY <1>0 DEF Holds
  <2>2. Holds(u, c) =>
          c \in DOMAIN nodes /\ nodes'[c] = nodes[c] /\ span2[c] = span[c] /\ level2[c] = level[c]
    BY FrameHeld
  <2>3. c \in DOMAIN nodes => c \in DOMAIN nodes'  BY DEF Frame
  <2> QED  BY <2>1, <2>2, <2>3
<1>6. HoldsNode(u) => level2[n] <= level2[root']
  <2> SUFFICES ASSUME HoldsNode(u) PROVE level2[n] <= level2[root']  OBVIOUS
  <2>1. n \in DOMAIN nodes /\ level2[n] = level[n] /\ level[n] <= level[root]
    BY <1>0, <1>1, <1>4 DEF Descends
  <2>2. root # Null /\ level[n] \in Nat /\ level[root] \in Nat  BY <2>1, Basics
  <2> QED  BY <2>1, <2>2 DEF Frame
<1>7. r.pc \in Splitting => HoldsNode(u) \/ Private(u, n)  BY <1>0 DEF HoldsNode, Private
<1>8. r.pc \in Walking \union {"grow", "release_tree", "release_child"} => HoldsNode(u)  BY DEF HoldsNode
<1>9. r.grow /\ r.pc # "release_child" => Private(u, n) /\ HoldsTree(u) /\ HoldsChild(u)
  BY <1>0, <1>1 DEF Descends, Private, HoldsTree, HoldsChild, TreeHeld
<1>10. /\ r.pc \in {"release_child"} /\ r.grow => HoldsTree(u)
       /\ r.pc \in TreeHeld => HoldsTree(u)
       /\ r.pc = "publish_root" => r.grow
  BY <1>1 DEF HoldsTree, Descends
<1>11. /\ r.pc \in SlowPath => r.op = "insert"
       /\ r.grow => r.pc \in Splitting \union {"publish_root", "release_child"}
       /\ r.pc = "publish_root" => r.grow
       /\ r.pc = "plant" => root' = Null
       /\ r.pc \in TreeHeld \ {"plant"} => root' # Null
  BY <1>1, <1>3, <1>10 DEF Descends, TreeHeld
<1>12. /\ r.pc \in {"grow", "release_tree"} => n = root'
       /\ r.pc = "grow" => nodes'[n].count = Fanout
       /\ r.pc = "release_tree" => nodes'[n].count < Fanout
       /\ r.pc = "release_child" /\ r.grow => n = root' /\ nodes'[n].count < Fanout
  BY <1>0, <1>1, <1>3, <1>4, <1>8, <1>10 DEF Descends, TreeHeld
<1>13. r.pc \in Walking \union Splitting \union {"release_child"} => r.key \in span2[n]
  BY <1>0, <1>1, <1>4, <1>7, <1>8 DEF Descends
<1>14. HoldsNode(u) => n \in DOMAIN nodes' /\ level2[n] <= level2[root']  BY <1>4, <1>6
<1>15. HoldsChild(u) => c \in DOMAIN nodes' /\ level2[c] = level2[n] - 1
  <2>1. HoldsChild(u) => HoldsNode(u) \/ Private(u, n)
    BY <1>7, <1>8, <1>9, <1>10 DEF HoldsChild, Walking
  <2> QED  BY <1>0, <1>1, <1>4, <1>5, <2>1 DEF Descends
<1>16. /\ r.pc \in Splitting \union {"lock_child", "child_room", "release_parent", "publish_root", "release_child"} =>
            ~nodes'[n].leaf
       /\ r.pc = "slow_room" => nodes'[n].leaf /\ nodes'[n].count < Fanout
  BY <1>0, <1>1, <1>4, <1>7, <1>8, <1>9, <1>10 DEF Descends, Walking
<1>17. r.grow /\ r.pc # "release_child" =>
           /\ n \in DOMAIN nodes' /\ c = root' /\ span2[n] = Keys
           /\ level2[n] = level2[root'] + 1 /\ ~IsLocked(nodes'[n].ver)
  <2> SUFFICES ASSUME r.grow /\ r.pc # "release_child"
               PROVE  /\ n \in DOMAIN nodes' /\ c = root' /\ span2[n] = Keys
                      /\ level2[n] = level2[root'] + 1 /\ ~IsLocked(nodes'[n].ver)
    OBVIOUS
  <2>1. Private(u, n) /\ HoldsTree(u)  BY <1>9
  <2>2. /\ c = root /\ span[n] = Keys /\ level[n] = level[root] + 1 /\ ~IsLocked(nodes[n].ver)
    BY <1>0, <1>1 DEF Descends
  <2>3. root \in DOMAIN nodes  BY <1>5, <1>9, <2>2
  <2>4. root # Null  BY <2>3, Basics DEF Null
  <2> QED  BY <1>3, <1>4, <2>1, <2>2, <2>4
<1>18. /\ r.pc = "split" => /\ nodes'[c].count = Fanout /\ nodes'[n].count < Fanout
                            /\ r.slot \in 0 .. nodes'[n].count
       /\ r.pc \in {"split", "child_room", "release_parent"} =>
            r.slot = ChildIndex(nodes'[n].keys, nodes'[n].count, r.key) /\ c = nodes'[n].kids[r.slot]
       /\ r.pc = "release_parent" => nodes'[c].count < Fanout
  <2>1. r.pc \in {"split", "child_room", "release_parent"} =>
          HoldsChild(u) /\ (HoldsNode(u) \/ Private(u, n))
    BY <1>7, <1>8 DEF HoldsChild, Splitting, Walking
  <2> QED  BY <1>0, <1>1, <1>4, <1>5, <2>1 DEF Descends
<1>19. (HoldsNode(u)' <=> HoldsNode(u)) /\ (HoldsChild(u)' <=> HoldsChild(u))
  BY <1>2 DEF HoldsNode, HoldsChild
<1>20. r.pc \in Splitting /\ r.grow => nodes'[n].count = 0
  BY <1>0, <1>1, <1>4, <1>7 DEF Descends
<1>21. r.pc = "publish_root" => nodes'[n].count < Fanout /\ nodes'[c].count < Fanout
  BY <1>0, <1>1, <1>4, <1>5, <1>9, <1>10 DEF Descends
<1> QED  BY <1>0, <1>2, <1>11, <1>12, <1>13, <1>14, <1>15, <1>16, <1>17, <1>18, <1>19, <1>20, <1>21 DEF Descends

\* What u knows of the node that it is opening a slot in.
LEMMA StableOpens ==
  ASSUME NEW span, NEW level, NEW span2, NEW level2,
         NEW t \in Threads, NEW u \in Threads, IInv(span, level), u # t,
         Others(t), Frame(t, span, level, span2, level2)
  PROVE  Opens(u, span2, level2)'
<1> DEFINE r == th[u]
<1>0. PICK n, c : n = th[u].node /\ c = th[u].child  OBVIOUS
<1>1. Opens(u, span, level) /\ TypeOK  BY DEF IInv, Own
<1>2. th'[u] = th[u]  BY DEF Others
<1>3. CASE r.pc \in Opening
  <2>1. (Holds(u, n) \/ Private(u, n)) /\ Holds(u, c)
    BY <1>0, <1>3 DEF Holds, HoldsNode, HoldsChild, Private, Splitting
  <2>2. /\ n \in DOMAIN nodes /\ nodes'[n] = nodes[n] /\ span2[n] = span[n] /\ level2[n] = level[n]
        /\ nodes'[c] = nodes[c]
    BY <2>1, FrameHeld
  <2>3. At(t, "split") => n # th[t].node
    <3>1. At(t, "split") => Holds(t, th[t].node) \/ Private(t, th[t].node)
      BY DEF At, Holds, HoldsNode, Private, Splitting
    <3> QED  BY <2>1, <3>1, Apart
  <2>4. nodes[n].count + 1 \in Nat  BY <1>1, <2>2, NodeFacts
  <2>5. \A ks, cs : InnerOK(ks, cs, nodes[n].count + 1, span[n], level[n], span, level)
                    => InnerOK(ks, cs, nodes[n].count + 1, span[n], level[n], span2, level2)
    BY <2>2, <2>3, <2>4, FrameInner
  <2> QED  BY <1>0, <1>1, <1>2, <2>2, <2>5 DEF Opens
<1>4. CASE r.pc \notin Opening  BY <1>2, <1>4 DEF Opens, Opening
<1> QED  BY <1>3, <1>4

\* The half that u goes on to keeps its room.
LEMMA StableRoom ==
  ASSUME NEW span, NEW level, NEW span2, NEW level2,
         NEW t \in Threads, NEW u \in Threads, IInv(span, level), u # t,
         Others(t), Frame(t, span, level, span2, level2)
  PROVE  HasRoom(u, span2, level2)'
<1> DEFINE r == th[u]
<1>0. PICK n, c, d : n = th[u].node /\ c = th[u].child /\ d = th[u].right  OBVIOUS
<1>1. HasRoom(u, span, level) /\ TypeOK  BY DEF IInv, Own
<1>2. th'[u] = th[u]  BY DEF Others
<1>3. HoldsNode(u) \/ Private(u, n) => n \in DOMAIN nodes /\ nodes'[n] = nodes[n]
  <2>1. HoldsNode(u) => Holds(u, n)  BY <1>0 DEF Holds
  <2> QED  BY <2>1, FrameHeld
<1>4. HoldsChild(u) => nodes'[c] = nodes[c] /\ span2[c] = span[c] /\ c \in DOMAIN nodes
  <2>1. HoldsChild(u) => Holds(u, c)  BY <1>0 DEF Holds
  <2> QED  BY <2>1, FrameHeld
<1>5. HoldsNode(u) => \A x : ChildHasRoom(u, x, span, level) => ChildHasRoom(u, x, span2, level2)'
  BY FrameRoom
<1>6. r.pc \in Splitting => (HoldsNode(u) \/ Private(u, n)) /\ HoldsChild(u) /\ (~r.grow => HoldsNode(u))
  BY <1>0 DEF HoldsNode, Private, HoldsChild
<1>7. r.pc \in Walking \union {"release_child"} => HoldsNode(u)  BY DEF HoldsNode
<1>8. r.pc \in {"child_room", "release_child"} => HoldsChild(u)  BY DEF HoldsChild
<1>9. CASE r.pc \in {"shift_child", "store_child"}
  <2>1. /\ (HoldsNode(u) \/ Private(u, n)) /\ HoldsChild(u) /\ (~r.grow => HoldsNode(u))
    BY <1>6, <1>9 DEF Splitting, Opening
  <2>2. /\ nodes[n].kids[r.slot] = c /\ d \in DOMAIN nodes /\ level[d] = level[c]
        /\ r.key \in span[c] \union span[d]
        /\ r.grow \/ ChildHasRoom(u, d, span, level)
    BY <1>0, <1>1, <1>9 DEF HasRoom
  <2>3. d \in DOMAIN nodes' /\ level2[d] = level2[c]  BY <1>4, <2>1, <2>2 DEF Frame
  <2>4. r.key \in span2[c] \union span2[d]
    <3>1. CASE r.key \in span[c]  BY <1>4, <2>1, <2>2, <3>1 DEF Frame
    <3>2. CASE r.key \notin span[c]
      <4>1. r.key \in span[d] /\ d \in DOMAIN nodes  BY <2>2, <3>2
      <4>2. span2[d] = span[d]
        <5>1. ASSUME At(t, "split"), d = th[t].child PROVE FALSE
          <6>1. Holds(t, d)  BY <5>1 DEF Holds, HoldsChild, Splitting, At
          <6>2. IsLocked(nodes[d].ver)  BY <6>1, Holding
          <6>3. r.grow  BY <2>2, <6>2 DEF ChildHasRoom, Untouched
          <6>4. HoldsTree(u) /\ c = root /\ level[d] = level[root]
            <7>1. Descends(u, span, level)  BY DEF IInv, Own
            <7>2. c = root  BY <1>0, <1>9, <6>3, <7>1 DEF Descends
            <7> QED  BY <1>9, <2>2, <6>3, <7>2 DEF HoldsTree, Splitting, Opening
          <6>5. ~HoldsTree(t) /\ HoldsNode(t)
            <7>1. ~HoldsTree(t)  BY <6>4, Apart
            <7> QED  BY <5>1, <7>1 DEF HoldsTree, HoldsNode, At, Splitting
          <6>6. /\ th[t].node \in DOMAIN nodes /\ level[th[t].node] <= level[root]
                /\ level[d] = level[th[t].node] - 1
            <7>1. Descends(t, span, level) /\ HoldsChild(t)
              BY <5>1 DEF IInv, Own, HoldsChild, At, Splitting
            <7> QED  BY <5>1, <6>5, <7>1 DEF Descends
          <6>7. level[d] \in Nat /\ level[th[t].node] \in Nat  BY <4>1, <6>6, Basics
          <6> QED  BY <6>4, <6>6, <6>7
        <5> QED  BY <4>1, <5>1 DEF Frame
      <4> QED  BY <4>1, <4>2 DEF Frame
    <3> QED  BY <3>1, <3>2
  <2> QED  BY <1>0, <1>2, <1>3, <1>5, <1>9, <2>1, <2>2, <2>3, <2>4 DEF HasRoom
<1>10. CASE r.pc \in {"count_child", "release_child", "lock_child", "child_room"}
  <2>1. r.pc = "count_child" => (HoldsNode(u) \/ Private(u, n)) /\ (~r.grow => HoldsNode(u))
    BY <1>6 DEF Splitting, Opening
  <2>2. r.pc \in {"release_child", "lock_child", "child_room"} => HoldsNode(u)
    BY <1>7 DEF Walking
  <2>3. nodes'[n] = nodes[n]  BY <1>3, <1>10, <2>1, <2>2
  <2>4. r.pc \in {"release_child", "child_room"} => nodes'[c] = nodes[c]  BY <1>4, <1>8
  <2> QED  BY <1>0, <1>1, <1>2, <1>5, <1>10, <2>1, <2>2, <2>3, <2>4 DEF HasRoom
<1>11. CASE r.pc \notin {"shift_child", "store_child", "count_child", "release_child", "lock_child", "child_room"}
  BY <1>2, <1>11 DEF HasRoom
<1> QED  BY <1>9, <1>10, <1>11

\* What the call of u has to answer.
LEMMA StableCalls ==
  ASSUME NEW span, NEW level, NEW span2, NEW level2,
         NEW t \in Threads, NEW u \in Threads, IInv(span, level), u # t,
         Others(t), Frame(t, span, level, span2, level2)
  PROVE  Calls(u)'
<1>1. Calls(u) /\ SeesNode(u, span, level)  BY DEF IInv, Own
<1>2. th'[u] = th[u] /\ wins \subseteq wins' /\ known \subseteq known'  BY FrameWins DEF Others, Frame
<1>3. th[u].pc = "read_count" => nodes'[th[u].node].leaf = nodes[th[u].node].leaf
  <2>1. th[u].pc = "read_count" => th[u].node \in DOMAIN nodes  BY <1>1 DEF SeesNode, Entered
  <2> QED  BY <2>1 DEF Frame
<1> QED  BY <1>1, <1>2, <1>3 DEF Calls

----------------------------------------------------------------------------
(* The step of thread t keeps the invariant, if it keeps to the rules.      *)

\* Locks stay exclusive when the lock bits change with their holders.
LEMMA LocksKeep ==
  ASSUME NEW span, NEW level, NEW span2, NEW level2, NEW t \in Threads,
         IInv(span, level), Others(t), LockStep(t), Frame(t, span, level, span2, level2)
  PROVE  Locks'
<1>1. \A u \in Threads \ {t} :
        /\ HoldsNode(u)' = HoldsNode(u) /\ HoldsChild(u)' = HoldsChild(u)
        /\ HoldsTree(u)' = HoldsTree(u) /\ th'[u].node = th[u].node /\ th'[u].child = th[u].child
        /\ \A n : Holds(u, n)' = Holds(u, n)
  <2> SUFFICES ASSUME NEW u \in Threads \ {t}
               PROVE  /\ HoldsNode(u)' = HoldsNode(u) /\ HoldsChild(u)' = HoldsChild(u)
                      /\ HoldsTree(u)' = HoldsTree(u) /\ th'[u].node = th[u].node /\ th'[u].child = th[u].child
                      /\ \A n : Holds(u, n)' = Holds(u, n)
    OBVIOUS
  <2>1. th'[u] = th[u]  BY DEF Others
  <2>2. HoldsNode(u)' = HoldsNode(u)  BY <2>1 DEF HoldsNode
  <2>3. HoldsChild(u)' = HoldsChild(u)  BY <2>1 DEF HoldsChild
  <2>4. HoldsTree(u)' = HoldsTree(u)  BY <2>1 DEF HoldsTree
  <2>5. \A n : Holds(u, n)' = Holds(u, n)  BY <2>1, <2>2, <2>3 DEF Holds
  <2> QED  BY <2>1, <2>2, <2>3, <2>4, <2>5
<1>2. \A u \in Threads \ {t} : \A n : Holds(u, n) =>
        n \in DOMAIN nodes /\ n \in DOMAIN nodes' /\ IsLocked(nodes[n].ver) /\ IsLocked(nodes'[n].ver)
  <2> SUFFICES ASSUME NEW u \in Threads \ {t}, NEW n, Holds(u, n)
               PROVE  /\ n \in DOMAIN nodes /\ n \in DOMAIN nodes'
                      /\ IsLocked(nodes[n].ver) /\ IsLocked(nodes'[n].ver)
    OBVIOUS
  <2>1. n \in DOMAIN nodes /\ nodes'[n] = nodes[n]  BY FrameHeld
  <2>2. IsLocked(nodes[n].ver)  BY Holding
  <2> QED  BY <2>1, <2>2 DEF Frame
<1>3. ASSUME NEW n \in DOMAIN nodes', Holds(t, n)'
      PROVE  /\ n \in DOMAIN nodes /\ IsLocked(nodes'[n].ver)
             /\ Holds(t, n) \/ ~IsLocked(nodes[n].ver)
  <2>1. n \in DOMAIN nodes  BY <1>3 DEF LockStep
  <2>2. Holds(t, n) => IsLocked(nodes[n].ver)  BY Holding
  <2> QED  BY <1>3, <2>1, <2>2 DEF LockStep
<1>4. \A u \in Threads : HoldsNode(u)' => th'[u].node \in DOMAIN nodes' /\ IsLocked(nodes'[th'[u].node].ver)
  <2> SUFFICES ASSUME NEW u \in Threads, HoldsNode(u)'
               PROVE  th'[u].node \in DOMAIN nodes' /\ IsLocked(nodes'[th'[u].node].ver)
    OBVIOUS
  <2>0. PICK n : n = th'[u].node  OBVIOUS
  <2>1. Holds(u, n)'  BY <2>0 DEF Holds
  <2>2. CASE u = t
    <3>1. n \in DOMAIN nodes'  BY <2>0, <2>2 DEF LockStep
    <3> QED  BY <1>3, <2>0, <2>1, <2>2, <3>1
  <2>3. CASE u # t  BY <1>1, <1>2, <2>0, <2>1, <2>3
  <2> QED  BY <2>2, <2>3
<1>5. \A u \in Threads : HoldsChild(u)' => th'[u].child \in DOMAIN nodes' /\ IsLocked(nodes'[th'[u].child].ver)
  <2> SUFFICES ASSUME NEW u \in Threads, HoldsChild(u)'
               PROVE  th'[u].child \in DOMAIN nodes' /\ IsLocked(nodes'[th'[u].child].ver)
    OBVIOUS
  <2>0. PICK n : n = th'[u].child  OBVIOUS
  <2>1. Holds(u, n)'  BY <2>0 DEF Holds
  <2>2. CASE u = t
    <3>1. n \in DOMAIN nodes'  BY <2>0, <2>2 DEF LockStep
    <3> QED  BY <1>3, <2>0, <2>1, <2>2, <3>1
  <2>3. CASE u # t  BY <1>1, <1>2, <2>0, <2>1, <2>3
  <2> QED  BY <2>2, <2>3
<1>6. \A u, v \in Threads : u # v => \A n \in DOMAIN nodes' : ~(Holds(u, n)' /\ Holds(v, n)')
  <2>1. ASSUME NEW u \in Threads \ {t}, NEW n \in DOMAIN nodes', Holds(t, n)', Holds(u, n)' PROVE FALSE
    <3>1. Holds(u, n) /\ IsLocked(nodes[n].ver)  BY <1>1, <1>2, <2>1
    <3>2. Holds(t, n)  BY <1>3, <2>1, <3>1
    <3> QED  BY <3>1, <3>2, Apart
  <2>2. ASSUME NEW u \in Threads \ {t}, NEW v \in Threads \ {t}, u # v, NEW n \in DOMAIN nodes',
               Holds(u, n)', Holds(v, n)'
        PROVE  FALSE
    <3>1. Holds(u, n) /\ Holds(v, n)  BY <1>1, <2>2
    <3> QED  BY <2>2, <3>1, Apart
  <2> QED  BY <2>1, <2>2
<1>7. \A n \in DOMAIN nodes' : IsLocked(nodes'[n].ver) => \E u \in Threads : Holds(u, n)'
  <2> SUFFICES ASSUME NEW n \in DOMAIN nodes', IsLocked(nodes'[n].ver)
               PROVE  \E u \in Threads : Holds(u, n)'
    OBVIOUS
  <2>1. n \in DOMAIN nodes  BY DEF LockStep
  <2>2. CASE nodes'[n].ver = nodes[n].ver /\ (Holds(t, n)' <=> Holds(t, n))
    <3>1. PICK u \in Threads : Holds(u, n)  BY <2>1, <2>2 DEF IInv, Locks
    <3>2. Holds(u, n)'  BY <1>1, <2>2, <3>1
    <3> QED  BY <3>2
  <2>3. CASE Holds(t, n)'  BY <2>3
  <2> QED  BY <2>1, <2>2, <2>3 DEF LockStep
<1>8. /\ \A u \in Threads : HoldsTree(u)' => IsLocked(treeVer')
      /\ \A u, v \in Threads : u # v => ~(HoldsTree(u)' /\ HoldsTree(v)')
  <2>1. \A u \in Threads : HoldsTree(u) => IsLocked(treeVer)  BY Holding
  <2>2. \A u \in Threads \ {t} : HoldsTree(u)' => HoldsTree(u)  BY <1>1
  <2>3. \A u, v \in Threads : u # v => ~(HoldsTree(u) /\ HoldsTree(v))  BY Apart
  <2>4. HoldsTree(t)' => (HoldsTree(t) /\ treeVer' = treeVer) \/ (~IsLocked(treeVer) /\ IsLocked(treeVer'))
    BY DEF LockStep
  <2>5. \A u \in Threads \ {t} : HoldsTree(u) => treeVer' = treeVer  BY <2>1, <2>3 DEF LockStep
  <2> QED  BY <2>1, <2>2, <2>3, <2>4, <2>5
<1> QED  BY <1>4, <1>5, <1>6, <1>7, <1>8 DEF Locks

\* What the step keeps of thread t itself and of the tree, and the frame, give the invariant.
LEMMA Compose ==
  ASSUME NEW span, NEW level, NEW span2, NEW level2, NEW t \in Threads,
         IInv(span, level), Others(t), LockStep(t), Frame(t, span, level, span2, level2),
         TypeOK', Spans(span2, level2)', Contents(span2, level2)', Own(t, span2, level2)',
         History', Tally'
  PROVE  IInv(span2, level2)'
<1>1. treeVer' \in Nat  BY DEF TypeOK
<1>2. ASSUME NEW u \in Threads PROVE Own(u, span2, level2)'
  <2>1. CASE u = t  BY <2>1
  <2>2. CASE u # t
    <3>1. SeesTree(u)'  BY <1>1, <2>2, StableTree
    <3>2. SeesNode(u, span2, level2)'  BY <2>2, StableNode
    <3>3. WritesLeaf(u, span2, level2)'  BY <2>2, StableLeaf
    <3>4. Descends(u, span2, level2)'  BY <2>2, StableDescent
    <3>5. Opens(u, span2, level2)'  BY <2>2, StableOpens
    <3>6. HasRoom(u, span2, level2)'  BY <2>2, StableRoom
    <3>7. Calls(u)'  BY <2>2, StableCalls
    <3> QED  BY <3>1, <3>2, <3>3, <3>4, <3>5, <3>6, <3>7 DEF Own
  <2> QED  BY <2>1, <2>2
<1>3. Locks'  BY LocksKeep
<1> QED  BY <1>2, <1>3 DEF IInv

----------------------------------------------------------------------------
(* Steps that leave the shape of the tree alone.                            *)

Reduces(t) == th[t].grow /\ th[t].pc \in Opening \union {"publish_root"}
Writes(t, n) == th[t].node = n /\ th[t].pc \in Moving \union Opening

\* Only node m changes in more than its version, and only its writer may change.
Keeps(t, m, span, level) ==
  /\ DOMAIN nodes' = DOMAIN nodes /\ Len(nodes') = Len(nodes) /\ root' = root
  /\ \A n \in DOMAIN nodes :
       /\ nodes[n].ver <= nodes'[n].ver /\ nodes'[n].leaf = nodes[n].leaf
       /\ Foreign(t, n) /\ nodes'[n] # nodes[n] =>
            ~IsLocked(nodes[n].ver) /\ nodes'[n].ver # nodes[n].ver
       /\ Foreign(t, n) /\ Takes(t, n) => Reaches(t, n, span, level)
       /\ n # m => /\ nodes'[n].count = nodes[n].count /\ nodes'[n].keys = nodes[n].keys
                   /\ nodes'[n].values = nodes[n].values /\ nodes'[n].kids = nodes[n].kids
                   /\ Writes(t, n) => Writes(t, n)'
  /\ m \in DOMAIN nodes => Writes(t, m)' \/ NodeOK(m, span, level)'
  /\ Reduces(t) => Reduces(t)'
  /\ \A n : Private(t, n) => Private(t, n)'

\* A step that keeps the shape of the tree is within the frame.
LEMMA KeepsFrame ==
  ASSUME NEW span, NEW level, NEW t \in Threads, NEW m, IInv(span, level), Keeps(t, m, span, level),
         TypeOK', known \subseteq known',
         wins' = wins \/ (At(t, "release_leaf") /\ wins' = wins \union {Mine(t)})
  PROVE  Frame(t, span, level, span, level)
<1>1. \A n \in DOMAIN nodes : nodes'[n].ver \in Nat
  <2>1. nodes' \in Seq(Node(Len(nodes)))  BY DEF TypeOK, Keeps, Node
  <2>2. \A n \in DOMAIN nodes' : nodes'[n] \in Node(Len(nodes))  BY <2>1
  <2> QED  BY <2>2 DEF Keeps, Node
<1>2. root # Null => level[root] \in Nat /\ level[root] <= level[root]  BY Basics
<1> QED  BY <1>1, <1>2 DEF Keeps, Frame

\* It keeps the spans as they are,
LEMMA KeepsSpans ==
  ASSUME NEW span, NEW level, NEW t \in Threads, NEW m, IInv(span, level), Keeps(t, m, span, level), Others(t),
         TypeOK'
  PROVE  Spans(span, level)'
<1>1. Spans(span, level)  BY DEF IInv
<1>2. Reduced => Reduced'
  <2>1. \A u \in Threads : Reduces(u) => Reduces(u)'
    <3>1. \A u \in Threads \ {t} : Reduces(u) => Reduces(u)'  BY DEF Others, Reduces
    <3> QED  BY <3>1 DEF Keeps
  <2> QED  BY <2>1 DEF Reduced, Reduces
<1>3. \A n : (\E u \in Threads : Private(u, n)) => \E u \in Threads : Private(u, n)'
  <2>1. \A u \in Threads \ {t} : \A n : Private(u, n) => Private(u, n)'  BY DEF Others, Private
  <2> QED  BY <2>1 DEF Keeps
<1>4. root = Null <=> nodes' = <<>>
  <2>1. root = Null <=> DOMAIN nodes' = {}  BY Basics DEF Keeps
  <2>2. nodes' = <<>> => DOMAIN nodes' = {}  OBVIOUS
  <2>3. DOMAIN nodes' = {} => nodes' = <<>>
    <3>1. nodes' \in Seq(Node(Len(nodes)))  BY DEF TypeOK, Keeps, Node
    <3> DEFINE S == Node(Len(nodes))
    <3> HIDE DEF S
    <3>2. nodes' \in Seq(S)  BY <3>1 DEF S
    <3>3. nodes' # <<>> => Len(nodes') \in Nat \ {0}  BY <3>2, EmptySeq
    <3>4. nodes' # <<>> => 1 \in DOMAIN nodes'  BY <3>2, <3>3
    <3> QED  BY <3>4
  <2> QED  BY <2>1, <2>2, <2>3
<1> QED  BY <1>1, <1>2, <1>3, <1>4 DEF Spans, Keeps

\* and what every node holds but the one being written.
LEMMA KeepsContents ==
  ASSUME NEW span, NEW level, NEW t \in Threads, NEW m, IInv(span, level), Keeps(t, m, span, level), Others(t),
         wins' = wins \/ (At(t, "release_leaf") /\ wins' = wins \union {Mine(t)} /\ m = th[t].node),
         TypeOK', known \subseteq known'
  PROVE  Contents(span, level)'
<1> SUFFICES ASSUME NEW n \in DOMAIN nodes', ~Busy(n)'
             PROVE  NodeOK(n, span, level)'
  BY DEF Contents
<1>1. n \in DOMAIN nodes  BY DEF Keeps
<1>2. CASE n = m
  <2>1. ~Writes(t, m)'  BY <1>2 DEF Busy, Writes
  <2> QED  BY <1>1, <1>2, <2>1 DEF Keeps
<1>3. CASE n # m
  <2>1. ~Busy(n)
    <3>1. \A u \in Threads \ {t} : Writes(u, n) => Writes(u, n)'  BY DEF Others, Writes
    <3>2. Writes(t, n) => Writes(t, n)'  BY <1>1, <1>3 DEF Keeps
    <3>3. \A u \in Threads : Writes(u, n) => Writes(u, n)'  BY <3>1, <3>2
    <3> QED  BY <3>3 DEF Busy, Writes
  <2>2. NodeOK(n, span, level)  BY <1>1, <2>1 DEF IInv, Contents
  <2>3. /\ nodes'[n].leaf = nodes[n].leaf /\ nodes'[n].count = nodes[n].count /\ nodes'[n].keys = nodes[n].keys
        /\ nodes'[n].values = nodes[n].values /\ nodes'[n].kids = nodes[n].kids
    BY <1>1, <1>3 DEF Keeps
  <2>4. nodes[n].leaf => \A ks, vs, c : LeafOK(ks, vs, c, span[n], wins) => LeafOK(ks, vs, c, span[n], wins')
    <3>1. CASE wins' = wins  BY <3>1
    <3>2. CASE At(t, "release_leaf") /\ wins' = wins \union {Mine(t)} /\ m = th[t].node
      <4>1. Frame(t, span, level, span, level)  BY <3>2, KeepsFrame
      <4> QED  BY <1>1, <1>3, <3>2, <4>1, FrameWins
    <3> QED  BY <3>1, <3>2
  <2> QED  BY <2>2, <2>3, <2>4 DEF NodeOK
<1> QED  BY <1>2, <1>3

\* So it keeps the invariant with the same spans and levels.
LEMMA StepKeeps ==
  ASSUME NEW span, NEW level, NEW t \in Threads, NEW m, IInv(span, level), Keeps(t, m, span, level),
         Others(t), LockStep(t), known \subseteq known',
         wins' = wins \/ (At(t, "release_leaf") /\ wins' = wins \union {Mine(t)} /\ m = th[t].node),
         TypeOK', Own(t, span, level)', History', Tally'
  PROVE  IInv(span, level)'
<1>1. Frame(t, span, level, span, level)  BY KeepsFrame
<1>2. Spans(span, level)'  BY KeepsSpans
<1>3. Contents(span, level)'  BY KeepsContents
<1> QED  BY <1>1, <1>2, <1>3, Compose

\* Most steps neither accept an entry nor count one.
LEMMA HistorySame ==
  ASSUME History, wins' = wins, known' = known, root' = root
  PROVE  History'
BY DEF History

\* A key whose insert has returned becomes known.
LEMMA HistoryKnown ==
  ASSUME History, wins' = wins, root' = root, NEW k, known' = known \union {k}, \E w \in wins : w.key = k
  PROVE  History'
BY DEF History

\* The count changes only as an insert counts its entry.
LEMMA TallySame ==
  ASSUME NEW t \in Threads, Tally, Others(t), wins' = wins, entries' = entries,
         ~At(t, "count_entry"), ~At(t, "count_entry")'
  PROVE  Tally'
<1>1. \A u \in Threads : At(u, "count_entry")' <=> At(u, "count_entry")  BY DEF Others, At
<1>2. Counting' = Counting  BY <1>1 DEF Counting
<1> QED  BY <1>2 DEF Tally

----------------------------------------------------------------------------
(* The threads that hold nothing: callers and readers.                      *)

\* A step changes the locals of one thread.
LEMMA ThreadStep ==
  ASSUME NEW t \in Threads, NEW r, TypeOK, r \in Locals', Len(nodes') \in Nat, Len(nodes) <= Len(nodes'),
         th' = [th EXCEPT ![t] = r]
  PROVE  /\ th' \in [Threads -> Locals]' /\ th'[t] = r /\ Others(t)
<1>1. th \in [Threads -> Locals]  BY DEF TypeOK
<1>2. Locals \subseteq Locals'
  <2>1. Len(nodes) \in Nat  BY NodeFacts
  <2>2. 0 .. Len(nodes) \subseteq 0 .. Len(nodes')  BY <2>1
  <2> QED  BY <2>2 DEF Locals, Entry, Places
<1>3. th' \in [Threads -> Locals']  BY <1>1, <1>2
<1> QED  BY <1>1, <1>3 DEF Others

Free == Outside \union {"snapshot_tree", "count_entry", "lock_tree"} \union AtTree \union Entered

\* A thread that is free holds and writes nothing.
LEMMA FreeFacts ==
  ASSUME NEW t, th[t].pc \in Free, th[t].grow = FALSE
  PROVE  /\ ~HoldsNode(t) /\ ~HoldsChild(t) /\ ~HoldsTree(t) /\ ~Reduces(t)
         /\ \A n : ~Holds(t, n) /\ ~Private(t, n) /\ ~Writes(t, n)
<1>1. /\ th[t].pc \notin LeafHeld /\ th[t].pc \notin Walking /\ th[t].pc \notin Splitting
      /\ th[t].pc \notin TreeHeld /\ th[t].pc \notin {"grow", "release_tree", "release_child", "publish_root"}
      /\ th[t].pc \notin {"child_room", "release_parent"}
      /\ th[t].pc \notin Moving /\ th[t].pc \notin Opening
  BY DEF Free, Outside, AtTree, Entered, Coupling, InLeaf, LeafHeld, Moving, Walking, Splitting, Opening, TreeHeld
<1>2. ~HoldsNode(t) /\ ~HoldsChild(t) /\ ~HoldsTree(t) /\ ~Reduces(t)
  BY <1>1 DEF HoldsNode, HoldsChild, HoldsTree, Reduces
<1>3. \A n : ~Holds(t, n) /\ ~Private(t, n) /\ ~Writes(t, n)  BY <1>1, <1>2 DEF Holds, Private, Writes
<1> QED  BY <1>2, <1>3

\* A free thread is not growing the tree.
LEMMA FreeGrow ==
  ASSUME NEW span, NEW level, NEW t \in Threads, IInv(span, level), th[t].pc \in Free
  PROVE  th[t].grow = FALSE
<1>1. Descends(t, span, level) /\ TypeOK  BY DEF IInv, Own
<1>2. th[t].pc \notin Splitting \union {"publish_root", "release_child"}
  BY DEF Free, Outside, AtTree, Entered, Coupling, InLeaf, Splitting, Opening
<1>3. th[t].grow \in BOOLEAN  BY <1>1, ThreadFacts
<1> QED  BY <1>1, <1>2, <1>3 DEF Descends

\* A step between two such places.
LEMMA FreeStep ==
  ASSUME NEW span, NEW level, NEW t \in Threads, NEW r, IInv(span, level), th[t].pc \in Free \ {"count_entry"},
         UNCHANGED <<nodes, root, treeVer, entries, wins>>,
         th' = [th EXCEPT ![t] = r], r \in Locals, r.pc \in Free \ {"count_entry"}, r.grow = FALSE,
         r.pc = "lock_tree" => r.op = "insert",
         \A n \in DOMAIN nodes : r.pc \in Entered /\ r.node = n /\ r.ver = nodes[n].ver => Reaches(t, n, span, level),
         known \subseteq known', History', known' \in SUBSET Int,
         SeesTree(t)', SeesNode(t, span, level)', Calls(t)'
  PROVE  IInv(span, level)'
<1>1. TypeOK /\ Tally  BY DEF IInv
<1>2. /\ Len(nodes) \in Nat /\ Len(nodes') = Len(nodes) /\ nodes' = nodes /\ r \in Locals'
      /\ Len(nodes') \in Nat /\ Len(nodes) <= Len(nodes')
  BY <1>1, NodeFacts DEF Locals, Entry, Places
<1>3. th' \in [Threads -> Locals]' /\ th'[t] = r /\ Others(t)  BY <1>1, <1>2, ThreadStep
<1>4. TypeOK'  BY <1>1, <1>2, <1>3 DEF TypeOK, Node, Entry
<1>5. th[t].grow = FALSE  BY FreeGrow
<1>6. /\ ~HoldsNode(t) /\ ~HoldsChild(t) /\ ~HoldsTree(t) /\ ~Reduces(t)
      /\ \A n : ~Holds(t, n) /\ ~Private(t, n) /\ ~Writes(t, n)
  BY <1>5, FreeFacts
<1>7. /\ r.pc \notin LeafHeld /\ r.pc \notin Walking /\ r.pc \notin Splitting
      /\ r.pc \notin TreeHeld /\ r.pc \notin {"grow", "release_tree", "release_child", "publish_root"}
      /\ r.pc \notin {"child_room", "release_parent"}
      /\ r.pc \notin Moving /\ r.pc \notin Opening
  BY DEF Free, Outside, AtTree, Entered, Coupling, InLeaf, LeafHeld, Moving, Walking, Splitting, Opening, TreeHeld
<1>8. (~HoldsNode(t) /\ ~HoldsChild(t) /\ ~HoldsTree(t))'
  BY <1>3, <1>7 DEF HoldsNode, HoldsChild, HoldsTree
<1>9. \A n : ~Holds(t, n)'  BY <1>8 DEF Holds
<1>10. LockStep(t)  BY <1>2, <1>6, <1>8, <1>9 DEF LockStep
<1>11. Keeps(t, Null, span, level)
  <2>1. Null \notin DOMAIN nodes  BY Basics DEF Null
  <2>2. \A n \in DOMAIN nodes : nodes[n].ver \in Nat  BY <1>1, NodeFacts
  <2>3. \A n \in DOMAIN nodes : Takes(t, n) => Reaches(t, n, span, level)  BY <1>2, <1>3 DEF Takes
  <2> QED  BY <1>2, <1>6, <2>1, <2>2, <2>3 DEF Keeps
<1>12. WritesLeaf(t, span, level)'
  BY <1>3, <1>7 DEF WritesLeaf, LeafHeld, Moving
<1>13. Descends(t, span, level)'
  <2>1. r.pc \in SlowPath => r.pc = "lock_tree"  BY <1>7 DEF SlowPath
  <2> QED  BY <1>3, <1>7, <1>8, <2>1 DEF Descends, TreeHeld, Walking, Splitting
<1>14. Opens(t, span, level)'  BY <1>3, <1>7 DEF Opens, Opening
<1>15. HasRoom(t, span, level)'  BY <1>3, <1>7 DEF HasRoom, Splitting, Opening, Walking
<1>16. Own(t, span, level)'  BY <1>12, <1>13, <1>14, <1>15 DEF Own
<1>17. Tally'
  <2>1. ~At(t, "count_entry") /\ ~At(t, "count_entry")'  BY <1>3 DEF At
  <2> QED  BY <1>1, <1>3, <2>1, TallySame
<1> QED  BY <1>3, <1>4, <1>10, <1>11, <1>16, <1>17, StepKeeps

\* The locals of a thread that has not been called.
LEMMA IdleFacts ==
  ASSUME TypeOK
  PROVE  Idle \in Locals /\ Idle.grow = FALSE /\ Default \in Entry
<1>1. Default \in Entry  BY DEF Default, Entry, Null
<1>2. Len(nodes) \in Nat /\ Fanout \in Nat /\ Fanout >= 2  BY NodeFacts, FanoutFacts
<1>3. "idle" \in Places  BY DEF Places, Outside
<1> QED  BY <1>1, <1>2, <1>3 DEF Idle, Locals, Null

\* A descent that starts again keeps the call and forgets the rest.
LEMMA AfreshFacts ==
  ASSUME TypeOK, NEW t \in Threads, NEW pc \in Places
  PROVE  LET r == Afresh(th[t], pc)
         IN  /\ r \in Locals /\ r.pc = pc /\ r.grow = FALSE
             /\ r.op = th[t].op /\ r.key = th[t].key /\ r.before = th[t].before
<1>1. Idle \in Locals /\ Idle.grow = FALSE  BY IdleFacts
<1>2. /\ th[t].op \in {"none", "lookup", "insert"} /\ th[t].key \in Int /\ th[t].before \in SUBSET Int
  BY ThreadFacts
<1> QED  BY <1>1, <1>2 DEF Afresh, Locals

\* The facts of the start of every step.
LEMMA Start ==
  ASSUME NEW span, NEW level, NEW t \in Threads, IInv(span, level)
  PROVE  /\ TypeOK /\ History /\ th \in [Threads -> Locals]
         /\ SeesTree(t) /\ SeesNode(t, span, level) /\ WritesLeaf(t, span, level) /\ Descends(t, span, level)
         /\ Opens(t, span, level) /\ HasRoom(t, span, level) /\ Calls(t)
         /\ known \in SUBSET Int
BY DEF IInv, Own, TypeOK

\* Back to the start of the descent.
LEMMA RestartStep ==
  ASSUME NEW span, NEW level, NEW t \in Threads, IInv(span, level),
         th[t].pc \in Free \ {"count_entry"}, th[t].pc # "idle", NEW pc,
         pc = "snapshot_tree" \/ (pc = "lock_tree" /\ th[t].op = "insert"), Again(t, pc),
         UNCHANGED <<nodes, root, treeVer, entries, known, wins>>
  PROVE  IInv(span, level)'
<1>0. PICK r : r = Afresh(th[t], pc)  OBVIOUS
<1>1. TypeOK /\ History /\ Calls(t) /\ th \in [Threads -> Locals] /\ known \in SUBSET Int  BY Start
<1>2. /\ r \in Locals /\ r.pc = pc /\ r.grow = FALSE /\ r.op = th[t].op /\ r.key = th[t].key
      /\ r.before = th[t].before
  BY <1>0, <1>1, AfreshFacts DEF Places, SlowPath
<1>3. th' = [th EXCEPT ![t] = r] /\ th'[t] = r  BY <1>0, <1>1 DEF Again, Set
<1>4. History'  BY <1>1, HistorySame
<1>5. SeesTree(t)'  BY <1>2, <1>3 DEF SeesTree, AtTree
<1>6. pc \notin Entered  BY DEF Entered, Coupling, InLeaf
<1>7. SeesNode(t, span, level)'
  BY <1>2, <1>3, <1>6 DEF SeesNode, Entered, Coupling, InLeaf, Valid
<1>8. Calls(t)'  BY <1>1, <1>2, <1>3, <1>6 DEF Calls, LeafHeld, Moving
<1>9. r.pc \in Free \ {"count_entry"}  BY <1>2 DEF Free, AtTree, Entered, Coupling, InLeaf
<1> QED  BY <1>1, <1>2, <1>3, <1>4, <1>5, <1>6, <1>7, <1>8, <1>9, FreeStep

\* A call begins.
LEMMA CallStep ==
  ASSUME NEW span, NEW level, NEW t \in Threads, IInv(span, level), Call(t)
  PROVE  IInv(span, level)'
<1>1. TypeOK /\ History /\ Calls(t) /\ th \in [Threads -> Locals] /\ known \in SUBSET Int  BY Start
<1>2. PICK q \in Requests[t] :
        Set(t, [Idle EXCEPT !.pc = "snapshot_tree", !.op = q.op, !.key = q.key, !.before = known])
  BY DEF Call
<1>3. q.op \in {"lookup", "insert"} /\ q.key \in Keys /\ q.key \in Int
  <2> DEFINE Q == [op : {"lookup", "insert"}, key : Keys]
  <2>1. Requests[t] \in SUBSET Q  BY RequestsAssumption
  <2>2. q \in Q  BY <1>2, <2>1
  <2>3. q.op \in {"lookup", "insert"} /\ q.key \in Keys  BY <2>2
  <2> QED  BY <2>3, KeysAssumption
<1>4. PICK r : r = [Idle EXCEPT !.pc = "snapshot_tree", !.op = q.op, !.key = q.key, !.before = known]
  OBVIOUS
<1>5. /\ r \in Locals /\ r.pc = "snapshot_tree" /\ r.grow = FALSE /\ r.op = q.op /\ r.key = q.key
      /\ r.before = known
  <2>1. Idle \in Locals /\ Idle.grow = FALSE /\ "snapshot_tree" \in Places  BY <1>1, IdleFacts DEF Places
  <2> QED  BY <1>1, <1>3, <1>4, <2>1 DEF Locals
<1>6. th' = [th EXCEPT ![t] = r] /\ th'[t] = r  BY <1>1, <1>2, <1>4 DEF Set
<1>7. History'  BY <1>1, HistorySame DEF Call
<1>8. SeesTree(t)'  BY <1>5, <1>6 DEF SeesTree, AtTree
<1>9. r.pc \notin Entered  BY <1>5 DEF Entered, Coupling, InLeaf
<1>10. SeesNode(t, span, level)'
  BY <1>5, <1>6, <1>9 DEF SeesNode, Entered, Coupling, InLeaf, Valid
<1>11. Calls(t)'  BY <1>3, <1>5, <1>6 DEF Calls, LeafHeld, Moving, Call
<1>12. r.pc \in Free \ {"count_entry"} /\ th[t].pc \in Free \ {"count_entry"}
  BY <1>5 DEF Free, AtTree, Entered, Coupling, InLeaf, Outside, Call
<1> QED  BY <1>1, <1>5, <1>6, <1>7, <1>8, <1>9, <1>10, <1>11, <1>12, FreeStep DEF Call

\* A step of a reader that does not end its call.
LEMMA ReaderStep ==
  ASSUME NEW span, NEW level, NEW t \in Threads, NEW r, IInv(span, level),
         th[t].pc \in Free \ {"count_entry"}, th[t].pc \notin Outside,
         UNCHANGED <<nodes, root, treeVer, entries, known, wins>>,
         th' = [th EXCEPT ![t] = r], r \in Locals, r.pc \in AtTree \union Entered, r.grow = th[t].grow,
         r.op = th[t].op, r.key = th[t].key, r.before = th[t].before,
         r.pc \in {"search", "read_value", "validate_leaf"} => r.op = "lookup",
         r.pc = "upgrade" => r.op = "insert",
         r.pc = "read_count" /\ nodes[r.node].leaf => r.op = "lookup",
         \A n \in DOMAIN nodes : r.pc \in Entered /\ r.node = n /\ r.ver = nodes[n].ver => Reaches(t, n, span, level),
         SeesTree(t)', SeesNode(t, span, level)'
  PROVE  IInv(span, level)'
<1>1. TypeOK /\ History /\ Calls(t) /\ th \in [Threads -> Locals] /\ known \in SUBSET Int  BY Start
<1>2. th'[t] = r  BY <1>1
<1>3. r.pc \in Free \ {"count_entry"} /\ r.pc # "lock_tree"
  BY DEF Free, AtTree, Entered, Coupling, InLeaf
<1>4. r.pc \notin LeafHeld /\ r.pc # "returned" /\ r.pc # "idle" /\ r.pc # "count_entry"
  BY DEF AtTree, Entered, Coupling, InLeaf, LeafHeld
<1>5. Calls(t)'  BY <1>1, <1>2, <1>4 DEF Calls, Outside
<1>6. th[t].grow = FALSE  BY FreeGrow
<1>7. History'  BY <1>1, HistorySame
<1> QED  BY <1>1, <1>3, <1>5, <1>6, <1>7, FreeStep

\* The reader is not in a node yet.
LEMMA OutsideNodes ==
  ASSUME NEW span, NEW level, NEW t, th[t].pc \notin Entered
  PROVE  SeesNode(t, span, level)
BY DEF SeesNode, Entered, Coupling, InLeaf, Valid

\* snapshot() of the tree's lock.
LEMMA SnapshotTreeStep ==
  ASSUME NEW span, NEW level, NEW t \in Threads, IInv(span, level), SnapshotTree(t)
  PROVE  IInv(span, level)'
<1>1. TypeOK /\ th \in [Threads -> Locals] /\ treeVer \in Nat  BY Start DEF TypeOK
<1>2. th[t].pc = "snapshot_tree" /\ ~IsLocked(treeVer)  BY DEF SnapshotTree, At, ReadBegin
<1>3. PICK r : r = [th[t] EXCEPT !.pc = "read_root", !.ver = treeVer]  OBVIOUS
<1>4. /\ r \in Locals /\ r.pc = "read_root" /\ r.ver = treeVer /\ r.grow = th[t].grow
      /\ r.op = th[t].op /\ r.key = th[t].key /\ r.before = th[t].before
  <2>1. th[t] \in Locals  BY <1>1
  <2>2. "read_root" \in Places  BY DEF Places, AtTree
  <2> QED  BY <1>1, <1>3, <2>1, <2>2 DEF Locals
<1>5. th' = [th EXCEPT ![t] = r] /\ th'[t] = r  BY <1>1, <1>3 DEF SnapshotTree, Set
<1>6. UNCHANGED <<nodes, root, treeVer, entries, known, wins>>  BY DEF SnapshotTree
<1>7. SeesTree(t)'  BY <1>1, <1>2, <1>4, <1>5, <1>6 DEF SeesTree
<1>8. r.pc \notin Entered /\ r.pc \in AtTree  BY <1>4 DEF Entered, Coupling, InLeaf, AtTree
<1>9. SeesNode(t, span, level)'  BY <1>5, <1>8 DEF SeesNode, Entered, Coupling, InLeaf, Valid
<1>10. th[t].pc \in Free \ {"count_entry"} /\ th[t].pc \notin Outside
  BY <1>2 DEF Free, Outside
<1> QED  BY <1>4, <1>5, <1>6, <1>7, <1>8, <1>9, <1>10, ReaderStep

\* Reading the root under that snapshot.
LEMMA ReadRootStep ==
  ASSUME NEW span, NEW level, NEW t \in Threads, IInv(span, level), ReadRoot(t)
  PROVE  IInv(span, level)'
<1>1. TypeOK /\ th \in [Threads -> Locals] /\ treeVer \in Nat /\ SeesTree(t) /\ root \in 0 .. Len(nodes)
  BY Start DEF TypeOK
<1>2. th[t].pc = "read_root"  BY DEF ReadRoot, At
<1>3. PICK pc : pc = IF root = Null THEN "validate_empty" ELSE "snapshot_root"  OBVIOUS
<1>4. PICK r : r = [th[t] EXCEPT !.pc = pc, !.child = root]  OBVIOUS
<1>5. /\ r \in Locals /\ r.pc = pc /\ r.ver = th[t].ver /\ r.child = root /\ r.grow = th[t].grow
      /\ r.op = th[t].op /\ r.key = th[t].key /\ r.before = th[t].before
  <2>1. th[t] \in Locals  BY <1>1
  <2>2. pc \in Places  BY <1>3 DEF Places, AtTree
  <2> QED  BY <1>1, <1>4, <2>1, <2>2 DEF Locals
<1>6. th' = [th EXCEPT ![t] = r] /\ th'[t] = r  BY <1>1, <1>3, <1>4 DEF ReadRoot, Set
<1>7. UNCHANGED <<nodes, root, treeVer, entries, known, wins>>  BY DEF ReadRoot
<1>8. root # Null => root \in DOMAIN nodes  BY Basics
<1>9. SeesTree(t)'  BY <1>1, <1>2, <1>3, <1>5, <1>6, <1>7, <1>8 DEF SeesTree, AtTree
<1>10. r.pc \notin Entered /\ r.pc \in AtTree  BY <1>3, <1>5 DEF Entered, Coupling, InLeaf, AtTree
<1>11. SeesNode(t, span, level)'  BY <1>6, <1>10 DEF SeesNode, Entered, Coupling, InLeaf, Valid
<1>12. th[t].pc \in Free \ {"count_entry"} /\ th[t].pc \notin Outside
  BY <1>2 DEF Free, Outside, AtTree
<1>13. r.pc \notin {"search", "read_value", "validate_leaf", "upgrade", "read_count"}  BY <1>3, <1>5
<1> QED  BY <1>5, <1>6, <1>7, <1>9, <1>10, <1>11, <1>12, <1>13, ReaderStep

\* An empty tree holds no entry, so nothing that the call could have known.
LEMMA ValidateEmptyStep ==
  ASSUME NEW span, NEW level, NEW t \in Threads, IInv(span, level), ValidateEmpty(t)
  PROVE  IInv(span, level)'
<1>1. TypeOK /\ th \in [Threads -> Locals] /\ SeesTree(t) /\ Calls(t) /\ History /\ known \in SUBSET Int
  BY Start DEF TypeOK
<1>2. th[t].pc = "validate_empty"  BY DEF ValidateEmpty, At
<1>3. th[t].pc \in Free \ {"count_entry"} /\ th[t].pc # "idle"  BY <1>2 DEF Free, AtTree
<1>4. UNCHANGED <<nodes, root, treeVer, entries, known, wins>>  BY DEF ValidateEmpty
<1>5. CASE Again(t, "snapshot_tree") \/ (th[t].op = "insert" /\ Again(t, "lock_tree"))
  BY <1>3, <1>4, <1>5, RestartStep
<1>6. CASE treeVer = th[t].ver /\ th[t].op = "lookup" /\ Return(t, FALSE)
  <2>1. PICK r : r = [Afresh(th[t], "returned") EXCEPT !.answer = FALSE, !.found = th[t].found]  OBVIOUS
  <2>2. /\ r \in Locals /\ r.pc = "returned" /\ r.grow = FALSE /\ r.answer = FALSE
        /\ r.op = th[t].op /\ r.key = th[t].key /\ r.before = th[t].before
    <3> DEFINE a == Afresh(th[t], "returned")
    <3>1. /\ a \in Locals /\ a.pc = "returned" /\ a.grow = FALSE
          /\ a.op = th[t].op /\ a.key = th[t].key /\ a.before = th[t].before
      BY <1>1, AfreshFacts DEF Places, Outside
    <3>2. th[t].found \in Entry  BY <1>1, ThreadFacts
    <3> HIDE DEF a
    <3>3. r = [a EXCEPT !.answer = FALSE, !.found = th[t].found]  BY <2>1 DEF a
    <3> QED  BY <3>1, <3>2, <3>3 DEF Locals
  <2>3. th' = [th EXCEPT ![t] = r] /\ th'[t] = r  BY <1>1, <1>6, <2>1 DEF Return, Set
  <2>4. History'  BY <1>1, <1>4, HistorySame
  <2>5. r.pc \notin Entered  BY <2>2 DEF Entered, Coupling, InLeaf
  <2>6. SeesTree(t)'  BY <2>2, <2>3 DEF SeesTree, AtTree
  <2>7. SeesNode(t, span, level)'  BY <2>3, <2>5 DEF SeesNode, Entered, Coupling, InLeaf, Valid
  <2>8. th[t].key \notin th[t].before
    <3>1. root = Null  BY <1>1, <1>2, <1>6 DEF SeesTree
    <3>2. wins = {}  BY <1>1, <3>1 DEF History
    <3>3. known = {}  BY <1>1, <3>2 DEF History
    <3> QED  BY <1>1, <3>3 DEF Calls
  <2>9. Calls(t)'  BY <1>1, <1>2, <1>4, <1>6, <2>2, <2>3, <2>8 DEF Calls, LeafHeld, Moving
  <2>10. r.pc \in Free \ {"count_entry"}  BY <2>2 DEF Free, Outside
  <2> QED  BY <1>1, <1>3, <1>4, <2>2, <2>3, <2>4, <2>5, <2>6, <2>7, <2>9, <2>10, FreeStep
<1>7. th[t].op \in {"lookup", "insert"}  BY <1>1, <1>2 DEF Calls
<1> QED  BY <1>5, <1>6, <1>7 DEF ValidateEmpty, Restart

\* snapshot() of the root's lock.
LEMMA SnapshotRootStep ==
  ASSUME NEW span, NEW level, NEW t \in Threads, IInv(span, level), SnapshotRoot(t)
  PROVE  IInv(span, level)'
<1>1. TypeOK /\ th \in [Threads -> Locals] /\ treeVer \in Nat /\ SeesTree(t)  BY Start DEF TypeOK
<1>2. th[t].pc = "snapshot_root"  BY DEF SnapshotRoot, At
<1>0. PICK c : c = th[t].child  OBVIOUS
<1>3. c \in DOMAIN nodes /\ ~IsLocked(nodes[c].ver) /\ nodes[c].ver \in Nat
  BY <1>0, <1>1, <1>2, NodeFacts DEF SeesTree, SnapshotRoot, ReadBegin
<1>4. PICK r : r = [th[t] EXCEPT !.pc = "validate_tree", !.childVer = nodes[c].ver]  OBVIOUS
<1>5. /\ r \in Locals /\ r.pc = "validate_tree" /\ r.ver = th[t].ver /\ r.child = c /\ r.childVer = nodes[c].ver
      /\ r.op = th[t].op /\ r.key = th[t].key /\ r.before = th[t].before /\ r.grow = th[t].grow
  <2>1. th[t] \in Locals  BY <1>1
  <2>2. "validate_tree" \in Places  BY DEF Places, AtTree
  <2> QED  BY <1>1, <1>0, <1>3, <1>4, <2>1, <2>2 DEF Locals
<1>6. th' = [th EXCEPT ![t] = r] /\ th'[t] = r  BY <1>0, <1>1, <1>4 DEF SnapshotRoot, Set
<1>7. UNCHANGED <<nodes, root, treeVer, entries, known, wins>>  BY DEF SnapshotRoot
<1>8. SeesTree(t)'  BY <1>0, <1>1, <1>2, <1>3, <1>5, <1>6, <1>7 DEF SeesTree, AtTree
<1>9. r.pc \notin Entered /\ r.pc \in AtTree  BY <1>5 DEF Entered, Coupling, InLeaf, AtTree
<1>10. SeesNode(t, span, level)'  BY <1>6, <1>9 DEF SeesNode, Entered, Coupling, InLeaf, Valid
<1>11. th[t].pc \in Free \ {"count_entry"} /\ th[t].pc \notin Outside
  BY <1>2 DEF Free, Outside, AtTree
<1> QED  BY <1>5, <1>6, <1>7, <1>8, <1>9, <1>10, <1>11, ReaderStep

\* The child becomes the node of the descent, which leads through it if the
\* snapshot of the child still stands.
LEMMA EnterStep ==
  ASSUME NEW span, NEW level, NEW t \in Threads, IInv(span, level), th[t].pc \in {"validate_tree", "couple"},
         Enter(t), UNCHANGED <<nodes, root, treeVer, entries, known, wins>>,
         NEW c, c = th[t].child, c \in DOMAIN nodes,
         th[t].childVer = nodes[c].ver => OnPath(t, c, span, level) /\ Reaches(t, c, span, level)
  PROVE  IInv(span, level)'
<1>1. /\ TypeOK /\ th \in [Threads -> Locals] /\ th[t] \in Locals /\ SeesTree(t) /\ Calls(t)
      /\ Len(nodes) \in Nat /\ DOMAIN nodes = 1 .. Len(nodes)
  BY Start, NodeFacts
<1>2. th[t].childVer <= nodes[c].ver /\ ~IsLocked(th[t].childVer)  BY <1>1 DEF SeesTree
<1>3. th[t].op \in {"lookup", "insert"} /\ nodes[c].leaf \in BOOLEAN /\ th[t].childVer \in Nat
  BY <1>1, NodeFacts, ThreadFacts DEF Calls
<1>4. PICK pc : pc = IF nodes[c].leaf /\ th[t].op = "insert" THEN "upgrade" ELSE "read_count"  OBVIOUS
<1>5. PICK r : r = [th[t] EXCEPT !.pc = pc, !.node = c, !.ver = th[t].childVer, !.child = Null, !.childVer = 0]
  OBVIOUS
<1>6. /\ r \in Locals /\ r.pc = pc /\ r.ver = th[t].childVer /\ r.node = c /\ r.grow = th[t].grow
      /\ r.op = th[t].op /\ r.key = th[t].key /\ r.before = th[t].before
  <2>1. pc \in Places  BY <1>4 DEF Places, Entered, InLeaf
  <2>2. c \in 0 .. Len(nodes) /\ Null \in 0 .. Len(nodes) /\ 0 \in Nat  BY <1>1 DEF Null
  <2>3. th[t] \in Locals /\ th[t].childVer \in Nat  BY <1>1, <1>3
  <2> QED  BY <1>5, <2>1, <2>2, <2>3 DEF Locals
<1>7. th' = [th EXCEPT ![t] = r] /\ th'[t] = r  BY <1>1, <1>4, <1>5 DEF Enter, Set
<1>8. SeesTree(t)'  BY <1>4, <1>6, <1>7 DEF SeesTree, AtTree
<1>9. r.pc \in Entered /\ r.pc \notin Coupling /\ r.pc \notin {"pick", "search", "read_value", "validate_leaf"}
  BY <1>4, <1>6 DEF Entered, Coupling, InLeaf
<1>10. r.ver = nodes[c].ver => OnPath(t, c, span, level)'
  BY <1>6, <1>7 DEF OnPath
<1>11. SeesNode(t, span, level)'
  <2>1. r.pc \in InLeaf => nodes[c].leaf  BY <1>4, <1>6 DEF InLeaf
  <2>2. /\ r.pc # "read_child" /\ r.pc # "snapshot_child" /\ r.pc # "couple"
        /\ r.pc \notin {"snapshot_child", "couple"} /\ r.pc \notin {"pick", "search"}
        /\ r.pc \notin {"pick"} \union Coupling /\ r.pc # "read_value" /\ r.pc # "validate_leaf"
    BY <1>4, <1>6 DEF Coupling
  <2>3. Valid(t)' => OnPath(t, c, span, level)'  BY <1>6, <1>7, <1>10 DEF Valid
  <2> QED  BY <1>2, <1>6, <1>7, <2>1, <2>2, <2>3 DEF SeesNode
<1>12. th[t].pc \in Free \ {"count_entry"} /\ th[t].pc \notin Outside
  BY DEF Free, Outside, AtTree, Entered, Coupling
<1>13. r.pc = "read_count" /\ nodes[r.node].leaf => r.op = "lookup"  BY <1>3, <1>4, <1>6
<1>14. r.pc = "upgrade" => r.op = "insert"  BY <1>4, <1>6
<1>15. \A n \in DOMAIN nodes : r.pc \in Entered /\ r.node = n /\ r.ver = nodes[n].ver => Reaches(t, n, span, level)
  BY <1>6
<1> QED  BY <1>6, <1>7, <1>8, <1>9, <1>11, <1>12, <1>13, <1>14, <1>15, ReaderStep

\* Validating the tree's snapshot enters the root, or restarts.
LEMMA ValidateTreeStep ==
  ASSUME NEW span, NEW level, NEW t \in Threads, IInv(span, level), ValidateTree(t)
  PROVE  IInv(span, level)'
<1>1. TypeOK /\ SeesTree(t) /\ Calls(t) /\ Locks /\ Spans(span, level)  BY Start, Basics
<1>2. th[t].pc = "validate_tree"  BY DEF ValidateTree, At
<1>3. UNCHANGED <<nodes, root, treeVer, entries, known, wins>>  BY DEF ValidateTree
<1>4. CASE treeVer # th[t].ver
  <2>1. th[t].pc \in Free \ {"count_entry"} /\ th[t].pc # "idle"  BY <1>2 DEF Free, AtTree
  <2>2. Again(t, "snapshot_tree")  BY <1>4 DEF ValidateTree, Restart
  <2> QED  BY <1>3, <2>1, <2>2, RestartStep
<1>5. CASE treeVer = th[t].ver
  <2>0. PICK c : c = th[t].child  OBVIOUS
  <2>1. c \in DOMAIN nodes /\ c = root /\ ~IsLocked(treeVer)
    BY <1>1, <1>2, <1>5, <2>0 DEF SeesTree, AtTree
  <2>2. ~Reduced
    <3>1. \A u \in Threads : Reduces(u) => HoldsTree(u)  BY DEF Reduces, HoldsTree, TreeHeld, Splitting
    <3>2. \A u \in Threads : HoldsTree(u) => IsLocked(treeVer)  BY <1>1 DEF Locks
    <3> QED  BY <2>1, <3>1, <3>2 DEF Reduced, Reduces
  <2>3. root # Null /\ level[root] \in Nat  BY <2>1, Basics
  <2>4. span[c] = Keys  BY <1>1, <2>1, <2>2, <2>3 DEF Spans
  <2>5. th[t].key \in Keys  BY <1>1, <1>2 DEF Calls
  <2>6. OnPath(t, c, span, level) /\ Reaches(t, c, span, level)
    BY <2>1, <2>3, <2>4, <2>5 DEF OnPath, Reaches
  <2>7. Enter(t)  BY <1>5 DEF ValidateTree
  <2> QED  BY <1>2, <1>3, <2>0, <2>1, <2>6, <2>7, EnterStep
<1> QED  BY <1>4, <1>5

\* The parent is validated after the child's snapshot: then the child was the
\* one that the key belongs to when the snapshot was taken.
LEMMA CoupleStep ==
  ASSUME NEW span, NEW level, NEW t \in Threads, IInv(span, level), Couple(t)
  PROVE  IInv(span, level)'
<1>1. TypeOK /\ SeesTree(t) /\ SeesNode(t, span, level)  BY Start
<1>2. th[t].pc = "couple" /\ th[t].pc \in Entered  BY DEF Couple, At, Entered, Coupling
<1>3. UNCHANGED <<nodes, root, treeVer, entries, known, wins>>  BY DEF Couple
<1>4. CASE nodes[th[t].node].ver # th[t].ver
  <2>1. th[t].pc \in Free \ {"count_entry"} /\ th[t].pc # "idle"  BY <1>2 DEF Free
  <2>2. Again(t, "snapshot_tree")  BY <1>4 DEF Couple, Restart
  <2> QED  BY <1>3, <2>1, <2>2, RestartStep
<1>5. CASE nodes[th[t].node].ver = th[t].ver
  <2>0. PICK c, p : c = th[t].child /\ p = th[t].node  OBVIOUS
  <2>1. c \in DOMAIN nodes /\ p \in DOMAIN nodes /\ ~IsLocked(nodes[p].ver) /\ ~nodes[p].leaf
    BY <1>1, <1>2, <1>5, <2>0 DEF SeesNode, Coupling
  <2>2. Valid(t)  BY <1>2, <1>5 DEF Valid
  <2>3. OnPath(t, p, span, level) /\ c = NextNode(t)  BY <1>1, <1>2, <2>0, <2>2 DEF SeesNode
  <2>4. NodeOK(p, span, level)  BY <2>1, <2>3, UnlockedOK DEF OnPath
  <2>5. PICK i : i = ChildIndex(nodes[p].keys, nodes[p].count, th[t].key)  OBVIOUS
  <2>6. /\ th[t].key \in Int /\ nodes[p].count \in 0 .. Fanout
        /\ InnerOK(nodes[p].keys, nodes[p].kids, nodes[p].count, span[p], level[p], span, level)
    BY <1>1, <2>1, <2>4, ThreadFacts, NodeFacts DEF NodeOK
  <2>7. c = nodes[p].kids[i]  BY <2>0, <2>3, <2>5 DEF NextNode
  <2>8. level[c] = level[p] - 1 /\ th[t].key \in span[c] /\ span[c] \subseteq span[p]
    BY <2>1, <2>3, <2>5, <2>6, <2>7, InnerPick DEF OnPath
  <2>9. level[p] <= level[root] /\ level[p] \in Nat /\ level[c] \in Nat /\ level[root] \in Nat
    <3>1. root \in DOMAIN nodes  BY <2>1, Basics
    <3> QED  BY <2>1, <2>3, <3>1, Basics DEF OnPath
  <2>10. OnPath(t, c, span, level)  BY <2>1, <2>8, <2>9 DEF OnPath
  <2>11. Reaches(t, c, span, level)  BY <2>1, <2>8, <2>9 DEF Reaches
  <2>12. Enter(t)  BY <1>5 DEF Couple
  <2> QED  BY <1>2, <1>3, <2>0, <2>1, <2>10, <2>11, <2>12, EnterStep
<1> QED  BY <1>4, <1>5

\* A step of a reader that stays in its node, in a record r of what it has seen.
LEMMA NodeStep ==
  ASSUME NEW span, NEW level, NEW t \in Threads, NEW r, NEW n, IInv(span, level),
         th[t].pc \in Entered, n = th[t].node, UNCHANGED <<nodes, root, treeVer, entries, known, wins>>,
         th' = [th EXCEPT ![t] = r], r \in Locals, r.pc \in Entered, r.node = n, r.ver = th[t].ver,
         r.grow = th[t].grow, r.op = th[t].op, r.key = th[t].key, r.before = th[t].before,
         r.pc \notin {"upgrade", "read_count"}, r.pc \in {"search", "read_value", "validate_leaf"} => r.op = "lookup",
         r.pc \in InLeaf => nodes[n].leaf,
         r.pc \in {"pick"} \union Coupling => ~nodes[n].leaf,
         r.pc = "read_child" => r.slot \in 0 .. Fanout,
         r.pc \in {"snapshot_child", "couple"} => r.child \in DOMAIN nodes,
         r.pc = "couple" => r.childVer <= nodes[r.child].ver /\ ~IsLocked(r.childVer),
         r.pc = "read_value" => r.slot \in 0 .. Fanout - 1,
         Valid(t) =>
           /\ r.pc \in {"pick", "search"} => r.count = nodes[n].count
           /\ r.pc = "read_child" => r.slot = ChildIndex(nodes[n].keys, nodes[n].count, r.key)
           /\ r.pc \in {"snapshot_child", "couple"} =>
                r.child = nodes[n].kids[ChildIndex(nodes[n].keys, nodes[n].count, r.key)]
           /\ r.pc = "read_value" => r.slot < nodes[n].count /\ nodes[n].keys[r.slot] = r.key
           /\ r.pc = "validate_leaf" =>
                IF r.slot >= 0 THEN r.found \in wins /\ r.found.key = r.key
                ELSE \A i \in 0 .. nodes[n].count - 1 : nodes[n].keys[i] # r.key
  PROVE  IInv(span, level)'
<1>1. TypeOK /\ th \in [Threads -> Locals] /\ SeesTree(t) /\ SeesNode(t, span, level)  BY Start
<1>2. th'[t] = r  BY <1>1
<1>3. n \in DOMAIN nodes /\ th[t].ver <= nodes[n].ver /\ ~IsLocked(th[t].ver)  BY <1>1 DEF SeesNode
<1>4. r.pc \notin AtTree /\ r.pc # "validate_tree" /\ r.pc # "snapshot_root" /\ r.pc # "validate_empty"
  BY DEF AtTree, Entered, Coupling, InLeaf
<1>5. SeesTree(t)'  BY <1>2, <1>4 DEF SeesTree
<1>6. Valid(t)' <=> Valid(t)  BY <1>2 DEF Valid
<1>7. Valid(t) => OnPath(t, n, span, level)  BY <1>1 DEF SeesNode
<1>8. OnPath(t, n, span, level)' <=> OnPath(t, n, span, level)  BY <1>2 DEF OnPath
<1>9. NextNode(t)' = nodes[n].kids[ChildIndex(nodes[n].keys, nodes[n].count, r.key)]
  BY <1>2 DEF NextNode
<1>10. SeesNode(t, span, level)'
  <2>1. /\ n \in DOMAIN nodes' /\ r.ver <= nodes'[n].ver /\ ~IsLocked(r.ver) /\ th'[t].node = n
        /\ nodes'[n] = nodes[n]
    BY <1>2, <1>3
  <2> QED  BY <1>2, <1>6, <1>7, <1>8, <1>9, <2>1 DEF SeesNode
<1>11. th[t].pc \in Free \ {"count_entry"} /\ th[t].pc \notin Outside
  BY DEF Free, Outside, Entered, Coupling, InLeaf
<1>12. \A m \in DOMAIN nodes : r.pc \in Entered /\ r.node = m /\ r.ver = nodes[m].ver => Reaches(t, m, span, level)
  BY DEF Reaches, Valid
<1>13. r.pc # "upgrade" /\ r.pc # "read_count"  OBVIOUS
<1> QED  BY <1>5, <1>10, <1>11, <1>12, <1>13, ReaderStep

\* Reading the count of the node entered, and whether it is a leaf.
LEMMA ReadCountStep ==
  ASSUME NEW span, NEW level, NEW t \in Threads, IInv(span, level), ReadCount(t)
  PROVE  IInv(span, level)'
<1>1. TypeOK /\ th \in [Threads -> Locals] /\ SeesNode(t, span, level) /\ Calls(t) /\ th[t] \in Locals  BY Start
<1>2. th[t].pc = "read_count" /\ th[t].pc \in Entered  BY DEF ReadCount, At, Entered
<1>0. PICK n : n = th[t].node  OBVIOUS
<1>3. n \in DOMAIN nodes /\ nodes[n].count \in 0 .. Fanout /\ nodes[n].leaf \in BOOLEAN
  BY <1>0, <1>1, <1>2, NodeFacts DEF SeesNode
<1>4. PICK pc : pc = IF nodes[n].leaf THEN "search" ELSE "pick"  OBVIOUS
<1>5. PICK r : r = [th[t] EXCEPT !.pc = pc, !.count = nodes[n].count]  OBVIOUS
<1>6. /\ r \in Locals /\ r.pc = pc /\ r.node = n /\ r.ver = th[t].ver /\ r.grow = th[t].grow
      /\ r.op = th[t].op /\ r.key = th[t].key /\ r.before = th[t].before /\ r.count = nodes[n].count
  <2>1. pc \in Places  BY <1>4 DEF Places, Entered, InLeaf
  <2> QED  BY <1>0, <1>1, <1>3, <1>5, <2>1 DEF Locals
<1>7. th' = [th EXCEPT ![t] = r]  BY <1>0, <1>4, <1>5 DEF ReadCount, Set
<1>8. UNCHANGED <<nodes, root, treeVer, entries, known, wins>>  BY DEF ReadCount
<1>9. r.pc \in Entered /\ r.pc \in {"search", "pick"}  BY <1>4, <1>6 DEF Entered, InLeaf
<1>10. r.pc = "search" => nodes[n].leaf /\ r.op = "lookup"
  BY <1>0, <1>1, <1>2, <1>4, <1>6 DEF Calls
<1>11. r.pc = "pick" => ~nodes[n].leaf  BY <1>4, <1>6
<1>12. (r.pc \in InLeaf => r.pc = "search") /\ (r.pc \in {"pick"} \union Coupling => r.pc = "pick")
  BY <1>9 DEF InLeaf, Coupling
<1>13. /\ r.pc # "read_child" /\ r.pc # "couple" /\ r.pc # "read_value" /\ r.pc # "validate_leaf"
       /\ r.pc \notin {"snapshot_child", "couple"} /\ r.pc \notin {"upgrade", "read_count"}
       /\ (r.pc \in {"search", "read_value", "validate_leaf"} => r.pc = "search")
  BY <1>9
<1> QED  BY <1>0, <1>2, <1>6, <1>7, <1>8, <1>9, <1>10, <1>11, <1>12, <1>13, NodeStep

\* Choosing the child's slot among the keys read.
LEMMA PickSlotStep ==
  ASSUME NEW span, NEW level, NEW t \in Threads, IInv(span, level), PickSlot(t)
  PROVE  IInv(span, level)'
<1>1. TypeOK /\ th \in [Threads -> Locals] /\ SeesNode(t, span, level) /\ Calls(t) /\ th[t] \in Locals  BY Start
<1>2. th[t].pc = "pick" /\ th[t].pc \in Entered  BY DEF PickSlot, At, Entered
<1>0. PICK n : n = th[t].node  OBVIOUS
<1>3. n \in DOMAIN nodes /\ ~nodes[n].leaf /\ nodes[n].keys \in Arrays
  BY <1>0, <1>1, <1>2, NodeFacts DEF SeesNode
<1>4. PICK i : i = ChildIndex(nodes[n].keys, th[t].count, th[t].key)  OBVIOUS
<1>5. i \in 0 .. th[t].count /\ i \in 0 .. Fanout /\ i \in -1 .. Fanout
  <2>1. th[t].count \in 0 .. Fanout /\ th[t].key \in Int  BY <1>1, ThreadFacts
  <2>2. \A j \in 0 .. Fanout - 1 : nodes[n].keys[j] \in Int  BY <1>3 DEF Arrays
  <2>3. i \in 0 .. th[t].count  BY <1>4, <2>1, <2>2, ChildIndexFacts
  <2> QED  BY <2>1, <2>3, FanoutFacts
<1>6. PICK r : r = [th[t] EXCEPT !.pc = "read_child", !.slot = i]  OBVIOUS
<1>7. /\ r \in Locals /\ r.pc = "read_child" /\ r.node = n /\ r.ver = th[t].ver /\ r.grow = th[t].grow
      /\ r.op = th[t].op /\ r.key = th[t].key /\ r.before = th[t].before /\ r.slot = i
  <2>1. "read_child" \in Places  BY DEF Places, Entered, Coupling
  <2> QED  BY <1>0, <1>1, <1>5, <1>6, <2>1 DEF Locals
<1>8. th' = [th EXCEPT ![t] = r]  BY <1>0, <1>4, <1>6 DEF PickSlot, Set
<1>9. UNCHANGED <<nodes, root, treeVer, entries, known, wins>>  BY DEF PickSlot
<1>10. r.pc \in Entered  BY <1>7 DEF Entered, Coupling
<1>11. Valid(t) => i = ChildIndex(nodes[n].keys, nodes[n].count, th[t].key)
  BY <1>0, <1>1, <1>2, <1>4 DEF SeesNode
<1>12. r.pc \notin InLeaf  BY <1>7 DEF InLeaf
<1> QED  BY <1>0, <1>2, <1>3, <1>5, <1>7, <1>8, <1>9, <1>10, <1>11, <1>12, NodeStep

\* The code restarts, defensively, should the child be missing.
LEMMA ReadChildStep ==
  ASSUME NEW span, NEW level, NEW t \in Threads, IInv(span, level), ReadChild(t)
  PROVE  IInv(span, level)'
<1>1. /\ TypeOK /\ th \in [Threads -> Locals] /\ SeesNode(t, span, level) /\ Calls(t) /\ th[t] \in Locals
      /\ Len(nodes) \in Nat /\ DOMAIN nodes = 1 .. Len(nodes)
  BY Start, NodeFacts
<1>2. th[t].pc = "read_child" /\ th[t].pc \in Entered  BY DEF ReadChild, At, Entered, Coupling
<1>0. PICK n, c : n = th[t].node /\ c = nodes[n].kids[th[t].slot]  OBVIOUS
<1>3. /\ n \in DOMAIN nodes /\ ~nodes[n].leaf /\ th[t].slot \in 0 .. Fanout
      /\ nodes[n].kids \in [0 .. Fanout -> 0 .. Len(nodes)]
  BY <1>0, <1>1, <1>2, NodeFacts DEF SeesNode, Coupling
<1>4. UNCHANGED <<nodes, root, treeVer, entries, known, wins>>  BY DEF ReadChild
<1>5. CASE c = Null
  <2>1. th[t].pc \in Free \ {"count_entry"} /\ th[t].pc # "idle"  BY <1>2 DEF Free
  <2>2. Again(t, "snapshot_tree")  BY <1>0, <1>5 DEF ReadChild, Restart
  <2> QED  BY <1>4, <2>1, <2>2, RestartStep
<1>6. CASE c # Null
  <2>1. PICK r : r = [th[t] EXCEPT !.pc = "snapshot_child", !.child = c, !.count = 0, !.slot = 0]  OBVIOUS
  <2>2. c \in DOMAIN nodes /\ c \in 0 .. Len(nodes)
    <3>1. c \in 0 .. Len(nodes)  BY <1>0, <1>3
    <3> QED  BY <1>1, <1>6, <3>1 DEF Null
  <2>3. /\ r \in Locals /\ r.pc = "snapshot_child" /\ r.node = n /\ r.ver = th[t].ver /\ r.grow = th[t].grow
        /\ r.op = th[t].op /\ r.key = th[t].key /\ r.before = th[t].before /\ r.child = c
    <3>1. "snapshot_child" \in Places  BY DEF Places, Entered, Coupling
    <3>2. 0 \in 0 .. Fanout /\ 0 \in -1 .. Fanout  BY FanoutFacts
    <3> QED  BY <1>0, <1>1, <2>1, <2>2, <3>1, <3>2 DEF Locals
  <2>4. th' = [th EXCEPT ![t] = r]  BY <1>0, <1>6, <2>1 DEF ReadChild, Set
  <2>5. r.pc \in Entered  BY <2>3 DEF Entered, Coupling
  <2>6. Valid(t) => c = nodes[n].kids[ChildIndex(nodes[n].keys, nodes[n].count, th[t].key)]
    BY <1>0, <1>1, <1>2 DEF SeesNode
  <2>7. r.pc \notin InLeaf  BY <2>3 DEF InLeaf
  <2> QED  BY <1>0, <1>2, <1>3, <1>4, <2>2, <2>3, <2>4, <2>5, <2>6, <2>7, NodeStep
<1> QED  BY <1>5, <1>6

\* snapshot() of the child's lock.
LEMMA SnapshotChildStep ==
  ASSUME NEW span, NEW level, NEW t \in Threads, IInv(span, level), SnapshotChild(t)
  PROVE  IInv(span, level)'
<1>1. TypeOK /\ th \in [Threads -> Locals] /\ SeesNode(t, span, level) /\ th[t] \in Locals  BY Start
<1>2. th[t].pc = "snapshot_child" /\ th[t].pc \in Entered  BY DEF SnapshotChild, At, Entered, Coupling
<1>0. PICK n, c : n = th[t].node /\ c = th[t].child  OBVIOUS
<1>3. /\ n \in DOMAIN nodes /\ ~nodes[n].leaf /\ c \in DOMAIN nodes
      /\ nodes[c].ver \in Nat /\ ~IsLocked(nodes[c].ver)
  BY <1>0, <1>1, <1>2, NodeFacts DEF SeesNode, Coupling, SnapshotChild, ReadBegin
<1>4. PICK r : r = [th[t] EXCEPT !.pc = "couple", !.childVer = nodes[c].ver]  OBVIOUS
<1>5. /\ r \in Locals /\ r.pc = "couple" /\ r.node = n /\ r.ver = th[t].ver /\ r.grow = th[t].grow
      /\ r.op = th[t].op /\ r.key = th[t].key /\ r.before = th[t].before
      /\ r.child = c /\ r.childVer = nodes[c].ver
  <2>1. "couple" \in Places  BY DEF Places, Entered, Coupling
  <2> QED  BY <1>0, <1>1, <1>3, <1>4, <2>1 DEF Locals
<1>6. th' = [th EXCEPT ![t] = r]  BY <1>0, <1>4 DEF SnapshotChild, Set
<1>7. UNCHANGED <<nodes, root, treeVer, entries, known, wins>>  BY DEF SnapshotChild
<1>8. r.pc \in Entered  BY <1>5 DEF Entered, Coupling
<1>9. Valid(t) => c = nodes[n].kids[ChildIndex(nodes[n].keys, nodes[n].count, th[t].key)]
  BY <1>0, <1>1, <1>2 DEF SeesNode, NextNode
<1>10. r.pc \notin InLeaf  BY <1>5 DEF InLeaf
<1>11. r.childVer <= nodes[r.child].ver  BY <1>3, <1>5
<1> QED  BY <1>0, <1>2, <1>3, <1>5, <1>6, <1>7, <1>8, <1>9, <1>10, <1>11, NodeStep

\* A leaf of which the snapshot stands holds what it is responsible for.
LEMMA ValidLeaf ==
  ASSUME NEW span, NEW level, NEW t \in Threads, IInv(span, level), th[t].pc \in InLeaf, Valid(t),
         NEW n, n = th[t].node
  PROVE  /\ n \in DOMAIN nodes /\ th[t].key \in span[n]
         /\ LeafOK(nodes[n].keys, nodes[n].values, nodes[n].count, span[n], wins)
<1>1. SeesNode(t, span, level)  BY Start
<1>2. n \in DOMAIN nodes /\ ~IsLocked(nodes[n].ver) /\ nodes[n].leaf /\ OnPath(t, n, span, level)
  BY <1>1 DEF SeesNode, Valid
<1>3. NodeOK(n, span, level)  BY <1>2, UnlockedOK DEF OnPath
<1> QED  BY <1>2, <1>3 DEF NodeOK, OnPath

\* The locals of a thread that returns.
LEMMA ReturnFacts ==
  ASSUME TypeOK, NEW t \in Threads, NEW r,
         \/ r = [Afresh(th[t], "returned") EXCEPT !.answer = TRUE, !.found = th[t].found]
         \/ r = [Afresh(th[t], "returned") EXCEPT !.answer = FALSE, !.found = th[t].found]
  PROVE  /\ r \in Locals /\ r.pc = "returned" /\ r.grow = FALSE
         /\ r.op = th[t].op /\ r.key = th[t].key /\ r.before = th[t].before /\ r.found = th[t].found
         /\ r = [Afresh(th[t], "returned") EXCEPT !.answer = TRUE, !.found = th[t].found] => r.answer
         /\ r = [Afresh(th[t], "returned") EXCEPT !.answer = FALSE, !.found = th[t].found] => ~r.answer
<1> DEFINE a == Afresh(th[t], "returned")
<1>1. /\ a \in Locals /\ a.pc = "returned" /\ a.grow = FALSE
      /\ a.op = th[t].op /\ a.key = th[t].key /\ a.before = th[t].before
  BY AfreshFacts DEF Places, Outside
<1>2. th[t].found \in Entry  BY ThreadFacts
<1> HIDE DEF a
<1>3. \/ r = [a EXCEPT !.answer = TRUE, !.found = th[t].found]
      \/ r = [a EXCEPT !.answer = FALSE, !.found = th[t].found]
  BY DEF a
<1>4. /\ r \in Locals /\ r.pc = "returned" /\ r.grow = FALSE
      /\ r.op = th[t].op /\ r.key = th[t].key /\ r.before = th[t].before /\ r.found = th[t].found
      /\ r = [a EXCEPT !.answer = TRUE, !.found = th[t].found] => r.answer = TRUE
      /\ r = [a EXCEPT !.answer = FALSE, !.found = th[t].found] => r.answer = FALSE
  <2>1. CASE r = [a EXCEPT !.answer = TRUE, !.found = th[t].found]
    <3>1. /\ r \in Locals /\ r.pc = "returned" /\ r.grow = FALSE /\ r.op = th[t].op /\ r.key = th[t].key
          /\ r.before = th[t].before /\ r.found = th[t].found /\ r.answer = TRUE
      BY <1>1, <1>2, <2>1 DEF Locals
    <3>2. [a EXCEPT !.answer = FALSE, !.found = th[t].found].answer = FALSE  BY <1>1 DEF Locals
    <3> QED  BY <2>1, <3>1, <3>2
  <2>2. CASE r = [a EXCEPT !.answer = FALSE, !.found = th[t].found]
    <3>1. /\ r \in Locals /\ r.pc = "returned" /\ r.grow = FALSE /\ r.op = th[t].op /\ r.key = th[t].key
          /\ r.before = th[t].before /\ r.found = th[t].found /\ r.answer = FALSE
      BY <1>1, <1>2, <2>2 DEF Locals
    <3>2. [a EXCEPT !.answer = TRUE, !.found = th[t].found].answer = TRUE  BY <1>1 DEF Locals
    <3> QED  BY <2>2, <3>1, <3>2
  <2> QED  BY <1>3, <2>1, <2>2
<1> QED  BY <1>4 DEF a

\* A lookup scans the keys of its leaf.
LEMMA SearchStep ==
  ASSUME NEW span, NEW level, NEW t \in Threads, IInv(span, level), Search(t)
  PROVE  IInv(span, level)'
<1>1. TypeOK /\ th \in [Threads -> Locals] /\ SeesNode(t, span, level) /\ Calls(t) /\ th[t] \in Locals  BY Start
<1>2. th[t].pc = "search" /\ th[t].pc \in Entered /\ th[t].pc \in InLeaf  BY DEF Search, At, Entered, InLeaf
<1>0. PICK n : n = th[t].node  OBVIOUS
<1>3. n \in DOMAIN nodes /\ nodes[n].leaf /\ nodes[n].keys \in Arrays
  BY <1>0, <1>1, <1>2, NodeFacts DEF SeesNode
<1>4. PICK slot : slot = LeafSlot(nodes[n].keys, th[t].count, th[t].key)  OBVIOUS
<1>5. PICK pc : pc = IF slot < 0 THEN "validate_leaf" ELSE "read_value"  OBVIOUS
<1>6. /\ th[t].count \in 0 .. Fanout /\ slot \in -1 .. th[t].count - 1
      /\ slot >= 0 => nodes[n].keys[slot] = th[t].key
      /\ slot < 0 /\ Ascending(nodes[n].keys, th[t].count) =>
           \A i \in 0 .. th[t].count - 1 : nodes[n].keys[i] # th[t].key
  <2>1. th[t].count \in 0 .. Fanout /\ th[t].key \in Int  BY <1>1, ThreadFacts
  <2>2. \A j \in 0 .. Fanout - 1 : nodes[n].keys[j] \in Int  BY <1>3 DEF Arrays
  <2> QED  BY <1>4, <2>1, <2>2, LeafSlotFacts
<1>7. slot \in -1 .. Fanout /\ (slot >= 0 => slot \in 0 .. Fanout - 1) /\ 0 \in 0 .. Fanout /\ ~(slot >= 0 /\ slot < 0)
  BY <1>6, FanoutFacts
<1>8. PICK r : r = [th[t] EXCEPT !.pc = pc, !.slot = slot, !.count = 0]  OBVIOUS
<1>9. /\ r \in Locals /\ r.pc = pc /\ r.node = n /\ r.ver = th[t].ver /\ r.grow = th[t].grow
      /\ r.op = th[t].op /\ r.key = th[t].key /\ r.before = th[t].before /\ r.slot = slot
  <2>1. pc \in Places  BY <1>5 DEF Places, Entered, InLeaf
  <2> QED  BY <1>0, <1>1, <1>7, <1>8, <2>1 DEF Locals
<1>10. th' = [th EXCEPT ![t] = r]  BY <1>0, <1>4, <1>5, <1>8 DEF Search, Set
<1>11. UNCHANGED <<nodes, root, treeVer, entries, known, wins>>  BY DEF Search
<1>12. r.pc \in {"validate_leaf", "read_value"} /\ r.pc \in Entered  BY <1>5, <1>9 DEF Entered, InLeaf
<1>13. (r.pc = "read_value" => slot >= 0) /\ (r.pc = "validate_leaf" => slot < 0)
  BY <1>5, <1>6, <1>9, FanoutFacts
<1>14. r.pc \notin {"pick"} \union Coupling /\ r.op = "lookup"
  BY <1>1, <1>2, <1>9, <1>12 DEF Coupling, Calls
<1>15. /\ r.pc # "read_child" /\ r.pc # "couple" /\ r.pc \notin {"pick", "search"}
       /\ r.pc \notin {"snapshot_child", "couple"} /\ r.pc \notin {"upgrade", "read_count"}
  BY <1>12
<1>16. ASSUME Valid(t)
       PROVE  /\ r.pc = "read_value" => r.slot < nodes[n].count /\ nodes[n].keys[r.slot] = r.key
              /\ r.pc = "validate_leaf" =>
                   IF r.slot >= 0 THEN r.found \in wins /\ r.found.key = r.key
                   ELSE \A i \in 0 .. nodes[n].count - 1 : nodes[n].keys[i] # r.key
  <2>1. th[t].count = nodes[n].count  BY <1>0, <1>1, <1>2, <1>16 DEF SeesNode
  <2>2. Ascending(nodes[n].keys, nodes[n].count)  BY <1>0, <1>2, <1>16, ValidLeaf DEF LeafOK
  <2>3. slot < nodes[n].count  BY <1>6, <2>1, FanoutFacts
  <2> QED  BY <1>6, <1>7, <1>9, <1>13, <2>1, <2>2, <2>3
<1>17. r.pc = "read_value" => r.slot \in 0 .. Fanout - 1  BY <1>7, <1>9, <1>13
<1> QED  BY <1>0, <1>2, <1>3, <1>9, <1>10, <1>11, <1>12, <1>14, <1>15, <1>16, <1>17, NodeStep

\* It reads the value in the slot found.
LEMMA ReadValueStep ==
  ASSUME NEW span, NEW level, NEW t \in Threads, IInv(span, level), ReadValue(t)
  PROVE  IInv(span, level)'
<1>1. TypeOK /\ th \in [Threads -> Locals] /\ SeesNode(t, span, level) /\ Calls(t) /\ th[t] \in Locals  BY Start
<1>2. th[t].pc = "read_value" /\ th[t].pc \in Entered /\ th[t].pc \in InLeaf
  BY DEF ReadValue, At, Entered, InLeaf
<1>0. PICK n, i : n = th[t].node /\ i = th[t].slot  OBVIOUS
<1>3. n \in DOMAIN nodes /\ nodes[n].leaf /\ i \in 0 .. Fanout - 1 /\ nodes[n].values[i] \in Entry
  <2>1. n \in DOMAIN nodes /\ nodes[n].leaf /\ i \in 0 .. Fanout - 1  BY <1>0, <1>1, <1>2 DEF SeesNode
  <2>2. nodes[n].values \in [0 .. Fanout - 1 -> Entry]  BY <1>1, <2>1, NodeFacts
  <2> QED  BY <2>1, <2>2
<1>4. PICK e : e = nodes[n].values[i]  OBVIOUS
<1>5. PICK r : r = [th[t] EXCEPT !.pc = "validate_leaf", !.found = e]  OBVIOUS
<1>6. /\ r \in Locals /\ r.pc = "validate_leaf" /\ r.node = n /\ r.ver = th[t].ver /\ r.grow = th[t].grow
      /\ r.op = th[t].op /\ r.key = th[t].key /\ r.before = th[t].before /\ r.slot = i /\ r.found = e
  <2>1. "validate_leaf" \in Places  BY DEF Places, Entered, InLeaf
  <2> QED  BY <1>0, <1>1, <1>3, <1>4, <1>5, <2>1 DEF Locals
<1>7. th' = [th EXCEPT ![t] = r]  BY <1>0, <1>4, <1>5 DEF ReadValue, Set
<1>8. UNCHANGED <<nodes, root, treeVer, entries, known, wins>>  BY DEF ReadValue
<1>9. r.pc \in Entered  BY <1>6 DEF Entered, InLeaf
<1>10. r.pc \notin {"pick"} \union Coupling /\ r.op = "lookup"
  BY <1>1, <1>2, <1>6 DEF Coupling, Calls
<1>11. /\ r.pc # "read_child" /\ r.pc # "couple" /\ r.pc # "read_value" /\ r.pc \notin {"pick", "search"}
       /\ r.pc \notin {"snapshot_child", "couple"} /\ r.pc \notin {"upgrade", "read_count"}
  BY <1>6
<1>12. ASSUME Valid(t)
       PROVE  r.slot >= 0 /\ r.found \in wins /\ r.found.key = r.key
  <2>1. i < nodes[n].count /\ nodes[n].keys[i] = th[t].key  BY <1>0, <1>1, <1>2, <1>12 DEF SeesNode
  <2>2. nodes[n].count \in 0 .. Fanout  BY <1>1, <1>3, NodeFacts
  <2>3. i \in 0 .. nodes[n].count - 1 /\ i >= 0  BY <1>3, <2>1, <2>2, FanoutFacts
  <2>4. LeafOK(nodes[n].keys, nodes[n].values, nodes[n].count, span[n], wins)
    BY <1>0, <1>2, <1>12, ValidLeaf
  <2>5. e \in wins /\ e.key = nodes[n].keys[i]  BY <1>4, <2>3, <2>4 DEF LeafOK
  <2> QED  BY <1>6, <2>1, <2>3, <2>5
<1> QED  BY <1>0, <1>2, <1>3, <1>6, <1>7, <1>8, <1>9, <1>10, <1>11, <1>12, NodeStep

\* While the snapshot stands, what was read was so in one moment; a key that is
\* not in its leaf is nowhere.
LEMMA ValidateLeafStep ==
  ASSUME NEW span, NEW level, NEW t \in Threads, IInv(span, level), ValidateLeaf(t)
  PROVE  IInv(span, level)'
<1>1. /\ TypeOK /\ th \in [Threads -> Locals] /\ SeesNode(t, span, level) /\ Calls(t) /\ th[t] \in Locals
      /\ History /\ known \in SUBSET Int
  BY Start
<1>2. th[t].pc = "validate_leaf" /\ th[t].pc \in Entered /\ th[t].pc \in InLeaf
  BY DEF ValidateLeaf, At, Entered, InLeaf
<1>3. UNCHANGED <<nodes, root, treeVer, entries, wins>>  BY DEF ValidateLeaf
<1>4. th[t].pc \in Free \ {"count_entry"} /\ th[t].pc # "idle"  BY <1>2 DEF Free
<1>0. PICK n : n = th[t].node  OBVIOUS
<1> DEFINE hit == th[t].slot >= 0
<1>5. CASE nodes[n].ver # th[t].ver
  <2>1. Again(t, "snapshot_tree") /\ known' = known  BY <1>0, <1>5 DEF ValidateLeaf, Restart
  <2> QED  BY <1>3, <1>4, <2>1, RestartStep
<1>6. CASE nodes[n].ver = th[t].ver
  <2>1. Valid(t)  BY <1>0, <1>2, <1>6 DEF Valid
  <2>2. Return(t, hit) /\ known' = known \union (IF hit THEN {th[t].key} ELSE {})
    BY <1>0, <1>6 DEF ValidateLeaf
  <2>3. PICK r : r = [Afresh(th[t], "returned") EXCEPT !.answer = hit, !.found = th[t].found]  OBVIOUS
  <2>15. hit \in BOOLEAN  OBVIOUS
  <2>16. (hit => th[t].slot >= 0) /\ (~hit => ~(th[t].slot >= 0))  OBVIOUS
  <2> HIDE DEF hit
  <2>4. /\ r \in Locals /\ r.pc = "returned" /\ r.grow = FALSE /\ (r.answer <=> hit)
        /\ r.op = th[t].op /\ r.key = th[t].key /\ r.before = th[t].before /\ r.found = th[t].found
    <3>1. CASE hit
      <4>1. hit = TRUE  BY <3>1
      <4>2. r = [Afresh(th[t], "returned") EXCEPT !.answer = TRUE, !.found = th[t].found]  BY <2>3, <4>1
      <4> QED  BY <1>1, <4>1, <4>2, ReturnFacts
    <3>2. CASE ~hit
      <4>1. hit = FALSE  BY <2>15, <3>2
      <4>2. r = [Afresh(th[t], "returned") EXCEPT !.answer = FALSE, !.found = th[t].found]  BY <2>3, <4>1
      <4> QED  BY <1>1, <4>1, <4>2, ReturnFacts
    <3> QED  BY <3>1, <3>2
  <2>5. th' = [th EXCEPT ![t] = r] /\ th'[t] = r  BY <1>1, <2>2, <2>3 DEF Return, Set
  <2>6. hit => th[t].found \in wins /\ th[t].found.key = th[t].key
    BY <1>0, <1>1, <1>2, <2>1, <2>16 DEF SeesNode
  <2>7. ~hit => th[t].key \notin th[t].before
    <3> SUFFICES ASSUME ~hit, th[t].key \in th[t].before PROVE FALSE  OBVIOUS
    <3>1. \A i \in 0 .. nodes[n].count - 1 : nodes[n].keys[i] # th[t].key
      BY <1>0, <1>1, <1>2, <2>1, <2>16 DEF SeesNode
    <3>2. PICK w \in wins : w.key = th[t].key  BY <1>1 DEF Calls, History
    <3>3. LeafOK(nodes[n].keys, nodes[n].values, nodes[n].count, span[n], wins) /\ th[t].key \in span[n]
      BY <1>0, <1>2, <2>1, ValidLeaf
    <3>4. PICK i \in 0 .. nodes[n].count - 1 : nodes[n].values[i] = w  BY <3>2, <3>3 DEF LeafOK
    <3>5. nodes[n].values[i].key = nodes[n].keys[i]  BY <3>3, <3>4 DEF LeafOK
    <3> QED  BY <3>1, <3>2, <3>4, <3>5
  <2>8. History' /\ known \subseteq known' /\ known' \in SUBSET Int
    <3>1. CASE hit
      <4>1. known' = known \union {th[t].key} /\ th[t].key \in Int  BY <1>1, <2>2, <3>1, ThreadFacts
      <4>2. \E w \in wins : w.key = th[t].key  BY <2>6, <3>1
      <4> QED  BY <1>1, <1>3, <4>1, <4>2, HistoryKnown
    <3>2. CASE ~hit
      <4>1. known' = known  BY <2>2, <3>2
      <4> QED  BY <1>1, <1>3, <4>1, HistorySame
    <3> QED  BY <3>1, <3>2
  <2>9. r.pc \notin Entered  BY <2>4 DEF Entered, Coupling, InLeaf
  <2>10. SeesTree(t)'  BY <2>4, <2>5 DEF SeesTree, AtTree
  <2>11. SeesNode(t, span, level)'  BY <2>5, <2>9 DEF SeesNode, Entered, Coupling, InLeaf, Valid
  <2>12. th[t].op = "lookup" /\ th[t].key \in Keys /\ th[t].before \subseteq known'
    BY <1>1, <1>2, <2>8 DEF Calls
  <2>13. Calls(t)'  BY <1>3, <2>4, <2>5, <2>6, <2>7, <2>12 DEF Calls, LeafHeld, Moving
  <2>14. r.pc \in Free \ {"count_entry"} /\ r.pc # "lock_tree"  BY <2>4 DEF Free, Outside
  <2> QED  BY <1>1, <1>3, <1>4, <2>4, <2>5, <2>8, <2>9, <2>10, <2>11, <2>13, <2>14, FreeStep
<1> QED  BY <1>5, <1>6

----------------------------------------------------------------------------
(* The threads that hold locks.                                             *)

\* What a step has to show for the types.
LEMMA TypeStep ==
  ASSUME NEW t \in Threads, NEW r, TypeOK, nodes' \in Seq(Node(Len(nodes'))), Len(nodes) <= Len(nodes'),
         root' \in 0 .. Len(nodes'), treeVer' \in Nat, entries' \in Int, known' \in SUBSET Int,
         wins' \in SUBSET Entry, r \in Locals', th' = [th EXCEPT ![t] = r]
  PROVE  TypeOK' /\ th'[t] = r /\ Others(t)
<1>1. Len(nodes') \in Nat
  <2> DEFINE S == Node(Len(nodes'))
  <2> HIDE DEF S
  <2>1. nodes' \in Seq(S)  BY DEF S
  <2> QED  BY <2>1
<1>2. th' \in [Threads -> Locals]' /\ th'[t] = r /\ Others(t)  BY <1>1, ThreadStep
<1>3. wins' \in SUBSET Entry'  BY DEF Entry
<1> QED  BY <1>2, <1>3 DEF TypeOK, Node, Entry

\* One node changes.
LEMMA NodeSet ==
  ASSUME TypeOK, NEW m \in DOMAIN nodes, NEW x \in Node(Len(nodes)), nodes' = [nodes EXCEPT ![m] = x]
  PROVE  /\ nodes' \in Seq(Node(Len(nodes))) /\ nodes' \in Seq(Node(Len(nodes')))
         /\ Len(nodes') = Len(nodes) /\ DOMAIN nodes' = DOMAIN nodes
         /\ nodes'[m] = x /\ \A n \in DOMAIN nodes : n # m => nodes'[n] = nodes[n]
<1> DEFINE S == Node(Len(nodes))
<1>1. nodes \in Seq(S) /\ Len(nodes) \in Nat /\ DOMAIN nodes = 1 .. Len(nodes)  BY NodeFacts
<1>2. x \in S  OBVIOUS
<1> HIDE DEF S
<1>3. /\ nodes' \in Seq(S) /\ Len(nodes') = Len(nodes) /\ DOMAIN nodes' = DOMAIN nodes
      /\ nodes'[m] = x /\ \A n \in DOMAIN nodes : n # m => nodes'[n] = nodes[n]
  BY <1>1, <1>2
<1>4. Seq(Node(Len(nodes'))) = Seq(Node(Len(nodes)))  BY <1>3
<1> QED  BY <1>3, <1>4 DEF S

\* A lock operation on a node changes its version and nothing else.
LEMMA RaiseFacts ==
  ASSUME TypeOK, NEW m \in DOMAIN nodes, Raise(m)
  PROVE  /\ nodes' \in Seq(Node(Len(nodes))) /\ nodes' \in Seq(Node(Len(nodes')))
         /\ Len(nodes') = Len(nodes) /\ DOMAIN nodes' = DOMAIN nodes
         /\ \A n \in DOMAIN nodes : n # m => nodes'[n] = nodes[n]
         /\ nodes'[m].ver = nodes[m].ver + 2 /\ nodes[m].ver < nodes'[m].ver
         /\ (IsLocked(nodes'[m].ver) <=> ~IsLocked(nodes[m].ver))
         /\ nodes'[m].leaf = nodes[m].leaf /\ nodes'[m].count = nodes[m].count
         /\ nodes'[m].keys = nodes[m].keys /\ nodes'[m].values = nodes[m].values
         /\ nodes'[m].kids = nodes[m].kids /\ nodes'[m].next = nodes[m].next
<1>1. nodes[m] \in Node(Len(nodes)) /\ nodes[m].ver \in Nat  BY NodeFacts
<1>2. PICK x : x = [nodes[m] EXCEPT !.ver = Raised(nodes[m].ver)]  OBVIOUS
<1>3. /\ x \in Node(Len(nodes)) /\ x.ver = nodes[m].ver + 2
      /\ x.leaf = nodes[m].leaf /\ x.count = nodes[m].count /\ x.keys = nodes[m].keys
      /\ x.values = nodes[m].values /\ x.kids = nodes[m].kids /\ x.next = nodes[m].next
  <2>1. Raised(nodes[m].ver) \in Nat /\ Raised(nodes[m].ver) = nodes[m].ver + 2  BY <1>1 DEF Raised
  <2> QED  BY <1>1, <1>2, <2>1 DEF Node
<1>4. nodes' = [nodes EXCEPT ![m] = x]  BY <1>2 DEF Raise
<1>5. IsLocked(nodes[m].ver + 2) <=> ~IsLocked(nodes[m].ver)  BY <1>1, Parity DEF Raised
<1>6. /\ nodes' \in Seq(Node(Len(nodes))) /\ nodes' \in Seq(Node(Len(nodes')))
      /\ Len(nodes') = Len(nodes) /\ DOMAIN nodes' = DOMAIN nodes
      /\ nodes'[m] = x /\ \A n \in DOMAIN nodes : n # m => nodes'[n] = nodes[n]
  BY <1>3, <1>4, NodeSet
<1>7. nodes[m].ver + 2 > nodes[m].ver  BY <1>1
<1> QED  BY <1>3, <1>5, <1>6, <1>7

\* A thread that is no reader has seen nothing.
LEMMA Blind ==
  ASSUME NEW span, NEW level, NEW t, th'[t].pc \notin AtTree, th'[t].pc \notin Entered
  PROVE  SeesTree(t)' /\ SeesNode(t, span, level)'
<1>1. /\ th'[t].pc \notin {"snapshot_root", "validate_tree"} /\ th'[t].pc # "validate_empty"
      /\ th'[t].pc \notin {"validate_tree", "couple"}
  BY DEF AtTree, Entered, Coupling
<1>2. /\ th'[t].pc \notin InLeaf /\ th'[t].pc \notin {"pick"} \union Coupling /\ th'[t].pc # "read_child"
      /\ th'[t].pc \notin {"snapshot_child", "couple"} /\ th'[t].pc # "read_value"
  BY DEF Entered, Coupling, InLeaf
<1> QED  BY <1>1, <1>2 DEF SeesTree, SeesNode, Valid

\* A thread that is not at a leaf, not opening a slot, or not on the slow path.
LEMMA NoLeafWork ==
  ASSUME NEW span, NEW level, NEW t, th'[t].pc \notin LeafHeld, th'[t].pc # "count_entry"
  PROVE  WritesLeaf(t, span, level)'
BY DEF WritesLeaf, LeafHeld, Moving

\* A thread that opens no slot,
LEMMA NoOpening ==
  ASSUME NEW span, NEW level, NEW t, th'[t].pc \notin Opening
  PROVE  Opens(t, span, level)'
BY DEF Opens, Opening

\* that goes to no half of a split,
LEMMA NoClaim ==
  ASSUME NEW span, NEW level, NEW t, th'[t].pc \notin Opening \union {"release_child", "lock_child", "child_room"}
  PROVE  HasRoom(t, span, level)'
BY DEF HasRoom, Opening

\* and that is off the slow path has nothing to show for it.
LEMMA NoDescent ==
  ASSUME NEW span, NEW level, NEW t, th'[t].pc \notin SlowPath, th'[t].grow = FALSE,
         HoldsNode(t)' => th'[t].node \in DOMAIN nodes' /\ level[th'[t].node] <= level[root']
  PROVE  Descends(t, span, level)'
<1>1. /\ th'[t].pc \notin TreeHeld /\ th'[t].pc \notin Splitting /\ th'[t].pc \notin Walking
      /\ th'[t].pc # "release_child" /\ th'[t].pc # "lock_tree"
  BY DEF SlowPath
<1>2. ~HoldsChild(t)'  BY <1>1 DEF HoldsChild, TreeHeld, Walking
<1>3. /\ th'[t].pc # "publish_root" /\ th'[t].pc # "plant" /\ th'[t].pc \notin TreeHeld \ {"plant"}
      /\ th'[t].pc \notin {"grow", "release_tree"} /\ th'[t].pc # "grow" /\ th'[t].pc # "release_tree"
      /\ th'[t].pc \notin Walking \union Splitting \union {"release_child"}
      /\ th'[t].pc \notin Splitting \union {"lock_child", "child_room", "release_parent", "publish_root", "release_child"}
      /\ th'[t].pc # "slow_room" /\ th'[t].pc # "split" /\ th'[t].pc \notin {"split", "child_room", "release_parent"}
      /\ th'[t].pc # "release_parent"
  BY <1>1 DEF TreeHeld, Splitting, Walking
<1> QED  BY <1>1, <1>2, <1>3 DEF Descends

\* What a thread was asked for stays.
LEMMA KeepCall ==
  ASSUME NEW t \in Threads, Calls(t), th[t].pc # "idle", known \subseteq known',
         th'[t].op = th[t].op, th'[t].key = th[t].key, th'[t].before = th[t].before,
         th'[t].pc \notin InLeaf, th'[t].pc # "read_count", th'[t].pc # "returned",
         th[t].op = "insert"
  PROVE  Calls(t)'
BY DEF Calls, InLeaf

\* Only an insert locks nodes.
LEMMA Inserting ==
  ASSUME NEW span, NEW level, NEW t \in Threads, IInv(span, level),
         th[t].pc \in {"upgrade", "count_entry"} \union LeafHeld \union SlowPath
  PROVE  th[t].op = "insert" /\ th[t].key \in Keys /\ th[t].key \in Int
<1>1. Calls(t) /\ Descends(t, span, level)  BY Start
<1>2. th[t].op = "insert"  BY <1>1 DEF Calls, Descends
<1>3. th[t].pc # "idle"  BY DEF LeafHeld, Moving, SlowPath, TreeHeld, Splitting, Opening, Walking
<1> QED  BY <1>1, <1>2, <1>3, KeysAssumption DEF Calls

\* At a leaf a thread holds this node and nothing else.
LEMMA LeafLock ==
  ASSUME NEW t, th[t].pc \in LeafHeld, th[t].grow = FALSE
  PROVE  /\ HoldsNode(t) /\ ~HoldsChild(t) /\ ~HoldsTree(t) /\ ~Reduces(t)
         /\ \A n : (Holds(t, n) <=> n = th[t].node) /\ ~Private(t, n)
<1>1. /\ th[t].pc \notin Splitting /\ th[t].pc \notin TreeHeld /\ th[t].pc # "publish_root"
      /\ th[t].pc \notin {"publish_root", "release_child", "child_room", "release_parent"}
  BY DEF LeafHeld, Moving, Splitting, Opening, TreeHeld
<1>2. HoldsNode(t) /\ ~HoldsChild(t) /\ ~HoldsTree(t) /\ ~Reduces(t)
  BY <1>1 DEF HoldsNode, HoldsChild, HoldsTree, Reduces
<1> QED  BY <1>2 DEF Holds, Private

\* A thread that holds a leaf holds nothing else.
LEMMA LeafLockNext ==
  ASSUME NEW t, th'[t].pc \in LeafHeld, th'[t].grow = FALSE
  PROVE  /\ HoldsNode(t)' /\ ~HoldsChild(t)' /\ ~HoldsTree(t)'
         /\ \A n : Holds(t, n)' <=> n = th'[t].node
<1>1. /\ th'[t].pc \notin Splitting /\ th'[t].pc \notin TreeHeld
      /\ th'[t].pc \notin {"publish_root", "release_child", "child_room", "release_parent"}
  BY DEF LeafHeld, Moving, Splitting, Opening, TreeHeld
<1>2. HoldsNode(t)' /\ ~HoldsChild(t)' /\ ~HoldsTree(t)'
  BY <1>1 DEF HoldsNode, HoldsChild, HoldsTree
<1> QED  BY <1>2 DEF Holds

\* What a thread knows of the leaf that it holds.
LEMMA AtLeaf ==
  ASSUME NEW span, NEW level, NEW t \in Threads, NEW n, IInv(span, level), th[t].pc \in LeafHeld, n = th[t].node
  PROVE  /\ n \in DOMAIN nodes /\ nodes[n].leaf /\ th[t].key \in span[n] /\ level[n] <= level[root]
         /\ IsLocked(nodes[n].ver) /\ th[t].grow = FALSE
         /\ Holds(t, n) /\ HoldsNode(t) /\ ~HoldsChild(t) /\ ~HoldsTree(t) /\ ~Reduces(t)
         /\ \A m : (Holds(t, m) <=> m = n) /\ ~Private(t, m)
<1>1. TypeOK /\ Descends(t, span, level) /\ WritesLeaf(t, span, level)  BY Start
<1>2. th[t].grow = FALSE
  <2>1. th[t].pc \notin Splitting \union {"publish_root", "release_child"}
    BY DEF LeafHeld, Moving, Splitting, Opening
  <2>2. th[t].grow \in BOOLEAN  BY <1>1, ThreadFacts
  <2> QED  BY <1>1, <2>1, <2>2 DEF Descends
<1>3. /\ HoldsNode(t) /\ ~HoldsChild(t) /\ ~HoldsTree(t) /\ ~Reduces(t)
      /\ \A m : (Holds(t, m) <=> m = n) /\ ~Private(t, m)
  BY <1>2, LeafLock
<1>4. n \in DOMAIN nodes /\ IsLocked(nodes[n].ver)  BY <1>3, Holding
<1>5. nodes[n].leaf /\ OnPath(t, n, span, level)  BY <1>1 DEF WritesLeaf
<1> QED  BY <1>2, <1>3, <1>4, <1>5 DEF OnPath

\* A step that writes the leaf while the insert goes on.
LEMMA LeafWrite ==
  ASSUME NEW span, NEW level, NEW t \in Threads, NEW m, NEW x, NEW r, IInv(span, level),
         th[t].pc \in {"find"} \union Moving, m = th[t].node, nodes' = [nodes EXCEPT ![m] = x],
         x \in Node(Len(nodes)), x.ver = nodes[m].ver, x.leaf = nodes[m].leaf,
         th' = [th EXCEPT ![t] = r], r \in Locals, r.pc \in Moving, r.node = m, r.grow = th[t].grow,
         r.op = th[t].op, r.key = th[t].key, r.before = th[t].before,
         UNCHANGED <<root, treeVer, entries, known, wins>>, WritesLeaf(t, span, level)'
  PROVE  IInv(span, level)'
<1>1. TypeOK /\ History /\ Tally /\ Calls(t) /\ treeVer \in Nat /\ entries \in Int /\ known \in SUBSET Int
      /\ wins \in SUBSET Entry /\ root \in 0 .. Len(nodes) /\ Len(nodes) \in Nat
  BY Start, Basics DEF TypeOK
<1>2. th[t].pc \in LeafHeld /\ r.pc \in LeafHeld  BY DEF LeafHeld, Moving
<1>3. /\ m \in DOMAIN nodes /\ nodes[m].leaf /\ th[t].key \in span[m] /\ level[m] <= level[root]
      /\ IsLocked(nodes[m].ver) /\ th[t].grow = FALSE
      /\ Holds(t, m) /\ HoldsNode(t) /\ ~HoldsChild(t) /\ ~HoldsTree(t) /\ ~Reduces(t)
      /\ \A n : (Holds(t, n) <=> n = m) /\ ~Private(t, n)
  BY <1>2, AtLeaf
<1>4. /\ nodes' \in Seq(Node(Len(nodes))) /\ nodes' \in Seq(Node(Len(nodes')))
      /\ Len(nodes') = Len(nodes) /\ DOMAIN nodes' = DOMAIN nodes
      /\ nodes'[m] = x /\ \A n \in DOMAIN nodes : n # m => nodes'[n] = nodes[n]
  BY <1>1, <1>3, NodeSet
<1>5. r \in Locals'  BY <1>4 DEF Locals
<1>6. TypeOK' /\ th'[t] = r /\ Others(t)
  <2>1. /\ treeVer' \in Nat /\ entries' \in Int /\ known' \in SUBSET Int /\ wins' \in SUBSET Entry
        /\ Len(nodes) <= Len(nodes') /\ root' \in 0 .. Len(nodes')
    BY <1>1, <1>4
  <2> QED  BY <1>1, <1>4, <1>5, <2>1, TypeStep
<1>7. /\ HoldsNode(t)' /\ ~HoldsChild(t)' /\ ~HoldsTree(t)'
      /\ \A n : Holds(t, n)' <=> n = m
  BY <1>2, <1>3, <1>6, LeafLockNext
<1>8. LockStep(t)  BY <1>3, <1>4, <1>6, <1>7 DEF LockStep
<1>9. r.pc \notin Entered /\ r.pc \notin AtTree /\ r.pc \notin SlowPath /\ r.pc \notin Opening
  BY <1>2 DEF Entered, Coupling, InLeaf, AtTree, LeafHeld, Moving, SlowPath, TreeHeld, Splitting, Opening, Walking
<1>10. Keeps(t, m, span, level)
  <2>1. \A n \in DOMAIN nodes : Foreign(t, n) => n # m  BY <1>3 DEF Foreign
  <2>2. \A n \in DOMAIN nodes : n # m => ~Takes(t, n)  BY <1>4, <1>6, <1>9 DEF Takes
  <2>3. Writes(t, m)'  BY <1>6 DEF Writes
  <2>4. \A n \in DOMAIN nodes : n # m => ~Writes(t, n)  BY DEF Writes
  <2>5. \A n \in DOMAIN nodes : nodes[n].ver <= nodes'[n].ver /\ nodes'[n].leaf = nodes[n].leaf
    <3>1. \A n \in DOMAIN nodes : nodes[n].ver \in Nat  BY <1>1, NodeFacts
    <3> QED  BY <1>4, <3>1
  <2> QED  BY <1>3, <1>4, <2>1, <2>2, <2>3, <2>4, <2>5 DEF Keeps
<1>11. SeesTree(t)' /\ SeesNode(t, span, level)'  BY <1>6, <1>9, Blind
<1>12. Descends(t, span, level)'  BY <1>3, <1>4, <1>6, <1>9, NoDescent
<1>13. Opens(t, span, level)'  BY <1>6, <1>9, NoOpening
<1>14. HasRoom(t, span, level)'
  <2>1. r.pc \notin Opening \union {"release_child", "lock_child", "child_room"}
    BY <1>9 DEF SlowPath, Splitting, Walking
  <2> QED  BY <1>6, <2>1, NoClaim
<1>15. Calls(t)'
  <2>1. th[t].op = "insert" /\ th[t].pc # "idle"  BY <1>2, Inserting DEF LeafHeld, Moving
  <2>2. r.pc \notin InLeaf /\ r.pc # "read_count" /\ r.pc # "returned"  BY <1>9 DEF Entered, Moving
  <2> QED  BY <1>1, <1>6, <2>1, <2>2, KeepCall
<1>16. Own(t, span, level)'  BY <1>11, <1>12, <1>13, <1>14, <1>15 DEF Own
<1>17. History'  BY <1>1, HistorySame
<1>18. Tally'
  <2>1. ~At(t, "count_entry") /\ ~At(t, "count_entry")'  BY <1>2, <1>6 DEF At, LeafHeld, Moving
  <2> QED  BY <1>1, <1>6, <2>1, TallySame
<1> QED  BY <1>6, <1>8, <1>10, <1>16, <1>17, <1>18, StepKeeps

\* What stands in the open slot does not count.
LEMMA WithoutSame ==
  ASSUME NEW f, DOMAIN f = 0 .. Fanout - 1, NEW p \in 0 .. Fanout - 1, NEW v
  PROVE  Without([f EXCEPT ![p] = v], p, Fanout - 1) = Without(f, p, Fanout - 1)
<1> DEFINE g == [f EXCEPT ![p] = v]
<1>1. \A i \in 0 .. Fanout - 1 : i # p => g[i] = f[i]  OBVIOUS
<1> HIDE DEF g
<1>2. \A i \in 0 .. Fanout - 1 - 1 : (IF i < p THEN g[i] ELSE g[i + 1]) = (IF i < p THEN f[i] ELSE f[i + 1])
  <2> SUFFICES ASSUME NEW i \in 0 .. Fanout - 1 - 1
               PROVE  (IF i < p THEN g[i] ELSE g[i + 1]) = (IF i < p THEN f[i] ELSE f[i + 1])
    OBVIOUS
  <2>1. i \in 0 .. Fanout - 1 /\ i + 1 \in 0 .. Fanout - 1 /\ (i < p => i # p) /\ (~(i < p) => i + 1 # p)
    BY FanoutFacts
  <2> QED  BY <1>1, <2>1
<1>3. Without(g, p, Fanout - 1) = Without(f, p, Fanout - 1)  BY <1>2 DEF Without
<1> QED  BY <1>3 DEF g

\* A leaf in which nothing has been moved yet, seen as one with an open slot at its end.
LEMMA WithoutLast ==
  ASSUME NEW ks, NEW vs, NEW c \in 0 .. Fanout - 1, NEW S, NEW W, LeafOK(ks, vs, c, S, W)
  PROVE  LeafOK(Without(ks, c, Fanout - 1), Without(vs, c, Fanout - 1), c, S, W)
<1> DEFINE wk == Without(ks, c, Fanout - 1)
           wv == Without(vs, c, Fanout - 1)
<1>1. \A i \in 0 .. c - 1 : i \in 0 .. Fanout - 1 - 1 /\ i < c  BY FanoutFacts
<1>2. \A i \in 0 .. c - 1 : wk[i] = ks[i] /\ wv[i] = vs[i]  BY <1>1 DEF Without
<1> HIDE DEF wk, wv
<1>3. LeafOK(wk, wv, c, S, W)  BY <1>2, LeafSame
<1> QED  BY <1>3 DEF wk, wv

\* A key that is not in its leaf is in no accepted entry, and no completed call
\* has seen it.
LEMMA NowhereElse ==
  ASSUME NEW span, NEW level, NEW t \in Threads, IInv(span, level), NEW ks, NEW vs, NEW c, NEW S,
         LeafOK(ks, vs, c, S, wins), th[t].key \in S, \A i \in 0 .. c - 1 : ks[i] # th[t].key
  PROVE  NotYet(t)
<1>1. Calls(t) /\ History  BY Start
<1>2. \A w \in wins : w.key # th[t].key
  <2> SUFFICES ASSUME NEW w \in wins, w.key = th[t].key PROVE FALSE  OBVIOUS
  <2>1. PICK i \in 0 .. c - 1 : vs[i] = w  BY DEF LeafOK
  <2>2. vs[i].key = ks[i]  BY DEF LeafOK
  <2> QED  BY <2>1, <2>2
<1>3. th[t].key \notin th[t].before  BY <1>1, <1>2 DEF Calls, History
<1> QED  BY <1>2, <1>3 DEF NotYet

\* A duplicate is refused only if it is there; otherwise the rotation starts.
LEMMA FindOpenStep ==
  ASSUME NEW span, NEW level, NEW t \in Threads, IInv(span, level), Find(t), NEW n, n = th[t].node,
         LeafSlot(nodes[n].keys, nodes[n].count, th[t].key) < 0
  PROVE  IInv(span, level)'
<1>1. TypeOK /\ WritesLeaf(t, span, level) /\ th \in [Threads -> Locals] /\ th[t] \in Locals  BY Start
<1>2. th[t].pc = "find"  BY DEF Find, At
<1>14. th[t].pc \in LeafHeld  BY <1>2 DEF LeafHeld
<1>3. /\ n \in DOMAIN nodes /\ nodes[n].leaf /\ th[t].key \in span[n] /\ Holds(t, n)
      /\ level[n] <= level[root]
  BY <1>14, AtLeaf
<1>4. nodes[n].count \in 0 .. Fanout - 1 /\ nodes[n].count \in 0 .. Fanout /\ nodes[n].keys \in Arrays
      /\ nodes[n].count \in -1 .. Fanout
  <2>1. nodes[n].count \in 0 .. Fanout /\ nodes[n].keys \in Arrays  BY <1>1, <1>3, NodeFacts
  <2>2. nodes[n].count < Fanout  BY <1>1, <1>2 DEF WritesLeaf
  <2> QED  BY <2>1, <2>2, FanoutFacts
<1>5. PICK r : r = [th[t] EXCEPT !.pc = "shift", !.slot = nodes[n].count]  OBVIOUS
<1>6. /\ r \in Locals /\ r.pc = "shift" /\ r.node = n /\ r.grow = th[t].grow /\ r.slot = nodes[n].count
      /\ r.op = th[t].op /\ r.key = th[t].key /\ r.before = th[t].before
  <2>1. "shift" \in Places  BY DEF Places, LeafHeld
  <2> QED  BY <1>1, <1>4, <1>5, <2>1 DEF Locals
<1>7. /\ th' = [th EXCEPT ![t] = r] /\ nodes' = nodes
      /\ UNCHANGED <<root, treeVer, entries, known, wins>>
  <2>1. ~(LeafSlot(nodes[n].keys, nodes[n].count, th[t].key) >= 0)
    <3>1. \A j \in 0 .. Fanout - 1 : nodes[n].keys[j] \in Int  BY <1>4 DEF Arrays
    <3>2. LeafSlot(nodes[n].keys, nodes[n].count, th[t].key) \in -1 .. nodes[n].count - 1
      BY <1>1, <1>4, <3>1, ThreadFacts, LeafSlotFacts
    <3> QED  BY <1>4, <3>2, FanoutFacts
  <2> QED  BY <1>5, <2>1 DEF Find, Set
<1>8. th'[t] = r  BY <1>1, <1>7
<1>9. LeafOK(nodes[n].keys, nodes[n].values, nodes[n].count, span[n], wins)
  <2>1. NodeOK(n, span, level)  BY <1>2, <1>3, HeldOK DEF Moving, Opening
  <2> QED  BY <1>3, <2>1 DEF NodeOK
<1>10. NotYet(t)
  <2>1. \A j \in 0 .. Fanout - 1 : nodes[n].keys[j] \in Int  BY <1>4 DEF Arrays
  <2>2. th[t].key \in Int  BY <1>1, ThreadFacts
  <2>3. Ascending(nodes[n].keys, nodes[n].count)  BY <1>9 DEF LeafOK
  <2>4. \A i \in 0 .. nodes[n].count - 1 : nodes[n].keys[i] # th[t].key
    BY <1>4, <2>1, <2>2, <2>3, LeafSlotFacts
  <2> QED  BY <1>3, <1>9, <2>4, NowhereElse
<1>11. WritesLeaf(t, span, level)'
  <2>1. OnPath(t, n, span, level)'  BY <1>3, <1>6, <1>7, <1>8 DEF OnPath
  <2>2. NotYet(t)'  BY <1>6, <1>7, <1>8, <1>10 DEF NotYet
  <2>3. LeafOK(Without(nodes[n].keys, nodes[n].count, Fanout - 1),
               Without(nodes[n].values, nodes[n].count, Fanout - 1), nodes[n].count, span[n], wins)
    BY <1>4, <1>9, WithoutLast
  <2>4. \A i \in nodes[n].count .. nodes[n].count - 1 : FALSE  BY <1>4, FanoutFacts
  <2>5. nodes[n].count < Fanout /\ nodes[n].count \in 0 .. nodes[n].count  BY <1>4, FanoutFacts
  <2>6. /\ r.pc # "find" /\ r.pc # "store_value" /\ r.pc # "count_up" /\ r.pc # "release_leaf"
        /\ r.pc # "count_entry"
    BY <1>6
  <2> QED  BY <1>3, <1>6, <1>7, <1>8, <2>1, <2>2, <2>3, <2>4, <2>5, <2>6 DEF WritesLeaf
<1>12. nodes' = [nodes EXCEPT ![n] = nodes[n]]  BY <1>1, <1>7 DEF TypeOK
<1>13. nodes[n] \in Node(Len(nodes))  BY <1>1, <1>3, NodeFacts
<1> QED  BY <1>2, <1>6, <1>7, <1>11, <1>12, <1>13, LeafWrite DEF Moving

\* The entry's value is stored in the open slot.
LEMMA StoreValueStep ==
  ASSUME NEW span, NEW level, NEW t \in Threads, IInv(span, level), StoreValue(t)
  PROVE  IInv(span, level)'
<1>1. TypeOK /\ WritesLeaf(t, span, level) /\ th \in [Threads -> Locals] /\ th[t] \in Locals  BY Start
<1>2. th[t].pc = "store_value"  BY DEF StoreValue, At
<1>20. th[t].pc \in LeafHeld /\ th[t].pc \in Moving  BY <1>2 DEF LeafHeld, Moving
<1>0. PICK n, s : n = th[t].node /\ s = th[t].slot  OBVIOUS
<1>3. n \in DOMAIN nodes /\ nodes[n].leaf /\ th[t].key \in span[n] /\ level[n] <= level[root]
  <2>1. th[t].pc \in LeafHeld  BY <1>20
  <2> QED  BY <1>0, <2>1, AtLeaf
<1>4. PICK ks, vs, c : ks = nodes[n].keys /\ vs = nodes[n].values /\ c = nodes[n].count  OBVIOUS
<1>5. /\ c < Fanout /\ s \in 0 .. c /\ NotYet(t)
      /\ LeafOK(Without(ks, s, Fanout - 1), Without(vs, s, Fanout - 1), c, span[n], wins)
      /\ \A i \in s .. c - 1 : th[t].key < ks[i + 1]
      /\ ks[s] = th[t].key /\ \A i \in 0 .. s - 1 : ks[i] < th[t].key
  BY <1>0, <1>1, <1>2, <1>20, <1>4 DEF WritesLeaf
<1>6. /\ nodes[n] \in Node(Len(nodes)) /\ ks \in Arrays /\ vs \in [0 .. Fanout - 1 -> Entry]
      /\ c \in 0 .. Fanout - 1 /\ s \in 0 .. Fanout - 1
  <2>1. c \in 0 .. Fanout  BY <1>1, <1>3, <1>4, NodeFacts
  <2> QED  BY <1>1, <1>3, <1>4, <1>5, <2>1, NodeFacts, FanoutFacts
<1>7. PICK e : e = [key |-> th[t].key, by |-> t]  OBVIOUS
<1>8. e \in Entry /\ e.key = th[t].key /\ e = Mine(t)
  <2>1. th[t].key \in Int  BY <1>1, ThreadFacts
  <2> QED  BY <1>7, <2>1 DEF Entry, Mine
<1>9. PICK vs2 : vs2 = [vs EXCEPT ![s] = e]  OBVIOUS
<1>10. vs2 \in [0 .. Fanout - 1 -> Entry] /\ vs2[s] = e  BY <1>6, <1>8, <1>9
<1>11. PICK x : x = [nodes[n] EXCEPT !.values = vs2]  OBVIOUS
<1>12. /\ x \in Node(Len(nodes)) /\ x.ver = nodes[n].ver /\ x.leaf = nodes[n].leaf
       /\ x.keys = ks /\ x.values = vs2 /\ x.count = c
  BY <1>4, <1>6, <1>10, <1>11 DEF Node
<1>13. nodes' = [nodes EXCEPT ![n] = x]
  BY <1>0, <1>3, <1>4, <1>7, <1>9, <1>11 DEF StoreValue
<1>14. PICK r : r = [th[t] EXCEPT !.pc = "count_up", !.slot = 0]  OBVIOUS
<1>15. /\ r \in Locals /\ r.pc = "count_up" /\ r.node = n /\ r.grow = th[t].grow
       /\ r.op = th[t].op /\ r.key = th[t].key /\ r.before = th[t].before
  <2>1. "count_up" \in Places /\ 0 \in -1 .. Fanout  BY FanoutFacts DEF Places, LeafHeld
  <2> QED  BY <1>0, <1>1, <1>14, <2>1 DEF Locals
<1>16. /\ th' = [th EXCEPT ![t] = r] /\ th'[t] = r
       /\ UNCHANGED <<root, treeVer, entries, known, wins>>
  BY <1>1, <1>14 DEF StoreValue, Set
<1>17. nodes'[n] = x /\ DOMAIN nodes' = DOMAIN nodes  BY <1>1, <1>3, <1>12, <1>13, NodeSet
<1>18. LeafOK(ks, vs2, c + 1, span[n], wins \union {e})
  <2>1. Without(vs2, s, Fanout - 1) = Without(vs, s, Fanout - 1)  BY <1>6, <1>9, WithoutSame
  <2>2. LeafOK(Without(ks, s, Fanout - 1), Without(vs2, s, Fanout - 1), c, span[n], wins)  BY <1>5, <2>1
  <2> QED  BY <1>3, <1>5, <1>6, <1>8, <1>10, <2>2, LeafInsert
<1>19. WritesLeaf(t, span, level)'
  <2>1. OnPath(t, n, span, level)'  BY <1>3, <1>15, <1>16, <1>17 DEF OnPath
  <2>2. NotYet(t)'  BY <1>5, <1>15, <1>16 DEF NotYet
  <2>3. Mine(t)' = e  BY <1>8, <1>15, <1>16 DEF Mine
  <2>4. /\ r.pc # "find" /\ r.pc \notin {"shift", "store_value"} /\ r.pc # "store_value" /\ r.pc # "release_leaf"
        /\ r.pc # "count_entry"
    BY <1>15
  <2> QED  BY <1>3, <1>5, <1>12, <1>15, <1>16, <1>17, <1>18, <2>1, <2>2, <2>3, <2>4 DEF WritesLeaf
<1> QED  BY <1>0, <1>20, <1>12, <1>13, <1>15, <1>16, <1>19, LeafWrite DEF Moving

\* The leaf's count takes the entry in.
LEMMA CountUpStep ==
  ASSUME NEW span, NEW level, NEW t \in Threads, IInv(span, level), CountUp(t)
  PROVE  IInv(span, level)'
<1>1. TypeOK /\ WritesLeaf(t, span, level) /\ th \in [Threads -> Locals] /\ th[t] \in Locals  BY Start
<1>2. th[t].pc = "count_up"  BY DEF CountUp, At
<1>20. th[t].pc \in LeafHeld /\ th[t].pc \in Moving  BY <1>2 DEF LeafHeld, Moving
<1>0. PICK n : n = th[t].node  OBVIOUS
<1>3. n \in DOMAIN nodes /\ nodes[n].leaf /\ th[t].key \in span[n] /\ level[n] <= level[root]
  <2>1. th[t].pc \in LeafHeld  BY <1>20
  <2> QED  BY <1>0, <2>1, AtLeaf
<1>4. /\ nodes[n].count < Fanout /\ NotYet(t)
      /\ LeafOK(nodes[n].keys, nodes[n].values, nodes[n].count + 1, span[n], wins \union {Mine(t)})
  BY <1>0, <1>1, <1>2, <1>20 DEF WritesLeaf
<1>5. nodes[n] \in Node(Len(nodes)) /\ nodes[n].count + 1 \in 0 .. Fanout
  <2>1. nodes[n].count \in 0 .. Fanout /\ nodes[n] \in Node(Len(nodes))  BY <1>1, <1>3, NodeFacts
  <2> QED  BY <1>4, <2>1, FanoutFacts
<1>6. PICK x : x = [nodes[n] EXCEPT !.count = nodes[n].count + 1]  OBVIOUS
<1>7. /\ x \in Node(Len(nodes)) /\ x.ver = nodes[n].ver /\ x.leaf = nodes[n].leaf
      /\ x.keys = nodes[n].keys /\ x.values = nodes[n].values /\ x.count = nodes[n].count + 1
  BY <1>5, <1>6 DEF Node
<1>8. nodes' = [nodes EXCEPT ![n] = x]  BY <1>0, <1>3, <1>6 DEF CountUp
<1>9. PICK r : r = [th[t] EXCEPT !.pc = "release_leaf"]  OBVIOUS
<1>10. /\ r \in Locals /\ r.pc = "release_leaf" /\ r.node = n /\ r.grow = th[t].grow
       /\ r.op = th[t].op /\ r.key = th[t].key /\ r.before = th[t].before
  <2>1. "release_leaf" \in Places  BY DEF Places, LeafHeld
  <2> QED  BY <1>0, <1>1, <1>9, <2>1 DEF Locals
<1>11. /\ th' = [th EXCEPT ![t] = r] /\ th'[t] = r
       /\ UNCHANGED <<root, treeVer, entries, known, wins>>
  BY <1>1, <1>9 DEF CountUp, Go
<1>12. nodes'[n] = x /\ DOMAIN nodes' = DOMAIN nodes  BY <1>1, <1>3, <1>7, <1>8, NodeSet
<1>13. WritesLeaf(t, span, level)'
  <2>1. OnPath(t, n, span, level)'  BY <1>3, <1>10, <1>11, <1>12 DEF OnPath
  <2>2. NotYet(t)'  BY <1>4, <1>10, <1>11 DEF NotYet
  <2>3. Mine(t)' = Mine(t)  BY <1>10, <1>11 DEF Mine
  <2>4. /\ r.pc # "find" /\ r.pc \notin {"shift", "store_value"} /\ r.pc # "store_value" /\ r.pc # "count_up"
        /\ r.pc # "count_entry"
    BY <1>10
  <2> QED  BY <1>3, <1>4, <1>7, <1>10, <1>11, <1>12, <2>1, <2>2, <2>3, <2>4 DEF WritesLeaf
<1> QED  BY <1>0, <1>20, <1>7, <1>8, <1>10, <1>11, <1>13, LeafWrite DEF Moving

\* The rotation goes on only below keys that are greater than the new one.
LEMMA RotateBelow ==
  ASSUME NEW ks \in Arrays, NEW vs, NEW c \in 0 .. Fanout - 1, NEW s \in 0 .. c, NEW key \in Int, NEW S, NEW W,
         LeafOK(Without(ks, s, Fanout - 1), Without(vs, s, Fanout - 1), c, S, W), \A w \in W : w.key # key,
         s > LowerBound(ks, c, key)
  PROVE  s \in 1 .. c /\ key < ks[s - 1]
<1> DEFINE wk == Without(ks, s, Fanout - 1)
           wv == Without(vs, s, Fanout - 1)
           g == LowerBound(ks, c, key)
<1>1. \A i \in 0 .. Fanout - 1 : ks[i] \in Int  BY DEF Arrays
<1>2. c \in 0 .. Fanout  BY FanoutFacts
<1>3. g \in 0 .. c /\ (g < c => key <= ks[g])  BY <1>1, <1>2, LowerBoundFacts
<1>4. s > g  OBVIOUS
<1>5. \A i \in 0 .. s - 1 : i \in 0 .. Fanout - 1 - 1 /\ i < s /\ i \in 0 .. c - 1  BY FanoutFacts
<1>6. \A i \in 0 .. s - 1 : wk[i] = ks[i] /\ wv[i] = vs[i]  BY <1>5 DEF Without
<1>7. /\ \A i, j \in 0 .. c - 1 : i < j => wk[i] < wk[j]
      /\ \A i \in 0 .. c - 1 : wv[i] \in W /\ wv[i].key = wk[i]
  BY DEF LeafOK, Ascending
<1> HIDE DEF wk, wv, g
<1>8. /\ s \in 1 .. c /\ s - 1 \in 0 .. s - 1 /\ g \in 0 .. s - 1 /\ g < c
      /\ g \in 0 .. Fanout - 1 /\ s - 1 \in 0 .. Fanout - 1 /\ (g < s - 1 \/ g = s - 1)
  BY <1>3, <1>4, FanoutFacts
<1>9. key <= ks[s - 1]
  <2>1. CASE g = s - 1  BY <1>3, <1>8, <2>1
  <2>2. CASE g < s - 1
    <3>1. ks[g] < ks[s - 1]  BY <1>5, <1>6, <1>7, <1>8, <2>2
    <3>2. ks[g] \in Int /\ ks[s - 1] \in Int /\ key <= ks[g]  BY <1>1, <1>3, <1>8
    <3> QED  BY <3>1, <3>2
  <2> QED  BY <1>8, <2>1, <2>2
<1>10. ks[s - 1] # key  BY <1>5, <1>6, <1>7, <1>8
<1>11. ks[s - 1] \in Int  BY <1>1, <1>8
<1> QED  BY <1>8, <1>9, <1>10, <1>11

\* One entry moves up to open the slot, or the key is stored in it.
LEMMA ShiftStep ==
  ASSUME NEW span, NEW level, NEW t \in Threads, IInv(span, level), Shift(t)
  PROVE  IInv(span, level)'
<1>1. TypeOK /\ WritesLeaf(t, span, level) /\ th \in [Threads -> Locals] /\ th[t] \in Locals  BY Start
<1>2. th[t].pc = "shift"  BY DEF Shift, At
<1>20. th[t].pc \in LeafHeld /\ th[t].pc \in Moving  BY <1>2 DEF LeafHeld, Moving
<1>0. PICK n, s : n = th[t].node /\ s = th[t].slot  OBVIOUS
<1>3. n \in DOMAIN nodes /\ nodes[n].leaf /\ th[t].key \in span[n] /\ level[n] <= level[root]
  <2>1. th[t].pc \in LeafHeld  BY <1>20
  <2>2. n = th[t].node  BY <1>0
  <2> QED  BY <2>1, <2>2, AtLeaf
<1>4. PICK ks, vs, c : ks = nodes[n].keys /\ vs = nodes[n].values /\ c = nodes[n].count  OBVIOUS
<1>5. /\ c < Fanout /\ s \in 0 .. c /\ NotYet(t)
      /\ LeafOK(Without(ks, s, Fanout - 1), Without(vs, s, Fanout - 1), c, span[n], wins)
      /\ \A i \in s .. c - 1 : th[t].key < ks[i + 1]
  BY <1>0, <1>1, <1>2, <1>20, <1>4 DEF WritesLeaf
<1>6. /\ nodes[n] \in Node(Len(nodes)) /\ ks \in Arrays /\ vs \in [0 .. Fanout - 1 -> Entry]
      /\ c \in 0 .. Fanout - 1 /\ c \in 0 .. Fanout /\ s \in 0 .. Fanout - 1
  <2>1. c \in 0 .. Fanout  BY <1>1, <1>3, <1>4, NodeFacts
  <2> QED  BY <1>1, <1>3, <1>4, <1>5, <2>1, NodeFacts, FanoutFacts
<1>7. th[t].key \in Int  BY <1>1, ThreadFacts
<1>8. UNCHANGED <<root, treeVer, entries, known, wins>>  BY DEF Shift
<1>9. CASE s > LowerBound(ks, c, th[t].key)
  <2>1. s \in 1 .. c /\ th[t].key < ks[s - 1]
    <3>1. \A w \in wins : w.key # th[t].key  BY <1>5 DEF NotYet
    <3> QED  BY <1>5, <1>6, <1>7, <1>9, <3>1, RotateBelow
  <2>2. PICK ks2, vs2 : ks2 = [ks EXCEPT ![s] = ks[s - 1]] /\ vs2 = [vs EXCEPT ![s] = vs[s - 1]]  OBVIOUS
  <2>3. s - 1 \in 0 .. Fanout - 1 /\ s - 1 \in 0 .. c /\ s - 1 \in -1 .. Fanout /\ s \in 1 .. Fanout - 1
    BY <1>6, <2>1, FanoutFacts
  <2>4. ks2 \in Arrays /\ vs2 \in [0 .. Fanout - 1 -> Entry]  BY <1>6, <2>2, <2>3 DEF Arrays
  <2>5. PICK x : x = [nodes[n] EXCEPT !.keys = ks2, !.values = vs2]  OBVIOUS
  <2>6. /\ x \in Node(Len(nodes)) /\ x.ver = nodes[n].ver /\ x.leaf = nodes[n].leaf
        /\ x.keys = ks2 /\ x.values = vs2 /\ x.count = c
    BY <1>4, <1>6, <2>4, <2>5 DEF Node, Arrays
  <2>7. nodes' = [nodes EXCEPT ![n] = x]
    BY <1>0, <1>3, <1>4, <1>9, <2>2, <2>5 DEF Shift
  <2>8. PICK r : r = [th[t] EXCEPT !.slot = s - 1]  OBVIOUS
  <2>9. /\ r \in Locals /\ r.pc = "shift" /\ r.node = n /\ r.grow = th[t].grow /\ r.slot = s - 1
        /\ r.op = th[t].op /\ r.key = th[t].key /\ r.before = th[t].before
    BY <1>0, <1>1, <1>2, <2>3, <2>8 DEF Locals
  <2>10. th' = [th EXCEPT ![t] = r] /\ th'[t] = r
    BY <1>0, <1>1, <1>4, <1>9, <2>8 DEF Shift, Set
  <2>11. nodes'[n] = x /\ DOMAIN nodes' = DOMAIN nodes  BY <1>1, <1>3, <2>6, <2>7, NodeSet
  <2>12. LeafOK(Without(ks2, s - 1, Fanout - 1), Without(vs2, s - 1, Fanout - 1), c, span[n], wins)
    <3>1. Without(ks2, s - 1, Fanout - 1) = Without(ks, s, Fanout - 1)  BY <1>6, <2>2, <2>3, LeafRotate DEF Arrays
    <3>2. Without(vs2, s - 1, Fanout - 1) = Without(vs, s, Fanout - 1)  BY <1>6, <2>2, <2>3, LeafRotate
    <3> QED  BY <1>5, <3>1, <3>2
  <2>13. \A i \in s - 1 .. c - 1 : th[t].key < ks2[i + 1]
    <3> SUFFICES ASSUME NEW i \in s - 1 .. c - 1 PROVE th[t].key < ks2[i + 1]  OBVIOUS
    <3>1. CASE i = s - 1
      <4>1. i + 1 = s  BY <2>3, <3>1
      <4>2. ks2[s] = ks[s - 1]  BY <1>6, <2>2 DEF Arrays
      <4> QED  BY <2>1, <4>1, <4>2
    <3>2. CASE i # s - 1
      <4>1. i \in s .. c - 1 /\ i + 1 # s /\ i + 1 \in 0 .. Fanout - 1  BY <1>6, <3>2, FanoutFacts
      <4>2. ks2[i + 1] = ks[i + 1]  BY <1>6, <2>2, <4>1 DEF Arrays
      <4> QED  BY <1>5, <4>1, <4>2
    <3> QED  BY <3>1, <3>2
  <2>14. WritesLeaf(t, span, level)'
    <3>1. OnPath(t, n, span, level)'  BY <1>3, <1>8, <2>9, <2>10, <2>11 DEF OnPath
    <3>2. NotYet(t)'  BY <1>5, <1>8, <2>9, <2>10 DEF NotYet
    <3>3. /\ r.pc # "find" /\ r.pc # "store_value" /\ r.pc # "count_up" /\ r.pc # "release_leaf"
          /\ r.pc # "count_entry"
      BY <2>9
    <3> QED  BY <1>3, <1>5, <1>8, <2>3, <2>6, <2>9, <2>10, <2>11, <2>12, <2>13, <3>1, <3>2, <3>3 DEF WritesLeaf
  <2>15. r.pc \in Moving /\ th[t].pc \in {"find"} \union Moving  BY <1>20, <2>9 DEF Moving
  <2>16. n = th[t].node  BY <1>0
  <2> QED  BY <1>8, <2>6, <2>7, <2>9, <2>10, <2>14, <2>15, <2>16, LeafWrite
<1>10. CASE ~(s > LowerBound(ks, c, th[t].key))
  <2>1. PICK ks2 : ks2 = [ks EXCEPT ![s] = th[t].key]  OBVIOUS
  <2>2. ks2 \in Arrays /\ ks2[s] = th[t].key  BY <1>6, <1>7, <2>1 DEF Arrays
  <2>3. PICK x : x = [nodes[n] EXCEPT !.keys = ks2]  OBVIOUS
  <2>4. /\ x \in Node(Len(nodes)) /\ x.ver = nodes[n].ver /\ x.leaf = nodes[n].leaf
        /\ x.keys = ks2 /\ x.values = vs /\ x.count = c
    BY <1>4, <1>6, <2>2, <2>3 DEF Node, Arrays
  <2>5. nodes' = [nodes EXCEPT ![n] = x]
    BY <1>0, <1>3, <1>4, <1>10, <2>1, <2>3 DEF Shift
  <2>6. PICK r : r = [th[t] EXCEPT !.pc = "store_value"]  OBVIOUS
  <2>7. /\ r \in Locals /\ r.pc = "store_value" /\ r.node = n /\ r.grow = th[t].grow /\ r.slot = s
        /\ r.op = th[t].op /\ r.key = th[t].key /\ r.before = th[t].before
    <3>1. "store_value" \in Places  BY DEF Places, LeafHeld
    <3> QED  BY <1>0, <1>1, <2>6, <3>1 DEF Locals
  <2>8. th' = [th EXCEPT ![t] = r] /\ th'[t] = r
    BY <1>0, <1>1, <1>4, <1>10, <2>6 DEF Shift, Go
  <2>9. nodes'[n] = x /\ DOMAIN nodes' = DOMAIN nodes  BY <1>1, <1>3, <2>4, <2>5, NodeSet
  <2>10. LeafOK(Without(ks2, s, Fanout - 1), Without(vs, s, Fanout - 1), c, span[n], wins)
    <3>1. DOMAIN ks = 0 .. Fanout - 1  BY <1>6 DEF Arrays
    <3>2. Without(ks2, s, Fanout - 1) = Without(ks, s, Fanout - 1)  BY <1>6, <2>1, <3>1, WithoutSame
    <3> QED  BY <1>5, <3>2
  <2>11. \A i \in s .. c - 1 : th[t].key < ks2[i + 1]
    <3> SUFFICES ASSUME NEW i \in s .. c - 1 PROVE th[t].key < ks2[i + 1]  OBVIOUS
    <3>1. i + 1 # s /\ i + 1 \in 0 .. Fanout - 1  BY <1>6, FanoutFacts
    <3>2. ks2[i + 1] = ks[i + 1]  BY <1>6, <2>1, <3>1 DEF Arrays
    <3> QED  BY <1>5, <3>2
  <2>12. \A i \in 0 .. s - 1 : ks2[i] < th[t].key
    <3> SUFFICES ASSUME NEW i \in 0 .. s - 1 PROVE ks2[i] < th[t].key  OBVIOUS
    <3>1. \A j \in 0 .. Fanout - 1 : ks[j] \in Int  BY <1>6 DEF Arrays
    <3>2. /\ LowerBound(ks, c, th[t].key) \in 0 .. c
          /\ \A j \in 0 .. LowerBound(ks, c, th[t].key) - 1 : ks[j] < th[t].key
      BY <1>6, <1>7, <3>1, LowerBoundFacts
    <3>3. i \in 0 .. LowerBound(ks, c, th[t].key) - 1 /\ i # s /\ i \in 0 .. Fanout - 1
      BY <1>6, <1>10, <3>2, FanoutFacts
    <3>4. ks2[i] = ks[i]  BY <1>6, <2>1, <3>3 DEF Arrays
    <3> QED  BY <3>2, <3>3, <3>4
  <2>13. WritesLeaf(t, span, level)'
    <3>1. OnPath(t, n, span, level)'  BY <1>3, <1>8, <2>7, <2>8, <2>9 DEF OnPath
    <3>2. NotYet(t)'  BY <1>5, <1>8, <2>7, <2>8 DEF NotYet
    <3>3. /\ r.pc # "find" /\ r.pc # "count_up" /\ r.pc # "release_leaf" /\ r.pc # "count_entry"
      BY <2>7
    <3> QED  BY <1>3, <1>5, <1>8, <2>2, <2>4, <2>7, <2>8, <2>9, <2>10, <2>11, <2>12, <3>1, <3>2, <3>3 DEF WritesLeaf
  <2>14. r.pc \in Moving /\ th[t].pc \in {"find"} \union Moving  BY <1>20, <2>7 DEF Moving
  <2>15. n = th[t].node  BY <1>0
  <2> QED  BY <1>8, <2>4, <2>5, <2>7, <2>8, <2>13, <2>14, <2>15, LeafWrite
<1> QED  BY <1>9, <1>10

\* The leaf is locked as it was when it was found.
LEMMA UpgradeStep ==
  ASSUME NEW span, NEW level, NEW t \in Threads, IInv(span, level), Upgrade(t)
  PROVE  IInv(span, level)'
<1>1. /\ TypeOK /\ SeesNode(t, span, level) /\ th \in [Threads -> Locals] /\ th[t] \in Locals /\ Calls(t)
      /\ History /\ Tally
  BY Start, Basics
<1>2. th[t].pc = "upgrade"  BY DEF Upgrade, At
<1>3. th[t].pc \in Free \ {"count_entry"}  BY <1>2 DEF Free, Entered, InLeaf
<1>4. th[t].pc \in Free  BY <1>3
<1>0. PICK n : n = th[t].node  OBVIOUS
<1>5. CASE nodes[n].ver # th[t].ver
  <2>1. Again(t, "snapshot_tree") /\ UNCHANGED <<nodes, root, treeVer, entries, known, wins>>
    BY <1>0, <1>5 DEF Upgrade, Restart
  <2> QED  BY <1>2, <1>3, <2>1, RestartStep
<1>6. CASE nodes[n].ver = th[t].ver
  <2>1. Valid(t) /\ th[t].pc \in InLeaf  BY <1>0, <1>2, <1>6 DEF Valid, Entered, InLeaf
  <2>2. n \in DOMAIN nodes /\ ~IsLocked(nodes[n].ver) /\ nodes[n].leaf /\ OnPath(t, n, span, level)
    BY <1>0, <1>1, <1>6, <2>1 DEF SeesNode, Valid
  <2>3. Raise(n)  BY <1>0, <1>6 DEF Upgrade
  <2>4. /\ nodes' \in Seq(Node(Len(nodes))) /\ nodes' \in Seq(Node(Len(nodes')))
        /\ Len(nodes') = Len(nodes) /\ DOMAIN nodes' = DOMAIN nodes
        /\ \A k \in DOMAIN nodes : k # n => nodes'[k] = nodes[k]
        /\ nodes'[n].ver = nodes[n].ver + 2 /\ nodes[n].ver < nodes'[n].ver
        /\ IsLocked(nodes'[n].ver)
        /\ nodes'[n].leaf = nodes[n].leaf /\ nodes'[n].count = nodes[n].count
        /\ nodes'[n].keys = nodes[n].keys /\ nodes'[n].values = nodes[n].values
        /\ nodes'[n].kids = nodes[n].kids
    BY <1>1, <2>2, <2>3, RaiseFacts
  <2>5. PICK pc : pc = Room(n)  OBVIOUS
  <2>6. pc \in {"no_room", "find"} /\ (pc = "find" => nodes[n].count < Fanout)
    <3>1. nodes[n].count \in 0 .. Fanout  BY <1>1, <2>2, NodeFacts
    <3> QED  BY <2>5, <3>1, FanoutFacts DEF Room, Full
  <2>7. PICK r : r = [th[t] EXCEPT !.pc = pc, !.ver = 0]  OBVIOUS
  <2>8. th[t].grow = FALSE  BY <1>4, FreeGrow
  <2>9. /\ r \in Locals /\ r.pc = pc /\ r.node = n /\ r.grow = FALSE
        /\ r.op = th[t].op /\ r.key = th[t].key /\ r.before = th[t].before
    <3>1. pc \in Places  BY <2>6 DEF Places, LeafHeld
    <3> QED  BY <1>0, <1>1, <2>7, <2>8, <3>1 DEF Locals
  <2>10. th' = [th EXCEPT ![t] = r]  BY <1>0, <1>6, <2>5, <2>7 DEF Upgrade, Set
  <2>11. UNCHANGED <<root, treeVer, entries, known, wins>>  BY DEF Upgrade
  <2>12. r \in Locals'  BY <2>4, <2>9 DEF Locals
  <2>13. TypeOK' /\ th'[t] = r /\ Others(t)
    <3>1. /\ treeVer' \in Nat /\ entries' \in Int /\ known' \in SUBSET Int /\ wins' \in SUBSET Entry
          /\ Len(nodes) <= Len(nodes') /\ root' \in 0 .. Len(nodes')
      <4>1. Len(nodes) \in Nat  BY <1>1, NodeFacts
      <4> QED  BY <1>1, <2>4, <2>11, <4>1 DEF TypeOK
    <3> QED  BY <1>1, <2>4, <2>10, <2>12, <3>1, TypeStep
  <2>14. /\ ~HoldsNode(t) /\ ~HoldsChild(t) /\ ~HoldsTree(t) /\ ~Reduces(t)
         /\ \A k : ~Holds(t, k) /\ ~Private(t, k) /\ ~Writes(t, k)
    BY <1>4, <2>8, FreeFacts
  <2>15. r.pc \in LeafHeld  BY <2>6, <2>9 DEF LeafHeld
  <2>16. /\ HoldsNode(t)' /\ ~HoldsChild(t)' /\ ~HoldsTree(t)'
         /\ \A k : Holds(t, k)' <=> k = n
    BY <2>9, <2>13, <2>15, LeafLockNext
  <2>17. LockStep(t)  BY <2>2, <2>4, <2>11, <2>13, <2>14, <2>16, <2>9 DEF LockStep
  <2>18. /\ r.pc \notin Entered /\ r.pc \notin AtTree /\ r.pc \notin SlowPath /\ r.pc \notin Opening
         /\ r.pc \notin Opening \union {"release_child", "lock_child", "child_room"}
         /\ r.pc \notin InLeaf /\ r.pc # "read_count" /\ r.pc # "returned" /\ r.pc \notin Moving
    BY <2>6, <2>9 DEF Entered, Coupling, InLeaf, AtTree, Moving, SlowPath, TreeHeld, Splitting, Opening, Walking
  <2>19. Keeps(t, Null, span, level)
    <3>1. Null \notin DOMAIN nodes  BY Basics DEF Null
    <3>2. \A k \in DOMAIN nodes : nodes[k].ver <= nodes'[k].ver /\ nodes'[k].leaf = nodes[k].leaf
      <4>1. \A k \in DOMAIN nodes : nodes[k].ver \in Nat  BY <1>1, NodeFacts
      <4>2. nodes[n].ver <= nodes'[n].ver  BY <2>2, <2>4, <4>1
      <4> QED  BY <2>4, <4>1, <4>2
    <3>3. \A k \in DOMAIN nodes : nodes'[k] # nodes[k] => ~IsLocked(nodes[k].ver) /\ nodes'[k].ver # nodes[k].ver
      <4>1. nodes[n].ver \in Nat /\ nodes'[n].ver # nodes[n].ver  BY <1>1, <2>2, <2>4, NodeFacts
      <4> QED  BY <2>2, <2>4, <4>1
    <3>4. \A k \in DOMAIN nodes : Takes(t, k) => Reaches(t, k, span, level)
      <4>1. \A k \in DOMAIN nodes : Takes(t, k) => k = n  BY <2>4, <2>13, <2>18 DEF Takes
      <4> QED  BY <1>0, <2>1, <4>1 DEF Reaches
    <3>5. \A k \in DOMAIN nodes :
            /\ nodes'[k].count = nodes[k].count /\ nodes'[k].keys = nodes[k].keys
            /\ nodes'[k].values = nodes[k].values /\ nodes'[k].kids = nodes[k].kids
      BY <2>4
    <3> QED  BY <2>4, <2>11, <2>14, <3>1, <3>2, <3>3, <3>4, <3>5 DEF Keeps
  <2>20. SeesTree(t)' /\ SeesNode(t, span, level)'  BY <2>13, <2>18, Blind
  <2>21. WritesLeaf(t, span, level)'
    <3>1. OnPath(t, n, span, level)'  BY <2>2, <2>4, <2>9, <2>11, <2>13 DEF OnPath
    <3>2. r.pc \notin {"shift", "store_value"} /\ r.pc # "store_value" /\ r.pc # "count_up"
          /\ r.pc # "release_leaf" /\ r.pc # "count_entry"
      BY <2>6, <2>9
    <3> QED  BY <2>2, <2>4, <2>6, <2>9, <2>13, <2>18, <3>1, <3>2 DEF WritesLeaf
  <2>22. Descends(t, span, level)'
    <3>1. n \in DOMAIN nodes' /\ level[n] <= level[root']  BY <2>2, <2>4, <2>11 DEF OnPath
    <3> QED  BY <2>9, <2>13, <2>18, <3>1, NoDescent
  <2>23. Opens(t, span, level)' /\ HasRoom(t, span, level)'  BY <2>13, <2>18, NoOpening, NoClaim
  <2>24. Calls(t)'
    <3>1. th[t].op = "insert" /\ th[t].pc # "idle"  BY <1>1, <1>2 DEF Calls
    <3>2. known \subseteq known'  BY <2>11
    <3> QED  BY <1>1, <2>9, <2>13, <2>18, <3>1, <3>2, KeepCall
  <2>25. Own(t, span, level)'  BY <2>20, <2>21, <2>22, <2>23, <2>24 DEF Own
  <2>26. History'  BY <1>1, <2>11, HistorySame
  <2>27. Tally'
    <3>1. ~At(t, "count_entry") /\ ~At(t, "count_entry")'  BY <1>2, <2>6, <2>9, <2>13 DEF At
    <3> QED  BY <1>1, <2>11, <2>13, <3>1, TallySame
  <2>28. known \subseteq known'  BY <2>11
  <2> QED  BY <2>11, <2>13, <2>17, <2>19, <2>25, <2>26, <2>27, <2>28, StepKeeps
<1> QED  BY <1>5, <1>6

\* A step that lets go of the leaf.
LEMMA LeafRelease ==
  ASSUME NEW span, NEW level, NEW t \in Threads, NEW n, NEW r, IInv(span, level),
         th[t].pc \in LeafHeld, n = th[t].node, Raise(n), th' = [th EXCEPT ![t] = r], r \in Locals,
         r.pc \in {"lock_tree", "returned", "count_entry"}, r.grow = FALSE, r.pc = "lock_tree" => r.op = "insert",
         UNCHANGED <<root, treeVer, entries>>, known \subseteq known', known' \in SUBSET Int,
         wins' = wins \/ (At(t, "release_leaf") /\ wins' = wins \union {Mine(t)}), wins' \in SUBSET Entry,
         NodeOK(n, span, level)', History', Tally', Calls(t)', WritesLeaf(t, span, level)'
  PROVE  IInv(span, level)'
<1>1. TypeOK  BY Start
<1>2. /\ n \in DOMAIN nodes /\ nodes[n].leaf /\ IsLocked(nodes[n].ver) /\ th[t].grow = FALSE
      /\ Holds(t, n) /\ HoldsNode(t) /\ ~HoldsChild(t) /\ ~HoldsTree(t) /\ ~Reduces(t)
      /\ \A k : (Holds(t, k) <=> k = n) /\ ~Private(t, k)
  BY AtLeaf
<1>3. /\ nodes' \in Seq(Node(Len(nodes))) /\ nodes' \in Seq(Node(Len(nodes')))
      /\ Len(nodes') = Len(nodes) /\ DOMAIN nodes' = DOMAIN nodes
      /\ \A k \in DOMAIN nodes : k # n => nodes'[k] = nodes[k]
      /\ nodes'[n].ver = nodes[n].ver + 2 /\ nodes[n].ver < nodes'[n].ver
      /\ ~IsLocked(nodes'[n].ver) /\ nodes'[n].leaf = nodes[n].leaf
  BY <1>1, <1>2, RaiseFacts
<1>4. r \in Locals'  BY <1>3 DEF Locals
<1>5. TypeOK' /\ th'[t] = r /\ Others(t)
  <2>1. treeVer' \in Nat /\ entries' \in Int /\ Len(nodes) <= Len(nodes') /\ root' \in 0 .. Len(nodes')
    <3>1. Len(nodes) \in Nat  BY <1>1, NodeFacts
    <3> QED  BY <1>1, <1>3, <3>1 DEF TypeOK
  <2> QED  BY <1>1, <1>3, <1>4, <2>1, TypeStep
<1>6. /\ r.pc \notin LeafHeld /\ r.pc \notin TreeHeld /\ r.pc \notin Splitting /\ r.pc \notin Walking
      /\ r.pc \notin {"grow", "release_tree", "release_child", "publish_root", "child_room", "release_parent"}
      /\ r.pc \notin Entered /\ r.pc \notin AtTree /\ r.pc \notin Opening
      /\ r.pc \notin Opening \union {"release_child", "lock_child", "child_room"}
      /\ (r.pc \in SlowPath => r.pc = "lock_tree")
  BY DEF LeafHeld, Moving, TreeHeld, Splitting, Opening, Walking, Entered, Coupling, InLeaf, AtTree, SlowPath
<1>7. ~HoldsNode(t)' /\ ~HoldsChild(t)' /\ ~HoldsTree(t)'
  BY <1>5, <1>6 DEF HoldsNode, HoldsChild, HoldsTree
<1>8. \A k : ~Holds(t, k)'  BY <1>7 DEF Holds
<1>9. LockStep(t)  BY <1>2, <1>3, <1>7, <1>8 DEF LockStep
<1>10. Keeps(t, n, span, level)
  <2>1. \A k \in DOMAIN nodes : Foreign(t, k) => k # n  BY <1>2 DEF Foreign
  <2>2. \A k \in DOMAIN nodes : k # n => ~Takes(t, k)  BY <1>3, <1>5, <1>6 DEF Takes
  <2>3. \A k \in DOMAIN nodes : k # n => ~Writes(t, k)  BY DEF Writes
  <2>4. \A k \in DOMAIN nodes : nodes[k].ver <= nodes'[k].ver /\ nodes'[k].leaf = nodes[k].leaf
    <3>1. \A k \in DOMAIN nodes : nodes[k].ver \in Nat  BY <1>1, NodeFacts
    <3>2. nodes[n].ver <= nodes'[n].ver  BY <1>2, <1>3, <3>1
    <3> QED  BY <1>3, <3>1, <3>2
  <2> QED  BY <1>2, <1>3, <2>1, <2>2, <2>3, <2>4 DEF Keeps
<1>11. SeesTree(t)' /\ SeesNode(t, span, level)'  BY <1>5, <1>6, Blind
<1>12. Descends(t, span, level)'
  BY <1>5, <1>6, <1>7 DEF Descends, TreeHeld, Walking, Splitting
<1>13. Opens(t, span, level)' /\ HasRoom(t, span, level)'  BY <1>5, <1>6, NoOpening, NoClaim
<1>14. Own(t, span, level)'  BY <1>11, <1>12, <1>13 DEF Own
<1>15. wins' = wins \/ (At(t, "release_leaf") /\ wins' = wins \union {Mine(t)} /\ n = th[t].node)  OBVIOUS
<1> QED  BY <1>5, <1>9, <1>10, <1>14, <1>15, StepKeeps

\* A leaf that its holder is not writing is as it should be after the release too.
LEMMA LeafReleased ==
  ASSUME NEW span, NEW level, NEW t \in Threads, NEW n, IInv(span, level),
         th[t].pc \in LeafHeld \ Moving, n = th[t].node, Raise(n), wins' = wins
  PROVE  /\ NodeOK(n, span, level)'
         /\ LeafOK(nodes[n].keys, nodes[n].values, nodes[n].count, span[n], wins)
<1>1. TypeOK  BY Start
<1>2. n \in DOMAIN nodes /\ Holds(t, n) /\ nodes[n].leaf  BY AtLeaf
<1>3. th[t].pc \notin Moving \union Opening  BY DEF LeafHeld, Moving, Opening
<1>4. NodeOK(n, span, level)  BY <1>2, <1>3, HeldOK
<1>5. /\ nodes'[n].leaf = nodes[n].leaf /\ nodes'[n].count = nodes[n].count
      /\ nodes'[n].keys = nodes[n].keys /\ nodes'[n].values = nodes[n].values
  BY <1>1, <1>2, RaiseFacts
<1> QED  BY <1>2, <1>4, <1>5 DEF NodeOK

\* A leaf found full is released, for the slow path.
LEMMA NoRoomStep ==
  ASSUME NEW span, NEW level, NEW t \in Threads, IInv(span, level), NoRoom(t)
  PROVE  IInv(span, level)'
<1>1. TypeOK /\ th \in [Threads -> Locals] /\ Calls(t) /\ History /\ Tally /\ wins \in SUBSET Entry
      /\ known \in SUBSET Int
  BY Start, Basics DEF TypeOK
<1>2. th[t].pc = "no_room"  BY DEF NoRoom, At
<1>3. th[t].pc \in LeafHeld \ Moving  BY <1>2 DEF LeafHeld, Moving
<1>4. th[t].pc \in LeafHeld  BY <1>3
<1>0. PICK n : n = th[t].node  OBVIOUS
<1>5. Raise(n) /\ UNCHANGED <<root, treeVer, entries, calls, known, wins>>  BY <1>0 DEF NoRoom
<1>6. PICK r : r = Afresh(th[t], "lock_tree")  OBVIOUS
<1>7. /\ r \in Locals /\ r.pc = "lock_tree" /\ r.grow = FALSE
      /\ r.op = th[t].op /\ r.key = th[t].key /\ r.before = th[t].before
  BY <1>1, <1>6, AfreshFacts DEF Places, SlowPath
<1>8. th' = [th EXCEPT ![t] = r] /\ th'[t] = r  BY <1>1, <1>6 DEF NoRoom, Again, Set
<1>9. NodeOK(n, span, level)'
  <2>1. n = th[t].node /\ Raise(n) /\ wins' = wins  BY <1>0, <1>5
  <2> QED  BY <1>3, <2>1, LeafReleased
<1>10. History'  BY <1>1, <1>5, HistorySame
<1>11. Others(t)  BY <1>1, <1>8 DEF Others
<1>12. Tally'
  <2>1. ~At(t, "count_entry") /\ ~At(t, "count_entry")'  BY <1>2, <1>7, <1>8 DEF At
  <2> QED  BY <1>1, <1>5, <1>11, <2>1, TallySame
<1>13. th[t].op = "insert"  BY <1>4, Inserting
<1>14. Calls(t)'
  <2>1. r.pc \notin InLeaf /\ r.pc # "read_count" /\ r.pc # "returned" /\ th[t].pc # "idle"
    BY <1>2, <1>7 DEF InLeaf
  <2>2. known \subseteq known'  BY <1>5
  <2> QED  BY <1>1, <1>7, <1>8, <1>13, <2>1, <2>2, KeepCall
<1>15. WritesLeaf(t, span, level)'
  <2>1. r.pc \notin LeafHeld /\ r.pc # "count_entry"  BY <1>7 DEF LeafHeld, Moving
  <2> QED  BY <1>8, <2>1, NoLeafWork
<1>16. n = th[t].node  BY <1>0
<1>17. known \subseteq known' /\ known' \in SUBSET Int /\ wins' = wins /\ wins' \in SUBSET Entry  BY <1>1, <1>5
<1> QED  BY <1>4, <1>5, <1>7, <1>8, <1>9, <1>10, <1>12, <1>13, <1>14, <1>15, <1>16, <1>17, LeafRelease

\* The key is there: an entry of it was accepted.
LEMMA FindDuplicateStep ==
  ASSUME NEW span, NEW level, NEW t \in Threads, NEW n, IInv(span, level), Find(t), n = th[t].node,
         LeafSlot(nodes[n].keys, nodes[n].count, th[t].key) >= 0
  PROVE  IInv(span, level)'
<1>1. TypeOK /\ th \in [Threads -> Locals] /\ Calls(t) /\ History /\ Tally /\ wins \in SUBSET Entry
      /\ known \in SUBSET Int
  BY Start, Basics DEF TypeOK
<1>2. th[t].pc = "find"  BY DEF Find, At
<1>3. th[t].pc \in LeafHeld \ Moving  BY <1>2 DEF LeafHeld, Moving
<1>4. th[t].pc \in LeafHeld  BY <1>3
<1>5. Raise(n) /\ UNCHANGED <<root, treeVer, entries, wins>> /\ known' = known \union {th[t].key}  BY DEF Find
<1>6. PICK r : r = [Afresh(th[t], "returned") EXCEPT !.answer = FALSE, !.found = th[t].found]  OBVIOUS
<1>7. /\ r \in Locals /\ r.pc = "returned" /\ r.grow = FALSE /\ ~r.answer
      /\ r.op = th[t].op /\ r.key = th[t].key /\ r.before = th[t].before
  BY <1>1, <1>6, ReturnFacts
<1>8. th' = [th EXCEPT ![t] = r] /\ th'[t] = r  BY <1>1, <1>6 DEF Find, Return, Set
<1>9. /\ NodeOK(n, span, level)'
      /\ LeafOK(nodes[n].keys, nodes[n].values, nodes[n].count, span[n], wins)
  <2>1. Raise(n) /\ wins' = wins  BY <1>5
  <2> QED  BY <1>3, <2>1, LeafReleased
<1>10. n \in DOMAIN nodes  BY <1>4, AtLeaf
<1>11. \E w \in wins : w.key = th[t].key
  <2>1. nodes[n].keys \in Arrays /\ nodes[n].count \in 0 .. Fanout /\ th[t].key \in Int
    BY <1>1, <1>10, NodeFacts, ThreadFacts
  <2>2. \A j \in 0 .. Fanout - 1 : nodes[n].keys[j] \in Int  BY <2>1 DEF Arrays
  <2>3. PICK i : i = LeafSlot(nodes[n].keys, nodes[n].count, th[t].key)  OBVIOUS
  <2>4. i \in -1 .. nodes[n].count - 1 /\ i >= 0 /\ nodes[n].keys[i] = th[t].key
    BY <2>1, <2>2, <2>3, LeafSlotFacts
  <2>5. i \in 0 .. nodes[n].count - 1  BY <2>1, <2>4, FanoutFacts
  <2>6. nodes[n].values[i] \in wins /\ nodes[n].values[i].key = nodes[n].keys[i]  BY <1>9, <2>5 DEF LeafOK
  <2> QED  BY <2>4, <2>6
<1>12. th[t].op = "insert" /\ th[t].key \in Int /\ th[t].key \in Keys  BY <1>4, Inserting
<1>13. History'  BY <1>1, <1>5, <1>11, HistoryKnown
<1>14. known \subseteq known' /\ known' \in SUBSET Int  BY <1>1, <1>5, <1>12
<1>15. Others(t)  BY <1>1, <1>8 DEF Others
<1>16. Tally'
  <2>1. ~At(t, "count_entry") /\ ~At(t, "count_entry")'  BY <1>2, <1>7, <1>8 DEF At
  <2> QED  BY <1>1, <1>5, <1>15, <2>1, TallySame
<1>17. Calls(t)'
  <2>1. th[t].before \subseteq known'  BY <1>1, <1>14 DEF Calls
  <2> QED  BY <1>5, <1>7, <1>8, <1>11, <1>12, <2>1 DEF Calls, LeafHeld, Moving
<1>18. WritesLeaf(t, span, level)'
  <2>1. r.pc \notin LeafHeld /\ r.pc # "count_entry"  BY <1>7 DEF LeafHeld, Moving
  <2> QED  BY <1>8, <2>1, NoLeafWork
<1>19. wins' = wins /\ wins' \in SUBSET Entry /\ UNCHANGED <<root, treeVer, entries>>  BY <1>1, <1>5
<1>20. NodeOK(n, span, level)'  BY <1>9
<1>21. r.pc \in {"lock_tree", "returned", "count_entry"} /\ r.pc # "lock_tree"  BY <1>7
<1> QED  BY <1>4, <1>5, <1>7, <1>8, <1>13, <1>14, <1>16, <1>17, <1>18, <1>19, <1>20, <1>21, LeafRelease

\* Finding the slot: the key is there already, or it opens.
LEMMA FindStep ==
  ASSUME NEW span, NEW level, NEW t \in Threads, IInv(span, level), Find(t)
  PROVE  IInv(span, level)'
<1>0. PICK n : n = th[t].node  OBVIOUS
<1>1. TypeOK  BY Start
<1>2. th[t].pc \in LeafHeld  BY DEF Find, At, LeafHeld
<1>3. n = th[t].node  BY <1>0
<1>4. n \in DOMAIN nodes  BY <1>2, <1>3, AtLeaf
<1>5. nodes[n].keys \in Arrays /\ nodes[n].count \in 0 .. Fanout /\ th[t].key \in Int
  BY <1>1, <1>4, NodeFacts, ThreadFacts
<1>6. \A j \in 0 .. Fanout - 1 : nodes[n].keys[j] \in Int  BY <1>5 DEF Arrays
<1>7. LeafSlot(nodes[n].keys, nodes[n].count, th[t].key) \in -1 .. nodes[n].count - 1
  BY <1>5, <1>6, LeafSlotFacts
<1>8. \/ LeafSlot(nodes[n].keys, nodes[n].count, th[t].key) >= 0
      \/ LeafSlot(nodes[n].keys, nodes[n].count, th[t].key) < 0
  BY <1>5, <1>7, FanoutFacts
<1> QED  BY <1>3, <1>8, FindDuplicateStep, FindOpenStep

\* The entry is accepted as its leaf is released.
LEMMA ReleaseLeafStep ==
  ASSUME NEW span, NEW level, NEW t \in Threads, IInv(span, level), ReleaseLeaf(t)
  PROVE  IInv(span, level)'
<1>1. TypeOK /\ th \in [Threads -> Locals] /\ th[t] \in Locals /\ Calls(t) /\ History /\ Tally
      /\ wins \in SUBSET Entry /\ known \in SUBSET Int /\ WritesLeaf(t, span, level)
  BY Start, Basics DEF TypeOK
<1>2. th[t].pc = "release_leaf"  BY DEF ReleaseLeaf, At
<1>3. th[t].pc \in Moving /\ th[t].pc # "count_entry"  BY <1>2 DEF Moving
<1>4. th[t].pc \in LeafHeld  BY <1>2 DEF LeafHeld
<1>0. PICK n : n = th[t].node  OBVIOUS
<1>16. n = th[t].node  BY <1>0
<1>5. /\ Raise(n) /\ UNCHANGED <<root, treeVer, entries, known>> /\ wins' = wins \union {Mine(t)}
  BY <1>0 DEF ReleaseLeaf, Mine
<1>6. PICK r : r = [th[t] EXCEPT !.pc = "count_entry"]  OBVIOUS
<1>7. n \in DOMAIN nodes /\ nodes[n].leaf  BY <1>4, <1>16, AtLeaf
<1>17. th[t].grow = FALSE /\ th[t].key \in span[n]  BY <1>4, <1>16, AtLeaf
<1>8. /\ r \in Locals /\ r.pc = "count_entry" /\ r.grow = FALSE
      /\ r.op = th[t].op /\ r.key = th[t].key /\ r.before = th[t].before
  <2>1. "count_entry" \in Places  BY DEF Places
  <2> QED  BY <1>1, <1>6, <1>17, <2>1 DEF Locals
<1>9. th' = [th EXCEPT ![t] = r] /\ th'[t] = r  BY <1>1, <1>6 DEF ReleaseLeaf, Go
<1>10. NotYet(t) /\ LeafOK(nodes[n].keys, nodes[n].values, nodes[n].count, span[n], wins \union {Mine(t)})
  BY <1>0, <1>1, <1>2, <1>3 DEF WritesLeaf
<1>11. NodeOK(n, span, level)'
  <2>1. /\ nodes'[n].leaf = nodes[n].leaf /\ nodes'[n].count = nodes[n].count
        /\ nodes'[n].keys = nodes[n].keys /\ nodes'[n].values = nodes[n].values
    BY <1>1, <1>5, <1>7, RaiseFacts
  <2> QED  BY <1>5, <1>7, <1>10, <2>1 DEF NodeOK
<1>12. th[t].op = "insert" /\ th[t].key \in Int /\ th[t].key \in Keys  BY <1>4, Inserting
<1>13. Mine(t) \in Entry /\ Mine(t).key = th[t].key /\ Mine(t) \notin wins
  <2>1. Mine(t) \in Entry /\ Mine(t).key = th[t].key  BY <1>12 DEF Mine, Entry
  <2> QED  BY <1>10, <2>1 DEF NotYet
<1>14. History'
  <2>1. root # Null  BY <1>7, Basics
  <2>2. \A w \in wins : w.key # Mine(t).key  BY <1>10, <1>13 DEF NotYet
  <2>3. \A k \in known' : \E w \in wins' : w.key = k  BY <1>1, <1>5 DEF History
  <2>4. \A v, w \in wins' : v.key = w.key => v = w  BY <1>1, <1>5, <2>2 DEF History
  <2>5. \A w \in wins' : w.key \in Keys  BY <1>1, <1>5, <1>12, <1>13 DEF History
  <2>6. root' = root  BY <1>5
  <2> QED  BY <2>1, <2>3, <2>4, <2>5, <2>6 DEF History
<1>15. Others(t)  BY <1>1, <1>9 DEF Others
<1>18. Tally'
  <2>1. IsFiniteSet(wins) /\ entries + Cardinality(Counting) = Cardinality(wins)  BY <1>1 DEF Tally
  <2>2. \A u \in Threads : u # t => (At(u, "count_entry")' <=> At(u, "count_entry"))
    <3> SUFFICES ASSUME NEW u \in Threads, u # t PROVE At(u, "count_entry")' <=> At(u, "count_entry")  OBVIOUS
    <3>1. th'[u] = th[u]  BY <1>15 DEF Others
    <3> QED  BY <3>1 DEF At
  <2>3. At(t, "count_entry")' /\ ~At(t, "count_entry")  BY <1>2, <1>8, <1>9 DEF At
  <2>4. Counting' = Counting \union {t} /\ t \notin Counting  BY <2>2, <2>3 DEF Counting
  <2>5. IsFiniteSet(Counting)
    <3>1. Counting \subseteq Threads  BY DEF Counting
    <3> QED  BY <3>1, ThreadsAssumption, FS_Subset
  <2>6. Cardinality(Counting') = Cardinality(Counting) + 1  BY <2>4, <2>5, FS_AddElement
  <2>7. IsFiniteSet(wins') /\ Cardinality(wins') = Cardinality(wins) + 1
    BY <1>5, <1>13, <2>1, FS_AddElement
  <2>8. entries \in Int /\ Cardinality(Counting) \in Nat /\ Cardinality(wins) \in Nat
    BY <1>1, <2>1, <2>5, FS_CardinalityType DEF TypeOK
  <2>9. entries' = entries  BY <1>5
  <2> QED  BY <2>1, <2>6, <2>7, <2>8, <2>9 DEF Tally
<1>19. Calls(t)'
  <2>1. r.pc \notin InLeaf /\ r.pc # "read_count" /\ r.pc # "returned" /\ th[t].pc # "idle"
    BY <1>2, <1>8 DEF InLeaf
  <2>2. known \subseteq known'  BY <1>5
  <2> QED  BY <1>1, <1>8, <1>9, <1>12, <2>1, <2>2, KeepCall
<1>20. WritesLeaf(t, span, level)'
  <2>1. r.pc \notin LeafHeld /\ r.pc # "find" /\ r.pc \notin Moving /\ r.pc \notin {"shift", "store_value"}
        /\ r.pc # "store_value" /\ r.pc # "count_up" /\ r.pc # "release_leaf"
    BY <1>8 DEF LeafHeld, Moving
  <2>2. Mine(t)' = Mine(t)  BY <1>8, <1>9 DEF Mine
  <2>3. r.key \notin r.before  BY <1>8, <1>10 DEF NotYet
  <2> QED  BY <1>5, <1>9, <2>1, <2>2, <2>3 DEF WritesLeaf
<1>21. /\ known \subseteq known' /\ known' \in SUBSET Int /\ wins' \in SUBSET Entry
       /\ UNCHANGED <<root, treeVer, entries>>
  BY <1>1, <1>5, <1>13
<1>22. wins' = wins \/ (At(t, "release_leaf") /\ wins' = wins \union {Mine(t)})  BY <1>2, <1>5 DEF At
<1>23. r.pc \in {"lock_tree", "returned", "count_entry"} /\ r.pc # "lock_tree" /\ Raise(n)  BY <1>5, <1>8
<1> QED  BY <1>4, <1>8, <1>9, <1>11, <1>14, <1>16, <1>18, <1>19, <1>20, <1>21, <1>22, <1>23, LeafRelease

\* The entry is counted, and the call returns.
LEMMA CountEntryStep ==
  ASSUME NEW span, NEW level, NEW t \in Threads, IInv(span, level), CountEntry(t)
  PROVE  IInv(span, level)'
<1>1. TypeOK /\ th \in [Threads -> Locals] /\ Calls(t) /\ History /\ Tally
      /\ wins \in SUBSET Entry /\ known \in SUBSET Int /\ WritesLeaf(t, span, level) /\ entries \in Int
  BY Start, Basics DEF TypeOK
<1>2. th[t].pc = "count_entry"  BY DEF CountEntry, At
<1>3. th[t].pc \in Free  BY <1>2 DEF Free
<1>4. UNCHANGED <<nodes, root, treeVer, wins>> /\ entries' = entries + 1 /\ known' = known \union {th[t].key}
  BY DEF CountEntry
<1>5. PICK r : r = [Afresh(th[t], "returned") EXCEPT !.answer = TRUE, !.found = th[t].found]  OBVIOUS
<1>6. /\ r \in Locals /\ r.pc = "returned" /\ r.grow = FALSE /\ r.answer
      /\ r.op = th[t].op /\ r.key = th[t].key /\ r.before = th[t].before
  BY <1>1, <1>5, ReturnFacts
<1>7. th' = [th EXCEPT ![t] = r]  BY <1>1, <1>5 DEF CountEntry, Return, Set
<1>8. th[t].op = "insert" /\ th[t].key \in Int /\ th[t].key \in Keys  BY <1>2, Inserting
<1>9. Mine(t) \in wins /\ Mine(t).key = th[t].key /\ th[t].key \notin th[t].before
  BY <1>1, <1>2 DEF WritesLeaf, Mine
<1>10. TypeOK' /\ th'[t] = r /\ Others(t)
  <2>1. Len(nodes) \in Nat /\ nodes \in Seq(Node(Len(nodes)))  BY <1>1, NodeFacts
  <2>2. nodes' \in Seq(Node(Len(nodes'))) /\ Len(nodes) <= Len(nodes')  BY <1>4, <2>1
  <2>3. root' \in 0 .. Len(nodes') /\ treeVer' \in Nat /\ entries' \in Int /\ known' \in SUBSET Int
        /\ wins' \in SUBSET Entry
    <3>1. entries' \in Int  BY <1>1, <1>4
    <3>2. known' \in SUBSET Int  BY <1>1, <1>4, <1>8
    <3>3. root \in 0 .. Len(nodes) /\ treeVer \in Nat  BY <1>1 DEF TypeOK
    <3> QED  BY <1>1, <1>4, <3>1, <3>2, <3>3
  <2>4. r \in Locals'  BY <1>4, <1>6 DEF Locals
  <2> QED  BY <1>1, <1>7, <2>2, <2>3, <2>4, TypeStep
<1>11. History'
  <2>1. \E w \in wins : w.key = th[t].key  BY <1>9
  <2> QED  BY <1>1, <1>4, <2>1, HistoryKnown
<1>12. Tally'
  <2>1. IsFiniteSet(wins) /\ entries + Cardinality(Counting) = Cardinality(wins)  BY <1>1 DEF Tally
  <2>2. \A u \in Threads : u # t => (At(u, "count_entry")' <=> At(u, "count_entry"))
    <3> SUFFICES ASSUME NEW u \in Threads, u # t PROVE At(u, "count_entry")' <=> At(u, "count_entry")  OBVIOUS
    <3>1. th'[u] = th[u]  BY <1>10 DEF Others
    <3> QED  BY <3>1 DEF At
  <2>3. ~At(t, "count_entry")' /\ At(t, "count_entry")  BY <1>2, <1>6, <1>10 DEF At
  <2>4. Counting' = Counting \ {t} /\ t \in Counting  BY <2>2, <2>3 DEF Counting
  <2>5. IsFiniteSet(Counting)
    <3>1. Counting \subseteq Threads  BY DEF Counting
    <3> QED  BY <3>1, ThreadsAssumption, FS_Subset
  <2>6. Cardinality(Counting') = Cardinality(Counting) - 1  BY <2>4, <2>5, FS_RemoveElement
  <2>7. Cardinality(Counting) \in Nat /\ Cardinality(wins) \in Nat
    BY <2>1, <2>5, FS_CardinalityType
  <2>8. entries' + Cardinality(Counting') = Cardinality(wins)  BY <1>1, <1>4, <2>1, <2>6, <2>7
  <2> QED  BY <1>4, <2>1, <2>8 DEF Tally
<1>13. th[t].grow = FALSE  BY <1>3, FreeGrow
<1>14. /\ ~HoldsNode(t) /\ ~HoldsChild(t) /\ ~HoldsTree(t) /\ ~Reduces(t)
       /\ \A n : ~Holds(t, n) /\ ~Private(t, n) /\ ~Writes(t, n)
  BY <1>3, <1>13, FreeFacts
<1>15. /\ r.pc \notin LeafHeld /\ r.pc \notin TreeHeld /\ r.pc \notin Splitting /\ r.pc \notin Walking
       /\ r.pc \notin {"grow", "release_tree", "release_child", "publish_root", "child_room", "release_parent"}
       /\ r.pc \notin Entered /\ r.pc \notin AtTree /\ r.pc \notin Opening
       /\ r.pc \notin Opening \union {"release_child", "lock_child", "child_room"}
       /\ r.pc \notin SlowPath /\ r.pc # "count_entry"
  BY <1>6 DEF LeafHeld, Moving, TreeHeld, Splitting, Opening, Walking, Entered, Coupling, InLeaf, AtTree, SlowPath
<1>16. ~HoldsNode(t)' /\ ~HoldsChild(t)' /\ ~HoldsTree(t)'
  BY <1>10, <1>15 DEF HoldsNode, HoldsChild, HoldsTree
<1>17. \A n : ~Holds(t, n)'  BY <1>16 DEF Holds
<1>18. LockStep(t)  BY <1>4, <1>14, <1>16, <1>17 DEF LockStep
<1>19. Keeps(t, Null, span, level)
  <2>1. Null \notin DOMAIN nodes  BY Basics DEF Null
  <2>2. \A n \in DOMAIN nodes : nodes[n].ver \in Nat  BY <1>1, NodeFacts
  <2>3. \A n \in DOMAIN nodes : ~Takes(t, n)  BY <1>4, <1>10, <1>15 DEF Takes
  <2> QED  BY <1>4, <1>14, <2>1, <2>2, <2>3 DEF Keeps
<1>20. SeesTree(t)' /\ SeesNode(t, span, level)'  BY <1>10, <1>15, Blind
<1>21. WritesLeaf(t, span, level)'  BY <1>10, <1>15, NoLeafWork
<1>22. Descends(t, span, level)'  BY <1>6, <1>10, <1>15, <1>16, NoDescent
<1>23. Opens(t, span, level)' /\ HasRoom(t, span, level)'  BY <1>10, <1>15, NoOpening, NoClaim
<1>24. Calls(t)'
  <2>1. th[t].before \subseteq known'  BY <1>1, <1>4 DEF Calls
  <2> QED  BY <1>4, <1>6, <1>8, <1>9, <1>10, <2>1 DEF Calls, LeafHeld, Moving
<1>25. Own(t, span, level)'  BY <1>20, <1>21, <1>22, <1>23, <1>24 DEF Own
<1>26. known \subseteq known' /\ wins' = wins  BY <1>4
<1> QED  BY <1>10, <1>11, <1>12, <1>18, <1>19, <1>25, <1>26, StepKeeps

----------------------------------------------------------------------------
(* The slow path: locks from the root down.                                 *)

\* A step on the slow path that accepts nothing and leaves the root.
LEMMA SlowStep ==
  ASSUME NEW span, NEW level, NEW t \in Threads, NEW m, NEW r, IInv(span, level), th[t].pc \in SlowPath,
         th' = [th EXCEPT ![t] = r], r \in Locals, r.pc \in SlowPath \union {"find"},
         r.op = th[t].op, r.key = th[t].key, r.before = th[t].before,
         nodes' \in Seq(Node(Len(nodes'))), Len(nodes') = Len(nodes), treeVer' \in Nat,
         UNCHANGED <<root, entries, known, wins>>,
         Keeps(t, m, span, level), LockStep(t),
         WritesLeaf(t, span, level)', Descends(t, span, level)', Opens(t, span, level)', HasRoom(t, span, level)'
  PROVE  IInv(span, level)'
<1>1. TypeOK /\ Calls(t) /\ History /\ Tally  BY Start, Basics
<1>2. r \in Locals'  BY DEF Locals
<1>3. TypeOK' /\ th'[t] = r /\ Others(t)
  <2>1. /\ entries' \in Int /\ known' \in SUBSET Int /\ wins' \in SUBSET Entry
        /\ Len(nodes) <= Len(nodes') /\ root' \in 0 .. Len(nodes')
    <3>1. Len(nodes) \in Nat  BY <1>1, NodeFacts
    <3> QED  BY <1>1, <3>1 DEF TypeOK
  <2> QED  BY <1>1, <1>2, <2>1, TypeStep
<1>4. /\ r.pc \notin Entered /\ r.pc \notin AtTree /\ r.pc \notin InLeaf /\ r.pc # "read_count"
      /\ r.pc # "returned" /\ r.pc # "count_entry" /\ th[t].pc # "idle" /\ th[t].pc # "count_entry"
  BY DEF Entered, Coupling, InLeaf, AtTree, SlowPath, TreeHeld, Splitting, Opening, Walking
<1>5. SeesTree(t)' /\ SeesNode(t, span, level)'  BY <1>3, <1>4, Blind
<1>6. th[t].op = "insert"  BY Inserting
<1>7. known \subseteq known' /\ wins' = wins  OBVIOUS
<1>8. Calls(t)'  BY <1>1, <1>3, <1>4, <1>6, <1>7, KeepCall
<1>9. History'  BY <1>1, HistorySame
<1>10. Tally'
  <2>1. ~At(t, "count_entry") /\ ~At(t, "count_entry")'  BY <1>3, <1>4 DEF At
  <2> QED  BY <1>1, <1>3, <2>1, TallySame
<1>11. Own(t, span, level)'  BY <1>5, <1>8 DEF Own
<1> QED  BY <1>3, <1>7, <1>9, <1>10, <1>11, StepKeeps

\* Nodes that stay as they are.
LEMMA SameNodes ==
  ASSUME TypeOK, nodes' = nodes
  PROVE  /\ nodes' \in Seq(Node(Len(nodes'))) /\ Len(nodes') = Len(nodes) /\ DOMAIN nodes' = DOMAIN nodes
         /\ \A n \in DOMAIN nodes : nodes'[n] = nodes[n]
BY NodeFacts

\* The slow path of a thread that is not growing the tree.
LEMMA NotGrowing ==
  ASSUME NEW span, NEW level, NEW t \in Threads, IInv(span, level),
         th[t].pc \in {"lock_tree", "plant", "lock_root", "grow", "release_tree"} \union Walking
  PROVE  th[t].grow = FALSE /\ ~Reduces(t) /\ \A n : ~Private(t, n) /\ ~Writes(t, n)
<1>1. TypeOK /\ Descends(t, span, level)  BY Start
<1>2. th[t].pc \notin Splitting \union {"publish_root", "release_child"} /\ th[t].pc \notin Moving \union Opening
  BY DEF Walking, Splitting, Opening, Moving
<1>3. th[t].grow = FALSE  BY <1>1, <1>2, ThreadFacts DEF Descends
<1> QED  BY <1>2, <1>3 DEF Reduces, Private, Writes

\* A step that changes no more of the nodes than their versions.
LEMMA VersionKeeps ==
  ASSUME NEW span, NEW level, NEW t \in Threads, IInv(span, level),
         DOMAIN nodes' = DOMAIN nodes, Len(nodes') = Len(nodes), root' = root,
         \A n \in DOMAIN nodes :
           /\ nodes[n].ver <= nodes'[n].ver /\ nodes'[n].leaf = nodes[n].leaf
           /\ nodes'[n].count = nodes[n].count /\ nodes'[n].keys = nodes[n].keys
           /\ nodes'[n].values = nodes[n].values /\ nodes'[n].kids = nodes[n].kids
           /\ nodes'[n] # nodes[n] =>
                \/ Holds(t, n)
                \/ ~IsLocked(nodes[n].ver) /\ nodes'[n].ver # nodes[n].ver /\ Reaches(t, n, span, level),
         th[t].pc \notin Moving \union Opening, th'[t].pc \notin Entered,
         Reduces(t) => Reduces(t)', \A n : Private(t, n) => Private(t, n)'
  PROVE  Keeps(t, Null, span, level)
<1>1. Null \notin DOMAIN nodes
  <2>1. DOMAIN nodes = 1 .. Len(nodes) /\ Len(nodes) \in Nat  BY Basics
  <2> QED  BY <2>1 DEF Null
<1>2. ASSUME NEW n \in DOMAIN nodes
      PROVE  /\ ~Writes(t, n)
             /\ Foreign(t, n) /\ nodes'[n] # nodes[n] => ~IsLocked(nodes[n].ver) /\ nodes'[n].ver # nodes[n].ver
             /\ Foreign(t, n) /\ Takes(t, n) => Reaches(t, n, span, level)
  BY <1>2 DEF Writes, Foreign, Takes
<1> QED  BY <1>1, <1>2 DEF Keeps

\* A lock operation on node m, by which t comes to hold it or lets it go.
LEMMA RaiseLock ==
  ASSUME NEW t \in Threads, NEW m \in DOMAIN nodes, TypeOK, Raise(m),
         IsLocked(nodes[m].ver) <=> Holds(t, m), Holds(t, m)' <=> ~Holds(t, m),
         \A n \in DOMAIN nodes : n # m => (Holds(t, n)' <=> Holds(t, n)),
         HoldsNode(t)' => th'[t].node \in DOMAIN nodes', HoldsChild(t)' => th'[t].child \in DOMAIN nodes',
         treeVer' = treeVer, HoldsTree(t)' <=> HoldsTree(t)
  PROVE  LockStep(t)
<1>1. /\ DOMAIN nodes' = DOMAIN nodes /\ \A n \in DOMAIN nodes : n # m => nodes'[n] = nodes[n]
      /\ (IsLocked(nodes'[m].ver) <=> ~IsLocked(nodes[m].ver))
  BY RaiseFacts
<1>2. ASSUME NEW n \in DOMAIN nodes
      PROVE  \/ nodes'[n].ver = nodes[n].ver /\ (Holds(t, n)' <=> Holds(t, n))
             \/ ~IsLocked(nodes[n].ver) /\ IsLocked(nodes'[n].ver) /\ Holds(t, n)'
             \/ Holds(t, n) /\ ~IsLocked(nodes'[n].ver) /\ ~Holds(t, n)'
  <2>1. CASE n = m  BY <1>1, <2>1
  <2>2. CASE n # m  BY <1>1, <2>2
  <2> QED  BY <2>1, <2>2
<1> QED  BY <1>1, <1>2 DEF LockStep
\* A step down the tree, or at its root, that writes no more than lock words.
LEMMA WalkStep ==
  ASSUME NEW span, NEW level, NEW t \in Threads, NEW r, IInv(span, level),
         th[t].pc \in {"lock_tree", "lock_root", "release_tree"} \union Walking,
         th' = [th EXCEPT ![t] = r], r \in Locals,
         r.pc \in {"plant", "lock_root", "grow", "release_tree", "split", "find"} \union Walking,
         r.grow = th[t].grow, r.op = th[t].op, r.key = th[t].key, r.before = th[t].before,
         nodes' \in Seq(Node(Len(nodes'))), DOMAIN nodes' = DOMAIN nodes, Len(nodes') = Len(nodes), treeVer' \in Nat,
         \A n \in DOMAIN nodes :
           /\ nodes[n].ver <= nodes'[n].ver /\ nodes'[n].leaf = nodes[n].leaf
           /\ nodes'[n].count = nodes[n].count /\ nodes'[n].keys = nodes[n].keys
           /\ nodes'[n].values = nodes[n].values /\ nodes'[n].kids = nodes[n].kids
           /\ nodes'[n] # nodes[n] =>
                \/ Holds(t, n)
                \/ ~IsLocked(nodes[n].ver) /\ nodes'[n].ver # nodes[n].ver /\ Reaches(t, n, span, level),
         UNCHANGED <<root, entries, known, wins>>, LockStep(t),
         Descends(t, span, level)', HasRoom(t, span, level)', r.pc # "find" \/ WritesLeaf(t, span, level)'
  PROVE  IInv(span, level)'
<1>1. TypeOK /\ th[t] \in Locals /\ th \in [Threads -> Locals]  BY Start
<1>2. th'[t] = r  BY <1>1
<1>3. /\ r.pc \notin Entered /\ r.pc \notin Opening /\ r.pc # "count_entry" /\ r.pc \in SlowPath \union {"find"}
      /\ (r.pc # "find" => r.pc \notin LeafHeld)
  BY DEF Entered, Coupling, InLeaf, Opening, LeafHeld, Moving, SlowPath, Walking, TreeHeld, Splitting
<1>4. th[t].pc \in SlowPath /\ th[t].pc \notin Moving \union Opening
  BY DEF SlowPath, TreeHeld, Walking, Moving, Opening
<1>5. th[t].grow = FALSE /\ ~Reduces(t) /\ \A n : ~Private(t, n) /\ ~Writes(t, n)
  <2>1. th[t].pc \in {"lock_tree", "plant", "lock_root", "grow", "release_tree"} \union Walking  OBVIOUS
  <2> QED  BY <2>1, NotGrowing
<1>6. Keeps(t, Null, span, level)
  <2>1. root' = root /\ th'[t].pc \notin Entered /\ Reduces(t) => Reduces(t)'  BY <1>2, <1>3, <1>5
  <2>2. \A n : Private(t, n) => Private(t, n)'  BY <1>5
  <2>3. th'[t].pc \notin Entered  BY <1>2, <1>3
  <2>4. Reduces(t) => Reduces(t)'  BY <1>5
  <2>5. root' = root  OBVIOUS
  <2> QED  BY <1>4, <2>2, <2>3, <2>4, <2>5, VersionKeeps
<1>7. WritesLeaf(t, span, level)'
  <2>1. CASE r.pc # "find"  BY <1>2, <1>3, <2>1, NoLeafWork
  <2> QED  BY <2>1
<1>8. Opens(t, span, level)'  BY <1>2, <1>3, NoOpening
<1>9. r.pc \in SlowPath \union {"find"}  BY <1>3
<1>10. th[t].pc \in SlowPath  BY <1>4
<1> QED  BY <1>6, <1>7, <1>8, <1>9, <1>10, SlowStep

\* What a raised lock word leaves, in the form that WalkStep asks for.
LEMMA RaiseOnly ==
  ASSUME NEW span, NEW level, NEW t \in Threads, NEW m \in DOMAIN nodes, TypeOK, Raise(m),
         Holds(t, m) \/ (~IsLocked(nodes[m].ver) /\ Reaches(t, m, span, level))
  PROVE  \A n \in DOMAIN nodes :
           /\ nodes[n].ver <= nodes'[n].ver /\ nodes'[n].leaf = nodes[n].leaf
           /\ nodes'[n].count = nodes[n].count /\ nodes'[n].keys = nodes[n].keys
           /\ nodes'[n].values = nodes[n].values /\ nodes'[n].kids = nodes[n].kids
           /\ nodes'[n] # nodes[n] =>
                \/ Holds(t, n)
                \/ ~IsLocked(nodes[n].ver) /\ nodes'[n].ver # nodes[n].ver /\ Reaches(t, n, span, level)
<1>1. /\ \A n \in DOMAIN nodes : n # m => nodes'[n] = nodes[n]
      /\ nodes'[m].ver = nodes[m].ver + 2
      /\ nodes'[m].leaf = nodes[m].leaf /\ nodes'[m].count = nodes[m].count
      /\ nodes'[m].keys = nodes[m].keys /\ nodes'[m].values = nodes[m].values
      /\ nodes'[m].kids = nodes[m].kids
  BY RaiseFacts
<1>2. \A n \in DOMAIN nodes : nodes[n].ver \in Nat  BY NodeFacts
<1>3. nodes[m].ver <= nodes'[m].ver /\ nodes'[m].ver # nodes[m].ver  BY <1>1, <1>2
<1>4. ASSUME NEW n \in DOMAIN nodes
      PROVE  /\ nodes[n].ver <= nodes'[n].ver /\ nodes'[n].leaf = nodes[n].leaf
             /\ nodes'[n].count = nodes[n].count /\ nodes'[n].keys = nodes[n].keys
             /\ nodes'[n].values = nodes[n].values /\ nodes'[n].kids = nodes[n].kids
             /\ nodes'[n] # nodes[n] =>
                  \/ Holds(t, n)
                  \/ ~IsLocked(nodes[n].ver) /\ nodes'[n].ver # nodes[n].ver /\ Reaches(t, n, span, level)
  <2>1. CASE n = m  BY <1>1, <1>3, <2>1
  <2>2. CASE n # m  BY <1>1, <1>2, <2>2
  <2> QED  BY <2>1, <2>2
<1> QED  BY <1>4

\* The slow path begins by locking the tree,
LEMMA LockTreeStep ==
  ASSUME NEW span, NEW level, NEW t \in Threads, IInv(span, level), LockTree(t)
  PROVE  IInv(span, level)'
<1>1. TypeOK /\ th[t] \in Locals /\ th \in [Threads -> Locals] /\ Descends(t, span, level) /\ treeVer \in Nat
  BY Start DEF TypeOK
<1>2. th[t].pc = "lock_tree"  BY DEF LockTree, At
<1>3. th[t].pc \in {"lock_tree", "lock_root", "release_tree"} \union Walking  BY <1>2
<1>4. th[t].grow = FALSE /\ th[t].op = "insert"
  <2>1. th[t].pc \in {"lock_tree", "plant", "lock_root", "grow", "release_tree"} \union Walking  BY <1>2
  <2>2. th[t].pc \in SlowPath  BY <1>2 DEF SlowPath
  <2> QED  BY <1>1, <2>1, <2>2, NotGrowing DEF Descends
<1>5. PICK pc : pc = IF root = Null THEN "plant" ELSE "lock_root"  OBVIOUS
<1>6. pc \in {"plant", "lock_root"} /\ (pc = "plant" <=> root = Null)  BY <1>5
<1>7. PICK r : r = [th[t] EXCEPT !.pc = pc]  OBVIOUS
<1>8. /\ r \in Locals /\ r.pc = pc /\ r.grow = th[t].grow
      /\ r.op = th[t].op /\ r.key = th[t].key /\ r.before = th[t].before
  <2>1. pc \in Places  BY <1>6 DEF Places, SlowPath, TreeHeld
  <2> QED  BY <1>1, <1>7, <2>1 DEF Locals
<1>9. /\ th' = [th EXCEPT ![t] = r] /\ th'[t] = r /\ treeVer' = Raised(treeVer) /\ ~IsLocked(treeVer)
      /\ nodes' = nodes /\ UNCHANGED <<root, entries, known, wins>>
  BY <1>1, <1>5, <1>7 DEF LockTree, Go
<1>10. treeVer' \in Nat /\ treeVer < treeVer' /\ IsLocked(treeVer')  BY <1>1, <1>9, Parity
<1>11. /\ nodes' \in Seq(Node(Len(nodes'))) /\ DOMAIN nodes' = DOMAIN nodes /\ Len(nodes') = Len(nodes)
       /\ \A n \in DOMAIN nodes : nodes'[n] = nodes[n] /\ nodes[n].ver \in Nat /\ nodes[n].ver <= nodes'[n].ver
  <2>1. \A n \in DOMAIN nodes : nodes[n].ver \in Nat  BY <1>1, NodeFacts
  <2> QED  BY <1>1, <1>9, <2>1, SameNodes
<1>12. LockStep(t)
  <2>1. ~HoldsNode(t) /\ ~HoldsChild(t)
    BY <1>2 DEF HoldsNode, HoldsChild, LeafHeld, Moving, Walking, Splitting, Opening
  <2>2. ~HoldsNode(t)' /\ ~HoldsChild(t)' /\ HoldsTree(t)'
    BY <1>6, <1>8, <1>9 DEF HoldsNode, HoldsChild, HoldsTree, LeafHeld, Moving, Walking, Splitting, Opening, TreeHeld
  <2> QED  BY <1>9, <1>10, <1>11, <2>1, <2>2 DEF LockStep, Holds
<1>13. Descends(t, span, level)'
  <2>1. /\ r.pc \notin {"grow", "release_tree"} /\ r.pc \notin Walking \union Splitting \union {"release_child"}
        /\ r.pc \notin {"split", "child_room", "release_parent"}
        /\ r.pc \notin Splitting \union {"lock_child", "child_room", "release_parent", "publish_root", "release_child"}
        /\ r.pc \in TreeHeld
    BY <1>6, <1>8 DEF Walking, Splitting, Opening, TreeHeld
  <2>2. ~HoldsNode(t)' /\ ~HoldsChild(t)'
    BY <1>6, <1>8, <1>9 DEF HoldsNode, HoldsChild, LeafHeld, Moving, Walking, Splitting, Opening
  <2>3. r.pc = "plant" => root' = Null  BY <1>6, <1>8, <1>9
  <2>4. r.pc # "plant" => root' # Null  BY <1>6, <1>8, <1>9
  <2>5. r.grow = FALSE /\ r.op = "insert"  BY <1>4, <1>8
  <2> QED  BY <1>6, <1>8, <1>9, <2>1, <2>2, <2>3, <2>4, <2>5 DEF Descends
<1>14. HasRoom(t, span, level)'
  <2>1. r.pc \notin Opening \union {"release_child", "lock_child", "child_room"}  BY <1>6, <1>8 DEF Opening
  <2> QED  BY <1>9, <2>1, NoClaim
<1>15. r.pc # "find" /\ r.pc \in {"plant", "lock_root", "grow", "release_tree", "split", "find"} \union Walking
  BY <1>6, <1>8
<1>16. \A n \in DOMAIN nodes :
           /\ nodes[n].ver <= nodes'[n].ver /\ nodes'[n].leaf = nodes[n].leaf
           /\ nodes'[n].count = nodes[n].count /\ nodes'[n].keys = nodes[n].keys
           /\ nodes'[n].values = nodes[n].values /\ nodes'[n].kids = nodes[n].kids
           /\ nodes'[n] # nodes[n] =>
                \/ Holds(t, n)
                \/ ~IsLocked(nodes[n].ver) /\ nodes'[n].ver # nodes[n].ver /\ Reaches(t, n, span, level)
  BY <1>11
<1> QED  BY <1>3, <1>8, <1>9, <1>10, <1>11, <1>12, <1>13, <1>14, <1>15, <1>16, WalkStep
\* then its root.
LEMMA LockRootStep ==
  ASSUME NEW span, NEW level, NEW t \in Threads, IInv(span, level), LockRoot(t)
  PROVE  IInv(span, level)'
<1>1. TypeOK /\ th[t] \in Locals /\ th \in [Threads -> Locals] /\ Descends(t, span, level) /\ treeVer \in Nat
  BY Start DEF TypeOK
<1>2. th[t].pc = "lock_root"  BY DEF LockRoot, At
<1>3. th[t].pc \in {"lock_tree", "lock_root", "release_tree"} \union Walking  BY <1>2
<1>4. th[t].grow = FALSE /\ th[t].op = "insert" /\ root # Null
  <2>1. th[t].pc \in {"lock_tree", "plant", "lock_root", "grow", "release_tree"} \union Walking  BY <1>2
  <2>2. th[t].pc \in SlowPath /\ th[t].pc \in TreeHeld \ {"plant"}  BY <1>2 DEF SlowPath, TreeHeld
  <2> QED  BY <1>1, <2>1, <2>2, NotGrowing DEF Descends
<1>5. root \in DOMAIN nodes /\ level[root] \in Nat  BY <1>4, Basics
<1>6. PICK pc : pc = IF Full(root) THEN "grow" ELSE "release_tree"  OBVIOUS
<1>7. /\ pc \in {"grow", "release_tree"}
      /\ (pc = "grow" => nodes[root].count = Fanout) /\ (pc = "release_tree" => nodes[root].count < Fanout)
  <2>1. nodes[root].count \in 0 .. Fanout  BY <1>1, <1>5, NodeFacts
  <2> QED  BY <1>6, <2>1, FanoutFacts DEF Full
<1>8. PICK r : r = [th[t] EXCEPT !.pc = pc, !.node = root]  OBVIOUS
<1>9. /\ r \in Locals /\ r.pc = pc /\ r.node = root /\ r.grow = th[t].grow
      /\ r.op = th[t].op /\ r.key = th[t].key /\ r.before = th[t].before
  <2>1. pc \in Places  BY <1>7 DEF Places, SlowPath, TreeHeld
  <2>2. root \in 0 .. Len(nodes)  BY <1>1 DEF TypeOK
  <2> QED  BY <1>1, <1>8, <2>1, <2>2 DEF Locals
<1>10. /\ th' = [th EXCEPT ![t] = r] /\ th'[t] = r /\ Raise(root) /\ ~IsLocked(nodes[root].ver)
       /\ UNCHANGED <<root, treeVer, entries, known, wins>>
  BY <1>1, <1>6, <1>8 DEF LockRoot, Set
<1>11. /\ nodes' \in Seq(Node(Len(nodes'))) /\ DOMAIN nodes' = DOMAIN nodes /\ Len(nodes') = Len(nodes)
       /\ nodes'[root].count = nodes[root].count
  BY <1>1, <1>5, <1>10, RaiseFacts
<1>12. Reaches(t, root, span, level)  BY DEF Reaches
<1>13. \A n \in DOMAIN nodes :
           /\ nodes[n].ver <= nodes'[n].ver /\ nodes'[n].leaf = nodes[n].leaf
           /\ nodes'[n].count = nodes[n].count /\ nodes'[n].keys = nodes[n].keys
           /\ nodes'[n].values = nodes[n].values /\ nodes'[n].kids = nodes[n].kids
           /\ nodes'[n] # nodes[n] =>
                \/ Holds(t, n)
                \/ ~IsLocked(nodes[n].ver) /\ nodes'[n].ver # nodes[n].ver /\ Reaches(t, n, span, level)
  BY <1>1, <1>5, <1>10, <1>12, RaiseOnly
<1>14. ~HoldsNode(t) /\ ~HoldsChild(t) /\ HoldsTree(t)
  BY <1>2 DEF HoldsNode, HoldsChild, HoldsTree, LeafHeld, Moving, Walking, Splitting, Opening, TreeHeld
<1>15. HoldsNode(t)' /\ ~HoldsChild(t)' /\ HoldsTree(t)'
  BY <1>7, <1>9, <1>10 DEF HoldsNode, HoldsChild, HoldsTree, LeafHeld, Moving, Walking, Splitting, Opening, TreeHeld
<1>16. LockStep(t)
  <2>1. \A n : ~Holds(t, n)  BY <1>14 DEF Holds
  <2>2. \A n : Holds(t, n)' <=> n = root  BY <1>9, <1>10, <1>15 DEF Holds
  <2>3. IsLocked(nodes[root].ver) <=> Holds(t, root)  BY <1>10, <2>1
  <2>4. Holds(t, root)' <=> ~Holds(t, root)
    <3>0. PICK m : m = root  OBVIOUS
    <3>1. Holds(t, m)'  BY <3>0, <2>2
    <3> QED  BY <1>10, <2>1, <3>0, <3>1
  <2>5. \A n \in DOMAIN nodes : n # root => (Holds(t, n)' <=> Holds(t, n))  BY <2>1, <2>2
  <2>6. HoldsNode(t)' => th'[t].node \in DOMAIN nodes'  BY <1>5, <1>9, <1>10, <1>11
  <2>7. HoldsChild(t)' => th'[t].child \in DOMAIN nodes'  BY <1>15
  <2>8. treeVer' = treeVer /\ (HoldsTree(t)' <=> HoldsTree(t))  BY <1>10, <1>14, <1>15
  <2> QED  BY <1>1, <1>5, <1>10, <2>3, <2>4, <2>5, <2>6, <2>7, <2>8, RaiseLock
<1>17. Descends(t, span, level)'
  <2>1. /\ r.pc \in {"grow", "release_tree"} /\ r.pc \notin Walking \union Splitting \union {"release_child"}
        /\ r.pc \notin {"split", "child_room", "release_parent"}
        /\ r.pc \notin Splitting \union {"lock_child", "child_room", "release_parent", "publish_root", "release_child"}
    BY <1>7, <1>9 DEF Walking, Splitting, Opening
  <2>2. root' = root /\ root' # Null  BY <1>4, <1>10
  <2>3. r.grow = FALSE /\ r.op = "insert"  BY <1>4, <1>9
  <2>4. level[root] <= level[root]  BY <1>5
  <2> QED  BY <1>5, <1>7, <1>9, <1>10, <1>11, <1>15, <2>1, <2>2, <2>3, <2>4 DEF Descends
<1>18. HasRoom(t, span, level)'
  <2>1. r.pc \notin Opening \union {"release_child", "lock_child", "child_room"}  BY <1>7, <1>9 DEF Opening
  <2> QED  BY <1>10, <2>1, NoClaim
<1>19. r.pc # "find" /\ r.pc \in {"plant", "lock_root", "grow", "release_tree", "split", "find"} \union Walking
  BY <1>7, <1>9
<1>20. treeVer' \in Nat  BY <1>1, <1>10
<1> QED  BY <1>3, <1>9, <1>10, <1>11, <1>13, <1>16, <1>17, <1>18, <1>19, <1>20, WalkStep

\* The root is responsible for every key, so that the descent is on its way.
LEMMA ReleaseTreeStep ==
  ASSUME NEW span, NEW level, NEW t \in Threads, IInv(span, level), ReleaseTree(t)
  PROVE  IInv(span, level)'
<1>1. TypeOK /\ th[t] \in Locals /\ th \in [Threads -> Locals] /\ Descends(t, span, level) /\ treeVer \in Nat
  BY Start DEF TypeOK
<1>2. th[t].pc = "release_tree"  BY DEF ReleaseTree, At
<1>3. th[t].pc \in {"lock_tree", "lock_root", "release_tree"} \union Walking  BY <1>2
<1>4. th[t].grow = FALSE /\ ~Reduces(t)
  <2>1. th[t].pc \in {"lock_tree", "plant", "lock_root", "grow", "release_tree"} \union Walking  BY <1>2
  <2> QED  BY <2>1, NotGrowing
<1>5. th[t].op = "insert" /\ th[t].key \in Keys
  <2>1. th[t].pc \in {"upgrade", "count_entry"} \union LeafHeld \union SlowPath  BY <1>2 DEF SlowPath, TreeHeld
  <2> QED  BY <2>1, Inserting
<1>0. PICK n : n = th[t].node  OBVIOUS
<1>6. HoldsNode(t) /\ ~HoldsChild(t) /\ HoldsTree(t)
  BY <1>2 DEF HoldsNode, HoldsChild, HoldsTree, LeafHeld, Moving, Walking, Splitting, Opening, TreeHeld
<1>7. /\ n \in DOMAIN nodes /\ level[n] <= level[root] /\ n = root /\ root # Null /\ nodes[n].count < Fanout
  BY <1>0, <1>1, <1>2, <1>6 DEF Descends, TreeHeld
<1>8. IsLocked(treeVer)  BY <1>6, Holding
<1>9. th[t].key \in span[n]
  <2>1. ~Reduced
    <3>1. SUFFICES ASSUME NEW u \in Threads, Reduces(u) PROVE FALSE  BY DEF Reduced, Reduces
    <3>2. HoldsTree(u)  BY <3>1 DEF Reduces, HoldsTree, TreeHeld, Splitting
    <3>3. u # t  BY <1>4, <3>1
    <3> QED  BY <1>6, <3>2, <3>3, Apart
  <2>2. Spans(span, level)  BY Basics
  <2>3. span[root] = Keys  BY <1>7, <2>1, <2>2 DEF Spans
  <2> QED  BY <1>5, <1>7, <2>3
<1>10. PICK pc : pc = Standing(n)  OBVIOUS
<1>11. pc \in {"slow_room", "lock_child"} /\ (pc = "slow_room" <=> nodes[n].leaf)
  <2>1. nodes[n].leaf \in BOOLEAN  BY <1>1, <1>7, NodeFacts
  <2>2. CASE nodes[n].leaf  BY <1>10, <2>2 DEF Standing
  <2>3. CASE ~nodes[n].leaf  BY <1>10, <2>3 DEF Standing
  <2> QED  BY <2>1, <2>2, <2>3
<1>12. PICK r : r = [th[t] EXCEPT !.pc = pc]  OBVIOUS
<1>13. /\ r \in Locals /\ r.pc = pc /\ r.node = n /\ r.grow = th[t].grow
       /\ r.op = th[t].op /\ r.key = th[t].key /\ r.before = th[t].before
  <2>1. pc \in Places  BY <1>11 DEF Places, SlowPath, Walking
  <2> QED  BY <1>0, <1>1, <1>12, <2>1 DEF Locals
<1>14. /\ th' = [th EXCEPT ![t] = r] /\ th'[t] = r /\ treeVer' = Raised(treeVer)
       /\ nodes' = nodes /\ UNCHANGED <<root, entries, known, wins>>
  BY <1>0, <1>1, <1>10, <1>12 DEF ReleaseTree, Go
<1>15. treeVer' \in Nat /\ treeVer < treeVer' /\ ~IsLocked(treeVer')  BY <1>1, <1>8, <1>14, Parity
<1>16. /\ nodes' \in Seq(Node(Len(nodes'))) /\ DOMAIN nodes' = DOMAIN nodes /\ Len(nodes') = Len(nodes)
       /\ \A k \in DOMAIN nodes : nodes'[k] = nodes[k] /\ nodes[k].ver \in Nat /\ nodes[k].ver <= nodes'[k].ver
  <2>1. \A k \in DOMAIN nodes : nodes[k].ver \in Nat  BY <1>1, NodeFacts
  <2> QED  BY <1>1, <1>14, <2>1, SameNodes
<1>17. HoldsNode(t)' /\ ~HoldsChild(t)' /\ ~HoldsTree(t)'
  BY <1>4, <1>11, <1>13, <1>14
     DEF HoldsNode, HoldsChild, HoldsTree, LeafHeld, Moving, Walking, Splitting, Opening, TreeHeld
<1>18. LockStep(t)
  <2>1. \A k : Holds(t, k) <=> k = n  BY <1>0, <1>6 DEF Holds
  <2>2. \A k : Holds(t, k)' <=> k = n  BY <1>13, <1>14, <1>17 DEF Holds
  <2> QED  BY <1>6, <1>7, <1>13, <1>14, <1>15, <1>16, <1>17, <2>1, <2>2 DEF LockStep
<1>19. Descends(t, span, level)'
  <2>1. /\ r.pc \in Walking /\ r.pc \notin TreeHeld /\ r.pc \notin {"grow", "release_tree"}
        /\ r.pc \notin {"split", "child_room", "release_parent"}
        /\ (r.pc = "slow_room" <=> nodes'[n].leaf)
        /\ r.pc # "plant" /\ r.pc # "publish_root" /\ r.pc # "release_child" /\ r.pc # "split"
    BY <1>7, <1>11, <1>13, <1>16 DEF Walking, TreeHeld
  <2>2. r.pc \in Splitting \union {"lock_child", "child_room", "release_parent", "publish_root", "release_child"}
          => r.pc = "lock_child"
    BY <1>11, <1>13 DEF Splitting, Opening
  <2>3. r.grow = FALSE /\ r.op = "insert" /\ root' = root  BY <1>4, <1>5, <1>13, <1>14
  <2>4. ~nodes'[n].leaf \/ r.pc # "lock_child"  BY <1>7, <1>11, <1>13, <1>16
  <2> QED  BY <1>7, <1>9, <1>13, <1>14, <1>16, <1>17, <2>1, <2>2, <2>3, <2>4 DEF Descends
<1>20. HasRoom(t, span, level)'
  <2>1. /\ r.pc \notin {"shift_child", "store_child"} /\ r.pc # "count_child" /\ r.pc # "release_child"
        /\ r.pc # "child_room"
    BY <1>11, <1>13
  <2> QED  BY <1>7, <1>13, <1>14, <1>16, <2>1 DEF HasRoom
<1>21. r.pc # "find" /\ r.pc \in {"plant", "lock_root", "grow", "release_tree", "split", "find"} \union Walking
  BY <1>11, <1>13 DEF Walking
<1>22. \A k \in DOMAIN nodes :
           /\ nodes[k].ver <= nodes'[k].ver /\ nodes'[k].leaf = nodes[k].leaf
           /\ nodes'[k].count = nodes[k].count /\ nodes'[k].keys = nodes[k].keys
           /\ nodes'[k].values = nodes[k].values /\ nodes'[k].kids = nodes[k].kids
           /\ nodes'[k] # nodes[k] =>
                \/ Holds(t, k)
                \/ ~IsLocked(nodes[k].ver) /\ nodes'[k].ver # nodes[k].ver /\ Reaches(t, k, span, level)
  BY <1>16
<1> QED  BY <1>3, <1>13, <1>14, <1>15, <1>16, <1>18, <1>19, <1>20, <1>21, <1>22, WalkStep
\* Walking down, a thread that does not grow the tree holds the node where it
\* is, and the child once it has locked it.
LEMMA WalkFacts ==
  ASSUME NEW span, NEW level, NEW t \in Threads, NEW n, IInv(span, level), th[t].pc \in Walking, n = th[t].node
  PROVE  /\ TypeOK /\ th[t] \in Locals /\ th \in [Threads -> Locals]
         /\ Descends(t, span, level) /\ HasRoom(t, span, level)
         /\ th[t].grow = FALSE /\ th[t].op = "insert"
         /\ n \in DOMAIN nodes /\ IsLocked(nodes[n].ver) /\ th[t].key \in span[n] /\ level[n] <= level[root]
         /\ HoldsNode(t) /\ ~HoldsTree(t) /\ (HoldsChild(t) <=> th[t].pc \in {"child_room", "release_parent"})
         /\ nodes[n] \in Node(Len(nodes)) /\ nodes[n].count \in 0 .. Fanout /\ nodes[n].leaf \in BOOLEAN
         /\ treeVer \in Nat
<1>1. TypeOK /\ th[t] \in Locals /\ th \in [Threads -> Locals] /\ Descends(t, span, level) /\ HasRoom(t, span, level)
      /\ treeVer \in Nat
  BY Start DEF TypeOK
<1>2. th[t].grow = FALSE
  <2>1. th[t].pc \in {"lock_tree", "plant", "lock_root", "grow", "release_tree"} \union Walking  OBVIOUS
  <2> QED  BY <2>1, NotGrowing
<1>3. HoldsNode(t) /\ ~HoldsTree(t) /\ (HoldsChild(t) <=> th[t].pc \in {"child_room", "release_parent"})
  BY <1>2 DEF HoldsNode, HoldsChild, HoldsTree, LeafHeld, Moving, Walking, Splitting, Opening, TreeHeld
<1>4. th[t].op = "insert" /\ th[t].key \in span[n]
  <2>1. th[t].pc \in SlowPath  BY DEF SlowPath
  <2>2. th[t].pc \in Walking \union Splitting \union {"release_child"}  OBVIOUS
  <2> QED  BY <1>1, <2>1, <2>2 DEF Descends
<1>5. Holds(t, n)  BY <1>3 DEF Holds
<1>6. n \in DOMAIN nodes /\ IsLocked(nodes[n].ver) /\ level[n] <= level[root]  BY <1>5, Holding
<1>7. nodes[n] \in Node(Len(nodes)) /\ nodes[n].count \in 0 .. Fanout /\ nodes[n].leaf \in BOOLEAN
  BY <1>1, <1>6, NodeFacts
<1> QED  BY <1>1, <1>2, <1>3, <1>4, <1>6, <1>7

\* The defensive branch is dead: nobody has filled the leaf.
LEMMA SlowRoomStep ==
  ASSUME NEW span, NEW level, NEW t \in Threads, IInv(span, level), SlowRoom(t)
  PROVE  IInv(span, level)'
<1>0. PICK n : n = th[t].node  OBVIOUS
<1>1. th[t].pc = "slow_room"  BY DEF SlowRoom, At
<1>2. th[t].pc \in Walking  BY <1>1 DEF Walking
<1>3. /\ TypeOK /\ th[t] \in Locals /\ th \in [Threads -> Locals]
      /\ Descends(t, span, level) /\ HasRoom(t, span, level)
      /\ th[t].grow = FALSE /\ th[t].op = "insert"
      /\ n \in DOMAIN nodes /\ IsLocked(nodes[n].ver) /\ th[t].key \in span[n] /\ level[n] <= level[root]
      /\ HoldsNode(t) /\ ~HoldsTree(t) /\ (HoldsChild(t) <=> th[t].pc \in {"child_room", "release_parent"})
      /\ nodes[n] \in Node(Len(nodes)) /\ nodes[n].count \in 0 .. Fanout /\ nodes[n].leaf \in BOOLEAN
      /\ treeVer \in Nat
  <2>1. n = th[t].node  BY <1>0
  <2> QED  BY <1>2, <2>1, WalkFacts
<1>4. nodes[n].leaf /\ nodes[n].count < Fanout  BY <1>0, <1>1, <1>3 DEF Descends
<1>5. ~Full(n)  BY <1>3, <1>4, FanoutFacts DEF Full
<1>6. PICK r : r = [th[t] EXCEPT !.pc = "find"]  OBVIOUS
<1>7. /\ r \in Locals /\ r.pc = "find" /\ r.node = n /\ r.grow = th[t].grow
      /\ r.op = th[t].op /\ r.key = th[t].key /\ r.before = th[t].before
  <2>1. "find" \in Places  BY DEF Places, LeafHeld
  <2> QED  BY <1>0, <1>3, <1>6, <2>1 DEF Locals
<1>8. /\ th' = [th EXCEPT ![t] = r] /\ th'[t] = r
      /\ nodes' = nodes /\ UNCHANGED <<root, treeVer, entries, known, wins>>
  BY <1>0, <1>3, <1>5, <1>6 DEF SlowRoom, Go
<1>9. /\ nodes' \in Seq(Node(Len(nodes'))) /\ DOMAIN nodes' = DOMAIN nodes /\ Len(nodes') = Len(nodes)
      /\ \A k \in DOMAIN nodes : nodes'[k] = nodes[k] /\ nodes[k].ver \in Nat /\ nodes[k].ver <= nodes'[k].ver
  <2>1. \A k \in DOMAIN nodes : nodes[k].ver \in Nat  BY <1>3, NodeFacts
  <2> QED  BY <1>3, <1>8, <2>1, SameNodes
<1>10. HoldsNode(t)' /\ ~HoldsChild(t)' /\ ~HoldsTree(t)'
  BY <1>3, <1>7, <1>8 DEF HoldsNode, HoldsChild, HoldsTree, LeafHeld, TreeHeld, Splitting, Opening
<1>11. LockStep(t)
  <2>1. ~HoldsChild(t)  BY <1>1, <1>3
  <2>2. \A k : Holds(t, k) <=> k = n  BY <1>0, <1>3, <2>1 DEF Holds
  <2>3. \A k : Holds(t, k)' <=> k = n  BY <1>7, <1>8, <1>10 DEF Holds
  <2> QED  BY <1>3, <1>7, <1>8, <1>9, <1>10, <2>2, <2>3 DEF LockStep
<1>12. Descends(t, span, level)'
  <2>1. r.pc \notin SlowPath  BY <1>7 DEF SlowPath, TreeHeld, Splitting, Opening, Walking
  <2>2. n \in DOMAIN nodes' /\ level[n] <= level[root']  BY <1>3, <1>8, <1>9
  <2> QED  BY <1>3, <1>7, <1>8, <2>1, <2>2, NoDescent
<1>13. HasRoom(t, span, level)'
  <2>1. r.pc \notin Opening \union {"release_child", "lock_child", "child_room"}  BY <1>7 DEF Opening
  <2> QED  BY <1>8, <2>1, NoClaim
<1>14. WritesLeaf(t, span, level)'
  <2>1. OnPath(t, n, span, level)'  BY <1>3, <1>7, <1>8, <1>9 DEF OnPath
  <2>2. /\ r.pc \notin Moving /\ r.pc \notin {"shift", "store_value"} /\ r.pc # "store_value" /\ r.pc # "count_up"
        /\ r.pc # "release_leaf" /\ r.pc # "count_entry"
    BY <1>7 DEF Moving
  <2> QED  BY <1>3, <1>4, <1>7, <1>8, <1>9, <2>1, <2>2 DEF WritesLeaf
<1>15. r.pc \in {"plant", "lock_root", "grow", "release_tree", "split", "find"} \union Walking  BY <1>7
<1>16. \A k \in DOMAIN nodes :
           /\ nodes[k].ver <= nodes'[k].ver /\ nodes'[k].leaf = nodes[k].leaf
           /\ nodes'[k].count = nodes[k].count /\ nodes'[k].keys = nodes[k].keys
           /\ nodes'[k].values = nodes[k].values /\ nodes'[k].kids = nodes[k].kids
           /\ nodes'[k] # nodes[k] =>
                \/ Holds(t, k)
                \/ ~IsLocked(nodes[k].ver) /\ nodes'[k].ver # nodes[k].ver /\ Reaches(t, k, span, level)
  BY <1>9
<1>17. th[t].pc \in {"lock_tree", "lock_root", "release_tree"} \union Walking /\ treeVer' \in Nat  BY <1>2, <1>3, <1>8
<1> QED  BY <1>7, <1>8, <1>9, <1>11, <1>12, <1>13, <1>14, <1>15, <1>16, <1>17, WalkStep

\* The defensive branch is dead: a node with a full child has room.
LEMMA ChildRoomStep ==
  ASSUME NEW span, NEW level, NEW t \in Threads, IInv(span, level), ChildRoom(t)
  PROVE  IInv(span, level)'
<1>0. PICK n : n = th[t].node  OBVIOUS
<1>00. PICK q : q = th[t].child  OBVIOUS
<1>1. th[t].pc = "child_room"  BY DEF ChildRoom, At
<1>2. th[t].pc \in Walking  BY <1>1 DEF Walking
<1>3. /\ TypeOK /\ th[t] \in Locals /\ th \in [Threads -> Locals]
      /\ Descends(t, span, level) /\ HasRoom(t, span, level)
      /\ th[t].grow = FALSE /\ th[t].op = "insert"
      /\ n \in DOMAIN nodes /\ IsLocked(nodes[n].ver) /\ th[t].key \in span[n] /\ level[n] <= level[root]
      /\ HoldsNode(t) /\ ~HoldsTree(t) /\ (HoldsChild(t) <=> th[t].pc \in {"child_room", "release_parent"})
      /\ nodes[n] \in Node(Len(nodes)) /\ nodes[n].count \in 0 .. Fanout /\ nodes[n].leaf \in BOOLEAN
      /\ treeVer \in Nat
  <2>1. n = th[t].node  BY <1>0
  <2> QED  BY <1>2, <2>1, WalkFacts
<1>4. HoldsChild(t)  BY <1>1, <1>3
<1>5. q \in DOMAIN nodes /\ level[q] = level[n] - 1  BY <1>0, <1>00, <1>3, <1>4 DEF Descends
<1>6. nodes[q].count \in 0 .. Fanout  BY <1>3, <1>5, NodeFacts
<1>7. nodes[n].count < Fanout \/ nodes[q].count < Fanout  BY <1>0, <1>00, <1>1, <1>3 DEF HasRoom
<1>8. ~(Full(q) /\ Full(n))  BY <1>3, <1>6, <1>7, FanoutFacts DEF Full
<1>9. /\ ~nodes[n].leaf /\ th[t].slot \in 0 .. nodes[n].count
      /\ th[t].slot = ChildIndex(nodes[n].keys, nodes[n].count, th[t].key) /\ q = nodes[n].kids[th[t].slot]
  <2>1. th[t].pc \in {"split", "child_room", "release_parent"}  BY <1>1
  <2>2. ~nodes[n].leaf /\ th[t].slot \in 0 .. nodes[n].count  BY <1>0, <2>1, HeldChild
  <2> QED  BY <1>0, <1>00, <1>1, <1>3, <2>2 DEF Descends
<1>10. PICK pc : pc = IF Full(q) THEN "split" ELSE "release_parent"  OBVIOUS
<1>11. /\ pc \in {"split", "release_parent"} /\ (pc = "split" => nodes[q].count = Fanout /\ nodes[n].count < Fanout)
       /\ (pc = "release_parent" => nodes[q].count < Fanout)
  BY <1>3, <1>6, <1>7, <1>10, FanoutFacts DEF Full
<1>12. PICK r : r = [th[t] EXCEPT !.pc = pc]  OBVIOUS
<1>13. /\ r \in Locals /\ r.pc = pc /\ r.node = n /\ r.child = q /\ r.slot = th[t].slot /\ r.grow = th[t].grow
       /\ r.op = th[t].op /\ r.key = th[t].key /\ r.before = th[t].before
  <2>1. pc \in Places  BY <1>11 DEF Places, SlowPath, Splitting, Walking
  <2> QED  BY <1>0, <1>00, <1>3, <1>12, <2>1 DEF Locals
<1>14. /\ th' = [th EXCEPT ![t] = r] /\ th'[t] = r
       /\ nodes' = nodes /\ UNCHANGED <<root, treeVer, entries, known, wins>>
  BY <1>0, <1>00, <1>3, <1>8, <1>10, <1>12 DEF ChildRoom, Go
<1>15. /\ nodes' \in Seq(Node(Len(nodes'))) /\ DOMAIN nodes' = DOMAIN nodes /\ Len(nodes') = Len(nodes)
       /\ \A k \in DOMAIN nodes : nodes'[k] = nodes[k] /\ nodes[k].ver \in Nat /\ nodes[k].ver <= nodes'[k].ver
  <2>1. \A k \in DOMAIN nodes : nodes[k].ver \in Nat  BY <1>3, NodeFacts
  <2> QED  BY <1>3, <1>14, <2>1, SameNodes
<1>16. HoldsNode(t)' /\ HoldsChild(t)' /\ ~HoldsTree(t)'
  BY <1>3, <1>11, <1>13, <1>14 DEF HoldsNode, HoldsChild, HoldsTree, Walking, TreeHeld, Splitting, Opening
<1>17. LockStep(t)
  <2>1. \A k : Holds(t, k) <=> (k = n \/ k = q)  BY <1>0, <1>00, <1>3, <1>4 DEF Holds
  <2>2. \A k : Holds(t, k)' <=> (k = n \/ k = q)  BY <1>13, <1>14, <1>16 DEF Holds
  <2> QED  BY <1>3, <1>5, <1>13, <1>14, <1>15, <1>16, <2>1, <2>2 DEF LockStep
<1>18. Descends(t, span, level)'
  <2>1. /\ r.pc \notin TreeHeld /\ r.pc \notin {"grow", "release_tree"} /\ r.pc # "slow_room"
        /\ r.pc # "plant" /\ r.pc # "publish_root" /\ r.pc # "release_child"
    BY <1>11, <1>13 DEF TreeHeld
  <2>2. r.grow = FALSE /\ r.op = "insert" /\ root' = root  BY <1>3, <1>13, <1>14
  <2> QED  BY <1>3, <1>5, <1>9, <1>11, <1>13, <1>14, <1>15, <1>16, <2>1, <2>2 DEF Descends
<1>19. HasRoom(t, span, level)'
  <2>1. r.pc \notin Opening \union {"release_child", "lock_child", "child_room"}  BY <1>11, <1>13 DEF Opening
  <2> QED  BY <1>14, <2>1, NoClaim
<1>20. r.pc # "find" /\ r.pc \in {"plant", "lock_root", "grow", "release_tree", "split", "find"} \union Walking
  BY <1>11, <1>13 DEF Walking
<1>21. \A k \in DOMAIN nodes :
           /\ nodes[k].ver <= nodes'[k].ver /\ nodes'[k].leaf = nodes[k].leaf
           /\ nodes'[k].count = nodes[k].count /\ nodes'[k].keys = nodes[k].keys
           /\ nodes'[k].values = nodes[k].values /\ nodes'[k].kids = nodes[k].kids
           /\ nodes'[k] # nodes[k] =>
                \/ Holds(t, k)
                \/ ~IsLocked(nodes[k].ver) /\ nodes'[k].ver # nodes[k].ver /\ Reaches(t, k, span, level)
  BY <1>15
<1>22. th[t].pc \in {"lock_tree", "lock_root", "release_tree"} \union Walking /\ treeVer' \in Nat
  BY <1>2, <1>3, <1>14
<1> QED  BY <1>13, <1>14, <1>15, <1>17, <1>18, <1>19, <1>20, <1>21, <1>22, WalkStep
\* The child on the way is locked.
LEMMA LockChildStep ==
  ASSUME NEW span, NEW level, NEW t \in Threads, IInv(span, level), LockChild(t)
  PROVE  IInv(span, level)'
<1>0. PICK n : n = th[t].node  OBVIOUS
<1>00. PICK i : i = ChildIndex(nodes[n].keys, nodes[n].count, th[t].key)  OBVIOUS
<1>000. PICK q : q = nodes[n].kids[i]  OBVIOUS
<1>1. th[t].pc = "lock_child"  BY DEF LockChild, At
<1>2. th[t].pc \in Walking  BY <1>1 DEF Walking
<1>3. /\ TypeOK /\ th[t] \in Locals /\ th \in [Threads -> Locals]
      /\ Descends(t, span, level) /\ HasRoom(t, span, level)
      /\ th[t].grow = FALSE /\ th[t].op = "insert"
      /\ n \in DOMAIN nodes /\ IsLocked(nodes[n].ver) /\ th[t].key \in span[n] /\ level[n] <= level[root]
      /\ HoldsNode(t) /\ ~HoldsTree(t) /\ (HoldsChild(t) <=> th[t].pc \in {"child_room", "release_parent"})
      /\ nodes[n] \in Node(Len(nodes)) /\ nodes[n].count \in 0 .. Fanout /\ nodes[n].leaf \in BOOLEAN
      /\ treeVer \in Nat
  <2>1. n = th[t].node  BY <1>0
  <2> QED  BY <1>2, <2>1, WalkFacts
<1>4. ~HoldsChild(t)  BY <1>1, <1>3
<1>5. Holds(t, n)  BY <1>0, <1>3 DEF Holds
<1>6. ~nodes[n].leaf /\ NodeOK(n, span, level)
  <2>1. Holds(t, n) \/ Private(t, n)  BY <1>5
  <2>2. n # th[t].node \/ th[t].pc \notin Moving \union Opening  BY <1>1 DEF Moving, Opening
  <2>3. NodeOK(n, span, level)  BY <2>1, <2>2, HeldOK
  <2> QED  BY <1>0, <1>1, <1>3, <2>3 DEF Descends
<1>7. /\ i \in 0 .. nodes[n].count /\ q \in DOMAIN nodes /\ level[q] = level[n] - 1
      /\ th[t].key \in span[q] /\ span[q] \subseteq span[n]
  <2>1. InnerOK(nodes[n].keys, nodes[n].kids, nodes[n].count, span[n], level[n], span, level)
    BY <1>6 DEF NodeOK
  <2>2. th[t].key \in Int  BY <1>3, ThreadFacts
  <2> QED  BY <1>3, <1>00, <1>000, <2>1, <2>2, InnerPick
<1>8. level[n] \in Nat /\ level[q] \in Nat /\ q # n
  <2>1. level[n] \in Nat /\ level[q] \in Nat  BY <1>3, <1>7, Basics
  <2> QED  BY <1>7, <2>1
<1>9. PICK r : r = [th[t] EXCEPT !.pc = "child_room", !.slot = i, !.child = q]  OBVIOUS
<1>10. /\ r \in Locals /\ r.pc = "child_room" /\ r.node = n /\ r.child = q /\ r.slot = i /\ r.grow = th[t].grow
       /\ r.op = th[t].op /\ r.key = th[t].key /\ r.before = th[t].before
  <2>1. "child_room" \in Places  BY DEF Places, SlowPath, Walking
  <2>2. q \in 0 .. Len(nodes)
    <3>1. DOMAIN nodes = 1 .. Len(nodes) /\ Len(nodes) \in Nat  BY Basics
    <3> QED  BY <1>7, <3>1
  <2>3. i \in -1 .. Fanout  BY <1>3, <1>7, FanoutFacts
  <2> QED  BY <1>0, <1>3, <1>9, <2>1, <2>2, <2>3 DEF Locals
<1>11. /\ th' = [th EXCEPT ![t] = r] /\ th'[t] = r /\ Raise(q) /\ ~IsLocked(nodes[q].ver)
       /\ UNCHANGED <<root, treeVer, entries, known, wins>>
  BY <1>0, <1>00, <1>000, <1>3, <1>9 DEF LockChild, Set
<1>12. /\ nodes' \in Seq(Node(Len(nodes'))) /\ DOMAIN nodes' = DOMAIN nodes /\ Len(nodes') = Len(nodes)
       /\ nodes'[q].count = nodes[q].count /\ nodes'[n] = nodes[n]
  BY <1>3, <1>7, <1>8, <1>11, RaiseFacts
<1>13. Reaches(t, q, span, level)
  <2>1. /\ level[n] = level[q] + 1 /\ level[n] <= level[root]
        /\ span[q] \subseteq span[n] /\ th[t].key \in span[q] /\ Holds(t, n)
    BY <1>3, <1>5, <1>7, <1>8
  <2> QED  BY <1>3, <2>1 DEF Reaches
<1>14. \A k \in DOMAIN nodes :
           /\ nodes[k].ver <= nodes'[k].ver /\ nodes'[k].leaf = nodes[k].leaf
           /\ nodes'[k].count = nodes[k].count /\ nodes'[k].keys = nodes[k].keys
           /\ nodes'[k].values = nodes[k].values /\ nodes'[k].kids = nodes[k].kids
           /\ nodes'[k] # nodes[k] =>
                \/ Holds(t, k)
                \/ ~IsLocked(nodes[k].ver) /\ nodes'[k].ver # nodes[k].ver /\ Reaches(t, k, span, level)
  BY <1>3, <1>7, <1>11, <1>13, RaiseOnly
<1>15. HoldsNode(t)' /\ HoldsChild(t)' /\ ~HoldsTree(t)'
  BY <1>3, <1>10, <1>11 DEF HoldsNode, HoldsChild, HoldsTree, LeafHeld, Moving, Walking, Splitting, Opening, TreeHeld
<1>16. LockStep(t)
  <2>1. \A k : Holds(t, k) <=> k = n  BY <1>0, <1>3, <1>4 DEF Holds
  <2>2. \A k : Holds(t, k)' <=> (k = n \/ k = q)  BY <1>10, <1>11, <1>15 DEF Holds
  <2>3. IsLocked(nodes[q].ver) <=> Holds(t, q)  BY <1>8, <1>11, <2>1
  <2>4. Holds(t, q)' <=> ~Holds(t, q)  BY <1>8, <2>1, <2>2
  <2>5. \A k \in DOMAIN nodes : k # q => (Holds(t, k)' <=> Holds(t, k))  BY <2>1, <2>2
  <2>6. HoldsNode(t)' => th'[t].node \in DOMAIN nodes'  BY <1>3, <1>10, <1>11, <1>12
  <2>7. HoldsChild(t)' => th'[t].child \in DOMAIN nodes'  BY <1>7, <1>10, <1>11, <1>12
  <2>8. treeVer' = treeVer /\ (HoldsTree(t)' <=> HoldsTree(t))  BY <1>3, <1>11, <1>15
  <2> QED  BY <1>3, <1>7, <1>11, <2>3, <2>4, <2>5, <2>6, <2>7, <2>8, RaiseLock
<1>17. Descends(t, span, level)'
  <2>1. /\ r.pc \notin TreeHeld /\ r.pc \notin {"grow", "release_tree"} /\ r.pc # "slow_room"
        /\ r.pc # "plant" /\ r.pc # "publish_root" /\ r.pc # "release_child" /\ r.pc # "split"
        /\ r.pc # "release_parent" /\ r.pc \notin Splitting
    BY <1>10 DEF TreeHeld, Splitting, Opening
  <2>2. r.grow = FALSE /\ r.op = "insert" /\ root' = root  BY <1>3, <1>10, <1>11
  <2>3. r.slot = ChildIndex(nodes'[n].keys, nodes'[n].count, r.key) /\ r.child = nodes'[n].kids[r.slot]
    BY <1>00, <1>000, <1>10, <1>12
  <2>4. ~nodes'[n].leaf  BY <1>6, <1>12
  <2> QED  BY <1>3, <1>7, <1>10, <1>11, <1>12, <1>15, <2>1, <2>2, <2>3, <2>4 DEF Descends
<1>18. HasRoom(t, span, level)'
  <2>1. /\ r.pc \notin {"shift_child", "store_child"} /\ r.pc # "count_child" /\ r.pc # "release_child"
        /\ r.pc # "lock_child"
    BY <1>10
  <2>2. nodes[n].count < Fanout \/ nodes[q].count < Fanout
    BY <1>0, <1>00, <1>000, <1>1, <1>3 DEF HasRoom, ChildHasRoom
  <2>3. nodes'[n].count < Fanout \/ nodes'[q].count < Fanout  BY <1>12, <2>2
  <2> QED  BY <1>10, <1>11, <2>1, <2>3 DEF HasRoom
<1>19. r.pc # "find" /\ r.pc \in {"plant", "lock_root", "grow", "release_tree", "split", "find"} \union Walking
  BY <1>10 DEF Walking
<1>20. th[t].pc \in {"lock_tree", "lock_root", "release_tree"} \union Walking /\ treeVer' \in Nat
  BY <1>2, <1>3, <1>11
<1> QED  BY <1>10, <1>11, <1>12, <1>14, <1>16, <1>17, <1>18, <1>19, <1>20, WalkStep

\* The child is held before the node above it is released.
LEMMA ReleaseParentStep ==
  ASSUME NEW span, NEW level, NEW t \in Threads, IInv(span, level), ReleaseParent(t)
  PROVE  IInv(span, level)'
<1>0. PICK n : n = th[t].node  OBVIOUS
<1>00. PICK q : q = th[t].child  OBVIOUS
<1>1. th[t].pc = "release_parent"  BY DEF ReleaseParent, At
<1>2. th[t].pc \in Walking  BY <1>1 DEF Walking
<1>3. /\ TypeOK /\ th[t] \in Locals /\ th \in [Threads -> Locals]
      /\ Descends(t, span, level) /\ HasRoom(t, span, level)
      /\ th[t].grow = FALSE /\ th[t].op = "insert"
      /\ n \in DOMAIN nodes /\ IsLocked(nodes[n].ver) /\ th[t].key \in span[n] /\ level[n] <= level[root]
      /\ HoldsNode(t) /\ ~HoldsTree(t) /\ (HoldsChild(t) <=> th[t].pc \in {"child_room", "release_parent"})
      /\ nodes[n] \in Node(Len(nodes)) /\ nodes[n].count \in 0 .. Fanout /\ nodes[n].leaf \in BOOLEAN
      /\ treeVer \in Nat
  <2>1. n = th[t].node  BY <1>0
  <2> QED  BY <1>2, <2>1, WalkFacts
<1>4. HoldsChild(t)  BY <1>1, <1>3
<1>5. /\ q \in DOMAIN nodes /\ level[q] = level[n] - 1 /\ nodes[q].count < Fanout /\ th[t].key \in span[q]
  <2>1. th[t].pc \in {"split", "child_room", "release_parent"}  BY <1>1
  <2>2. th[t].key \in span[q]  BY <1>00, <2>1, HeldChild
  <2> QED  BY <1>0, <1>00, <1>1, <1>3, <1>4, <2>2 DEF Descends
<1>6. level[n] \in Nat /\ level[q] \in Nat /\ q # n
  <2>1. level[n] \in Nat /\ level[q] \in Nat  BY <1>3, <1>5, Basics
  <2> QED  BY <1>5, <2>1
<1>7. Holds(t, n) /\ Holds(t, q)  BY <1>0, <1>00, <1>3, <1>4 DEF Holds
<1>8. IsLocked(nodes[q].ver) /\ level[q] <= level[root]  BY <1>7, Holding
<1>9. PICK pc : pc = Standing(q)  OBVIOUS
<1>10. pc \in {"slow_room", "lock_child"} /\ (pc = "slow_room" <=> nodes[q].leaf)
  <2>1. nodes[q].leaf \in BOOLEAN  BY <1>3, <1>5, NodeFacts
  <2>2. CASE nodes[q].leaf  BY <1>9, <2>2 DEF Standing
  <2>3. CASE ~nodes[q].leaf  BY <1>9, <2>3 DEF Standing
  <2> QED  BY <2>1, <2>2, <2>3
<1>11. PICK r : r = [th[t] EXCEPT !.pc = pc, !.node = q, !.child = Null, !.slot = 0]  OBVIOUS
<1>12. /\ r \in Locals /\ r.pc = pc /\ r.node = q /\ r.grow = th[t].grow
       /\ r.op = th[t].op /\ r.key = th[t].key /\ r.before = th[t].before
  <2>1. pc \in Places  BY <1>10 DEF Places, SlowPath, Walking
  <2>2. q \in 0 .. Len(nodes) /\ Null \in 0 .. Len(nodes)
    <3>1. DOMAIN nodes = 1 .. Len(nodes) /\ Len(nodes) \in Nat  BY Basics
    <3> QED  BY <1>5, <3>1 DEF Null
  <2>3. 0 \in -1 .. Fanout  BY FanoutFacts
  <2> QED  BY <1>3, <1>11, <2>1, <2>2, <2>3 DEF Locals
<1>13. /\ th' = [th EXCEPT ![t] = r] /\ th'[t] = r /\ Raise(n)
       /\ UNCHANGED <<root, treeVer, entries, known, wins>>
  BY <1>0, <1>00, <1>3, <1>9, <1>11 DEF ReleaseParent, Set
<1>14. /\ nodes' \in Seq(Node(Len(nodes'))) /\ DOMAIN nodes' = DOMAIN nodes /\ Len(nodes') = Len(nodes)
       /\ nodes'[q] = nodes[q]
  BY <1>3, <1>5, <1>6, <1>13, RaiseFacts
<1>15. \A k \in DOMAIN nodes :
           /\ nodes[k].ver <= nodes'[k].ver /\ nodes'[k].leaf = nodes[k].leaf
           /\ nodes'[k].count = nodes[k].count /\ nodes'[k].keys = nodes[k].keys
           /\ nodes'[k].values = nodes[k].values /\ nodes'[k].kids = nodes[k].kids
           /\ nodes'[k] # nodes[k] =>
                \/ Holds(t, k)
                \/ ~IsLocked(nodes[k].ver) /\ nodes'[k].ver # nodes[k].ver /\ Reaches(t, k, span, level)
  BY <1>3, <1>7, <1>13, RaiseOnly
<1>16. HoldsNode(t)' /\ ~HoldsChild(t)' /\ ~HoldsTree(t)'
  BY <1>3, <1>10, <1>12, <1>13
     DEF HoldsNode, HoldsChild, HoldsTree, LeafHeld, Moving, Walking, Splitting, Opening, TreeHeld
<1>17. LockStep(t)
  <2>1. \A k : Holds(t, k) <=> (k = n \/ k = q)  BY <1>0, <1>00, <1>3, <1>4 DEF Holds
  <2>2. \A k : Holds(t, k)' <=> k = q  BY <1>12, <1>13, <1>16 DEF Holds
  <2>3. IsLocked(nodes[n].ver) <=> Holds(t, n)  BY <1>3, <1>7
  <2>4. Holds(t, n)' <=> ~Holds(t, n)  BY <1>6, <2>1, <2>2
  <2>5. \A k \in DOMAIN nodes : k # n => (Holds(t, k)' <=> Holds(t, k))  BY <2>1, <2>2
  <2>6. HoldsNode(t)' => th'[t].node \in DOMAIN nodes'  BY <1>5, <1>12, <1>13, <1>14
  <2>7. HoldsChild(t)' => th'[t].child \in DOMAIN nodes'  BY <1>16
  <2>8. treeVer' = treeVer /\ (HoldsTree(t)' <=> HoldsTree(t))  BY <1>3, <1>13, <1>16
  <2> QED  BY <1>3, <1>13, <2>3, <2>4, <2>5, <2>6, <2>7, <2>8, RaiseLock
<1>18. Descends(t, span, level)'
  <2>1. /\ r.pc \in Walking /\ r.pc \notin TreeHeld /\ r.pc \notin {"grow", "release_tree"}
        /\ r.pc \notin {"split", "child_room", "release_parent"}
        /\ (r.pc = "slow_room" <=> nodes'[q].leaf)
        /\ r.pc # "plant" /\ r.pc # "publish_root" /\ r.pc # "release_child" /\ r.pc # "split"
    BY <1>10, <1>12, <1>14 DEF Walking, TreeHeld
  <2>2. r.pc \in Splitting \union {"lock_child", "child_room", "release_parent", "publish_root", "release_child"}
          => r.pc = "lock_child"
    BY <1>10, <1>12 DEF Splitting, Opening
  <2>3. r.grow = FALSE /\ r.op = "insert" /\ root' = root  BY <1>3, <1>12, <1>13
  <2>4. ~nodes'[q].leaf \/ r.pc # "lock_child"  BY <1>10, <1>12, <1>14
  <2> QED  BY <1>5, <1>8, <1>12, <1>13, <1>14, <1>16, <2>1, <2>2, <2>3, <2>4 DEF Descends
<1>19. HasRoom(t, span, level)'
  <2>1. /\ r.pc \notin {"shift_child", "store_child"} /\ r.pc # "count_child" /\ r.pc # "release_child"
        /\ r.pc # "child_room"
    BY <1>10, <1>12
  <2> QED  BY <1>5, <1>12, <1>13, <1>14, <2>1 DEF HasRoom
<1>20. r.pc # "find" /\ r.pc \in {"plant", "lock_root", "grow", "release_tree", "split", "find"} \union Walking
  BY <1>10, <1>12 DEF Walking
<1>21. th[t].pc \in {"lock_tree", "lock_root", "release_tree"} \union Walking /\ treeVer' \in Nat
  BY <1>2, <1>3, <1>13
<1> QED  BY <1>12, <1>13, <1>14, <1>15, <1>17, <1>18, <1>19, <1>20, <1>21, WalkStep
============================================================================
