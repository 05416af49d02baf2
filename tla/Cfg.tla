--------------------------------- MODULE Cfg ---------------------------------
(***************************************************************************)
(* What the data flow analyses of cflat/MoveDataflow.h share: the control  *)
(* flow graph of a function, the depth-first search that orders its        *)
(* reachable blocks, and the log of its events.  A graph g is a sequence:  *)
(* g[b] lists the successors of block b in the order of its terminator;    *)
(* block 1 is the entry, which has no predecessors.                        *)
(***************************************************************************)
EXTENDS Integers, Sequences, FiniteSets, SequencesExt

CONSTANTS
  Graphs,     \* control flow graphs: sequences of successor lists
  MaxEvents   \* bound: events recorded for the function

IsCfg(G) == G # << >> /\ G \in Seq(Seq(2 .. Len(G)))

ASSUME GraphsAssumption == MaxEvents \in Nat /\ \A G \in Graphs : IsCfg(G)

VARIABLES
  g,        \* the function's graph
  search,   \* the depth-first search of ComputeRpoIndex
  order,    \* the reachable blocks in reverse post-order
  events,   \* byBlock: the events of each block
  phase,    \* how far the analysis is
  out,      \* blockOut: what is known at the end of each block
  at,       \* the block the sweep visits next
  reports   \* what is reported

Blocks(G) == 1 .. Len(G)

\* What can be reached from the nodes S along the edges E: as many rounds as
\* there are edges reach everything.
ReachableFrom(S, E) ==
  LET R[k \in 0 .. Cardinality(E)] ==
        IF k = 0 THEN S
        ELSE LET r == R[k - 1] IN r \cup {e[2] : e \in {x \in E : x[1] \in r}}
  IN R[Cardinality(E)]

(***************************************************************************)
(* ComputeRpoIndex: an iterative depth-first search whose stack holds a    *)
(* block and the number of its successors already looked at.               *)
(***************************************************************************)
SearchStart == [visited |-> {1}, post |-> << >>, stack |-> <<[block |-> 1, at |-> 1]>>]

SearchStep(G, d) ==
  LET top == Last(d.stack)
      below == Front(d.stack)
      next == G[top.block][top.at]
      advanced == Append(below, [top EXCEPT !.at = @ + 1])
  IN IF top.at > Len(G[top.block])
     THEN [d EXCEPT !.stack = below, !.post = Append(@, top.block)]
     ELSE IF next \in d.visited THEN [d EXCEPT !.stack = advanced]
     ELSE [d EXCEPT !.visited = @ \cup {next},
                    !.stack = Append(advanced, [block |-> next, at |-> 1])]

\* The reachable blocks are known by their places in the order, and so are the edges.
N == Len(order)
Edges == {e \in (1 .. N) \X (1 .. N) : order[e[2]] \in Range(g[order[e[1]]])}
Preds(i) == {e[1] : e \in {x \in Edges : x[2] = i}}
Succs(i) == {e[2] : e \in {x \in Edges : x[1] = i}}

(***************************************************************************)
(* byBlock lists the events of each block in the order they were emitted.  *)
(* The log is an input: one more event of it, in any block.                *)
(***************************************************************************)
NoEvents == [b \in Blocks(g) |-> << >>]
EventsOf(i) == events[order[i]]
Recorded == {r \in (DOMAIN events) \X (1 .. MaxEvents) : r[2] <= Len(events[r[1]])}

MoreEvents(kinds) ==
  {[events EXCEPT ![b] = Append(@, kind)] : b \in DOMAIN events, kind \in kinds}
==============================================================================
