---------------------------- MODULE NullDataflow -----------------------------
(***************************************************************************)
(* nulldf::AnalyzeFunction of cflat/MoveDataflow.h, which finds the        *)
(* dereferences of a pointer that was moved out.  A forward union fixed    *)
(* point carries the blocks whose move is not yet read or revived (the     *)
(* witnesses); a dereference is reported when it is guarded by no branch   *)
(* edge that some witness is not guarded by, that is, when its control     *)
(* dependence is contained in the witness's.                               *)
(*                                                                         *)
(* One local x is enough: names meet only through field paths, which are   *)
(* left out with their events ClearFields and EscapeFields.                *)
(*                                                                         *)
(* The phases are "search", "seed", "meet", "log", "sweep", "done"; out    *)
(* (blockOut) holds the witnesses, as places in the order, and reports the *)
(* dereferences reported: block, event and witnesses.  What MoveDataflow   *)
(* also has carries the prefix Null here.                                  *)
(***************************************************************************)
EXTENDS Cfg

CONSTANT
  Endings   \* the sets of blocks that call a function which does not return

VARIABLES
  ends,     \* the blocks that end the program
  pd,       \* the post-dominators of each block that has an entry
  cd,       \* Closure: the branch edges that each block depends on
  changed   \* changed

nullVars == <<g, ends, search, order, pd, cd, events, phase, out, at, changed, reports>>

NullKinds == {"SetNull", "ClearNull", "Read", "Deref"}

NullInit ==
  /\ g \in Graphs
  /\ ends \in Endings
  /\ search = SearchStart
  /\ order = << >> /\ pd = << >> /\ cd = << >> /\ events = << >>
  /\ phase = "search"
  /\ out = << >> /\ at = 1 /\ changed = FALSE
  /\ reports = {}

NullSearch ==
  /\ phase = "search"
  /\ search.stack # << >>
  /\ search' = SearchStep(g, search)
  /\ UNCHANGED <<g, ends, order, pd, cd, events, phase, out, at, changed, reports>>

NullNumber ==
  /\ phase = "search"
  /\ search.stack = << >>
  /\ order' = Reverse(search.post)
  /\ phase' = "seed"
  /\ UNCHANGED <<g, ends, search, pd, cd, events, out, at, changed, reports>>

(***************************************************************************)
(* ComputePostDominators.  A block where the program may end post-         *)
(* dominates only itself: one without successors, one that calls a         *)
(* function which does not return, one that can reach no such block.       *)
(***************************************************************************)
Terminal == {i \in 1 .. N : Succs(i) = {} \/ order[i] \in ends}
ReachesExit == ReachableFrom(Terminal, {<<e[2], e[1]>> : e \in Edges})
Seeds == Terminal \cup (1 .. N \ ReachesExit)

BeginMeets ==
  /\ phase = "seed"
  /\ phase' = "meet" /\ at' = N /\ changed' = FALSE
  /\ pd' = [i \in Seeds |-> {i}]
  /\ UNCHANGED <<g, ends, search, order, cd, events, out, reports>>

\* Mutant: what some successor has.
PdUnion(i, known) == {i} \cup UNION {pd[s] : s \in known}

\* What all the successors that have an entry agree on.
PdMeet(i, known) == {i} \cup {x \in 1 .. N : \A s \in known : x \in pd[s]}

\* The sweeps run from the last block to the first.  A block without an entry
\* stands for all blocks, and keeps doing so while no successor has one.
MeetPd ==
  /\ phase = "meet"
  /\ at >= 1
  /\ at' = at - 1
  /\ LET known == Succs(at) \cap DOMAIN pd
         meet == PdMeet(at, known)
     IN IF /\ at \notin Seeds /\ known # {}
           /\ at \in DOMAIN pd => meet # pd[at]
        THEN /\ pd' = [i \in DOMAIN pd \cup {at} |-> IF i = at THEN meet ELSE pd[i]]
             /\ changed' = TRUE
        ELSE UNCHANGED <<pd, changed>>
  /\ UNCHANGED <<g, ends, search, order, cd, events, phase, out, reports>>

NextMeets ==
  /\ phase = "meet"
  /\ at = 0 /\ changed
  /\ at' = N /\ changed' = FALSE
  /\ UNCHANGED <<g, ends, search, order, pd, cd, events, phase, out, reports>>

(***************************************************************************)
(* ControlDependence: the branch edges a block directly depends on, and    *)
(* those that the branching blocks depend on in turn.  No block ends in an *)
(* invoke, whose unwind edge the code does not take for a decision.        *)
(***************************************************************************)
Direct(x) ==
  {e \in Edges : Len(g[order[e[1]]]) >= 2 /\ x \in pd[e[2]] \ pd[e[1]]}

Depends == {b \in (1 .. N) \X (1 .. N) : \E e \in Direct(b[1]) : e[1] = b[2]}

Closure(x) == UNION {Direct(y) : y \in ReachableFrom({x}, Depends)}

EndMeets ==
  /\ phase = "meet"
  /\ at = 0 /\ ~ changed
  /\ phase' = "log"
  /\ cd' = [i \in 1 .. N |-> Closure(i)]
  /\ events' = NoEvents
  /\ UNCHANGED <<g, ends, search, order, pd, out, at, changed, reports>>

(***************************************************************************)
(* The fixed point.  If the address of x escapes anywhere in the function  *)
(* none of its events counts, as if the log were empty.                    *)
(***************************************************************************)
NullRecord ==
  /\ phase = "log"
  /\ Cardinality(Recorded) < MaxEvents
  /\ events' \in MoreEvents(NullKinds)
  /\ UNCHANGED <<g, ends, search, order, pd, cd, phase, out, at, changed, reports>>

NullBeginSweeps ==
  /\ phase = "log"
  /\ phase' = "sweep" /\ at' = 1 /\ changed' = FALSE
  /\ out' = [i \in 1 .. N |-> {}]
  /\ UNCHANGED <<g, ends, search, order, pd, cd, events, reports>>

NullApplyEvent(i, w, e) ==
  CASE e = "SetNull" -> w \cup {i}
    [] e \in {"ClearNull", "Read"} -> {}
    [] e = "Deref" -> w

\* What the first k events of block i make of the witnesses w.
NullReplay(i, w, k) ==
  LET R[j \in 0 .. Len(EventsOf(i))] ==
        IF j = 0 THEN w ELSE NullApplyEvent(i, R[j - 1], EventsOf(i)[j])
  IN R[k]
NullTransfer(i, w) == NullReplay(i, w, Len(EventsOf(i)))

\* Mutant: takes the blocks already visited only.
IncomingForward(i) == UNION {out[p] : p \in {q \in Preds(i) : q < i}}

NullIncoming(i) == IF i = 1 THEN {} ELSE UNION {out[p] : p \in Preds(i)}

NullVisit ==
  /\ phase = "sweep"
  /\ at <= N
  /\ at' = at + 1
  /\ LET result == NullTransfer(at, NullIncoming(at)) IN
       /\ out' = [out EXCEPT ![at] = result]
       /\ changed' = (changed \/ result # out[at])
  /\ UNCHANGED <<g, ends, search, order, pd, cd, events, phase, reports>>

NullNextSweep ==
  /\ phase = "sweep"
  /\ at > N /\ changed
  /\ at' = 1 /\ changed' = FALSE
  /\ UNCHANGED <<g, ends, search, order, pd, cd, events, phase, out, reports>>

Dereferences == {d \in (1 .. N) \X (1 .. MaxEvents) :
                   d[2] <= Len(EventsOf(d[1])) /\ EventsOf(d[1])[d[2]] = "Deref"}

\* Mutant: the containment the other way round.
UnguardedMove(i, m) == cd[m] \subseteq cd[i]

\* IsSubset: no branch edge guards the dereference and not the move.
Unguarded(i, m) == cd[i] \subseteq cd[m]

\* The moves that can be unread when s reaches the block of d, and guard d too little.
Witnesses(d, w) == {m \in NullReplay(d[1], w, d[2] - 1) : Unguarded(d[1], m)}

NullDiagnose ==
  /\ phase = "sweep"
  /\ at > N /\ ~ changed
  /\ phase' = "done"
  /\ reports' = {r \in {<<d, Witnesses(d, NullIncoming(d[1]))>> : d \in Dereferences} : r[2] # {}}
  /\ UNCHANGED <<g, ends, search, order, pd, cd, events, out, at, changed>>

NullNext ==
  \/ NullSearch \/ NullNumber
  \/ BeginMeets \/ MeetPd \/ NextMeets \/ EndMeets
  \/ NullRecord
  \/ NullBeginSweeps \/ NullVisit \/ NullNextSweep \/ NullDiagnose

NullSpec == NullInit /\ [][NullNext]_nullVars
NullFairSpec == NullSpec /\ WF_nullVars(NullNext)

------------------------------------------------------------------------------

(***************************************************************************)
(* Post-dominance by its definition: no way from i to an end of the        *)
(* program avoids x.                                                       *)
(***************************************************************************)
Running == {e \in Edges : e[1] \notin Terminal}
Avoiding(x) == {e \in Running : x \notin {e[1], e[2]}}
Avoids(x) == ReachableFrom(Seeds \ {x}, {<<e[2], e[1]>> : e \in Avoiding(x)})

PostDominatorsRight ==
  phase = "meet" /\ at = 0 /\ ~ changed =>
    /\ DOMAIN pd = 1 .. N
    /\ \A x \in 1 .. N : {i \in 1 .. N : x \in pd[i]} = {x} \cup (1 .. N \ Avoids(x))

(***************************************************************************)
(* Exactly the right dereferences are reported, with exactly the right     *)
(* witnesses: the moves that some walk leads from, without a read or a     *)
(* revival of x on the way, and that no branch edge guards less.  A        *)
(* configuration is a block and the moves not read on the walk to it.      *)
(***************************************************************************)
Movers == {i \in 1 .. N : "SetNull" \in Range(EventsOf(i))}
NullWalkSteps ==
  {<<<<e[1], w>>, <<e[2], NullTransfer(e[1], w)>>>> : e \in Edges, w \in SUBSET Movers}
NullWalks == ReachableFrom({<<1, {}>>}, NullWalkSteps)

WitnessesExact ==
  phase = "done" =>
    LET walks == NullWalks
    IN reports = {r \in {<<d, UNION {Witnesses(d, c[2]) : c \in {w \in walks : w[1] = d[1]}}>> :
                            d \in Dereferences} : r[2] # {}}

\* The program can go on from the move in block m and come to the dereference d
\* (to one in the same block by coming round to it), and it can go on without
\* it.  The dereference that follows the move within its block cannot be skipped.
Skippable(m, d) ==
  /\ m \notin Terminal
  /\ m = d[1] => \A k \in 1 .. d[2] - 1 : EventsOf(m)[k] # "SetNull"
  /\ d[1] \in ReachableFrom(Succs(m), Running)
  /\ \E s \in Succs(m) \ {d[1]} : ReachableFrom({s}, Avoiding(d[1])) \cap Terminal # {}

LoopFree == \A e \in Edges : e[1] < e[2]

(***************************************************************************)
(* "A guard is, by definition, a control-flow decision that can let the    *)
(* dereference be skipped while the move still happened.  Such a decision  *)
(* [...] necessarily suppresses the report": what is reported cannot be    *)
(* skipped.  It is so in a function without loops.                         *)
(***************************************************************************)
NothingSkippable == \A r \in reports : \A m \in r[2] : ~ Skippable(m, r[1])

LoopFreeNothingSkippable == LoopFree => NothingSkippable
==============================================================================
