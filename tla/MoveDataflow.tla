---------------------------- MODULE MoveDataflow -----------------------------
(***************************************************************************)
(* movedf::AnalyzeFunction of cflat/MoveDataflow.h, which finds the uses   *)
(* of a moved value that only a loop brings about: a "maybe moved" fixed   *)
(* point in sweeps over the reverse post-order, a second solution without  *)
(* the retreating edges, and a replay that reports the uses moved in the   *)
(* first and not in the second.                                            *)
(*                                                                         *)
(* One binding x with one field x.f is enough: the keys of different       *)
(* bindings never meet, and a field path meets only its binding.           *)
(*                                                                         *)
(* The phases are "search", "log", "sweep", "acyclic" and "done"; out      *)
(* (blockOut) holds the keys moved at the end of a block, and reports the  *)
(* uses reported.                                                          *)
(***************************************************************************)
EXTENDS Cfg

VARIABLES
  dirty,    \* dirty
  again,    \* anyDirty
  acyclic   \* acyclicOut

vars == <<g, search, order, events, phase, out, dirty, at, again, acyclic, reports>>

Kinds == {"KillWhole", "KillField", "GenReviveWhole", "GenReviveField", "GenBind",
          "UseWhole", "UseField"}
Uses == {"UseWhole", "UseField"}

\* x and x.f are moved; the field was revived.
Keys == {"x", "x.f", "!x.f"}

IsPathMoved(s, use) == "x" \in s \/ (use = "UseField" /\ "x.f" \in s)

\* Moved keys are united; an exemption survives if nothing moves its path.
MergeMovedSets(inputs) ==
  LET all == UNION inputs IN
  IF \E s \in inputs : IsPathMoved(s, "UseField") THEN all \ {"!x.f"} ELSE all

ApplyEvent(s, e) ==
  CASE e = "KillWhole" -> s \cup {"x"}
    [] e = "KillField" -> (s \cup {"x.f"}) \ {"!x.f"}
    [] e = "GenReviveWhole" -> s \ {"x"}
    [] e = "GenReviveField" -> (s \ {"x.f"}) \cup {"!x.f"}
    [] e = "GenBind" -> {}
    [] e \in Uses -> s

\* What the first k of the events evs make of the set s.
Replay(evs, k, s) ==
  LET R[j \in 0 .. Len(evs)] == IF j = 0 THEN s ELSE ApplyEvent(R[j - 1], evs[j])
  IN R[k]

Transfer(evs, s) == Replay(evs, Len(evs), s)

Init ==
  /\ g \in Graphs
  /\ search = SearchStart
  /\ order = << >> /\ events = << >>
  /\ phase = "search"
  /\ out = << >> /\ dirty = {} /\ at = 1 /\ again = FALSE
  /\ acyclic = << >>
  /\ reports = {}

Search ==
  /\ phase = "search"
  /\ search.stack # << >>
  /\ search' = SearchStep(g, search)
  /\ UNCHANGED <<g, order, events, phase, out, dirty, at, again, acyclic, reports>>

\* The graph in reverse post-order.
Number ==
  /\ phase = "search"
  /\ search.stack = << >>
  /\ order' = Reverse(search.post)
  /\ events' = NoEvents
  /\ phase' = "log"
  /\ UNCHANGED <<g, search, out, dirty, at, again, acyclic, reports>>

\* The log is read where it is needed first.
Record ==
  /\ phase = "log"
  /\ Cardinality(Recorded) < MaxEvents
  /\ events' \in MoreEvents(Kinds)
  /\ UNCHANGED <<g, search, order, phase, out, dirty, at, again, acyclic, reports>>

BeginSweeps ==
  /\ phase = "log"
  /\ phase' = "sweep" /\ at' = 1 /\ again' = FALSE
  /\ out' = [i \in 1 .. N |-> {}]
  /\ dirty' = 1 .. N
  /\ UNCHANGED <<g, search, order, events, acyclic, reports>>

\* Block i of a sweep: its new OUT set, if a predecessor's has changed.
Incoming(i) == MergeMovedSets({out[p] : p \in IF i = 1 THEN {} ELSE Preds(i)})
Result(i) == Transfer(EventsOf(i), Incoming(i))

\* Mutant: takes one sweep for enough unless the loop goes back to the entry.
RetreatsToEntry(i, s) == s = 1

\* A retreating edge asks for another sweep.
Retreats(i, s) == s <= i

\* Mutant: does not compare the new OUT set with the old one.
VisitAlways ==
  /\ phase = "sweep"
  /\ at <= N
  /\ at' = at + 1
  /\ out' = [out EXCEPT ![at] = Result(at)]
  /\ dirty' = (dirty \ {at}) \cup Succs(at)
  /\ again' = (again \/ \E s \in Succs(at) : Retreats(at, s))
  /\ UNCHANGED <<g, search, order, events, phase, acyclic, reports>>

Visit ==
  /\ phase = "sweep"
  /\ at <= N
  /\ at' = at + 1
  /\ IF at \in dirty /\ Result(at) # out[at]
     THEN /\ out' = [out EXCEPT ![at] = Result(at)]
          /\ dirty' = (dirty \ {at}) \cup Succs(at)
          /\ again' = (again \/ \E s \in Succs(at) : Retreats(at, s))
     ELSE /\ dirty' = dirty \ {at}
          /\ UNCHANGED <<out, again>>
  /\ UNCHANGED <<g, search, order, events, phase, acyclic, reports>>

NextSweep ==
  /\ phase = "sweep"
  /\ at > N /\ again
  /\ at' = 1 /\ again' = FALSE
  /\ UNCHANGED <<g, search, order, events, phase, out, dirty, acyclic, reports>>

EndSweeps ==
  /\ phase = "sweep"
  /\ at > N /\ ~ again
  /\ phase' = "acyclic" /\ at' = 1
  /\ acyclic' = [i \in 1 .. N |-> {}]
  /\ UNCHANGED <<g, search, order, events, out, dirty, again, reports>>

\* The solution that only forward edges contribute to, in one pass.
AcyclicPreds(i) == {p \in Preds(i) : p < i}
AcyclicIncoming(i) == MergeMovedSets({acyclic[p] : p \in AcyclicPreds(i)})

VisitAcyclic ==
  /\ phase = "acyclic"
  /\ at <= N
  /\ at' = at + 1
  /\ acyclic' = [acyclic EXCEPT ![at] = Transfer(EventsOf(at), AcyclicIncoming(at))]
  /\ UNCHANGED <<g, search, order, events, phase, out, dirty, again, reports>>

Positions == {u \in (1 .. N) \X (1 .. MaxEvents) :
                u[2] <= Len(EventsOf(u[1])) /\ EventsOf(u[1])[u[2]] \in Uses}

\* The use u is of a moved value if s reaches its block.
MovedAt(u, s) == IsPathMoved(Replay(EventsOf(u[1]), u[2] - 1, s), EventsOf(u[1])[u[2]])

Diagnose ==
  /\ phase = "acyclic"
  /\ at > N
  /\ phase' = "done"
  /\ reports' = {u \in Positions :
                   MovedAt(u, Incoming(u[1])) /\ ~ MovedAt(u, AcyclicIncoming(u[1]))}
  /\ UNCHANGED <<g, search, order, events, out, dirty, at, again, acyclic>>

Next ==
  \/ Search \/ Number \/ Record
  \/ BeginSweeps \/ Visit \/ NextSweep \/ EndSweeps
  \/ VisitAcyclic \/ Diagnose

Spec == Init /\ [][Next]_vars
FairSpec == Spec /\ WF_vars(Next)

------------------------------------------------------------------------------

(***************************************************************************)
(* The reference: what can be moved after one walk from the entry, block   *)
(* by block, along the edges E.  A configuration is a block and what is    *)
(* moved when it is entered.                                               *)
(***************************************************************************)
Moved(s) == s \ {"!x.f"}
WalkSteps(E) ==
  {<<<<e[1], s>>, <<e[2], Moved(Transfer(EventsOf(e[1]), s))>>>> :
     e \in E, s \in SUBSET {"x", "x.f"}}
Walks(E) == ReachableFrom({<<1, {}>>}, WalkSteps(E))

MovedAfterWalk(walks, u) == \E c \in walks : c[1] = u[1] /\ MovedAt(u, c[2])

ForwardEdges == {e \in Edges : e[1] < e[2]}

(***************************************************************************)
(* Exactly the right uses are reported: those that a walk through the      *)
(* function reaches with the value moved, and no walk without retreating   *)
(* edges does.  In particular the order of the visits cannot matter.       *)
(***************************************************************************)
ReportsExact ==
  phase = "done" =>
    LET all == Walks(Edges)
        forward == Walks(ForwardEdges)
    IN reports = {u \in Positions : MovedAfterWalk(all, u) /\ ~ MovedAfterWalk(forward, u)}

(***************************************************************************)
(* The analysis ends: exemptions come and go, which is not monotone, and   *)
(* yet no graph and no events keep the sweeps going.                       *)
(***************************************************************************)
Terminates == <>(phase = "done")
==============================================================================
