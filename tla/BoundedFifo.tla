----------------------------- MODULE BoundedFifo -----------------------------
(***************************************************************************)
(* What a bounded queue between one producer and one consumer promises:    *)
(* the consumer gets what was put in, in that order, and at most Capacity  *)
(* items are under way.                                                    *)
(***************************************************************************)
EXTENDS Integers, Sequences

CONSTANTS Capacity, Items

VARIABLES
  sent,  \* what the producer has put in
  got    \* what the consumer has taken out

fvars == <<sent, got>>

UnderWay == Len(sent) - Len(got)

FInit == sent = << >> /\ got = << >>

Put ==
  /\ UnderWay < Capacity
  /\ \E v \in Items : sent' = Append(sent, v)
  /\ UNCHANGED got

Take ==
  /\ UnderWay > 0
  /\ got' = Append(got, sent[Len(got) + 1])
  /\ UNCHANGED sent

FSpec == FInit /\ [][Put \/ Take]_fvars
==============================================================================
