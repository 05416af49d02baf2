------------------------------ MODULE SpscQueue ------------------------------
(***************************************************************************)
(* spsc_queue<T> of cflat/core/spsc_queue.cb: a ring between one producer  *)
(* and one consumer.  head is written by the producer only and tail by the *)
(* consumer only, so each thread reads its own index without a step; the   *)
(* load of the other's index, the plain copy of the item and the store of  *)
(* one's own index are a step each.  The indices are seq_cst atomics.      *)
(*                                                                         *)
(* One slot more than asked for is allocated, and one slot always stays    *)
(* empty, so that head = tail means empty and never full.                  *)
(*                                                                         *)
(* What Channel also has carries the prefix Spsc here.                     *)
(***************************************************************************)
EXTENDS Ring

CONSTANTS
  Capacity,  \* what init() is asked for
  Items,
  MaxItems   \* bound: how many items the producer sends

ASSUME SpscQueueAssumption == Capacity \in Nat /\ MaxItems \in Nat

VARIABLES
  ppc,     \* the producer's next step
  item,    \* what the producer pushes
  pmode,   \* "try": try_push, "block": push
  cpc,     \* the consumer's next step
  out,     \* what the consumer has copied out
  cmode,   \* "try": try_pop, "block": pop
  pushed,  \* history: the items whose push has taken effect
  popped   \* history: the items whose pop has taken effect

producer == <<head, ppc, item, pmode, pushed>>
consumer == <<tail, cpc, out, cmode, popped>>
spscVars == <<head, tail, buf, ppc, item, pmode, cpc, out, cmode, pushed, popped>>

SpscCap == Capacity + 1
SpscSlots == 0 .. Capacity
NextSlot(i) == (i + 1) % SpscCap
Modes == {"try", "block"}

SpscInit ==
  /\ head = 0
  /\ tail = 0
  /\ buf = [i \in SpscSlots |-> NoItem]
  /\ ppc = "idle" /\ item = NoItem /\ pmode = "try"
  /\ cpc = "idle" /\ out = NoItem /\ cmode = "try"
  /\ pushed = << >> /\ popped = << >>

(***************************************************************************)
(* try_push and push.                                                      *)
(***************************************************************************)
SpscPushStart(v, m) ==
  /\ ppc = "idle"
  /\ Len(pushed) < MaxItems
  /\ item' = v /\ pmode' = m /\ ppc' = "check"
  /\ UNCHANGED <<head, pushed, buf, consumer>>

\* Mutation of SpscPushCheck: the next slot is not wrapped before it is compared.
SpscPushCheckUnwrapped ==
  /\ ppc = "check"
  /\ \/ head + 1 # tail /\ ppc' = "write"
     \/ head + 1 = tail /\ pmode = "try" /\ ppc' = "idle"
  /\ UNCHANGED <<head, item, pmode, pushed, buf, consumer>>

\* Mutation of SpscPushCheck: two slots stay empty.
SpscPushCheckShort ==
  /\ ppc = "check"
  /\ LET full == tail \in {NextSlot(head), NextSlot(NextSlot(head))} IN
     \/ ~full /\ ppc' = "write"
     \/ full /\ pmode = "try" /\ ppc' = "idle"
  /\ UNCHANGED <<head, item, pmode, pushed, buf, consumer>>

\* Load the consumer's index: there is room, or try_push returns false; push
\* spins until there is.
SpscPushCheck ==
  /\ ppc = "check"
  /\ \/ NextSlot(head) # tail /\ ppc' = "write"
     \/ NextSlot(head) = tail /\ pmode = "try" /\ ppc' = "idle"
  /\ UNCHANGED <<head, item, pmode, pushed, buf, consumer>>

\* Mutation of SpscPushWrite: the item goes one slot too far.
SpscPushWriteNext ==
  /\ ppc = "write"
  /\ buf' = [buf EXCEPT ![NextSlot(head)] = item]
  /\ ppc' = "publish"
  /\ UNCHANGED <<head, item, pmode, pushed, consumer>>

SpscPushWrite ==
  /\ ppc = "write"
  /\ buf' = [buf EXCEPT ![head] = item]
  /\ ppc' = "publish"
  /\ UNCHANGED <<head, item, pmode, pushed, consumer>>

SpscPushPublish ==
  /\ ppc = "publish"
  /\ head' = NextSlot(head)
  /\ pushed' = Append(pushed, item)
  /\ ppc' = "idle"
  /\ UNCHANGED <<item, pmode, buf, consumer>>

(***************************************************************************)
(* try_pop and pop.                                                        *)
(***************************************************************************)
SpscPopStart(m) ==
  /\ cpc = "idle"
  /\ cmode' = m /\ cpc' = "check"
  /\ UNCHANGED <<tail, out, popped, buf, producer>>

\* Mutation of SpscPopCheck: one item in the queue counts as none.
SpscPopCheckShort ==
  /\ cpc = "check"
  /\ LET empty == head \in {tail, NextSlot(tail)} IN
     \/ ~empty /\ cpc' = "read"
     \/ empty /\ cmode = "try" /\ cpc' = "idle"
  /\ UNCHANGED <<tail, out, cmode, popped, buf, producer>>

SpscPopCheck ==
  /\ cpc = "check"
  /\ \/ tail # head /\ cpc' = "read"
     \/ tail = head /\ cmode = "try" /\ cpc' = "idle"
  /\ UNCHANGED <<tail, out, cmode, popped, buf, producer>>

SpscPopRead ==
  /\ cpc = "read"
  /\ out' = buf[tail]
  /\ cpc' = "publish"
  /\ UNCHANGED <<tail, cmode, popped, buf, producer>>

\* Mutation of SpscPopPublish: the slot is not given back.
SpscPopPublishForgotten ==
  /\ cpc = "publish"
  /\ popped' = Append(popped, out)
  /\ cpc' = "idle"
  /\ UNCHANGED <<tail, out, cmode, buf, producer>>

SpscPopPublish ==
  /\ cpc = "publish"
  /\ tail' = NextSlot(tail)
  /\ popped' = Append(popped, out)
  /\ cpc' = "idle"
  /\ UNCHANGED <<out, cmode, buf, producer>>

-----------------------------------------------------------------------------
ProducerStep ==
  \/ \E v \in Items, m \in Modes : SpscPushStart(v, m)
  \/ SpscPushCheck \/ SpscPushWrite \/ SpscPushPublish

ConsumerStep ==
  \/ \E m \in Modes : SpscPopStart(m)
  \/ SpscPopCheck \/ SpscPopRead \/ SpscPopPublish

SpscNext == ProducerStep \/ ConsumerStep

SpscSpec == SpscInit /\ [][SpscNext]_spscVars

\* Both threads are scheduled and keep calling.
SpscFairSpec == SpscSpec /\ WF_spscVars(ProducerStep) /\ WF_spscVars(ConsumerStep)

-----------------------------------------------------------------------------
\* The type invariant: both indices stay inside the ring.
SpscTypeOK ==
  /\ head \in SpscSlots /\ tail \in SpscSlots
  /\ buf \in [SpscSlots -> Items \union {NoItem}]
  /\ ppc \in {"idle", "check", "write", "publish"}
  /\ cpc \in {"idle", "check", "read", "publish"}
  /\ item \in Items \union {NoItem} /\ out \in Items \union {NoItem}
  /\ ppc # "idle" => item \in Items
  /\ pmode \in Modes /\ cmode \in Modes
  /\ pushed \in Seq(Items) /\ popped \in Seq(Items \union {NoItem})

(***************************************************************************)
(* The plain copies into and out of _buf never touch one slot: while the   *)
(* producer writes a slot the consumer is not reading that slot, although  *)
(* each decided from an index it had loaded before the other moved on.     *)
(***************************************************************************)
CopiesApart ==
  ppc \in {"write", "publish"} /\ cpc \in {"read", "publish"} => head # tail

(***************************************************************************)
(* Why: the indices are the counts of items modulo the size of the ring,   *)
(* a check that succeeded stays true until its call is over, and the slots *)
(* between tail and head hold the items that are under way.                *)
(***************************************************************************)
IndicesCount == head = Len(pushed) % SpscCap /\ tail = Len(popped) % SpscCap

CountsBounded == Len(popped) <= Len(pushed) /\ Len(pushed) <= Len(popped) + Capacity

ProducerHasRoom ==
  /\ ppc \in {"write", "publish"} => Len(pushed) < Len(popped) + Capacity
  /\ ppc = "publish" => buf[head] = item

ConsumerHasItem ==
  /\ cpc \in {"read", "publish"} => Len(popped) < Len(pushed)
  /\ cpc = "publish" => out = pushed[Len(popped) + 1]

SlotsHoldItems ==
  \A k \in Len(popped) .. Len(pushed) - 1 : buf[k % SpscCap] = pushed[k + 1]

QueueInv ==
  IndicesCount /\ CountsBounded /\ ProducerHasRoom /\ ConsumerHasItem /\ SlotsHoldItems

(***************************************************************************)
(* A refusal is right at the step that decides it: try_push returns false  *)
(* only if Capacity items are under way, try_pop only if none is.          *)
(***************************************************************************)
RefusalsRight ==
  [][/\ ppc = "check" /\ ppc' = "idle" => Len(pushed) = Len(popped) + Capacity
     /\ cpc = "check" /\ cpc' = "idle" => Len(pushed) = Len(popped)]_spscVars

(***************************************************************************)
(* What is pushed is popped: with both threads running, nobody spins for   *)
(* ever on a full or an empty queue that the other could change.           *)
(***************************************************************************)
EverythingDelivered == <>(Len(popped) = MaxItems)

(***************************************************************************)
(* The ring is a bounded FIFO: the store of head puts an item in, the      *)
(* store of tail takes it out.                                             *)
(***************************************************************************)
Fifo == INSTANCE BoundedFifo WITH sent <- pushed, got <- popped

ImplementsFifo == Fifo!FSpec
==============================================================================
