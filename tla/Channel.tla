------------------------------- MODULE Channel -------------------------------
(***************************************************************************)
(* channel<T> of cflat/core/channel.cb: a bounded multi-producer,          *)
(* multi-consumer ring.  Every slot carries a sequence number: slot i is   *)
(* free for position q when seq[i] = q and holds the item of position q    *)
(* when seq[i] = q + 1, where q is congruent to i modulo the capacity.  A  *)
(* sender claims a position with a CAS on head, writes the slot, and       *)
(* publishes it by advancing the slot's sequence number; a receiver does   *)
(* the same with tail and hands the slot to the next lap.                  *)
(*                                                                         *)
(* Every load, CAS and store of shared memory is a step of its own.  The   *)
(* steps are sequentially consistent: the code uses acquire loads, release *)
(* stores and a CAS.                                                       *)
(***************************************************************************)
EXTENDS Ring, FiniteSets

CONSTANTS
  Senders,    \* threads that register as producers and send
  Receivers,  \* threads that receive
  Cap,        \* slots of the ring, what init() made of the requested capacity
  ItemsPer,   \* per sender: how many items it sends before it closes
  Calls       \* per thread: the variants of send or receive it calls

ASSUME ChannelAssumption ==
  /\ Cap \in Nat \ {0}
  /\ ItemsPer \in [Senders -> Nat]
  /\ Calls \in [Senders \union Receivers -> SUBSET {"block", "try", "eof"}]
  /\ Senders \intersect Receivers = {}
  /\ IsFiniteSet(Senders)
  /\ NoItem \notin Senders \X Nat

VARIABLES
  seq,        \* _seq
  producers,  \* _producers
  closed,     \* _closed
  pc,         \* per thread: the next step of the call it is in
  pos,        \* per thread: the local variable pos
  mode,       \* per thread: which variant of the call it is in
  sent,       \* per sender: how many items it has published
  got         \* per receiver: what it has copied out, in order

ring == <<head, tail, seq, buf>>
life == <<producers, closed>>
vars == <<head, tail, seq, buf, producers, closed, pc, pos, mode, sent, got>>

Threads == Senders \union Receivers
Slots == 0 .. Cap - 1
Slot(q) == q % Cap

\* Capacity that init() picks: the least power of two that is not below the request.
RoundUp(request) ==
  CHOOSE n \in {2 ^ k : k \in 0 .. request + 1} :
    /\ n >= request
    /\ \A k \in 0 .. request + 1 : 2 ^ k >= request => n <= 2 ^ k

Goto(t, label) == pc' = [pc EXCEPT ![t] = label]

\* The item a sender is sending now: its own n-th.
Item(p) == <<p, sent[p] + 1>>

Init ==
  /\ head = 0
  /\ tail = 0
  /\ seq = [i \in Slots |-> i]
  /\ buf = [i \in Slots |-> NoItem]
  /\ producers = 0
  /\ closed = 0
  /\ pc = [t \in Threads |-> IF t \in Senders THEN "unborn" ELSE "idle"]
  /\ pos = [t \in Threads |-> 0]
  /\ mode = [t \in Threads |-> "block"]
  /\ sent = [p \in Senders |-> 0]
  /\ got = [c \in Receivers |-> << >>]

(***************************************************************************)
(* Registration.  The opener registers every sender before it starts any   *)
(* of them ("Call before the first push from a new sender").               *)
(***************************************************************************)
AddProducer(p) ==
  /\ pc[p] = "unborn"
  /\ producers' = producers + 1
  /\ Goto(p, "idle")
  /\ UNCHANGED <<ring, closed, pos, mode, sent, got>>

AllRegistered == \A p \in Senders : pc[p] # "unborn"

\* Mutation of CloseDecrement: the count is compared with < instead of <=.
CloseDecrementStrict(p) ==
  /\ pc[p] = "idle"
  /\ AllRegistered
  /\ sent[p] = ItemsPer[p]
  /\ producers' = producers - 1
  /\ Goto(p, IF producers' < 0 THEN "closing" ELSE "done")
  /\ UNCHANGED <<ring, closed, pos, mode, sent, got>>

\* close_producer: the decrement, then the store of _closed by whoever saw
\* the count reach zero.
CloseDecrement(p) ==
  /\ pc[p] = "idle"
  /\ AllRegistered
  /\ sent[p] = ItemsPer[p]
  /\ producers' = producers - 1
  /\ Goto(p, IF producers' <= 0 THEN "closing" ELSE "done")
  /\ UNCHANGED <<ring, closed, pos, mode, sent, got>>

ClosePublish(p) ==
  /\ pc[p] = "closing"
  /\ closed' = 1
  /\ Goto(p, "done")
  /\ UNCHANGED <<ring, producers, pos, mode, sent, got>>

(***************************************************************************)
(* send / push (mode "block") and try_push (mode "try").                   *)
(***************************************************************************)
PushStart(p, m) ==
  /\ pc[p] = "idle"
  /\ AllRegistered
  /\ sent[p] < ItemsPer[p]
  /\ mode' = [mode EXCEPT ![p] = m]
  /\ pos' = [pos EXCEPT ![p] = head]
  /\ Goto(p, "probe")
  /\ UNCHANGED <<ring, life, sent, got>>

PushReload(p) ==
  /\ p \in Senders
  /\ pc[p] = "reload"
  /\ pos' = [pos EXCEPT ![p] = head]
  /\ Goto(p, "probe")
  /\ UNCHANGED <<ring, life, mode, sent, got>>

\* Mutation of PushProbe: any slot that is not free counts as full.
PushProbeHasty(p) ==
  /\ p \in Senders
  /\ pc[p] = "probe"
  /\ LET dif == seq[Slot(pos[p])] - pos[p]
     IN Goto(p, IF dif = 0 THEN "cas" ELSE IF mode[p] = "try" THEN "idle" ELSE "reload")
  /\ UNCHANGED <<ring, life, pos, mode, sent, got>>

\* Load the slot's sequence number and branch on dif = seq - pos.
PushProbe(p) ==
  /\ p \in Senders
  /\ pc[p] = "probe"
  /\ LET dif == seq[Slot(pos[p])] - pos[p]
     IN Goto(p, IF dif = 0 THEN "cas"
                ELSE IF dif < 0 /\ mode[p] = "try" THEN "idle"   \* full
                ELSE "reload")
  /\ UNCHANGED <<ring, life, pos, mode, sent, got>>

\* Mutation of PushCas: a plain store of head where the code has a CAS.
PushCasStore(p) ==
  /\ p \in Senders
  /\ pc[p] = "cas"
  /\ head' = pos[p] + 1
  /\ Goto(p, "write")
  /\ UNCHANGED <<tail, seq, buf, life, pos, mode, sent, got>>

PushCas(p) ==
  /\ p \in Senders
  /\ pc[p] = "cas"
  /\ IF head = pos[p]
     THEN head' = head + 1 /\ Goto(p, "write")
     ELSE UNCHANGED head /\ Goto(p, "reload")
  /\ UNCHANGED <<tail, seq, buf, life, pos, mode, sent, got>>

\* Mutation of PushWrite: the item goes to the slot of head, not of pos.
PushWriteAtHead(p) ==
  /\ pc[p] = "write"
  /\ buf' = [buf EXCEPT ![Slot(head - 1)] = Item(p)]
  /\ Goto(p, "publish")
  /\ UNCHANGED <<head, tail, seq, life, pos, mode, sent, got>>

PushWrite(p) ==
  /\ pc[p] = "write"
  /\ buf' = [buf EXCEPT ![Slot(pos[p])] = Item(p)]
  /\ Goto(p, "publish")
  /\ UNCHANGED <<head, tail, seq, life, pos, mode, sent, got>>

PushPublish(p) ==
  /\ pc[p] = "publish"
  /\ seq' = [seq EXCEPT ![Slot(pos[p])] = pos[p] + 1]
  /\ sent' = [sent EXCEPT ![p] = @ + 1]
  /\ Goto(p, "idle")
  /\ UNCHANGED <<head, tail, buf, life, pos, mode, got>>

(***************************************************************************)
(* receive() / pop() (mode "block"), try_receive / try_pop (mode "try")    *)
(* and the close-aware receive(out) (mode "eof").                          *)
(***************************************************************************)
PopStart(c, m) ==
  /\ pc[c] = "idle"
  /\ mode' = [mode EXCEPT ![c] = m]
  /\ pos' = [pos EXCEPT ![c] = tail]
  /\ Goto(c, "probe")
  /\ UNCHANGED <<ring, life, sent, got>>

PopReload(c) ==
  /\ c \in Receivers
  /\ pc[c] = "reload"
  /\ pos' = [pos EXCEPT ![c] = tail]
  /\ Goto(c, "probe")
  /\ UNCHANGED <<ring, life, mode, sent, got>>

\* Load the slot's sequence number and branch on dif = seq - (pos + 1).
PopProbe(c) ==
  /\ c \in Receivers
  /\ pc[c] = "probe"
  /\ LET dif == seq[Slot(pos[c])] - (pos[c] + 1)
     IN Goto(c, IF dif = 0 THEN "cas"
                ELSE IF dif < 0 /\ mode[c] = "try" THEN "idle"   \* empty
                ELSE IF dif < 0 /\ mode[c] = "eof" THEN "closed?"
                ELSE "reload")
  /\ UNCHANGED <<ring, life, pos, mode, sent, got>>

\* receive(out): the slot looked empty, so load _closed ...
PopCheckClosed(c) ==
  /\ pc[c] = "closed?"
  /\ Goto(c, IF closed # 0 THEN "recheck" ELSE "reload")
  /\ UNCHANGED <<ring, life, pos, mode, sent, got>>

\* Mutation of PopRecheck: closed is believed without a second look at the slot.
PopRecheckSkipped(c) ==
  /\ pc[c] = "recheck"
  /\ Goto(c, "end")
  /\ UNCHANGED <<ring, life, pos, mode, sent, got>>

\* ... and look at the slot once more before reporting end of stream.
PopRecheck(c) ==
  /\ pc[c] = "recheck"
  /\ Goto(c, IF seq[Slot(pos[c])] - (pos[c] + 1) < 0 THEN "end" ELSE "reload")
  /\ UNCHANGED <<ring, life, pos, mode, sent, got>>

\* Mutation of PopCas: a plain store of tail where the code has a CAS.
PopCasStore(c) ==
  /\ c \in Receivers
  /\ pc[c] = "cas"
  /\ tail' = pos[c] + 1
  /\ Goto(c, "read")
  /\ UNCHANGED <<head, seq, buf, life, pos, mode, sent, got>>

PopCas(c) ==
  /\ c \in Receivers
  /\ pc[c] = "cas"
  /\ IF tail = pos[c]
     THEN tail' = tail + 1 /\ Goto(c, "read")
     ELSE UNCHANGED tail /\ Goto(c, "reload")
  /\ UNCHANGED <<head, seq, buf, life, pos, mode, sent, got>>

PopRead(c) ==
  /\ pc[c] = "read"
  /\ got' = [got EXCEPT ![c] = Append(@, buf[Slot(pos[c])])]
  /\ Goto(c, "release")
  /\ UNCHANGED <<ring, life, pos, mode, sent>>

PopRelease(c) ==
  /\ pc[c] = "release"
  /\ seq' = [seq EXCEPT ![Slot(pos[c])] = pos[c] + Cap]
  /\ Goto(c, "idle")
  /\ UNCHANGED <<head, tail, buf, life, pos, mode, sent, got>>

-----------------------------------------------------------------------------
SenderStep(p) ==
  \/ AddProducer(p)
  \/ CloseDecrement(p)
  \/ ClosePublish(p)
  \/ \E m \in Calls[p] : PushStart(p, m)
  \/ PushReload(p)
  \/ PushProbe(p)
  \/ PushCas(p)
  \/ PushWrite(p)
  \/ PushPublish(p)

ReceiverStep(c) ==
  \/ \E m \in Calls[c] : PopStart(c, m)
  \/ PopReload(c)
  \/ PopProbe(c)
  \/ PopCheckClosed(c)
  \/ PopRecheck(c)
  \/ PopCas(c)
  \/ PopRead(c)
  \/ PopRelease(c)

Next ==
  \/ \E p \in Senders : SenderStep(p)
  \/ \E c \in Receivers : ReceiverStep(c)

Spec == Init /\ [][Next]_vars

\* A running thread is eventually scheduled, and a receiver that polls with
\* try_receive does not poll for ever: it falls back to receive(out) at last.
Fairness ==
  /\ \A p \in Senders : WF_vars(SenderStep(p))
  /\ \A c \in Receivers : WF_vars(ReceiverStep(c)) /\ SF_vars(PopStart(c, "eof"))

FairSpec == Spec /\ Fairness

-----------------------------------------------------------------------------
SenderLabels ==
  {"unborn", "idle", "reload", "probe", "cas", "write", "publish", "closing", "done"}
ReceiverLabels ==
  {"idle", "reload", "probe", "cas", "closed?", "recheck", "read", "release", "end"}

PcOK ==
  /\ pc \in [Threads -> SenderLabels \union ReceiverLabels]
  /\ \A p \in Senders : pc[p] \in SenderLabels
  /\ \A c \in Receivers : pc[c] \in ReceiverLabels

(***************************************************************************)
(* The type invariant.  Positions and sequence numbers never go negative   *)
(* and every call is at one of its own labels.                             *)
(***************************************************************************)
TypeOK ==
  /\ head \in Nat
  /\ tail \in Nat
  /\ seq \in [Slots -> Nat]
  /\ buf \in [Slots -> (Senders \X Nat) \union {NoItem}]
  /\ producers \in Int
  /\ closed \in {0, 1}
  /\ PcOK
  /\ pos \in [Threads -> Nat]
  /\ mode \in [Threads -> {"block", "try", "eof"}]
  /\ sent \in [Senders -> Nat]
  /\ got \in [Receivers -> Seq((Senders \X Nat) \union {NoItem})]

Writers == {p \in Senders : pc[p] \in {"write", "publish"}}
Readers == {c \in Receivers : pc[c] \in {"read", "release"}}

(***************************************************************************)
(* The plain, unsynchronised accesses to _buf never meet: a slot that some *)
(* thread is writing or copying out belongs to that thread alone, from its *)
(* successful CAS to its release store of the sequence number.             *)
(***************************************************************************)
SlotExclusive ==
  \A t, u \in Writers \union Readers :
    t # u => Slot(pos[t]) # Slot(pos[u])

(***************************************************************************)
(* The ring is bounded: never more positions are outstanding than there    *)
(* are slots, and receivers never overtake senders.                        *)
(***************************************************************************)
Bounded == tail <= head /\ head <= tail + Cap

(***************************************************************************)
(* Why the two above hold, as an inductive invariant: the sequence number  *)
(* of a slot tells who may use it.                                         *)
(***************************************************************************)
PosBehind ==
  /\ \A p \in Senders : pos[p] <= head
  /\ \A c \in Receivers : pos[c] <= tail

\* A claimed slot still shows the position its writer claimed ...
WritersOwn ==
  \A p \in Writers :
    /\ seq[Slot(pos[p])] = pos[p]
    /\ tail <= pos[p] /\ pos[p] < head

\* ... and a claimed item still shows its reader's; the senders stay within a lap.
ReadersOwn ==
  \A c \in Readers :
    /\ seq[Slot(pos[c])] = pos[c] + 1
    /\ pos[c] < tail /\ head <= pos[c] + Cap

ClaimedOnce ==
  /\ \A p, q \in Writers : pos[p] = pos[q] => p = q
  /\ \A c, d \in Readers : pos[c] = pos[d] => c = d

\* What a thread probed still holds if its CAS is going to succeed.
ProbeHolds ==
  /\ \A p \in Senders :
       pc[p] = "cas" /\ pos[p] = head => seq[Slot(head)] = head
  /\ \A c \in Receivers :
       pc[c] = "cas" /\ pos[c] = tail => seq[Slot(tail)] = tail + 1

\* Outstanding positions are claimed or published; received ones have been
\* published; nothing at or above head has.
Laps ==
  /\ \A q \in tail .. head - 1 : seq[Slot(q)] \in {q, q + 1}
  /\ \A q \in 0 .. tail - 1 : seq[Slot(q)] > q
  /\ \A i \in Slots : seq[i] > 0 /\ Slot(seq[i] - 1) = i => seq[i] <= head

RingInv ==
  Bounded /\ PosBehind /\ WritersOwn /\ ReadersOwn /\ ClaimedOnce /\ ProbeHolds /\ Laps

(***************************************************************************)
(* A refused call is honest although it works from a position it loaded    *)
(* some steps ago: when try_push reports "full" the slot whose turn it is  *)
(* has not come back from the previous lap at that very step, and when     *)
(* try_pop reports "empty" the oldest item is unpublished at that step.    *)
(***************************************************************************)
RefusalIsHonest ==
  [][/\ \A p \in Senders :
          pc[p] = "probe" /\ pc'[p] = "idle" => seq[Slot(head)] < head
     /\ \A c \in Receivers :
          pc[c] = "probe" /\ pc'[c] = "idle" => seq[Slot(tail)] <= tail]_vars

(***************************************************************************)
(* "Returns false if the channel is full", says the comment on try_push.   *)
(***************************************************************************)
RefusedOnlyWhenFull ==
  [][\A p \in Senders :
       pc[p] = "probe" /\ pc'[p] = "idle" => head - tail = Cap]_vars

(***************************************************************************)
(* receive(out) returns false only when it must: all senders have closed    *)
(* and every item ever sent has been claimed by some receiver.             *)
(***************************************************************************)
EndMeansDrained ==
  (\E c \in Receivers : pc[c] = "end") =>
    /\ \A p \in Senders : pc[p] \in {"closing", "done"}
    /\ tail = head

(***************************************************************************)
(* Every item is eventually received, and every receiver is eventually     *)
(* told that the stream has ended, unless it sits in a pop() that nothing  *)
(* can answer any more.                                                    *)
(***************************************************************************)
StreamEnds ==
  <>[](/\ tail = head
       /\ \A c \in Receivers : pc[c] = "end" \/ mode[c] = "block")

-----------------------------------------------------------------------------
(***************************************************************************)
(* The ring implements the ticket queue.  A successful CAS on head takes   *)
(* the ticket, the release store of the sequence number makes it ready,    *)
(* and a successful CAS on tail receives, although the item is copied out  *)
(* only afterwards.                                                        *)
(***************************************************************************)
Claimant(q) == CHOOSE p \in Writers : pos[p] = q

TicketAt(q) ==
  IF seq[Slot(q)] = q + 1
  THEN [item |-> buf[Slot(q)], ready |-> TRUE]
  ELSE [item |-> Item(Claimant(q)), ready |-> FALSE]

Tickets == [i \in 1 .. head - tail |-> TicketAt(tail + i - 1)]
Taken == [p \in Senders |-> sent[p] + (IF p \in Writers THEN 1 ELSE 0)]
Finished == {p \in Senders : pc[p] \in {"closing", "done"}}
Delivered ==
  [c \in Receivers |-> IF pc[c] = "read" THEN Append(got[c], buf[Slot(pos[c])]) ELSE got[c]]
Ended == {c \in Receivers : pc[c] = "end"}

Queue ==
  INSTANCE TicketQueue WITH
    tickets <- Tickets, sent <- Taken, finished <- Finished,
    delivered <- Delivered, ended <- Ended

ImplementsTicketQueue == Queue!QSpec
==============================================================================
