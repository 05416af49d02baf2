---------------------------- MODULE QueueProofs -----------------------------
(***************************************************************************)
(* Proofs about the two rings: that of Channel, for any number of senders, *)
(* receivers, items and slots (at least two: a ring of one slot is not     *)
(* safe, see MCChannelOneSlot.cfg), and that of SpscQueue, for every       *)
(* capacity, every set of items and any number of them.                    *)
(***************************************************************************)
EXTENDS Channel, SpscQueue, FiniteSetTheorems, TLAPS

------------------------------------------------------------------------------
(* The slot of position i in a ring of C slots is i % C. *)

\* Quotient and remainder rebuild the position.
LEMMA DivMod ==
  ASSUME NEW C \in Nat \ {0}, NEW q \in Nat
  PROVE  /\ q = C * (q \div C) + (q % C)
         /\ q % C \in 0 .. C - 1
         /\ q \div C \in Nat
OBVIOUS

\* A positive multiple is no smaller.
LEMMA MultipleNotBelow ==
  ASSUME NEW C \in Nat, NEW d \in Nat, d >= 1
  PROVE  C * d >= C
<1>1. C * d = C * (d - 1) + C  OBVIOUS
<1>2. C * (d - 1) >= 0  OBVIOUS
<1> QED  BY <1>1, <1>2

\* Quotient and remainder are unique.
LEMMA DivModUnique ==
  ASSUME NEW C \in Nat \ {0}, NEW k \in Nat, NEW j \in Nat,
         NEW r \in 0 .. C - 1, NEW s \in 0 .. C - 1,
         C * k + r = C * j + s
  PROVE  k = j /\ r = s
<1>1. CASE k > j
  <2>1. C * (k - j) >= C  BY <1>1, MultipleNotBelow
  <2>2. C * (k - j) = C * k - C * j  OBVIOUS
  <2> QED  BY <2>1, <2>2, C * k \in Nat, C * j \in Nat
<1>2. CASE j > k
  <2>1. C * (j - k) >= C  BY <1>2, MultipleNotBelow
  <2>2. C * (j - k) = C * j - C * k  OBVIOUS
  <2> QED  BY <2>1, <2>2, C * k \in Nat, C * j \in Nat
<1>3. CASE k = j
  BY <1>3, C * k \in Nat
<1> QED  BY <1>1, <1>2, <1>3

\* One lap later a position has the same slot.
LEMMA NextLap ==
  ASSUME NEW C \in Nat \ {0}, NEW q \in Nat
  PROVE  (q + C) % C = q % C
<1> DEFINE k == (q + C) \div C
           j == (q \div C) + 1
           r == (q + C) % C
           s == q % C
<1>1. /\ q + C = C * k + r
      /\ k \in Nat /\ r \in 0 .. C - 1
  BY q + C \in Nat, DivMod
<1>2. /\ q = C * (q \div C) + s
      /\ q \div C \in Nat /\ s \in 0 .. C - 1
  BY DivMod
<1>3. C * j = C * (q \div C) + C  BY <1>2
<1>4. C * k + r = C * j + s
  BY <1>1, <1>2, <1>3, C * (q \div C) \in Nat
<1>5. j \in Nat  BY <1>2
<1> HIDE DEF k, j, r, s
<1>6. r = s  BY <1>1, <1>2, <1>4, <1>5, DivModUnique
<1> QED  BY <1>6 DEF r, s

\* In a ring of at least two slots, neighbouring positions have different slots.
LEMMA NextPosition ==
  ASSUME NEW C \in Nat, C >= 2, NEW q \in Nat
  PROVE  (q + 1) % C # q % C
<1> SUFFICES ASSUME (q + 1) % C = q % C PROVE FALSE  OBVIOUS
<1> DEFINE a == (q + 1) \div C
           b == q \div C
           r == q % C
<1>0. C \in Nat \ {0}  OBVIOUS
<1>1. q + 1 = C * a + r /\ a \in Nat  BY <1>0, q + 1 \in Nat, DivMod
<1>2. q = C * b + r /\ b \in Nat /\ r \in 0 .. C - 1  BY <1>0, DivMod
<1> HIDE DEF a, b, r
<1>3. C * a = C * b + 1
  BY <1>1, <1>2, C * a \in Nat, C * b \in Nat
<1>4. a > b
  <2> SUFFICES ASSUME a <= b PROVE FALSE  BY <1>1, <1>2
  <2>1. C * b >= C * a  BY <1>1, <1>2
  <2> QED  BY <2>1, <1>3, <1>1, <1>2, C * a \in Nat, C * b \in Nat
<1>5. C * (a - b) >= C  BY <1>4, <1>1, <1>2, MultipleNotBelow
<1>6. C * (a - b) = C * a - C * b  BY <1>1, <1>2
<1> QED  BY <1>3, <1>5, <1>6, <1>1, <1>2, C * a \in Nat, C * b \in Nat

\* A position below the capacity is its own slot.
LEMMA FirstLap ==
  ASSUME NEW C \in Nat, NEW q \in 0 .. C - 1
  PROVE  q % C = q
OBVIOUS

\* Stepping to the next slot and wrapping is stepping to the next position.
LEMMA NextSlotOf ==
  ASSUME NEW C \in Nat \ {0}, NEW q \in Nat
  PROVE  ((q % C) + 1) % C = (q + 1) % C
<1> DEFINE b == q \div C
           r == q % C
           k == (q + 1) \div C
           s == (q + 1) % C
<1>1. q = C * b + r /\ b \in Nat /\ r \in 0 .. C - 1  BY DivMod
<1>2. q + 1 = C * k + s /\ k \in Nat /\ s \in 0 .. C - 1  BY q + 1 \in Nat, DivMod
<1> HIDE DEF b, r, k, s
<1>3. C * b \in Nat /\ C * k \in Nat  BY <1>1, <1>2
<1>4. CASE r + 1 < C
  <2>1. C * b + (r + 1) = C * k + s  BY <1>1, <1>2, <1>3
  <2>2. r + 1 = s  BY <1>1, <1>2, <1>4, <2>1, r + 1 \in 0 .. C - 1, DivModUnique
  <2>3. (r + 1) % C = r + 1  BY <1>1, <1>4, FirstLap, r + 1 \in 0 .. C - 1
  <2> QED  BY <2>2, <2>3 DEF r, s
<1>5. CASE r + 1 = C
  <2>1. C * (b + 1) = C * b + C  BY <1>1
  <2>2. C * (b + 1) + 0 = C * k + s  BY <1>1, <1>2, <1>3, <1>5, <2>1
  <2>3. s = 0  BY <1>1, <1>2, <2>2, b + 1 \in Nat, 0 \in 0 .. C - 1, DivModUnique
  <2>4. (0 + C) % C = 0 % C  BY NextLap
  <2>5. C % C = 0  BY <2>4, FirstLap, 0 \in 0 .. C - 1
  <2> QED  BY <1>5, <2>3, <2>5 DEF r, s
<1> QED  BY <1>1, <1>4, <1>5

\* Different positions within one lap have different slots.
LEMMA ApartWithinLap ==
  ASSUME NEW C \in Nat \ {0}, NEW q \in Nat, NEW r \in Nat, q < r, r < q + C
  PROVE  q % C # r % C
<1> SUFFICES ASSUME q % C = r % C PROVE FALSE  OBVIOUS
<1> DEFINE a == r \div C
           b == q \div C
           s == q % C
<1>1. r = C * a + s /\ a \in Nat  BY DivMod
<1>2. q = C * b + s /\ b \in Nat /\ s \in 0 .. C - 1  BY DivMod
<1> HIDE DEF a, b, s
<1>3. C * a \in Nat /\ C * b \in Nat /\ C * b < C * a /\ C * a < C * b + C
  BY <1>1, <1>2
<1>4. a > b
  <2> SUFFICES ASSUME a <= b PROVE FALSE  BY <1>1, <1>2
  <2>1. C * b >= C * a  BY <1>1, <1>2
  <2> QED  BY <2>1, <1>3
<1>5. C * (a - b) >= C  BY <1>4, <1>1, <1>2, MultipleNotBelow
<1>6. C * (a - b) = C * a - C * b  BY <1>1, <1>2
<1> QED  BY <1>3, <1>5, <1>6

------------------------------------------------------------------------------
LEMMA SlotType ==
  ASSUME NEW q \in Nat
  PROVE  Slot(q) \in Slots
BY ChannelAssumption, DivMod DEF Slot, Slots

LEMMA SlotNextLap ==
  ASSUME NEW q \in Nat
  PROVE  Slot(q + Cap) = Slot(q)
BY ChannelAssumption, NextLap DEF Slot

LEMMA SlotNeighbour ==
  ASSUME Cap >= 2, NEW q \in Nat
  PROVE  Slot(q + 1) # Slot(q)
BY ChannelAssumption, NextPosition DEF Slot

LEMMA CapType == Cap \in Nat /\ Cap >= 1
BY ChannelAssumption

LEMMA ThreadsApart == \A p \in Senders : p \in Threads /\ p \notin Receivers
BY ChannelAssumption DEF Threads

\* Moving a thread to a label of its own kind keeps all threads at their labels.
LEMMA GotoType ==
  ASSUME PcOK, NEW t \in Threads, NEW label, Goto(t, label),
         t \in Senders => label \in SenderLabels,
         t \in Receivers => label \in ReceiverLabels
  PROVE  PcOK'
BY DEF PcOK, Goto, Threads

-----------------------------------------------------------------------------
(***************************************************************************)
(* Every reachable state is well typed: what each call of add_producer,    *)
(* send, receive and close_producer leaves behind.                         *)
(***************************************************************************)
THEOREM TypeCorrect == Spec => []TypeOK
<1>1. Init => TypeOK
  <2> SUFFICES ASSUME Init PROVE TypeOK  OBVIOUS
  <2>1. Slots \subseteq Nat  BY CapType DEF Slots
  <2> QED
    BY <2>1, ThreadsApart DEF Init, TypeOK, PcOK, Threads, SenderLabels, ReceiverLabels
<1>2. TypeOK /\ [Next]_vars => TypeOK'
  <2> SUFFICES ASSUME TypeOK, [Next]_vars PROVE TypeOK'  OBVIOUS
  <2>0. /\ \A p \in Senders : p \in Threads /\ p \notin Receivers
        /\ \A c \in Receivers : c \in Threads /\ c \notin Senders
        /\ \A t \in Threads : Slot(pos[t]) \in Slots
        /\ Cap \in Nat
    BY ThreadsApart, CapType, SlotType DEF Threads, TypeOK
  <2>1. ASSUME NEW p \in Senders, AddProducer(p) PROVE TypeOK'
    <3>1. producers' \in Int  BY <2>1 DEF AddProducer, TypeOK
    <3>2. PcOK'
      <4>1. PICK label \in SenderLabels : Goto(p, label)  BY <2>1 DEF AddProducer, SenderLabels
      <4> QED  BY <4>1, <2>0, GotoType DEF TypeOK
    <3> QED  BY <2>1, <3>1, <3>2 DEF AddProducer, TypeOK, ring, life
  <2>2. ASSUME NEW p \in Senders, CloseDecrement(p) PROVE TypeOK'
    <3>1. producers' \in Int  BY <2>2 DEF CloseDecrement, TypeOK
    <3>2. PcOK'
      <4>1. PICK label \in SenderLabels : Goto(p, label)  BY <2>2 DEF CloseDecrement, SenderLabels
      <4> QED  BY <4>1, <2>0, GotoType DEF TypeOK
    <3> QED  BY <2>2, <3>1, <3>2 DEF CloseDecrement, TypeOK, ring, life
  <2>3. ASSUME NEW p \in Senders, ClosePublish(p) PROVE TypeOK'
    <3>1. PcOK'
      <4>1. PICK label \in SenderLabels : Goto(p, label)  BY <2>3 DEF ClosePublish, SenderLabels
      <4> QED  BY <4>1, <2>0, GotoType DEF TypeOK
    <3> QED  BY <2>3, <3>1 DEF ClosePublish, TypeOK, ring, life
  <2>4. ASSUME NEW p \in Senders, NEW m \in Calls[p], PushStart(p, m) PROVE TypeOK'
    <3>1. m \in {"block", "try", "eof"}  BY <2>0, ChannelAssumption DEF Threads
    <3>2. mode' \in [Threads -> {"block", "try", "eof"}] /\ pos' \in [Threads -> Nat]
      BY <2>4, <3>1 DEF PushStart, TypeOK
    <3>3. PcOK'
      <4>1. PICK label \in SenderLabels : Goto(p, label)  BY <2>4 DEF PushStart, SenderLabels
      <4> QED  BY <4>1, <2>0, GotoType DEF TypeOK
    <3> QED  BY <2>4, <3>1, <3>2, <3>3 DEF PushStart, TypeOK, ring, life
  <2>5. ASSUME NEW p \in Senders, PushReload(p) PROVE TypeOK'
    <3>1. pos' \in [Threads -> Nat]  BY <2>5 DEF PushReload, TypeOK
    <3>2. PcOK'
      <4>1. PICK label \in SenderLabels : Goto(p, label)  BY <2>5 DEF PushReload, SenderLabels
      <4> QED  BY <4>1, <2>0, GotoType DEF TypeOK
    <3> QED  BY <2>5, <3>1, <3>2 DEF PushReload, TypeOK, ring, life
  <2>6. ASSUME NEW p \in Senders, PushProbe(p) PROVE TypeOK'
    <3>1. PcOK'
      <4>1. PICK label \in SenderLabels : Goto(p, label)  BY <2>6 DEF PushProbe, SenderLabels
      <4> QED  BY <4>1, <2>0, GotoType DEF TypeOK
    <3> QED  BY <2>6, <3>1 DEF PushProbe, TypeOK, ring, life
  <2>7. ASSUME NEW p \in Senders, PushCas(p) PROVE TypeOK'
    <3>1. head' \in Nat  BY <2>7 DEF PushCas, TypeOK
    <3>2. PcOK'
      <4>1. PICK label \in SenderLabels : Goto(p, label)  BY <2>7 DEF PushCas, SenderLabels
      <4> QED  BY <4>1, <2>0, GotoType DEF TypeOK
    <3> QED  BY <2>7, <3>1, <3>2 DEF PushCas, TypeOK, ring, life
  <2>8. ASSUME NEW p \in Senders, PushWrite(p) PROVE TypeOK'
    <3>1. Item(p) \in Senders \X Nat  BY DEF Item, TypeOK
    <3>2. buf' \in [Slots -> (Senders \X Nat) \union {NoItem}]  BY <2>8, <2>0, <3>1 DEF PushWrite, TypeOK
    <3>3. PcOK'
      <4>1. PICK label \in SenderLabels : Goto(p, label)  BY <2>8 DEF PushWrite, SenderLabels
      <4> QED  BY <4>1, <2>0, GotoType DEF TypeOK
    <3> QED  BY <2>8, <3>1, <3>2, <3>3 DEF PushWrite, TypeOK, ring, life
  <2>9. ASSUME NEW p \in Senders, PushPublish(p) PROVE TypeOK'
    <3>1. seq' \in [Slots -> Nat]  BY <2>9, <2>0 DEF PushPublish, TypeOK
    <3>2. sent' \in [Senders -> Nat]  BY <2>9 DEF PushPublish, TypeOK
    <3>3. PcOK'
      <4>1. PICK label \in SenderLabels : Goto(p, label)  BY <2>9 DEF PushPublish, SenderLabels
      <4> QED  BY <4>1, <2>0, GotoType DEF TypeOK
    <3> QED  BY <2>9, <3>1, <3>2, <3>3 DEF PushPublish, TypeOK, ring, life
  <2>10. ASSUME NEW c \in Receivers, NEW m \in Calls[c], PopStart(c, m) PROVE TypeOK'
    <3>1. m \in {"block", "try", "eof"}  BY <2>0, ChannelAssumption DEF Threads
    <3>2. mode' \in [Threads -> {"block", "try", "eof"}] /\ pos' \in [Threads -> Nat]
      BY <2>10, <3>1 DEF PopStart, TypeOK
    <3>3. PcOK'
      <4>1. PICK label \in ReceiverLabels : Goto(c, label)  BY <2>10 DEF PopStart, ReceiverLabels
      <4> QED  BY <4>1, <2>0, GotoType DEF TypeOK
    <3> QED  BY <2>10, <3>1, <3>2, <3>3 DEF PopStart, TypeOK, ring, life
  <2>11. ASSUME NEW c \in Receivers, PopReload(c) PROVE TypeOK'
    <3>1. pos' \in [Threads -> Nat]  BY <2>11 DEF PopReload, TypeOK
    <3>2. PcOK'
      <4>1. PICK label \in ReceiverLabels : Goto(c, label)  BY <2>11 DEF PopReload, ReceiverLabels
      <4> QED  BY <4>1, <2>0, GotoType DEF TypeOK
    <3> QED  BY <2>11, <3>1, <3>2 DEF PopReload, TypeOK, ring, life
  <2>12. ASSUME NEW c \in Receivers, PopProbe(c) PROVE TypeOK'
    <3>1. PcOK'
      <4>1. PICK label \in ReceiverLabels : Goto(c, label)  BY <2>12 DEF PopProbe, ReceiverLabels
      <4> QED  BY <4>1, <2>0, GotoType DEF TypeOK
    <3> QED  BY <2>12, <3>1 DEF PopProbe, TypeOK, ring, life
  <2>13. ASSUME NEW c \in Receivers, PopCheckClosed(c) PROVE TypeOK'
    <3>1. PcOK'
      <4>1. PICK label \in ReceiverLabels : Goto(c, label)  BY <2>13 DEF PopCheckClosed, ReceiverLabels
      <4> QED  BY <4>1, <2>0, GotoType DEF TypeOK
    <3> QED  BY <2>13, <3>1 DEF PopCheckClosed, TypeOK, ring, life
  <2>14. ASSUME NEW c \in Receivers, PopRecheck(c) PROVE TypeOK'
    <3>1. PcOK'
      <4>1. PICK label \in ReceiverLabels : Goto(c, label)  BY <2>14 DEF PopRecheck, ReceiverLabels
      <4> QED  BY <4>1, <2>0, GotoType DEF TypeOK
    <3> QED  BY <2>14, <3>1 DEF PopRecheck, TypeOK, ring, life
  <2>15. ASSUME NEW c \in Receivers, PopCas(c) PROVE TypeOK'
    <3>1. tail' \in Nat  BY <2>15 DEF PopCas, TypeOK
    <3>2. PcOK'
      <4>1. PICK label \in ReceiverLabels : Goto(c, label)  BY <2>15 DEF PopCas, ReceiverLabels
      <4> QED  BY <4>1, <2>0, GotoType DEF TypeOK
    <3> QED  BY <2>15, <3>1, <3>2 DEF PopCas, TypeOK, ring, life
  <2>16. ASSUME NEW c \in Receivers, PopRead(c) PROVE TypeOK'
    <3>1. buf[Slot(pos[c])] \in (Senders \X Nat) \union {NoItem}  BY <2>0 DEF TypeOK
    <3>2. Append(got[c], buf[Slot(pos[c])]) \in Seq((Senders \X Nat) \union {NoItem})
      BY <3>1 DEF TypeOK
    <3>3. got' \in [Receivers -> Seq((Senders \X Nat) \union {NoItem})]
      BY <2>16, <3>2 DEF PopRead, TypeOK
    <3>4. PcOK'
      <4>1. PICK label \in ReceiverLabels : Goto(c, label)  BY <2>16 DEF PopRead, ReceiverLabels
      <4> QED  BY <4>1, <2>0, GotoType DEF TypeOK
    <3> QED  BY <2>16, <3>1, <3>2, <3>3, <3>4 DEF PopRead, TypeOK, ring, life
  <2>17. ASSUME NEW c \in Receivers, PopRelease(c) PROVE TypeOK'
    <3>1. seq' \in [Slots -> Nat]  BY <2>17, <2>0 DEF PopRelease, TypeOK
    <3>2. PcOK'
      <4>1. PICK label \in ReceiverLabels : Goto(c, label)  BY <2>17 DEF PopRelease, ReceiverLabels
      <4> QED  BY <4>1, <2>0, GotoType DEF TypeOK
    <3> QED  BY <2>17, <3>1, <3>2 DEF PopRelease, TypeOK, ring, life
  <2>18. CASE UNCHANGED vars
    BY <2>18 DEF vars, TypeOK, PcOK
  <2> QED
    BY <2>1, <2>2, <2>3, <2>4, <2>5, <2>6, <2>7, <2>8, <2>9, <2>10, <2>11, <2>12,
       <2>13, <2>14, <2>15, <2>16, <2>17, <2>18 DEF Next, SenderStep, ReceiverStep
<1> QED  BY <1>1, <1>2, PTL DEF Spec

-----------------------------------------------------------------------------
\* A step of thread t that leaves the ring alone and claims nothing.
LEMMA LocalStep ==
  ASSUME TypeOK, TypeOK', RingInv, NEW t \in Threads,
         head' = head, tail' = tail, seq' = seq,
         \A u \in Threads \ {t} : pc'[u] = pc[u] /\ pos'[u] = pos[u],
         t \in Senders => pos'[t] <= head,
         t \in Receivers => pos'[t] <= tail,
         t \in Writers' => t \in Writers /\ pos'[t] = pos[t],
         t \in Readers' => t \in Readers /\ pos'[t] = pos[t],
         t \in Senders /\ pc'[t] = "cas" /\ pos'[t] = head => seq[Slot(head)] = head,
         t \in Receivers /\ pc'[t] = "cas" /\ pos'[t] = tail => seq[Slot(tail)] = tail + 1
  PROVE  RingInv'
<1>1. /\ \A p \in Writers' : p \in Writers /\ pos'[p] = pos[p]
      /\ \A c \in Readers' : c \in Readers /\ pos'[c] = pos[c]
  BY DEF Writers, Readers, Threads
<1>2. Bounded' /\ Laps'  BY DEF RingInv, Bounded, Laps, Slot
<1>3. PosBehind'  BY DEF RingInv, PosBehind, Threads
<1>4. WritersOwn' /\ ReadersOwn'
  BY <1>1 DEF RingInv, WritersOwn, ReadersOwn, Slot
<1>5. ClaimedOnce'  BY <1>1 DEF RingInv, ClaimedOnce
<1>6. ProbeHolds'  BY DEF RingInv, ProbeHolds, Threads, Slot
<1> QED  BY <1>2, <1>3, <1>4, <1>5, <1>6 DEF RingInv

\* A successful CAS on head: the slot of head is free, so one lap is not exceeded.
LEMMA ClaimForWriting ==
  ASSUME Cap >= 2, TypeOK, TypeOK', RingInv, NEW p \in Senders, PushCas(p), head = pos[p]
  PROVE  RingInv'
<1> DEFINE s == Slot(head)
<1>0. /\ head \in Nat /\ tail \in Nat /\ Cap \in Nat
      /\ p \in Threads /\ p \notin Receivers
      /\ \A t \in Threads : pos[t] \in Nat
      /\ head' = head + 1 /\ tail' = tail /\ seq' = seq /\ pos' = pos
      /\ pc[p] = "cas" /\ pc'[p] = "write"
      /\ \A u \in Threads \ {p} : pc'[u] = pc[u]
      /\ Senders \subseteq Threads /\ Receivers \subseteq Threads
  BY ThreadsApart, CapType DEF TypeOK, PcOK, PushCas, Goto, Threads, life
<1>1. seq[s] = head  BY <1>0 DEF RingInv, ProbeHolds, PushCas
<1>2. /\ Writers' = Writers \union {p} /\ p \notin Writers
      /\ Readers' = Readers
  BY <1>0 DEF Writers, Readers
<1>3. head # tail + Cap
  <2> SUFFICES ASSUME head = tail + Cap PROVE FALSE  OBVIOUS
  <2>1. tail \in tail .. head - 1  BY <1>0, CapType
  <2>2. seq[Slot(tail)] \in {tail, tail + 1}  BY <2>1 DEF RingInv, Laps
  <2>3. Slot(tail) = s  BY <1>0, SlotNextLap
  <2> QED  BY <2>2, <2>3, <1>0, <1>1
<1>4. Bounded'  BY <1>0, <1>3 DEF RingInv, Bounded
<1>5. PosBehind'  BY <1>0 DEF RingInv, PosBehind
<1>6. WritersOwn'
  BY <1>0, <1>1, <1>2 DEF RingInv, WritersOwn, Bounded, PushCas, Slot, Writers
<1>7. ReadersOwn'
  <2> SUFFICES ASSUME NEW c \in Readers
               PROVE  seq[Slot(pos[c])] = pos[c] + 1 /\ pos[c] < tail /\ head + 1 <= pos[c] + Cap
    BY <1>0, <1>2 DEF ReadersOwn, Slot
  <2>1. seq[Slot(pos[c])] = pos[c] + 1 /\ pos[c] < tail /\ head <= pos[c] + Cap
    BY DEF RingInv, ReadersOwn
  <2>2. pos[c] \in Nat  BY <1>0 DEF Readers
  <2>3. head # pos[c] + Cap
    BY <2>1, <2>2, <1>0, <1>1, SlotNextLap
  <2> QED  BY <2>1, <2>2, <2>3, <1>0
<1>8. ClaimedOnce'
  <2>1. \A q \in Writers : pos[q] < head  BY DEF RingInv, WritersOwn
  <2> QED  BY <1>0, <1>2, <2>1 DEF RingInv, ClaimedOnce, PushCas
<1>9. ProbeHolds'
  BY <1>0 DEF RingInv, ProbeHolds, PosBehind, Slot
<1>10. Laps'
  <2>1. \A q \in tail .. head : seq[Slot(q)] \in {q, q + 1}
    BY <1>0, <1>1 DEF RingInv, Laps
  <2>2. \A i \in Slots : seq[i] \in Nat  BY DEF TypeOK
  <2> QED  BY <1>0, <2>1, <2>2 DEF RingInv, Laps, Slot
<1> QED  BY <1>4, <1>5, <1>6, <1>7, <1>8, <1>9, <1>10 DEF RingInv

\* The release store that publishes an item.
LEMMA Publication ==
  ASSUME Cap >= 2, TypeOK, TypeOK', RingInv, NEW p \in Senders, PushPublish(p)
  PROVE  RingInv'
<1> DEFINE w == pos[p]
<1>0. /\ head \in Nat /\ tail \in Nat /\ Cap \in Nat /\ w \in Nat
      /\ p \in Writers /\ p \notin Receivers
      /\ \A t \in Threads : pos[t] \in Nat
      /\ head' = head /\ tail' = tail /\ pos' = pos
      /\ pc'[p] = "idle"
      /\ \A u \in Threads \ {p} : pc'[u] = pc[u]
      /\ Senders \subseteq Threads /\ Receivers \subseteq Threads
      /\ Slot(w) \in Slots
      /\ seq \in [Slots -> Nat]
      /\ seq' = [seq EXCEPT ![Slot(w)] = w + 1]
  BY ThreadsApart, CapType, SlotType
     DEF TypeOK, PcOK, PushPublish, Goto, Threads, Writers, life
<1>1. seq[Slot(w)] = w /\ tail <= w /\ w < head  BY <1>0 DEF RingInv, WritersOwn
<1>2. Writers' = Writers \ {p} /\ Readers' = Readers
  BY <1>0 DEF Writers, Readers
<1>3. \A q \in Nat : Slot(q) \in Slots  BY SlotType
<1>4. Bounded' /\ PosBehind'  BY <1>0 DEF RingInv, Bounded, PosBehind
<1>5. WritersOwn'
  <2> SUFFICES ASSUME NEW v \in Writers, v # p
               PROVE  seq'[Slot(pos[v])] = pos[v] /\ tail <= pos[v] /\ pos[v] < head
    BY <1>0, <1>2 DEF WritersOwn, Slot
  <2>1. seq[Slot(pos[v])] = pos[v] /\ tail <= pos[v] /\ pos[v] < head /\ pos[v] # w
    BY <1>0 DEF RingInv, WritersOwn, ClaimedOnce
  <2>2. Slot(pos[v]) # Slot(w)  BY <2>1, <1>1
  <2> QED  BY <2>1, <2>2, <1>0, <1>3 DEF Writers
<1>6. ReadersOwn'
  <2> SUFFICES ASSUME NEW c \in Readers
               PROVE  seq'[Slot(pos[c])] = pos[c] + 1 /\ pos[c] < tail /\ head <= pos[c] + Cap
    BY <1>0, <1>2 DEF ReadersOwn, Slot
  <2>1. seq[Slot(pos[c])] = pos[c] + 1 /\ pos[c] < tail /\ head <= pos[c] + Cap
    BY DEF RingInv, ReadersOwn
  <2>2. pos[c] \in Nat  BY <1>0 DEF Readers
  <2>3. Slot(pos[c]) # Slot(w)
    BY <2>1, <2>2, <1>0, <1>1, SlotNeighbour
  <2> QED  BY <2>1, <2>2, <2>3, <1>0, <1>3
<1>7. ClaimedOnce'  BY <1>0, <1>2 DEF RingInv, ClaimedOnce
<1>8. ProbeHolds'
  <2>1. ASSUME NEW q \in Senders, pc[q] = "cas", pos[q] = head
        PROVE  seq'[Slot(head)] = head
    BY <2>1, <1>0, <1>1, <1>3 DEF RingInv, ProbeHolds
  <2>2. ASSUME NEW c \in Receivers, pc[c] = "cas", pos[c] = tail
        PROVE  seq'[Slot(tail)] = tail + 1
    <3>1. seq[Slot(tail)] = tail + 1  BY <2>2 DEF RingInv, ProbeHolds
    <3>2. Slot(tail) # Slot(w)  BY <3>1, <1>0, <1>1, SlotNeighbour
    <3> QED  BY <3>1, <3>2, <1>0, <1>3
  <2> QED  BY <2>1, <2>2, <1>0 DEF ProbeHolds, Slot
<1>9. Laps'
  <2>1. ASSUME NEW q \in tail .. head - 1 PROVE seq'[Slot(q)] \in {q, q + 1}
    <3>1. seq[Slot(q)] \in {q, q + 1} /\ q \in Nat  BY <1>0 DEF RingInv, Laps
    <3>2. CASE q = w  BY <3>2, <1>0
    <3>3. CASE q # w
      <4>1. Slot(q) # Slot(w)  BY <3>1, <3>3, <1>0, <1>1, SlotNeighbour
      <4> QED  BY <4>1, <3>1, <1>0, <1>3
    <3> QED  BY <3>2, <3>3
  <2>2. ASSUME NEW q \in 0 .. tail - 1 PROVE seq'[Slot(q)] > q
    <3>1. seq[Slot(q)] > q /\ q \in Nat  BY <1>0 DEF RingInv, Laps
    <3> QED  BY <3>1, <1>0, <1>1, <1>3
  <2>3. ASSUME NEW i \in Slots, seq'[i] > 0, Slot(seq'[i] - 1) = i PROVE seq'[i] <= head
    BY <2>3, <1>0, <1>1 DEF RingInv, Laps
  <2> QED  BY <2>1, <2>2, <2>3, <1>0 DEF Laps, Slot, Slots
<1> QED  BY <1>4, <1>5, <1>6, <1>7, <1>8, <1>9 DEF RingInv

\* A successful CAS on tail: the item there is published, so it is below head.
LEMMA ClaimForReading ==
  ASSUME Cap >= 2, TypeOK, TypeOK', RingInv, NEW c \in Receivers, PopCas(c), tail = pos[c]
  PROVE  RingInv'
<1>0. /\ head \in Nat /\ tail \in Nat /\ Cap \in Nat
      /\ c \in Threads /\ c \notin Senders
      /\ \A t \in Threads : pos[t] \in Nat
      /\ tail' = tail + 1 /\ head' = head /\ seq' = seq /\ pos' = pos
      /\ pc[c] = "cas" /\ pc'[c] = "read"
      /\ \A u \in Threads \ {c} : pc'[u] = pc[u]
      /\ Senders \subseteq Threads /\ Receivers \subseteq Threads
  BY ThreadsApart, CapType DEF TypeOK, PcOK, PopCas, Goto, Threads, life
<1>1. seq[Slot(tail)] = tail + 1  BY <1>0 DEF RingInv, ProbeHolds, PopCas
<1>2. /\ Readers' = Readers \union {c} /\ c \notin Readers
      /\ Writers' = Writers
  BY <1>0 DEF Writers, Readers
<1>3. tail < head  BY <1>0, <1>1, SlotType DEF RingInv, Laps
<1>4. Bounded'  BY <1>0, <1>3 DEF RingInv, Bounded
<1>5. PosBehind'  BY <1>0 DEF RingInv, PosBehind
<1>6. WritersOwn'
  BY <1>0, <1>1, <1>2 DEF RingInv, WritersOwn, Slot, Writers
<1>7. ReadersOwn'
  BY <1>0, <1>1, <1>2 DEF RingInv, ReadersOwn, Bounded, Slot, PopCas, Readers
<1>8. ClaimedOnce'
  <2>1. \A d \in Readers : pos[d] < tail  BY DEF RingInv, ReadersOwn
  <2> QED  BY <1>0, <1>2, <2>1 DEF RingInv, ClaimedOnce, PopCas
<1>9. ProbeHolds'  BY <1>0 DEF RingInv, ProbeHolds, PosBehind, Slot
<1>10. Laps'
  <2>1. \A q \in tail + 1 .. head - 1 : seq[Slot(q)] \in {q, q + 1}
    BY <1>0 DEF RingInv, Laps
  <2>2. ASSUME NEW q \in 0 .. tail PROVE seq[Slot(q)] > q
    <3>1. CASE q = tail  BY <3>1, <1>0, <1>1
    <3>2. CASE q # tail  BY <3>2, <1>0 DEF RingInv, Laps
    <3> QED  BY <3>1, <3>2
  <2>3. \A i \in Slots : seq[i] > 0 /\ Slot(seq[i] - 1) = i => seq[i] <= head
    BY DEF RingInv, Laps
  <2>4. (tail + 1) - 1 = tail  BY <1>0
  <2> QED  BY <1>0, <2>1, <2>2, <2>3, <2>4 DEF Laps, Slot, Slots
<1> QED  BY <1>4, <1>5, <1>6, <1>7, <1>8, <1>9, <1>10 DEF RingInv

\* The release store that hands the slot to the next lap.
LEMMA HandOver ==
  ASSUME Cap >= 2, TypeOK, TypeOK', RingInv, NEW c \in Receivers, PopRelease(c)
  PROVE  RingInv'
<1> DEFINE r == pos[c]
<1>0. /\ head \in Nat /\ tail \in Nat /\ Cap \in Nat /\ r \in Nat
      /\ c \in Readers /\ c \notin Senders
      /\ \A t \in Threads : pos[t] \in Nat
      /\ head' = head /\ tail' = tail /\ pos' = pos
      /\ pc'[c] = "idle"
      /\ \A u \in Threads \ {c} : pc'[u] = pc[u]
      /\ Senders \subseteq Threads /\ Receivers \subseteq Threads
      /\ Slot(r) \in Slots
      /\ seq \in [Slots -> Nat]
      /\ seq' = [seq EXCEPT ![Slot(r)] = r + Cap]
  BY ThreadsApart, CapType, SlotType
     DEF TypeOK, PcOK, PopRelease, Goto, Threads, Readers, life
<1>1. seq[Slot(r)] = r + 1 /\ r < tail /\ head <= r + Cap
  BY <1>0 DEF RingInv, ReadersOwn
<1>2. Readers' = Readers \ {c} /\ Writers' = Writers
  BY <1>0 DEF Writers, Readers
<1>3. \A q \in Nat : Slot(q) \in Slots  BY SlotType
<1>4. Bounded' /\ PosBehind'  BY <1>0 DEF RingInv, Bounded, PosBehind
<1>5. WritersOwn'
  <2> SUFFICES ASSUME NEW v \in Writers
               PROVE  seq'[Slot(pos[v])] = pos[v] /\ tail <= pos[v] /\ pos[v] < head
    BY <1>0, <1>2 DEF WritersOwn, Slot
  <2>1. seq[Slot(pos[v])] = pos[v] /\ tail <= pos[v] /\ pos[v] < head
    BY DEF RingInv, WritersOwn
  <2>2. pos[v] \in Nat  BY <1>0 DEF Writers
  <2>3. Slot(pos[v]) # Slot(r)  BY <2>1, <2>2, <1>0, <1>1, SlotNeighbour
  <2> QED  BY <2>1, <2>2, <2>3, <1>0, <1>3
<1>6. ReadersOwn'
  <2> SUFFICES ASSUME NEW d \in Readers, d # c
               PROVE  seq'[Slot(pos[d])] = pos[d] + 1 /\ pos[d] < tail /\ head <= pos[d] + Cap
    BY <1>0, <1>2 DEF ReadersOwn, Slot
  <2>1. /\ seq[Slot(pos[d])] = pos[d] + 1 /\ pos[d] < tail /\ head <= pos[d] + Cap
        /\ pos[d] # r /\ pos[d] \in Nat
    BY <1>0 DEF RingInv, ReadersOwn, ClaimedOnce, Readers
  <2>2. Slot(pos[d]) # Slot(r)  BY <2>1, <1>0, <1>1
  <2> QED  BY <2>1, <2>2, <1>0, <1>3
<1>7. ClaimedOnce'  BY <1>0, <1>2 DEF RingInv, ClaimedOnce
<1>8. ProbeHolds'
  <2>1. ASSUME NEW q \in Senders, pc[q] = "cas", pos[q] = head
        PROVE  seq'[Slot(head)] = head
    <3>1. seq[Slot(head)] = head  BY <2>1 DEF RingInv, ProbeHolds
    <3>2. Slot(head) # Slot(r)  BY <3>1, <1>0, <1>1, SlotNeighbour
    <3> QED  BY <3>1, <3>2, <1>0, <1>3
  <2>2. ASSUME NEW d \in Receivers, pc[d] = "cas", pos[d] = tail
        PROVE  seq'[Slot(tail)] = tail + 1
    <3>1. seq[Slot(tail)] = tail + 1  BY <2>2 DEF RingInv, ProbeHolds
    <3> QED  BY <3>1, <1>0, <1>1, <1>3
  <2> QED  BY <2>1, <2>2, <1>0 DEF ProbeHolds, Slot
<1>9. Laps'
  <2>1. ASSUME NEW q \in tail .. head - 1 PROVE seq'[Slot(q)] \in {q, q + 1}
    <3>1. seq[Slot(q)] \in {q, q + 1} /\ q \in Nat  BY <1>0 DEF RingInv, Laps
    <3>2. Slot(q) # Slot(r)  BY <3>1, <1>0, <1>1, SlotNeighbour
    <3> QED  BY <3>1, <3>2, <1>0, <1>3
  <2>2. ASSUME NEW q \in 0 .. tail - 1 PROVE seq'[Slot(q)] > q
    <3>1. seq[Slot(q)] > q /\ q \in Nat  BY <1>0 DEF RingInv, Laps
    <3> QED  BY <3>1, <1>0, <1>1, <1>3
  <2>3. ASSUME NEW i \in Slots, seq'[i] > 0, Slot(seq'[i] - 1) = i PROVE seq'[i] <= head
    <3>1. CASE i = Slot(r)
      <4>1. seq'[i] = r + Cap  BY <3>1, <1>0
      <4>2. r + Cap - 1 \in Nat /\ (r + Cap - 1) + 1 = r + Cap  BY <1>0
      <4>3. Slot(r + Cap) # Slot(r + Cap - 1)  BY <4>2, SlotNeighbour
      <4> QED  BY <2>3, <3>1, <4>1, <4>3, <1>0, SlotNextLap
    <3>2. CASE i # Slot(r)  BY <2>3, <3>2, <1>0 DEF RingInv, Laps
    <3> QED  BY <3>1, <3>2
  <2> QED  BY <2>1, <2>2, <2>3, <1>0 DEF Laps, Slot, Slots
<1> QED  BY <1>4, <1>5, <1>6, <1>7, <1>8, <1>9 DEF RingInv

-----------------------------------------------------------------------------
LEMMA RingInvInductive ==
  ASSUME Cap >= 2, TypeOK, TypeOK', RingInv, [Next]_vars
  PROVE  RingInv'
<1>0. /\ \A p \in Senders : p \in Threads /\ p \notin Receivers
      /\ \A c \in Receivers : c \in Threads /\ c \notin Senders
      /\ head \in Nat /\ tail \in Nat /\ \A t \in Threads : pos[t] \in Nat
  BY ThreadsApart DEF Threads, TypeOK
<1>1. ASSUME NEW p \in Senders, AddProducer(p) PROVE RingInv'
  <2>1. /\ head' = head /\ tail' = tail /\ seq' = seq
        /\ \A u \in Threads \ {p} : pc'[u] = pc[u] /\ pos'[u] = pos[u]
        /\ pc'[p] \notin {"cas", "write", "publish", "read", "release"}
    BY <1>1, <1>0 DEF AddProducer, Goto, TypeOK, PcOK, ring, life
  <2>2. pos'[p] <= head
    BY <1>1, <1>0 DEF AddProducer, Goto, TypeOK, PcOK, ring, life, RingInv, PosBehind
  <2>3. p \notin Writers' /\ p \notin Readers'  BY <2>1 DEF Writers, Readers
  <2> QED  BY <1>0, <2>1, <2>2, <2>3, LocalStep
<1>2. ASSUME NEW p \in Senders, CloseDecrement(p) PROVE RingInv'
  <2>1. /\ head' = head /\ tail' = tail /\ seq' = seq
        /\ \A u \in Threads \ {p} : pc'[u] = pc[u] /\ pos'[u] = pos[u]
        /\ pc'[p] \notin {"cas", "write", "publish", "read", "release"}
    BY <1>2, <1>0 DEF CloseDecrement, Goto, TypeOK, PcOK, ring, life
  <2>2. pos'[p] <= head
    BY <1>2, <1>0 DEF CloseDecrement, Goto, TypeOK, PcOK, ring, life, RingInv, PosBehind
  <2>3. p \notin Writers' /\ p \notin Readers'  BY <2>1 DEF Writers, Readers
  <2> QED  BY <1>0, <2>1, <2>2, <2>3, LocalStep
<1>3. ASSUME NEW p \in Senders, ClosePublish(p) PROVE RingInv'
  <2>1. /\ head' = head /\ tail' = tail /\ seq' = seq
        /\ \A u \in Threads \ {p} : pc'[u] = pc[u] /\ pos'[u] = pos[u]
        /\ pc'[p] \notin {"cas", "write", "publish", "read", "release"}
    BY <1>3, <1>0 DEF ClosePublish, Goto, TypeOK, PcOK, ring, life
  <2>2. pos'[p] <= head
    BY <1>3, <1>0 DEF ClosePublish, Goto, TypeOK, PcOK, ring, life, RingInv, PosBehind
  <2>3. p \notin Writers' /\ p \notin Readers'  BY <2>1 DEF Writers, Readers
  <2> QED  BY <1>0, <2>1, <2>2, <2>3, LocalStep
<1>4. ASSUME NEW p \in Senders, NEW m \in Calls[p], PushStart(p, m) PROVE RingInv'
  <2>1. /\ head' = head /\ tail' = tail /\ seq' = seq
        /\ \A u \in Threads \ {p} : pc'[u] = pc[u] /\ pos'[u] = pos[u]
        /\ pc'[p] \notin {"cas", "write", "publish", "read", "release"}
    BY <1>4, <1>0 DEF PushStart, Goto, TypeOK, PcOK, ring, life
  <2>2. pos'[p] <= head
    BY <1>4, <1>0 DEF PushStart, Goto, TypeOK, PcOK, ring, life, RingInv, PosBehind
  <2>3. p \notin Writers' /\ p \notin Readers'  BY <2>1 DEF Writers, Readers
  <2> QED  BY <1>0, <2>1, <2>2, <2>3, LocalStep
<1>5. ASSUME NEW p \in Senders, PushReload(p) PROVE RingInv'
  <2>1. /\ head' = head /\ tail' = tail /\ seq' = seq
        /\ \A u \in Threads \ {p} : pc'[u] = pc[u] /\ pos'[u] = pos[u]
        /\ pc'[p] \notin {"cas", "write", "publish", "read", "release"}
    BY <1>5, <1>0 DEF PushReload, Goto, TypeOK, PcOK, ring, life
  <2>2. pos'[p] <= head
    BY <1>5, <1>0 DEF PushReload, Goto, TypeOK, PcOK, ring, life, RingInv, PosBehind
  <2>3. p \notin Writers' /\ p \notin Readers'  BY <2>1 DEF Writers, Readers
  <2> QED  BY <1>0, <2>1, <2>2, <2>3, LocalStep
<1>6. ASSUME NEW p \in Senders, PushProbe(p) PROVE RingInv'
  <2>1. /\ head' = head /\ tail' = tail /\ seq' = seq /\ pos' = pos
        /\ \A u \in Threads \ {p} : pc'[u] = pc[u]
        /\ pc'[p] \notin {"write", "publish", "read", "release"}
    BY <1>6 DEF PushProbe, Goto, TypeOK, PcOK, ring, life
  <2>2. pc'[p] = "cas" => seq[Slot(pos[p])] = pos[p]
    <3>1. seq[Slot(pos[p])] \in Nat  BY <1>0, SlotType DEF TypeOK
    <3> QED  BY <1>6, <1>0, <3>1 DEF PushProbe, Goto, TypeOK, PcOK
  <2>3. p \notin Writers' /\ p \notin Readers'  BY <2>1 DEF Writers, Readers
  <2> QED
    BY <1>0, <2>1, <2>2, <2>3, LocalStep DEF RingInv, PosBehind, Threads
<1>7. ASSUME NEW p \in Senders, PushCas(p) PROVE RingInv'
  <2>1. CASE head = pos[p]  BY <1>7, <2>1, ClaimForWriting
  <2>2. CASE head # pos[p]
    <3>1. /\ head' = head /\ tail' = tail /\ seq' = seq /\ pos' = pos
          /\ \A u \in Threads \ {p} : pc'[u] = pc[u]
          /\ pc'[p] = "reload"
      BY <1>7, <2>2, <1>0 DEF PushCas, Goto, TypeOK, PcOK, life
    <3>2. p \notin Writers' /\ p \notin Readers'  BY <3>1 DEF Writers, Readers
    <3> QED
      BY <1>0, <3>1, <3>2, LocalStep DEF RingInv, PosBehind, Threads
  <2> QED  BY <2>1, <2>2
<1>8. ASSUME NEW p \in Senders, PushWrite(p) PROVE RingInv'
  <2>1. /\ head' = head /\ tail' = tail /\ seq' = seq /\ pos' = pos
        /\ \A u \in Threads \ {p} : pc'[u] = pc[u]
        /\ pc'[p] # "cas"
    BY <1>8, <1>0 DEF PushWrite, Goto, TypeOK, PcOK, ring, life
  <2>2. pos[p] <= head  BY DEF RingInv, PosBehind
  <2>3. p \in Writers /\ p \notin Readers'
    BY <1>8, <1>0 DEF PushWrite, Writers, Readers
  <2> QED  BY <1>0, <2>1, <2>2, <2>3, LocalStep
<1>9. ASSUME NEW p \in Senders, PushPublish(p) PROVE RingInv'
  BY <1>9, Publication
<1>10. ASSUME NEW c \in Receivers, NEW m \in Calls[c], PopStart(c, m) PROVE RingInv'
  <2>1. /\ head' = head /\ tail' = tail /\ seq' = seq
        /\ \A u \in Threads \ {c} : pc'[u] = pc[u] /\ pos'[u] = pos[u]
        /\ pc'[c] \notin {"cas", "write", "publish", "read", "release"}
    BY <1>10, <1>0 DEF PopStart, Goto, TypeOK, PcOK, ring, life
  <2>2. pos'[c] <= tail
    BY <1>10, <1>0 DEF PopStart, Goto, TypeOK, PcOK, ring, life, RingInv, PosBehind
  <2>3. c \notin Writers' /\ c \notin Readers'  BY <2>1 DEF Writers, Readers
  <2> QED  BY <1>0, <2>1, <2>2, <2>3, LocalStep
<1>11. ASSUME NEW c \in Receivers, PopReload(c) PROVE RingInv'
  <2>1. /\ head' = head /\ tail' = tail /\ seq' = seq
        /\ \A u \in Threads \ {c} : pc'[u] = pc[u] /\ pos'[u] = pos[u]
        /\ pc'[c] \notin {"cas", "write", "publish", "read", "release"}
    BY <1>11, <1>0 DEF PopReload, Goto, TypeOK, PcOK, ring, life
  <2>2. pos'[c] <= tail
    BY <1>11, <1>0 DEF PopReload, Goto, TypeOK, PcOK, ring, life, RingInv, PosBehind
  <2>3. c \notin Writers' /\ c \notin Readers'  BY <2>1 DEF Writers, Readers
  <2> QED  BY <1>0, <2>1, <2>2, <2>3, LocalStep
<1>12. ASSUME NEW c \in Receivers, PopProbe(c) PROVE RingInv'
  <2>1. /\ head' = head /\ tail' = tail /\ seq' = seq /\ pos' = pos
        /\ \A u \in Threads \ {c} : pc'[u] = pc[u]
        /\ pc'[c] \notin {"write", "publish", "read", "release"}
    BY <1>12 DEF PopProbe, Goto, TypeOK, PcOK, ring, life
  <2>2. pc'[c] = "cas" => seq[Slot(pos[c])] = pos[c] + 1
    <3>1. seq[Slot(pos[c])] \in Nat  BY <1>0, SlotType DEF TypeOK
    <3> QED  BY <1>12, <1>0, <3>1 DEF PopProbe, Goto, TypeOK, PcOK
  <2>3. c \notin Writers' /\ c \notin Readers'  BY <2>1 DEF Writers, Readers
  <2> QED
    BY <1>0, <2>1, <2>2, <2>3, LocalStep DEF RingInv, PosBehind, Threads
<1>13. ASSUME NEW c \in Receivers, PopCheckClosed(c) PROVE RingInv'
  <2>1. /\ head' = head /\ tail' = tail /\ seq' = seq
        /\ \A u \in Threads \ {c} : pc'[u] = pc[u] /\ pos'[u] = pos[u]
        /\ pc'[c] \notin {"cas", "write", "publish", "read", "release"}
    BY <1>13, <1>0 DEF PopCheckClosed, Goto, TypeOK, PcOK, ring, life
  <2>2. pos'[c] <= tail
    BY <1>13, <1>0 DEF PopCheckClosed, Goto, TypeOK, PcOK, ring, life, RingInv, PosBehind
  <2>3. c \notin Writers' /\ c \notin Readers'  BY <2>1 DEF Writers, Readers
  <2> QED  BY <1>0, <2>1, <2>2, <2>3, LocalStep
<1>14. ASSUME NEW c \in Receivers, PopRecheck(c) PROVE RingInv'
  <2>1. /\ head' = head /\ tail' = tail /\ seq' = seq
        /\ \A u \in Threads \ {c} : pc'[u] = pc[u] /\ pos'[u] = pos[u]
        /\ pc'[c] \notin {"cas", "write", "publish", "read", "release"}
    BY <1>14, <1>0 DEF PopRecheck, Goto, TypeOK, PcOK, ring, life
  <2>2. pos'[c] <= tail
    BY <1>14, <1>0 DEF PopRecheck, Goto, TypeOK, PcOK, ring, life, RingInv, PosBehind
  <2>3. c \notin Writers' /\ c \notin Readers'  BY <2>1 DEF Writers, Readers
  <2> QED  BY <1>0, <2>1, <2>2, <2>3, LocalStep
<1>15. ASSUME NEW c \in Receivers, PopCas(c) PROVE RingInv'
  <2>1. CASE tail = pos[c]  BY <1>15, <2>1, ClaimForReading
  <2>2. CASE tail # pos[c]
    <3>1. /\ head' = head /\ tail' = tail /\ seq' = seq /\ pos' = pos
          /\ \A u \in Threads \ {c} : pc'[u] = pc[u]
          /\ pc'[c] = "reload"
      BY <1>15, <2>2, <1>0 DEF PopCas, Goto, TypeOK, PcOK, life
    <3>2. c \notin Writers' /\ c \notin Readers'  BY <3>1 DEF Writers, Readers
    <3> QED
      BY <1>0, <3>1, <3>2, LocalStep DEF RingInv, PosBehind, Threads
  <2> QED  BY <2>1, <2>2
<1>16. ASSUME NEW c \in Receivers, PopRead(c) PROVE RingInv'
  <2>1. /\ head' = head /\ tail' = tail /\ seq' = seq /\ pos' = pos
        /\ \A u \in Threads \ {c} : pc'[u] = pc[u]
        /\ pc'[c] # "cas"
    BY <1>16, <1>0 DEF PopRead, Goto, TypeOK, PcOK, ring, life
  <2>2. pos[c] <= tail  BY DEF RingInv, PosBehind
  <2>3. c \in Readers /\ c \notin Writers'
    BY <1>16, <1>0 DEF PopRead, Writers, Readers
  <2> QED  BY <1>0, <2>1, <2>2, <2>3, LocalStep
<1>17. ASSUME NEW c \in Receivers, PopRelease(c) PROVE RingInv'
  BY <1>17, HandOver
<1>18. CASE UNCHANGED vars
  BY <1>18 DEF vars, RingInv, Bounded, PosBehind, WritersOwn, ReadersOwn, ClaimedOnce,
                ProbeHolds, Laps, Writers, Readers, Slot
<1> QED
  BY <1>1, <1>2, <1>3, <1>4, <1>5, <1>6, <1>7, <1>8, <1>9, <1>10, <1>11, <1>12,
     <1>13, <1>14, <1>15, <1>16, <1>17, <1>18 DEF Next, SenderStep, ReceiverStep

LEMMA RingInvInitially ==
  ASSUME Cap >= 2, Init
  PROVE  RingInv
<1>1. \A i \in Slots : i \in Nat /\ Slot(i) = i
  BY CapType, FirstLap DEF Slots, Slot
<1>2. Writers = {} /\ Readers = {}
  BY ThreadsApart DEF Init, Writers, Readers, Threads
<1>3. Laps
  <2> SUFFICES ASSUME NEW i \in Slots, seq[i] > 0, Slot(seq[i] - 1) = i PROVE FALSE
    BY DEF Init, Laps
  <2>1. seq[i] = i  BY DEF Init
  <2>2. i - 1 \in Slots  BY <2>1, CapType DEF Slots
  <2> QED  BY <1>1, <2>1, <2>2
<1> QED
  BY <1>2, <1>3, CapType
     DEF Init, RingInv, Bounded, PosBehind, WritersOwn, ReadersOwn, ClaimedOnce, ProbeHolds,
         Threads

(***************************************************************************)
(* The inductive invariant of the ring: claims, sequence numbers and the   *)
(* two cursors agree after every step of send, receive and their variants. *)
(***************************************************************************)
THEOREM RingCorrect ==
  ASSUME Cap >= 2
  PROVE  Spec => []RingInv
<1>1. Init => RingInv  BY RingInvInitially
<1>2. TypeOK /\ TypeOK' /\ RingInv /\ [Next]_vars => RingInv'
  BY RingInvInductive
<1> QED  BY <1>1, <1>2, TypeCorrect, PTL DEF Spec

\* Slots that are being written or read are apart.
LEMMA SlotsApart ==
  ASSUME Cap >= 2, TypeOK, RingInv, NEW t \in Writers \union Readers,
         NEW u \in Writers \union Readers, t # u
  PROVE  Slot(pos[t]) # Slot(pos[u])
<1>1. pos[t] \in Nat /\ pos[u] \in Nat  BY DEF TypeOK, Writers, Readers, Threads
<1>2. \A p \in Writers : seq[Slot(pos[p])] = pos[p]  BY DEF RingInv, WritersOwn
<1>3. \A c \in Readers : seq[Slot(pos[c])] = pos[c] + 1  BY DEF RingInv, ReadersOwn
<1>4. CASE t \in Writers /\ u \in Writers  BY <1>2, <1>4 DEF RingInv, ClaimedOnce
<1>5. CASE t \in Readers /\ u \in Readers  BY <1>1, <1>3, <1>5 DEF RingInv, ClaimedOnce
<1>6. CASE t \in Writers /\ u \in Readers  BY <1>1, <1>2, <1>3, <1>6, SlotNeighbour
<1>7. CASE t \in Readers /\ u \in Writers  BY <1>1, <1>2, <1>3, <1>7, SlotNeighbour
<1> QED  BY <1>4, <1>5, <1>6, <1>7

(***************************************************************************)
(* The plain reads and writes of _buf never race: no two threads are ever  *)
(* between their CAS and their release store on one slot.                  *)
(***************************************************************************)
THEOREM SlotsNeverShared ==
  ASSUME Cap >= 2
  PROVE  Spec => []SlotExclusive
<1>1. TypeOK /\ RingInv => SlotExclusive  BY SlotsApart DEF SlotExclusive
<1> QED  BY <1>1, TypeCorrect, RingCorrect, PTL

(***************************************************************************)
(* The ring never holds more than Cap positions and receivers never pass   *)
(* the senders.                                                            *)
(***************************************************************************)
THEOREM RingBounded ==
  ASSUME Cap >= 2
  PROVE  Spec => []Bounded
<1>1. RingInv => Bounded  BY DEF RingInv
<1> QED  BY <1>1, RingCorrect, PTL

\* A thread leaves its probe for "idle" only by the probe's own step.
LEMMA OnlyProbeRefuses ==
  ASSUME TypeOK, Next
  PROVE  /\ \A p \in Senders : pc[p] = "probe" /\ pc'[p] = "idle" => PushProbe(p)
         /\ \A c \in Receivers : pc[c] = "probe" /\ pc'[c] = "idle" => PopProbe(c)
<1> USE DEF Goto, TypeOK, PcOK, Threads
<1>1. ASSUME NEW p \in Senders, SenderStep(p)
      PROVE  /\ \A t \in Threads \ {p} : pc'[t] = pc[t]
             /\ pc[p] = "probe" => PushProbe(p)
  BY <1>1 DEF SenderStep, AddProducer, CloseDecrement, ClosePublish, PushStart, PushReload,
              PushProbe, PushCas, PushWrite, PushPublish
<1>2. ASSUME NEW c \in Receivers, ReceiverStep(c)
      PROVE  /\ \A t \in Threads \ {c} : pc'[t] = pc[t]
             /\ pc[c] = "probe" => PopProbe(c)
  BY <1>2 DEF ReceiverStep, PopStart, PopReload, PopProbe, PopCheckClosed, PopRecheck, PopCas,
              PopRead, PopRelease
<1>3. CASE \E p \in Senders : SenderStep(p)
  BY <1>1, <1>3, ThreadsApart
<1>4. CASE \E c \in Receivers : ReceiverStep(c)
  BY <1>2, <1>4, ThreadsApart
<1> QED  BY <1>3, <1>4 DEF Next

(***************************************************************************)
(* try_push answers "full" and try_pop answers "empty" only when that is   *)
(* so at the step of the answer, whatever happened since they loaded the   *)
(* cursor.                                                                 *)
(***************************************************************************)
THEOREM RefusalsAreHonest ==
  ASSUME Cap >= 2
  PROVE  Spec => RefusalIsHonest
<1> DEFINE Honest ==
      /\ \A p \in Senders :
           pc[p] = "probe" /\ pc'[p] = "idle" => seq[Slot(head)] < head
      /\ \A c \in Receivers :
           pc[c] = "probe" /\ pc'[c] = "idle" => seq[Slot(tail)] <= tail
<1>1. TypeOK /\ RingInv /\ [Next]_vars => [Honest]_vars
  <2> SUFFICES ASSUME TypeOK, RingInv, Next PROVE Honest  OBVIOUS
  <2>0. /\ head \in Nat /\ tail \in Nat /\ \A t \in Threads : pos[t] \in Nat
        /\ Senders \subseteq Threads /\ Receivers \subseteq Threads
        /\ \A q \in Nat : seq[Slot(q)] \in Nat
    BY SlotType DEF TypeOK, Threads
  <2>1. ASSUME NEW p \in Senders, pc[p] = "probe", pc'[p] = "idle"
        PROVE  seq[Slot(head)] < head
    <3>1. PushProbe(p)  BY <2>1, OnlyProbeRefuses
    <3>2. seq[Slot(pos[p])] < pos[p]
      BY <2>0, <2>1, <3>1 DEF PushProbe, Goto, TypeOK, PcOK
    <3>3. pos[p] <= head  BY DEF RingInv, PosBehind
    <3>4. pos[p] \notin tail .. head - 1  BY <2>0, <3>2 DEF RingInv, Laps
    <3>5. pos[p] \notin 0 .. tail - 1  BY <2>0, <3>2 DEF RingInv, Laps
    <3>6. pos[p] = head  BY <2>0, <3>3, <3>4, <3>5
    <3> QED  BY <3>2, <3>6
  <2>2. ASSUME NEW c \in Receivers, pc[c] = "probe", pc'[c] = "idle"
        PROVE  seq[Slot(tail)] <= tail
    <3>1. PopProbe(c)  BY <2>2, OnlyProbeRefuses
    <3>2. seq[Slot(pos[c])] <= pos[c]
      BY <2>0, <2>2, <3>1 DEF PopProbe, Goto, TypeOK, PcOK
    <3>3. pos[c] <= tail  BY DEF RingInv, PosBehind
    <3>4. pos[c] \notin 0 .. tail - 1  BY <2>0, <3>2 DEF RingInv, Laps
    <3>5. pos[c] = tail  BY <2>0, <3>3, <3>4
    <3> QED  BY <3>2, <3>5
  <2> QED  BY <2>1, <2>2
<1> QED  BY <1>1, TypeCorrect, RingCorrect, PTL DEF Spec, RefusalIsHonest

-----------------------------------------------------------------------------
(***************************************************************************)
(* What the stream of items needs beyond the ring: who may still send, and *)
(* what closing and the end of the stream imply.                           *)
(***************************************************************************)
\* The senders that have registered and not yet closed.
Active == {p \in Senders : pc[p] \notin {"unborn", "closing", "done"}}

AllClosed == \A p \in Senders : pc[p] \in {"closing", "done"}

\* An outstanding position that is not published has a writer.
Claimed ==
  \A q \in tail .. head - 1 : seq[Slot(q)] = q => \E p \in Writers : pos[p] = q

\* What a sender is about to publish is its own next item.
Written == \A p \in Senders : pc[p] = "publish" => buf[Slot(pos[p])] = Item(p)

\* _producers counts the senders that have not closed, and _closed is set only
\* once there are none.
Counted == producers = Cardinality(Active)
ClosedLast == closed = 1 \/ (\E p \in Senders : pc[p] = "closing") => AllClosed

\* A receiver that looks again, or that was told the end, saw _closed.
EndSeen ==
  \A c \in Receivers :
    /\ pc[c] \in {"recheck", "end"} => closed = 1
    /\ pc[c] = "end" => tail = head

StreamInv == Claimed /\ Written /\ Counted /\ ClosedLast /\ EndSeen

\* What a step of a call does that neither claims, writes, publishes, copies out
\* nor hands over: it moves one thread within its call.
Inner == {"idle", "reload", "probe", "cas", "closed?", "recheck"}

LocalMove(t) ==
  /\ UNCHANGED <<ring, life, sent, got>>
  /\ \A u \in Threads \ {t} : pc'[u] = pc[u] /\ pos'[u] = pos[u]
  /\ pc[t] \in Inner
  /\ pc'[t] \in Inner
  /\ pc'[t] = "recheck" => t \in Receivers /\ closed = 1

LEMMA StepKinds ==
  ASSUME TypeOK, Next
  PROVE  \/ \E p \in Senders :
              \/ AddProducer(p)
              \/ CloseDecrement(p)
              \/ ClosePublish(p)
              \/ PushCas(p) /\ head = pos[p]
              \/ PushWrite(p)
              \/ PushPublish(p)
         \/ \E c \in Receivers :
              \/ PopCas(c) /\ tail = pos[c]
              \/ PopRead(c)
              \/ PopRelease(c)
              \/ PopRecheck(c)
         \/ \E t \in Threads : LocalMove(t)
<1> USE DEF Goto, TypeOK, PcOK, LocalMove, Inner
<1>0. /\ \A p \in Senders : p \in Threads /\ p \notin Receivers
      /\ \A c \in Receivers : c \in Threads /\ c \notin Senders
  BY ThreadsApart DEF Threads
<1>1. ASSUME NEW p \in Senders, NEW m \in Calls[p], PushStart(p, m) PROVE LocalMove(p)
  BY <1>0, <1>1 DEF PushStart, ring, life
<1>2. ASSUME NEW p \in Senders, PushReload(p) PROVE LocalMove(p)
  BY <1>0, <1>2 DEF PushReload, ring, life
<1>3. ASSUME NEW p \in Senders, PushProbe(p) PROVE LocalMove(p)
  BY <1>0, <1>3 DEF PushProbe, ring, life
<1>4. ASSUME NEW p \in Senders, PushCas(p), head # pos[p] PROVE LocalMove(p)
  BY <1>0, <1>4 DEF PushCas, ring, life
<1>5. ASSUME NEW c \in Receivers, NEW m \in Calls[c], PopStart(c, m) PROVE LocalMove(c)
  BY <1>0, <1>5 DEF PopStart, ring, life
<1>6. ASSUME NEW c \in Receivers, PopReload(c) PROVE LocalMove(c)
  BY <1>0, <1>6 DEF PopReload, ring, life
<1>7. ASSUME NEW c \in Receivers, PopProbe(c) PROVE LocalMove(c)
  BY <1>0, <1>7 DEF PopProbe, ring, life
<1>8. ASSUME NEW c \in Receivers, PopCheckClosed(c) PROVE LocalMove(c)
  BY <1>0, <1>8 DEF PopCheckClosed, ring, life
<1>9. ASSUME NEW c \in Receivers, PopCas(c), tail # pos[c] PROVE LocalMove(c)
  BY <1>0, <1>9 DEF PopCas, ring, life
<1> QED
  BY <1>0, <1>1, <1>2, <1>3, <1>4, <1>5, <1>6, <1>7, <1>8, <1>9
     DEF Next, SenderStep, ReceiverStep

-----------------------------------------------------------------------------
LEMMA ActiveFinite == IsFiniteSet(Active)
BY ChannelAssumption, FS_Subset DEF Active

\* A step that neither registers nor closes a sender leaves the count right.
LEMMA CloseFrame ==
  ASSUME Counted, ClosedLast, producers' = producers, closed' = closed,
         \A p \in Senders : \/ pc'[p] = pc[p]
                            \/ {pc[p], pc'[p]} \intersect {"unborn", "closing", "done"} = {}
  PROVE  Counted' /\ ClosedLast'
<1>1. Active' = Active  BY DEF Active
<1>2. Counted'  BY <1>1 DEF Counted
<1>3. ClosedLast'  BY DEF ClosedLast, AllClosed
<1> QED  BY <1>2, <1>3

LEMMA ClosingInductive ==
  ASSUME TypeOK, TypeOK', Counted, ClosedLast, Next
  PROVE  Counted' /\ ClosedLast'
<1>0. /\ \A p \in Senders : p \in Threads /\ p \notin Receivers
      /\ \A c \in Receivers : c \in Threads /\ c \notin Senders
      /\ closed \in {0, 1} /\ producers \in Int
      /\ DOMAIN pc = Threads
  BY ThreadsApart DEF Threads, TypeOK, PcOK
<1>1. ASSUME NEW p \in Senders, AddProducer(p) PROVE Counted' /\ ClosedLast'
  <2>1. /\ pc[p] = "unborn" /\ pc'[p] = "idle"
        /\ \A u \in Threads \ {p} : pc'[u] = pc[u]
        /\ producers' = producers + 1 /\ closed' = closed
    BY <1>0, <1>1 DEF AddProducer, Goto
  <2>2. Active' = Active \union {p} /\ p \notin Active  BY <1>0, <2>1 DEF Active
  <2>3. Cardinality(Active') = Cardinality(Active) + 1
    BY <2>2, ActiveFinite, FS_AddElement
  <2>4. ~AllClosed  BY <2>1 DEF AllClosed
  <2>5. closed # 1 /\ \A q \in Senders : pc[q] # "closing"  BY <2>4 DEF ClosedLast
  <2>6. ClosedLast'  BY <1>0, <2>1, <2>5 DEF ClosedLast
  <2> QED  BY <2>1, <2>3, <2>6 DEF Counted
<1>2. ASSUME NEW p \in Senders, CloseDecrement(p) PROVE Counted' /\ ClosedLast'
  <2>1. /\ pc[p] = "idle" /\ pc'[p] = (IF producers' <= 0 THEN "closing" ELSE "done")
        /\ \A u \in Threads \ {p} : pc'[u] = pc[u]
        /\ producers' = producers - 1 /\ closed' = closed
        /\ AllRegistered
    BY <1>0, <1>2 DEF CloseDecrement, Goto
  <2>2. Active' = Active \ {p} /\ p \in Active  BY <1>0, <2>1 DEF Active
  <2>3. Cardinality(Active') = Cardinality(Active) - 1
    BY <2>2, ActiveFinite, FS_RemoveElement
  <2>4. Counted'  BY <2>1, <2>3 DEF Counted
  <2>5. ~AllClosed  BY <2>1 DEF AllClosed
  <2>6. closed # 1 /\ \A q \in Senders : pc[q] # "closing"  BY <2>5 DEF ClosedLast
  <2>7. CASE producers' <= 0
    <3>1. IsFiniteSet(Active')  BY <2>2, ActiveFinite, FS_RemoveElement
    <3>2. Cardinality(Active') = 0
      BY <2>4, <2>7, <3>1, FS_CardinalityType DEF Counted
    <3>3. Active' = {}  BY <3>1, <3>2, FS_EmptySet
    <3>4. \A q \in Senders : pc'[q] # "unborn"
      BY <1>0, <2>1, <2>7 DEF AllRegistered
    <3>5. AllClosed'  BY <3>3, <3>4 DEF Active, AllClosed
    <3> QED  BY <2>4, <3>5 DEF ClosedLast
  <2>8. CASE ~(producers' <= 0)
    BY <1>0, <2>1, <2>4, <2>6, <2>8 DEF ClosedLast
  <2> QED  BY <2>7, <2>8
<1>3. ASSUME NEW p \in Senders, ClosePublish(p) PROVE Counted' /\ ClosedLast'
  <2>1. /\ pc[p] = "closing" /\ pc'[p] = "done"
        /\ \A u \in Threads \ {p} : pc'[u] = pc[u]
        /\ producers' = producers
    BY <1>0, <1>3 DEF ClosePublish, Goto
  <2>2. Active' = Active  BY <1>0, <2>1 DEF Active
  <2>3. AllClosed  BY <2>1 DEF ClosedLast
  <2>4. AllClosed'  BY <1>0, <2>1, <2>3 DEF AllClosed
  <2> QED  BY <2>1, <2>2, <2>4 DEF Counted, ClosedLast
<1>4. ASSUME NEW p \in Senders, (PushCas(p) /\ head = pos[p]) \/ PushWrite(p) \/ PushPublish(p)
      PROVE  Counted' /\ ClosedLast'
  <2>1. /\ producers' = producers /\ closed' = closed
        /\ {pc[p], pc'[p]} \intersect {"unborn", "closing", "done"} = {}
        /\ \A u \in Threads \ {p} : pc'[u] = pc[u]
    BY <1>0, <1>4 DEF PushCas, PushWrite, PushPublish, Goto, life
  <2> QED  BY <1>0, <2>1, CloseFrame
<1>5. ASSUME NEW c \in Receivers,
             (PopCas(c) /\ tail = pos[c]) \/ PopRead(c) \/ PopRelease(c) \/ PopRecheck(c)
      PROVE  Counted' /\ ClosedLast'
  <2>1. /\ producers' = producers /\ closed' = closed
        /\ \A u \in Threads \ {c} : pc'[u] = pc[u]
    BY <1>0, <1>5 DEF PopCas, PopRead, PopRelease, PopRecheck, Goto, life
  <2> QED  BY <1>0, <2>1, CloseFrame
<1>6. ASSUME NEW t \in Threads, LocalMove(t) PROVE Counted' /\ ClosedLast'
  <2>1. /\ producers' = producers /\ closed' = closed
        /\ \A p \in Senders : \/ pc'[p] = pc[p]
                              \/ {pc[p], pc'[p]} \intersect {"unborn", "closing", "done"} = {}
    BY <1>0, <1>6 DEF LocalMove, Inner, life
  <2> QED  BY <2>1, CloseFrame
<1> QED  BY <1>1, <1>2, <1>3, <1>4, <1>5, <1>6, StepKinds

-----------------------------------------------------------------------------
\* The outstanding positions and the slots they have.
LEMMA Outstanding ==
  ASSUME TypeOK, RingInv, NEW q \in tail .. head - 1
  PROVE  q \in Nat /\ Slot(q) \in Slots /\ seq[Slot(q)] \in {q, q + 1}
<1>1. q \in Nat  BY DEF TypeOK
<1> QED  BY <1>1, SlotType DEF RingInv, Laps

LEMMA ClaimedFrame ==
  ASSUME Claimed, head' = head, tail' = tail, seq' = seq,
         \A p \in Writers : p \in Writers' /\ pos'[p] = pos[p]
  PROVE  Claimed'
BY DEF Claimed, Slot

LEMMA ClaimedInductive ==
  ASSUME Cap >= 2, TypeOK, TypeOK', RingInv, Claimed, Next
  PROVE  Claimed'
<1>0. /\ \A p \in Senders : p \in Threads /\ p \notin Receivers
      /\ \A c \in Receivers : c \in Threads /\ c \notin Senders
      /\ DOMAIN pc = Threads /\ DOMAIN pos = Threads
      /\ head \in Nat /\ tail \in Nat /\ seq \in [Slots -> Nat]
      /\ \A t \in Threads : pos[t] \in Nat
      /\ \A q \in Nat : Slot(q) \in Slots
      /\ Cap \in Nat
  BY ThreadsApart, SlotType, CapType DEF Threads, TypeOK, PcOK
<1>1. ASSUME NEW p \in Senders,
             AddProducer(p) \/ CloseDecrement(p) \/ ClosePublish(p) \/ PushWrite(p)
      PROVE  Claimed'
  <2>1. /\ head' = head /\ tail' = tail /\ seq' = seq /\ pos' = pos
        /\ \A u \in Threads \ {p} : pc'[u] = pc[u]
        /\ p \in Writers => pc'[p] = "publish"
    BY <1>0, <1>1 DEF AddProducer, CloseDecrement, ClosePublish, PushWrite, Goto, ring, Writers
  <2>2. \A q \in Writers : q \in Writers'  BY <1>0, <2>1 DEF Writers
  <2> QED  BY <2>1, <2>2, ClaimedFrame
<1>2. ASSUME NEW p \in Senders, PushCas(p), head = pos[p] PROVE Claimed'
  <2>1. /\ head' = head + 1 /\ tail' = tail /\ seq' = seq /\ pos' = pos
        /\ \A u \in Threads \ {p} : pc'[u] = pc[u]
        /\ pc'[p] = "write"
    BY <1>0, <1>2 DEF PushCas, Goto
  <2>2. p \in Writers' /\ \A q \in Writers : q \in Writers'
    BY <1>0, <2>1 DEF Writers
  <2> SUFFICES ASSUME NEW q \in tail .. head, seq[Slot(q)] = q
               PROVE  \E w \in Writers' : pos[w] = q
    BY <1>0, <2>1 DEF Claimed, Slot
  <2>3. CASE q = head  BY <1>2, <2>2, <2>3
  <2>4. CASE q # head
    <3>1. q \in tail .. head - 1  BY <1>0, <2>4
    <3> QED  BY <3>1, <2>2 DEF Claimed
  <2> QED  BY <2>3, <2>4
<1>3. ASSUME NEW p \in Senders, PushPublish(p) PROVE Claimed'
  <2>1. /\ head' = head /\ tail' = tail /\ pos' = pos
        /\ seq' = [seq EXCEPT ![Slot(pos[p])] = pos[p] + 1]
        /\ \A u \in Threads \ {p} : pc'[u] = pc[u]
        /\ p \in Writers
    BY <1>0, <1>3 DEF PushPublish, Goto, Writers
  <2>2. \A q \in Writers \ {p} : q \in Writers'  BY <1>0, <2>1 DEF Writers
  <2> SUFFICES ASSUME NEW q \in tail .. head - 1, seq'[Slot(q)] = q
               PROVE  \E w \in Writers' : pos[w] = q
    BY <1>0, <2>1 DEF Claimed, Slot
  <2>3. q \in Nat /\ Slot(q) \in Slots  BY <1>0
  <2>4. Slot(q) # Slot(pos[p])
    <3> SUFFICES ASSUME Slot(q) = Slot(pos[p]) PROVE FALSE  OBVIOUS
    <3>1. q = pos[p] + 1  BY <1>0, <2>1, <2>3
    <3> QED  BY <1>0, <3>1, SlotNeighbour
  <2>5. seq[Slot(q)] = q  BY <1>0, <2>1, <2>3, <2>4
  <2>6. PICK w \in Writers : pos[w] = q  BY <2>5 DEF Claimed
  <2> QED  BY <2>2, <2>4, <2>6
<1>4. ASSUME NEW c \in Receivers, PopCas(c), tail = pos[c] PROVE Claimed'
  <2>1. /\ head' = head /\ tail' = tail + 1 /\ seq' = seq /\ pos' = pos
        /\ \A u \in Threads \ {c} : pc'[u] = pc[u]
    BY <1>0, <1>4 DEF PopCas, Goto
  <2>2. Writers' = Writers  BY <1>0, <2>1 DEF Writers
  <2> SUFFICES ASSUME NEW q \in tail + 1 .. head - 1, seq[Slot(q)] = q
               PROVE  \E w \in Writers : pos[w] = q
    BY <1>0, <2>1, <2>2 DEF Claimed, Slot
  <2>3. q \in tail .. head - 1  BY <1>0
  <2> QED  BY <2>3 DEF Claimed
<1>5. ASSUME NEW c \in Receivers, PopRelease(c) PROVE Claimed'
  <2>1. /\ head' = head /\ tail' = tail /\ pos' = pos
        /\ seq' = [seq EXCEPT ![Slot(pos[c])] = pos[c] + Cap]
        /\ \A u \in Threads \ {c} : pc'[u] = pc[u]
        /\ c \in Readers
    BY <1>0, <1>5 DEF PopRelease, Goto, Readers
  <2>2. Writers' = Writers  BY <1>0, <2>1 DEF Writers
  <2>3. head <= pos[c] + Cap  BY <2>1 DEF RingInv, ReadersOwn
  <2> SUFFICES ASSUME NEW q \in tail .. head - 1, seq'[Slot(q)] = q
               PROVE  \E w \in Writers : pos[w] = q
    BY <1>0, <2>1, <2>2 DEF Claimed, Slot
  <2>4. q \in Nat /\ Slot(q) \in Slots  BY <1>0
  <2>5. Slot(q) # Slot(pos[c])  BY <1>0, <2>1, <2>3, <2>4
  <2>6. seq[Slot(q)] = q  BY <1>0, <2>1, <2>4, <2>5
  <2> QED  BY <2>6 DEF Claimed
<1>6. ASSUME NEW c \in Receivers, PopRead(c) \/ PopRecheck(c) PROVE Claimed'
  <2>1. /\ head' = head /\ tail' = tail /\ seq' = seq /\ pos' = pos
        /\ \A u \in Threads \ {c} : pc'[u] = pc[u]
    BY <1>0, <1>6 DEF PopRead, PopRecheck, Goto, ring
  <2>2. Writers' = Writers  BY <1>0, <2>1 DEF Writers
  <2> QED  BY <2>1, <2>2, ClaimedFrame
<1>7. ASSUME NEW t \in Threads, LocalMove(t) PROVE Claimed'
  <2>1. /\ head' = head /\ tail' = tail /\ seq' = seq
        /\ \A q \in Writers : q \in Writers' /\ pos'[q] = pos[q]
    BY <1>0, <1>7 DEF LocalMove, Inner, ring, Writers
  <2> QED  BY <2>1, ClaimedFrame
<1> QED  BY <1>1, <1>2, <1>3, <1>4, <1>5, <1>6, <1>7, StepKinds

LEMMA WrittenInductive ==
  ASSUME Cap >= 2, TypeOK, TypeOK', RingInv, Written, Next
  PROVE  Written'
<1>0. /\ \A p \in Senders : p \in Threads /\ p \notin Receivers
      /\ \A c \in Receivers : c \in Threads /\ c \notin Senders
      /\ DOMAIN pc = Threads /\ DOMAIN pos = Threads /\ DOMAIN sent = Senders
      /\ DOMAIN buf = Slots
      /\ \A t \in Threads : pos[t] \in Nat /\ Slot(pos[t]) \in Slots
  BY ThreadsApart, SlotType DEF Threads, TypeOK, PcOK
<1>1. ASSUME NEW p \in Senders, PushWrite(p) PROVE Written'
  <2>1. /\ pos' = pos /\ sent' = sent
        /\ buf' = [buf EXCEPT ![Slot(pos[p])] = Item(p)]
        /\ \A u \in Threads \ {p} : pc'[u] = pc[u]
        /\ p \in Writers
    BY <1>0, <1>1 DEF PushWrite, Goto, Writers
  <2> SUFFICES ASSUME NEW q \in Senders, pc'[q] = "publish"
               PROVE  buf'[Slot(pos[q])] = <<q, sent[q] + 1>>
    BY <2>1 DEF Written, Item, Slot
  <2>2. CASE q = p  BY <1>0, <2>1, <2>2 DEF Item
  <2>3. CASE q # p
    <3>1. q \in Writers /\ pc[q] = "publish"  BY <1>0, <2>1, <2>3 DEF Writers
    <3>2. Slot(pos[q]) # Slot(pos[p])  BY <2>1, <2>3, <3>1, SlotsApart
    <3> QED  BY <1>0, <2>1, <3>1, <3>2 DEF Written, Item
  <2> QED  BY <2>2, <2>3
<1>2. ASSUME NEW p \in Senders, PushPublish(p) PROVE Written'
  <2>1. /\ pos' = pos /\ buf' = buf /\ sent' = [sent EXCEPT ![p] = @ + 1]
        /\ \A u \in Threads \ {p} : pc'[u] = pc[u]
        /\ pc'[p] = "idle"
    BY <1>0, <1>2 DEF PushPublish, Goto
  <2> QED  BY <1>0, <2>1 DEF Written, Item, Slot
<1>3. ASSUME NEW t \in Threads, pc'[t] # "publish", buf' = buf, sent' = sent,
             \A u \in Threads \ {t} : pc'[u] = pc[u] /\ pos'[u] = pos[u]
      PROVE  Written'
  BY <1>0, <1>3 DEF Written, Item, Slot
<1>4. ASSUME NEW p \in Senders,
             \/ AddProducer(p) \/ CloseDecrement(p) \/ ClosePublish(p)
             \/ PushCas(p) /\ head = pos[p]
      PROVE  Written'
  <2>1. /\ pos' = pos /\ buf' = buf /\ sent' = sent /\ pc'[p] # "publish"
        /\ \A u \in Threads \ {p} : pc'[u] = pc[u]
    BY <1>0, <1>4 DEF AddProducer, CloseDecrement, ClosePublish, PushCas, Goto, ring
  <2> QED  BY <1>0, <1>3, <2>1
<1>5. ASSUME NEW c \in Receivers,
             (PopCas(c) /\ tail = pos[c]) \/ PopRead(c) \/ PopRelease(c) \/ PopRecheck(c)
      PROVE  Written'
  <2>1. /\ pos' = pos /\ buf' = buf /\ sent' = sent /\ pc'[c] # "publish"
        /\ \A u \in Threads \ {c} : pc'[u] = pc[u]
    BY <1>0, <1>5 DEF PopCas, PopRead, PopRelease, PopRecheck, Goto, ring
  <2> QED  BY <1>0, <1>3, <2>1
<1>6. ASSUME NEW t \in Threads, LocalMove(t) PROVE Written'
  BY <1>0, <1>3, <1>6 DEF LocalMove, Inner, ring
<1> QED  BY <1>1, <1>2, <1>4, <1>5, <1>6, StepKinds

-----------------------------------------------------------------------------
\* Once every sender has closed, what is left in the ring is published.
LEMMA EmptyMeansDrained ==
  ASSUME TypeOK, RingInv, Claimed, AllClosed, seq[Slot(tail)] <= tail
  PROVE  tail = head
<1> SUFFICES ASSUME tail # head PROVE FALSE  OBVIOUS
<1>1. tail \in tail .. head - 1  BY DEF TypeOK, RingInv, Bounded
<1>2. seq[Slot(tail)] = tail  BY <1>1, Outstanding
<1>3. \E p \in Writers : pos[p] = tail  BY <1>1, <1>2 DEF Claimed
<1> QED  BY <1>3 DEF AllClosed, Writers

\* receive(out) answers "end" from the position it loaded: that is still tail.
LEMMA RecheckIsCurrent ==
  ASSUME TypeOK, RingInv, NEW c \in Receivers, seq[Slot(pos[c])] <= pos[c]
  PROVE  pos[c] = tail
<1>1. pos[c] \in Nat /\ tail \in Nat /\ pos[c] <= tail
  BY DEF TypeOK, Threads, RingInv, PosBehind
<1>2. pos[c] \notin 0 .. tail - 1
  <2>1. Slot(pos[c]) \in Slots  BY <1>1, SlotType
  <2>2. seq[Slot(pos[c])] \in Nat  BY <2>1 DEF TypeOK
  <2> QED  BY <1>1, <2>2 DEF RingInv, Laps
<1> QED  BY <1>1, <1>2

LEMMA EndInductive ==
  ASSUME Cap >= 2, TypeOK, TypeOK', RingInv, Claimed, ClosedLast, EndSeen, Next
  PROVE  EndSeen'
<1>0. /\ \A p \in Senders : p \in Threads /\ p \notin Receivers
      /\ \A c \in Receivers : c \in Threads /\ c \notin Senders
      /\ DOMAIN pc = Threads /\ closed \in {0, 1}
      /\ head \in Nat /\ tail \in Nat
      /\ \A t \in Threads : seq[Slot(pos[t])] \in Nat /\ pos[t] \in Nat
  BY ThreadsApart, SlotType DEF Threads, TypeOK, PcOK
<1>1. ASSUME NEW t \in Threads, closed = 1 => closed' = 1, head' = head, tail' = tail,
             \A u \in Threads \ {t} : pc'[u] = pc[u],
             t \in Receivers => /\ pc'[t] # "end"
                                /\ pc'[t] = "recheck" => closed = 1
      PROVE  EndSeen'
  BY <1>0, <1>1 DEF EndSeen
<1>2. ASSUME NEW p \in Senders,
             \/ AddProducer(p) \/ CloseDecrement(p) \/ ClosePublish(p)
             \/ PushWrite(p) \/ PushPublish(p)
      PROVE  EndSeen'
  <2>1. /\ closed = 1 => closed' = 1
        /\ head' = head /\ tail' = tail
        /\ \A u \in Threads \ {p} : pc'[u] = pc[u]
    BY <1>0, <1>2 DEF AddProducer, CloseDecrement, ClosePublish, PushWrite, PushPublish, Goto,
                      ring, life
  <2> QED  BY <1>0, <1>1, <2>1
<1>3. ASSUME NEW p \in Senders, PushCas(p), head = pos[p] PROVE EndSeen'
  <2>1. pc[p] = "cas" /\ closed' = closed /\ \A u \in Threads \ {p} : pc'[u] = pc[u]
    BY <1>0, <1>3 DEF PushCas, Goto, life
  <2>2. closed # 1  BY <2>1 DEF ClosedLast, AllClosed
  <2> QED  BY <1>0, <2>1, <2>2 DEF EndSeen
<1>4. ASSUME NEW c \in Receivers, PopCas(c), tail = pos[c] PROVE EndSeen'
  <2>1. /\ pc[c] = "cas" /\ pc'[c] = "read" /\ closed' = closed
        /\ \A u \in Threads \ {c} : pc'[u] = pc[u]
    BY <1>0, <1>4 DEF PopCas, Goto, life
  <2>2. tail # head
    <3>1. seq[Slot(tail)] = tail + 1  BY <1>4, <2>1 DEF RingInv, ProbeHolds
    <3> QED  BY <1>0, <3>1, SlotType DEF RingInv, Laps
  <2> QED  BY <1>0, <2>1, <2>2 DEF EndSeen
<1>5. ASSUME NEW c \in Receivers, PopRead(c) \/ PopRelease(c) PROVE EndSeen'
  <2>1. /\ closed' = closed /\ head' = head /\ tail' = tail
        /\ \A u \in Threads \ {c} : pc'[u] = pc[u]
        /\ pc'[c] \in {"release", "idle"}
    BY <1>0, <1>5 DEF PopRead, PopRelease, Goto, ring, life
  <2> QED  BY <1>0, <1>1, <2>1
<1>6. ASSUME NEW c \in Receivers, PopRecheck(c) PROVE EndSeen'
  <2>1. /\ closed' = closed /\ head' = head /\ tail' = tail /\ pc[c] = "recheck"
        /\ \A u \in Threads \ {c} : pc'[u] = pc[u]
        /\ pc'[c] = IF seq[Slot(pos[c])] - (pos[c] + 1) < 0 THEN "end" ELSE "reload"
    BY <1>0, <1>6 DEF PopRecheck, Goto, ring, life
  <2>2. closed = 1 /\ AllClosed  BY <2>1 DEF EndSeen, ClosedLast
  <2>3. pc'[c] = "end" => tail = head
    <3> SUFFICES ASSUME pc'[c] = "end" PROVE tail = head  OBVIOUS
    <3>1. seq[Slot(pos[c])] <= pos[c]  BY <1>0, <2>1
    <3>2. pos[c] = tail  BY <3>1, RecheckIsCurrent
    <3> QED  BY <2>2, <3>1, <3>2, EmptyMeansDrained
  <2> QED  BY <1>0, <2>1, <2>2, <2>3 DEF EndSeen
<1>7. ASSUME NEW t \in Threads, LocalMove(t) PROVE EndSeen'
  BY <1>0, <1>1, <1>7 DEF LocalMove, Inner, ring, life
<1> QED  BY <1>2, <1>3, <1>4, <1>5, <1>6, <1>7, StepKinds

LEMMA StreamInvInitially ==
  ASSUME Init
  PROVE  StreamInv
<1>0. /\ \A p \in Senders : p \in Threads /\ p \notin Receivers
      /\ \A c \in Receivers : c \in Threads /\ c \notin Senders
  BY ThreadsApart DEF Threads
<1>1. \A p \in Senders : pc[p] = "unborn"  BY <1>0 DEF Init
<1>2. \A c \in Receivers : pc[c] = "idle"  BY <1>0 DEF Init
<1>3. Active = {}  BY <1>1 DEF Active
<1>4. Counted  BY <1>3, FS_EmptySet DEF Init, Counted
<1>5. Claimed  BY DEF Init, Claimed
<1>6. Written /\ ClosedLast /\ EndSeen
  BY <1>1, <1>2 DEF Init, Written, ClosedLast, EndSeen
<1> QED  BY <1>4, <1>5, <1>6 DEF StreamInv

LEMMA StreamInvInductive ==
  ASSUME Cap >= 2, TypeOK, TypeOK', RingInv, StreamInv, [Next]_vars
  PROVE  StreamInv'
<1>1. CASE Next
  BY <1>1, ClaimedInductive, WrittenInductive, ClosingInductive, EndInductive DEF StreamInv
<1>2. CASE UNCHANGED vars
  BY <1>2 DEF vars, StreamInv, Claimed, Written, Counted, ClosedLast, EndSeen, AllClosed, Active,
              Writers, Slot, Item
<1> QED  BY <1>1, <1>2

(***************************************************************************)
(* The count of producers is exact, _closed means that all have closed,    *)
(* and every outstanding position has its writer or its item.              *)
(***************************************************************************)
THEOREM StreamCorrect ==
  ASSUME Cap >= 2
  PROVE  Spec => []StreamInv
<1>1. Init => StreamInv  BY StreamInvInitially
<1>2. TypeOK /\ TypeOK' /\ RingInv /\ StreamInv /\ [Next]_vars => StreamInv'
  BY StreamInvInductive
<1> QED  BY <1>1, <1>2, TypeCorrect, RingCorrect, PTL DEF Spec

(***************************************************************************)
(* A receiver that receive(out) told "end of stream" has missed nothing:   *)
(* every sender has closed, and every item sent has been claimed.          *)
(***************************************************************************)
THEOREM EndIsTheEnd ==
  ASSUME Cap >= 2
  PROVE  Spec => []EndMeansDrained
<1>1. StreamInv => EndMeansDrained
  BY DEF StreamInv, EndSeen, ClosedLast, AllClosed, EndMeansDrained
<1> QED  BY <1>1, StreamCorrect, PTL

-----------------------------------------------------------------------------
(***************************************************************************)
(* The refinement of the ticket queue.                                     *)
(***************************************************************************)
Good == TypeOK /\ RingInv /\ StreamInv

\* Functions on 1 .. n are the sequences of length n.
LEMMA IsSequence ==
  ASSUME NEW n \in Nat, NEW S, NEW s \in [1 .. n -> S]
  PROVE  s \in Seq(S) /\ Len(s) = n
OBVIOUS

\* What appending an element and dropping the first one do, element by element.
LEMMA AppendTo ==
  ASSUME NEW n \in Nat, NEW s, NEW t, NEW e,
         s = [i \in 1 .. n |-> s[i]], t = [i \in 1 .. n + 1 |-> t[i]],
         \A i \in 1 .. n : t[i] = s[i], t[n + 1] = e
  PROVE  t = Append(s, e)
<1> DEFINE S == {t[i] : i \in 1 .. n + 1}
<1>1. \A i \in 1 .. n + 1 : t[i] \in S  OBVIOUS
<1> HIDE DEF S
<1>2. e \in S  BY <1>1
<1>3. s \in Seq(S) /\ Len(s) = n
  <2>1. \A i \in 1 .. n : s[i] \in S  BY <1>1
  <2>2. s \in [1 .. n -> S]  BY <2>1
  <2> QED  BY <2>2, IsSequence
<1>4. Append(s, e) \in Seq(S) /\ Len(Append(s, e)) = n + 1
  BY <1>2, <1>3
<1>5. \A i \in 1 .. n + 1 : Append(s, e)[i] = t[i]
  <2>1. \A i \in 1 .. n : Append(s, e)[i] = s[i]  BY <1>2, <1>3
  <2>2. Append(s, e)[n + 1] = e  BY <1>2, <1>3
  <2>3. \A i \in 1 .. n + 1 : i \in 1 .. n \/ i = n + 1  OBVIOUS
  <2> QED  BY <2>1, <2>2, <2>3
<1>6. Append(s, e) = [i \in 1 .. n + 1 |-> Append(s, e)[i]]
  BY <1>3, <1>4
<1> QED  BY <1>5, <1>6

LEMMA TailOf ==
  ASSUME NEW n \in Nat, n > 0, NEW s, NEW t,
         s = [i \in 1 .. n |-> s[i]], t = [i \in 1 .. n - 1 |-> t[i]],
         \A i \in 1 .. n - 1 : t[i] = s[i + 1]
  PROVE  t = Tail(s) /\ s # << >> /\ Head(s) = s[1]
<1> DEFINE S == {s[i] : i \in 1 .. n}
<1>1. s \in Seq(S) /\ Len(s) = n  OBVIOUS
<1> HIDE DEF S
<1>2. s # << >> /\ Head(s) = s[1]  BY <1>1
<1>3. Tail(s) \in Seq(S) /\ Len(Tail(s)) = n - 1  BY <1>1
<1>4. \A i \in 1 .. n - 1 : Tail(s)[i] = s[i + 1]  BY <1>1
<1>5. Tail(s) = [i \in 1 .. n - 1 |-> Tail(s)[i]]  BY <1>1, <1>3
<1> QED  BY <1>2, <1>4, <1>5

\* The ticket of a claimed position is open and names its writer ...
LEMMA OpenTicket ==
  ASSUME Good, NEW p \in Writers
  PROVE  TicketAt(pos[p]) = [item |-> Item(p), ready |-> FALSE]
<1>1. pos[p] \in Nat /\ seq[Slot(pos[p])] = pos[p]
  BY DEF Good, TypeOK, Writers, Threads, RingInv, WritersOwn
<1>2. Claimant(pos[p]) = p  BY DEF Claimant, Good, RingInv, ClaimedOnce
<1> QED  BY <1>1, <1>2 DEF TicketAt

\* ... and every other outstanding ticket is ready.
LEMMA TicketKinds ==
  ASSUME Good, NEW q \in tail .. head - 1
  PROVE  \/ /\ seq[Slot(q)] = q + 1
            /\ TicketAt(q) = [item |-> buf[Slot(q)], ready |-> TRUE]
         \/ \E p \in Writers :
              pos[p] = q /\ TicketAt(q) = [item |-> Item(p), ready |-> FALSE]
<1>1. seq[Slot(q)] \in {q, q + 1}  BY Outstanding DEF Good
<1>2. CASE seq[Slot(q)] = q + 1  BY <1>2 DEF TicketAt
<1>3. CASE seq[Slot(q)] = q
  <2>1. PICK p \in Writers : pos[p] = q  BY <1>3 DEF Good, StreamInv, Claimed
  <2> QED  BY <2>1, OpenTicket
<1> QED  BY <1>1, <1>2, <1>3

\* A ticket stays as it is when its slot and its writer do.
LEMMA TicketSame ==
  ASSUME Good, Good', NEW q \in tail .. head - 1,
         seq'[Slot(q)] = seq[Slot(q)],
         seq[Slot(q)] = q + 1 => buf'[Slot(q)] = buf[Slot(q)],
         \A p \in Writers : pos[p] = q => p \in Writers' /\ pos'[p] = q /\ sent'[p] = sent[p]
  PROVE  TicketAt(q)' = TicketAt(q)
<1>1. CASE seq[Slot(q)] = q + 1
  BY <1>1 DEF TicketAt, Slot
<1>2. CASE seq[Slot(q)] # q + 1
  <2>1. PICK p \in Writers : pos[p] = q /\ TicketAt(q) = [item |-> Item(p), ready |-> FALSE]
    BY <1>2, TicketKinds
  <2>2. p \in Writers' /\ pos'[p] = q /\ Item(p)' = Item(p)  BY <2>1 DEF Item
  <2>3. Claimant(q)' = p  BY <2>2 DEF Claimant, Good, RingInv, ClaimedOnce
  <2>4. seq'[Slot(q)] # q + 1  BY <1>2
  <2>5. TicketAt(q)' = [item |-> Item(p)', ready |-> FALSE]
    BY <2>3, <2>4 DEF TicketAt, Item, Slot
  <2> QED  BY <2>1, <2>2, <2>5
<1> QED  BY <1>1, <1>2

\* A sender has an open ticket only between its claim and its publication.
LEMMA NoOpenTicket ==
  ASSUME Good, NEW p \in Senders, p \notin Writers
  PROVE  ~Queue!HasOpenTicket(p)
<1> SUFFICES ASSUME NEW i \in DOMAIN Tickets, Tickets[i].item[1] = p, ~Tickets[i].ready
             PROVE  FALSE
  BY DEF Queue!HasOpenTicket, Tickets
<1> DEFINE q == tail + i - 1
<1>1. i \in 1 .. head - tail /\ Tickets[i] = TicketAt(q)  BY DEF Tickets
<1>2. q \in tail .. head - 1  BY <1>1 DEF Good, TypeOK
<1> HIDE DEF q
<1>3. PICK w \in Writers : TicketAt(q) = [item |-> Item(w), ready |-> FALSE]
  <2>1. ASSUME TicketAt(q) = [item |-> buf[Slot(q)], ready |-> TRUE] PROVE FALSE
    <3>1. TicketAt(q).ready = TRUE  BY <2>1
    <3> QED  BY <1>1, <3>1
  <2> QED  BY <1>2, <2>1, TicketKinds
<1>4. Tickets[i].item = <<w, sent[w] + 1>>  BY <1>1, <1>3 DEF Item
<1> QED  BY <1>3, <1>4

\* What a step keeps that concerns neither the cursors nor the mapped tickets.
LEMMA TicketsSame ==
  ASSUME Good, Good', head' = head, tail' = tail,
         \A q \in tail .. head - 1 : TicketAt(q)' = TicketAt(q)
  PROVE  Tickets' = Tickets
<1>1. \A i \in 1 .. head - tail : tail + i - 1 \in tail .. head - 1
  BY DEF Good, TypeOK
<1> QED  BY <1>1 DEF Tickets

LEMMA ReadyField ==
  ASSUME NEW x, NEW b, NEW r, r = [item |-> x, ready |-> b], NEW c
  PROVE  [r EXCEPT !.ready = c] = [item |-> x, ready |-> c]
<1>1. DOMAIN r = {"item", "ready"}  OBVIOUS
<1>2. [r EXCEPT !.ready = c] = [f \in DOMAIN r |-> IF f = "ready" THEN c ELSE r[f]]
  BY Zenon
<1>3. [item |-> x, ready |-> c] = [f \in {"item", "ready"} |-> IF f = "ready" THEN c ELSE r[f]]
  BY <1>1
<1> QED  BY <1>1, <1>2, <1>3

\* Types that the steps below share.
LEMMA StreamTypes ==
  ASSUME Good
  PROVE  /\ \A p \in Senders : p \in Threads /\ p \notin Receivers
         /\ \A c \in Receivers : c \in Threads /\ c \notin Senders
         /\ pc = [t \in Threads |-> pc[t]]
         /\ sent \in [Senders -> Nat]
         /\ head \in Nat /\ tail \in Nat /\ Cap \in Nat
         /\ tail <= head /\ head <= tail + Cap
         /\ seq \in [Slots -> Nat]
         /\ DOMAIN buf = Slots
         /\ got \in [Receivers -> Seq((Senders \X Nat) \union {NoItem})]
         /\ \A t \in Threads : pos[t] \in Nat /\ Slot(pos[t]) \in Slots
         /\ \A q \in Nat : Slot(q) \in Slots
         /\ \A q \in tail .. head - 1 : q \in Nat
BY ThreadsApart, CapType, SlotType DEF Good, TypeOK, PcOK, Threads, RingInv, Bounded

LEMMA RefinesInitially == Init => Queue!QInit
<1> SUFFICES ASSUME Init PROVE Queue!QInit  OBVIOUS
<1>0. /\ \A p \in Senders : p \in Threads /\ p \notin Receivers
      /\ \A c \in Receivers : c \in Threads /\ c \notin Senders
  BY ThreadsApart DEF Threads
<1>1. \A p \in Senders : pc[p] = "unborn"  BY <1>0 DEF Init
<1>2. \A c \in Receivers : pc[c] = "idle"  BY <1>0 DEF Init
<1>3. Tickets = << >>
  <2>1. head - tail = 0  BY DEF Init
  <2> QED  BY <2>1 DEF Tickets
<1>4. Taken = [p \in Senders |-> 0]  BY <1>1 DEF Init, Taken, Writers
<1>5. Finished = {} /\ Ended = {}  BY <1>1, <1>2 DEF Finished, Ended
<1>6. Delivered = [c \in Receivers |-> << >>]  BY <1>2 DEF Init, Delivered
<1> QED
  BY <1>3, <1>4, <1>5, <1>6 DEF Queue!QInit, Tickets, Taken, Finished, Delivered, Ended

\* A successful CAS on head takes the ticket.
LEMMA TakesTicket ==
  ASSUME Good, Good', NEW p \in Senders, PushCas(p), head = pos[p]
  PROVE  Queue!TakeTicket(p)
<1>0. /\ head' = head + 1 /\ tail' = tail /\ seq' = seq /\ buf' = buf /\ pos' = pos
      /\ sent' = sent /\ got' = got
      /\ pc[p] = "cas" /\ pc'[p] = "write"
      /\ \A u \in Threads \ {p} : pc'[u] = pc[u]
  BY StreamTypes DEF PushCas, Goto, life
<1>1. head \in Nat /\ tail \in Nat /\ Cap \in Nat /\ tail <= head  BY StreamTypes
<1>2. /\ Writers' = Writers \union {p} /\ p \notin Writers
      /\ Finished' = Finished /\ Ended' = Ended /\ Delivered' = Delivered
      /\ p \notin Finished
  BY <1>0, StreamTypes DEF Writers, Finished, Ended, Delivered, Slot
<1>3. Taken' = [Taken EXCEPT ![p] = @ + 1] /\ Taken[p] = sent[p]
  <2>1. Taken[p] = sent[p] /\ Taken'[p] = sent[p] + 1
    BY <1>0, <1>2, StreamTypes DEF Taken
  <2>2. \A s \in Senders \ {p} : Taken'[s] = Taken[s]
    BY <1>0, <1>2 DEF Taken
  <2>3. Taken = [s \in Senders |-> Taken[s]] /\ Taken' = [s \in Senders |-> Taken'[s]]
    BY DEF Taken
  <2> QED  BY <2>1, <2>2, <2>3
<1>4. \A q \in tail .. head - 1 : TicketAt(q)' = TicketAt(q)
  BY <1>0, <1>2, TicketSame
<1>5. PICK h \in Nat : h = head  BY <1>1
<1>6. TicketAt(h)' = [item |-> <<p, Taken[p] + 1>>, ready |-> FALSE]
  <2>1. seq'[Slot(h)] = h  BY <1>0, <1>2, <1>5 DEF Good, RingInv, WritersOwn, Slot
  <2>2. Claimant(h)' = p  BY <1>0, <1>2, <1>5 DEF Claimant, Good, RingInv, ClaimedOnce
  <2>3. Item(p)' = <<p, sent[p] + 1>>  BY <1>0 DEF Item
  <2> QED  BY <1>3, <1>5, <2>1, <2>2, <2>3 DEF TicketAt, Slot
<1>7. PICK n \in Nat : n = head - tail /\ n < Cap
  <2>1. tail <= head /\ head' <= tail' + Cap  BY DEF Good, RingInv, Bounded
  <2> QED  BY <1>0, <2>1, <1>1
<1>8. Tickets = [i \in 1 .. n |-> Tickets[i]] /\ \A i \in 1 .. n : Tickets[i] = TicketAt(tail + i - 1)
  BY <1>7 DEF Tickets
<1>9. /\ Tickets' = [i \in 1 .. n + 1 |-> Tickets'[i]]
      /\ \A i \in 1 .. n + 1 : Tickets'[i] = TicketAt(tail + i - 1)'
  <2>1. head' - tail' = n + 1  BY <1>0, <1>7, <1>1
  <2> QED  BY <1>0, <2>1 DEF Tickets
<1>10. Tickets' = Append(Tickets, [item |-> <<p, Taken[p] + 1>>, ready |-> FALSE])
  <2>1. \A i \in 1 .. n : Tickets'[i] = Tickets[i]
    <3> SUFFICES ASSUME NEW i \in 1 .. n PROVE Tickets'[i] = Tickets[i]  OBVIOUS
    <3>1. tail + i - 1 \in tail .. head - 1  BY <1>7, <1>1
    <3> QED  BY <1>0, <1>4, <1>8, <1>9, <3>1
  <2>2. Tickets'[n + 1] = TicketAt(h)'
    <3>1. tail + (n + 1) - 1 = h  BY <1>5, <1>7, <1>1
    <3> QED  BY <1>0, <1>9, <3>1
  <2>3. Tickets'[n + 1] = [item |-> <<p, Taken[p] + 1>>, ready |-> FALSE]  BY <1>6, <2>2
  <2> QED  BY <1>8, <1>9, <2>1, <2>3, AppendTo
<1>11. Len(Tickets) < Cap
  <2>1. Len(Tickets) = n  BY <1>8
  <2> QED  BY <1>7, <2>1
<1>12. ~Queue!HasOpenTicket(p)  BY <1>2, NoOpenTicket
<1> QED
  BY <1>2, <1>3, <1>10, <1>11, <1>12
     DEF Queue!TakeTicket, Tickets, Taken, Finished, Delivered, Ended

\* The release store of the sequence number makes the ticket ready.
LEMMA MakesReady ==
  ASSUME Cap >= 2, Good, Good', NEW p \in Senders, PushPublish(p)
  PROVE  Queue!MakeReady(p)
<1>0. /\ head' = head /\ tail' = tail /\ buf' = buf /\ pos' = pos /\ got' = got
      /\ seq' = [seq EXCEPT ![Slot(pos[p])] = pos[p] + 1]
      /\ sent' = [sent EXCEPT ![p] = @ + 1]
      /\ pc[p] = "publish" /\ pc'[p] = "idle"
      /\ \A u \in Threads \ {p} : pc'[u] = pc[u]
  BY StreamTypes DEF PushPublish, Goto, life
<1>1. head \in Nat /\ tail \in Nat /\ tail <= head  BY StreamTypes
<1>2. /\ p \in Writers /\ Writers' = Writers \ {p}
      /\ Finished' = Finished /\ Ended' = Ended /\ Delivered' = Delivered
  BY <1>0, StreamTypes DEF Writers, Finished, Ended, Delivered, Slot
<1>3. Taken' = Taken
  <2>1. sent'[p] = sent[p] + 1 /\ sent[p] \in Nat
        /\ \A s \in Senders \ {p} : sent'[s] = sent[s]
    BY <1>0, StreamTypes
  <2>2. \A s \in Senders : sent'[s] + (IF s \in Writers' THEN 1 ELSE 0)
                             = sent[s] + (IF s \in Writers THEN 1 ELSE 0)
    BY <1>2, <2>1
  <2> QED  BY <2>2 DEF Taken
<1>4. PICK w \in Nat : w = pos[p]  BY StreamTypes
<1>5. w \in tail .. head - 1 /\ seq[Slot(w)] = w
  BY <1>1, <1>2, <1>4 DEF Good, RingInv, WritersOwn
<1>6. \A q \in tail .. head - 1 : q # w => TicketAt(q)' = TicketAt(q)
  <2> SUFFICES ASSUME NEW q \in tail .. head - 1, q # w PROVE TicketAt(q)' = TicketAt(q)
    OBVIOUS
  <2>1. q \in Nat /\ Slot(q) \in Slots /\ seq[Slot(q)] \in {q, q + 1}
    BY Outstanding DEF Good
  <2>2. Slot(q) # Slot(w)
    <3> SUFFICES ASSUME Slot(q) = Slot(w) PROVE FALSE  OBVIOUS
    <3>1. w = q + 1  BY <1>5, <2>1
    <3> QED  BY <2>1, <3>1, SlotNeighbour
  <2>3. seq'[Slot(q)] = seq[Slot(q)]  BY <1>0, <1>4, <2>1, <2>2, StreamTypes
  <2>4. \A v \in Writers : pos[v] = q => v \in Writers' /\ pos'[v] = q /\ sent'[v] = sent[v]
    BY <1>0, <1>2, <1>4, StreamTypes DEF Writers
  <2> QED  BY <1>0, <2>3, <2>4, TicketSame
<1>7. TicketAt(w) = [item |-> Item(p), ready |-> FALSE]  BY <1>2, <1>4, OpenTicket
<1>8. TicketAt(w)' = [item |-> Item(p), ready |-> TRUE]
  <2>1. buf[Slot(w)] = Item(p)  BY <1>0, <1>4 DEF Good, StreamInv, Written
  <2>2. seq'[Slot(w)] = w + 1  BY <1>0, <1>4, StreamTypes
  <2> QED  BY <1>0, <2>1, <2>2 DEF TicketAt, Slot
<1>9. PICK n \in Nat : n = head - tail  BY <1>1
<1>10. Tickets = [i \in 1 .. n |-> Tickets[i]] /\ \A i \in 1 .. n : Tickets[i] = TicketAt(tail + i - 1)
  BY <1>9 DEF Tickets
<1>11. /\ Tickets' = [i \in 1 .. n |-> Tickets'[i]]
       /\ \A i \in 1 .. n : Tickets'[i] = TicketAt(tail + i - 1)'
  BY <1>0, <1>9 DEF Tickets
<1>12. PICK k \in 1 .. n : tail + k - 1 = w
  <2>1. w - tail + 1 \in 1 .. n /\ tail + (w - tail + 1) - 1 = w  BY <1>1, <1>5, <1>9
  <2> QED  BY <2>1
<1>13. Tickets[k] = [item |-> <<p, sent[p] + 1>>, ready |-> FALSE]
  BY <1>7, <1>10, <1>12 DEF Item
<1>14. Tickets' = [Tickets EXCEPT ![k].ready = TRUE]
  <2>1. Tickets'[k] = [item |-> <<p, sent[p] + 1>>, ready |-> TRUE]
    BY <1>0, <1>8, <1>11, <1>12 DEF Item
  <2>2. [Tickets[k] EXCEPT !.ready = TRUE] = [item |-> <<p, sent[p] + 1>>, ready |-> TRUE]
    <3> DEFINE r == Tickets[k]
               x == <<p, sent[p] + 1>>
    <3>1. r = [item |-> x, ready |-> FALSE]  BY <1>13
    <3> HIDE DEF r, x
    <3>2. [r EXCEPT !.ready = TRUE] = [item |-> x, ready |-> TRUE]  BY <3>1, ReadyField, Zenon
    <3> QED  BY <3>2 DEF r, x
  <2>3. \A i \in 1 .. n : i # k => Tickets'[i] = Tickets[i]
    <3> SUFFICES ASSUME NEW i \in 1 .. n, i # k PROVE Tickets'[i] = Tickets[i]  OBVIOUS
    <3>1. tail + i - 1 \in tail .. head - 1 /\ tail + i - 1 # w  BY <1>1, <1>9, <1>12
    <3> QED  BY <1>0, <1>6, <1>10, <1>11, <3>1
  <2> QED  BY <1>10, <1>11, <2>1, <2>2, <2>3
<1>15. k \in DOMAIN Tickets /\ Tickets[k].item[1] = p /\ ~Tickets[k].ready
  BY <1>10, <1>13
<1> QED
  BY <1>2, <1>3, <1>14, <1>15
     DEF Queue!MakeReady, Tickets, Taken, Finished, Delivered, Ended

\* A successful CAS on tail receives the oldest ticket.
LEMMA ReceivesOldest ==
  ASSUME Good, Good', NEW c \in Receivers, PopCas(c), tail = pos[c]
  PROVE  Queue!Receive(c)
<1>0. /\ head' = head /\ tail' = tail + 1 /\ seq' = seq /\ buf' = buf /\ pos' = pos
      /\ sent' = sent /\ got' = got
      /\ pc[c] = "cas" /\ pc'[c] = "read"
      /\ \A u \in Threads \ {c} : pc'[u] = pc[u]
  BY StreamTypes DEF PopCas, Goto, life
<1>1. head \in Nat /\ tail \in Nat /\ tail <= head  BY StreamTypes
<1>2. /\ Writers' = Writers /\ Finished' = Finished /\ Ended' = Ended /\ c \notin Ended
  BY <1>0, StreamTypes DEF Writers, Finished, Ended
<1>3. Taken' = Taken  BY <1>0, <1>2 DEF Taken
<1>4. PICK h \in Nat : h = tail  BY <1>1
<1>5. seq[Slot(h)] = h + 1  BY <1>0, <1>4 DEF Good, RingInv, ProbeHolds
<1>6. tail # head
  <2>1. Slot(h) \in Slots  BY SlotType
  <2> QED  BY <1>1, <1>4, <1>5, <2>1 DEF Good, RingInv, Laps
<1>7. TicketAt(h) = [item |-> buf[Slot(h)], ready |-> TRUE]  BY <1>5 DEF TicketAt
<1>8. \A q \in tail .. head - 1 : TicketAt(q)' = TicketAt(q)
  BY <1>0, <1>2, TicketSame
<1>9. PICK n \in Nat : n = head - tail /\ n > 0  BY <1>1, <1>6
<1>10. Tickets = [i \in 1 .. n |-> Tickets[i]] /\ \A i \in 1 .. n : Tickets[i] = TicketAt(tail + i - 1)
  BY <1>9 DEF Tickets
<1>11. /\ Tickets' = [i \in 1 .. n - 1 |-> Tickets'[i]]
       /\ \A i \in 1 .. n - 1 : Tickets'[i] = TicketAt(tail + i - 1)'
  <2>1. head' - tail' = n - 1  BY <1>0, <1>1, <1>9
  <2> QED  BY <1>0, <2>1 DEF Tickets
<1>12. \A i \in 1 .. n - 1 : Tickets'[i] = Tickets[i + 1]
  <2> SUFFICES ASSUME NEW i \in 1 .. n - 1 PROVE Tickets'[i] = Tickets[i + 1]  OBVIOUS
  <2>1. PICK q \in tail .. head - 1 : q = tail + 1 + i - 1
    <3>1. tail + 1 + i - 1 \in tail .. head - 1  BY <1>1, <1>9
    <3> QED  BY <3>1
  <2>2. i + 1 \in 1 .. n /\ tail + (i + 1) - 1 = q  BY <1>1, <1>9, <2>1
  <2>3. Tickets[i + 1] = TicketAt(q)  BY <1>10, <2>2
  <2>4. Tickets'[i] = TicketAt(q)'  BY <1>0, <1>11, <2>1
  <2> QED  BY <1>8, <2>3, <2>4
<1>13. Tickets' = Tail(Tickets) /\ Tickets # << >> /\ Head(Tickets) = Tickets[1]
  <2> DEFINE s == Tickets
             t == Tickets'
  <2>1. s = [i \in 1 .. n |-> s[i]]  BY <1>10
  <2>2. t = [i \in 1 .. n - 1 |-> t[i]]  BY <1>11
  <2>3. \A i \in 1 .. n - 1 : t[i] = s[i + 1]  BY <1>12
  <2>4. n > 0  BY <1>9
  <2> HIDE DEF s, t
  <2>5. t = Tail(s)  BY <2>1, <2>2, <2>3, <2>4, TailOf
  <2>6. s # << >>  BY <2>1, <2>2, <2>3, <2>4, TailOf
  <2>7. Head(s) = s[1]  BY <2>1, <2>2, <2>3, <2>4, TailOf
  <2> QED  BY <2>5, <2>6, <2>7 DEF s, t
<1>14. Tickets[1] = [item |-> buf[Slot(h)], ready |-> TRUE]
  <2>1. 1 \in 1 .. n /\ tail + 1 - 1 = h  BY <1>1, <1>4, <1>9
  <2> QED  BY <1>7, <1>10, <2>1
<1>15. Delivered' = [Delivered EXCEPT ![c] = Append(@, Head(Tickets).item)]
  <2>1. Delivered[c] = got[c] /\ Delivered'[c] = Append(got[c], buf[Slot(h)])
    BY <1>0, <1>4 DEF Delivered, Slot
  <2>2. \A d \in Receivers \ {c} : Delivered'[d] = Delivered[d]
    BY <1>0, StreamTypes DEF Delivered, Slot
  <2>3. /\ Delivered = [d \in Receivers |-> Delivered[d]]
        /\ Delivered' = [d \in Receivers |-> Delivered'[d]]
    BY DEF Delivered
  <2>4. Head(Tickets).item = buf[Slot(h)]  BY <1>13, <1>14
  <2> QED  BY <2>1, <2>2, <2>3, <2>4
<1>16. Head(Tickets).ready  BY <1>13, <1>14
<1> QED
  BY <1>2, <1>3, <1>13, <1>15, <1>16
     DEF Queue!Receive, Tickets, Taken, Finished, Delivered, Ended

\* The decrement of _producers finishes a sender.
LEMMA Finishes ==
  ASSUME Good, Good', NEW p \in Senders, CloseDecrement(p)
  PROVE  Queue!Finish(p)
<1>0. /\ UNCHANGED ring /\ sent' = sent /\ got' = got /\ pos' = pos
      /\ pc[p] = "idle" /\ pc'[p] \in {"closing", "done"}
      /\ \A u \in Threads \ {p} : pc'[u] = pc[u]
  BY StreamTypes DEF CloseDecrement, Goto
<1>1. /\ Writers' = Writers /\ p \notin Writers /\ p \notin Finished
      /\ Finished' = Finished \union {p} /\ Ended' = Ended
      /\ Delivered' = Delivered
  BY <1>0, StreamTypes DEF Writers, Finished, Ended, Delivered, Slot, ring
<1>2. Taken' = Taken  BY <1>0, <1>1 DEF Taken
<1>3. Tickets' = Tickets
  <2>1. \A q \in tail .. head - 1 : TicketAt(q)' = TicketAt(q)
    BY <1>0, <1>1, TicketSame DEF ring
  <2> QED  BY <1>0, <2>1, TicketsSame DEF ring
<1>4. ~Queue!HasOpenTicket(p)  BY <1>1, NoOpenTicket
<1> QED
  BY <1>1, <1>2, <1>3, <1>4 DEF Queue!Finish, Tickets, Taken, Finished, Delivered, Ended

\* A receiver that looked again and found nothing is told the end.
LEMMA ToldTheEnd ==
  ASSUME Good, Good', NEW c \in Receivers, PopRecheck(c)
  PROVE  Queue!EndOfStream(c) \/ UNCHANGED Queue!qvars
<1>0. /\ UNCHANGED <<ring, sent, got, pos>>
      /\ pc[c] = "recheck" /\ pc'[c] \in {"end", "reload"}
      /\ \A u \in Threads \ {c} : pc'[u] = pc[u]
  BY StreamTypes DEF PopRecheck, Goto
<1>1. /\ Writers' = Writers /\ Finished' = Finished
      /\ Ended' = IF pc'[c] = "end" THEN Ended \union {c} ELSE Ended
  BY <1>0, StreamTypes DEF Writers, Finished, Ended
<1>2. Delivered' = Delivered /\ Taken' = Taken
  BY <1>0, <1>1, StreamTypes DEF Delivered, Taken, Slot, ring
<1>3. Tickets' = Tickets
  <2>1. \A q \in tail .. head - 1 : TicketAt(q)' = TicketAt(q)
    BY <1>0, <1>1, TicketSame DEF ring
  <2> QED  BY <1>0, <2>1, TicketsSame DEF ring
<1>4. CASE pc'[c] = "end"
  <2>1. closed' = 1 /\ tail' = head'  BY <1>4 DEF Good, StreamInv, EndSeen
  <2>2. AllClosed'  BY <2>1 DEF Good, StreamInv, ClosedLast
  <2>3. Finished = Senders  BY <1>1, <2>2 DEF AllClosed, Finished
  <2>4. Tickets = << >>
    <3>1. head - tail = 0  BY <1>0, <2>1, StreamTypes DEF ring
    <3> QED  BY <3>1 DEF Tickets
  <2>5. Ended' = Ended \union {c}  BY <1>1, <1>4
  <2> QED
    BY <1>1, <1>2, <1>3, <2>3, <2>4, <2>5
       DEF Queue!EndOfStream, Tickets, Taken, Finished, Delivered, Ended
<1>5. CASE pc'[c] # "end"
  <2>1. Ended' = Ended  BY <1>1, <1>5
  <2> QED
    BY <1>1, <1>2, <1>3, <2>1 DEF Queue!qvars, Tickets, Taken, Finished, Delivered, Ended
<1> QED  BY <1>4, <1>5

\* The steps that the ticket queue does not see.
LEMMA Unseen ==
  ASSUME Tickets' = Tickets, Taken' = Taken, Finished' = Finished, Delivered' = Delivered,
         Ended' = Ended
  PROVE  UNCHANGED Queue!qvars
BY DEF Queue!qvars, Tickets, Taken, Finished, Delivered, Ended

LEMMA WriteUnseen ==
  ASSUME Cap >= 2, Good, Good', NEW p \in Senders, PushWrite(p)
  PROVE  UNCHANGED Queue!qvars
<1>0. /\ head' = head /\ tail' = tail /\ seq' = seq /\ pos' = pos /\ sent' = sent /\ got' = got
      /\ buf' = [buf EXCEPT ![Slot(pos[p])] = Item(p)]
      /\ pc[p] = "write" /\ pc'[p] = "publish"
      /\ \A u \in Threads \ {p} : pc'[u] = pc[u]
  BY StreamTypes DEF PushWrite, Goto
<1>1. /\ p \in Writers /\ Writers' = Writers
      /\ Finished' = Finished /\ Ended' = Ended
  BY <1>0, StreamTypes DEF Writers, Finished, Ended
<1>2. Taken' = Taken  BY <1>0, <1>1 DEF Taken
<1>3. Delivered' = Delivered
  <2>1. \A c \in Receivers : pc[c] = "read" => Slot(pos[c]) # Slot(pos[p])
    BY <1>1, SlotsApart, StreamTypes DEF Good, Readers
  <2>2. \A c \in Receivers : pc[c] = "read" => buf'[Slot(pos[c])] = buf[Slot(pos[c])]
    BY <1>0, <2>1, StreamTypes
  <2> QED  BY <1>0, <2>2, StreamTypes DEF Delivered, Slot
<1>4. PICK w \in Nat : w = pos[p]  BY StreamTypes
<1>5. seq[Slot(w)] = w  BY <1>1, <1>4 DEF Good, RingInv, WritersOwn
<1>6. \A q \in tail .. head - 1 : TicketAt(q)' = TicketAt(q)
  <2> SUFFICES ASSUME NEW q \in tail .. head - 1 PROVE TicketAt(q)' = TicketAt(q)  OBVIOUS
  <2>1. q \in Nat /\ Slot(q) \in Slots  BY Outstanding DEF Good
  <2>2. seq[Slot(q)] = q + 1 => Slot(q) # Slot(w)
    BY <1>5, <2>1, SlotNeighbour
  <2>3. seq[Slot(q)] = q + 1 => buf'[Slot(q)] = buf[Slot(q)]
    BY <1>0, <1>4, <2>1, <2>2, StreamTypes
  <2> QED  BY <1>0, <1>1, <2>3, TicketSame
<1>7. Tickets' = Tickets  BY <1>0, <1>6, TicketsSame
<1> QED  BY <1>1, <1>2, <1>3, <1>7, Unseen

LEMMA ReleaseUnseen ==
  ASSUME Cap >= 2, Good, Good', NEW c \in Receivers, PopRelease(c)
  PROVE  UNCHANGED Queue!qvars
<1>0. /\ head' = head /\ tail' = tail /\ buf' = buf /\ pos' = pos /\ sent' = sent /\ got' = got
      /\ seq' = [seq EXCEPT ![Slot(pos[c])] = pos[c] + Cap]
      /\ pc[c] = "release" /\ pc'[c] = "idle"
      /\ \A u \in Threads \ {c} : pc'[u] = pc[u]
  BY StreamTypes DEF PopRelease, Goto
<1>1. /\ c \in Readers /\ Writers' = Writers
      /\ Finished' = Finished /\ Ended' = Ended
  BY <1>0, StreamTypes DEF Readers, Writers, Finished, Ended
<1>2. Taken' = Taken  BY <1>0, <1>1 DEF Taken
<1>3. Delivered' = Delivered  BY <1>0, StreamTypes DEF Delivered, Slot
<1>4. PICK r \in Nat : r = pos[c]  BY StreamTypes
<1>5. seq[Slot(r)] = r + 1 /\ r < tail  BY <1>1, <1>4 DEF Good, RingInv, ReadersOwn
<1>6. \A q \in tail .. head - 1 : TicketAt(q)' = TicketAt(q)
  <2> SUFFICES ASSUME NEW q \in tail .. head - 1 PROVE TicketAt(q)' = TicketAt(q)  OBVIOUS
  <2>1. q \in Nat /\ q >= tail /\ Slot(q) \in Slots /\ seq[Slot(q)] \in {q, q + 1}
    BY Outstanding, StreamTypes DEF Good
  <2>2. Slot(q) # Slot(r)
    <3> SUFFICES ASSUME Slot(q) = Slot(r) PROVE FALSE  OBVIOUS
    <3>1. q = r + 1  BY <1>5, <2>1, StreamTypes
    <3> QED  BY <3>1, SlotNeighbour
  <2>3. seq'[Slot(q)] = seq[Slot(q)]  BY <1>0, <1>4, <2>1, <2>2, StreamTypes
  <2> QED  BY <1>0, <1>1, <2>3, TicketSame
<1>7. Tickets' = Tickets  BY <1>0, <1>6, TicketsSame
<1> QED  BY <1>1, <1>2, <1>3, <1>7, Unseen

\* Steps that leave the ring and the mapped parts of the threads alone.
LEMMA RestUnseen ==
  ASSUME Good, Good', UNCHANGED <<ring, sent>>, Delivered' = Delivered,
         Finished' = Finished, Ended' = Ended, Writers' = Writers,
         \A p \in Writers : pos'[p] = pos[p]
  PROVE  UNCHANGED Queue!qvars
<1>1. Taken' = Taken  BY DEF Taken
<1>2. \A q \in tail .. head - 1 : TicketAt(q)' = TicketAt(q)
  BY TicketSame DEF ring
<1>3. Tickets' = Tickets  BY <1>2, TicketsSame DEF ring
<1> QED  BY <1>1, <1>3, Unseen

LEMMA QueueStep ==
  ASSUME Cap >= 2, Good, Good', [Next]_vars
  PROVE  [Queue!QNext]_(Queue!qvars)
<1>1. ASSUME NEW p \in Senders, AddProducer(p) \/ ClosePublish(p) PROVE UNCHANGED Queue!qvars
  <2>1. /\ UNCHANGED <<ring, sent, got, pos>>
        /\ \/ pc[p] = "unborn" /\ pc'[p] = "idle"
           \/ pc[p] = "closing" /\ pc'[p] = "done"
        /\ \A u \in Threads \ {p} : pc'[u] = pc[u]
    BY <1>1, StreamTypes DEF AddProducer, ClosePublish, Goto
  <2>2. /\ Writers' = Writers /\ Finished' = Finished /\ Ended' = Ended
        /\ Delivered' = Delivered
    BY <2>1, StreamTypes DEF Writers, Finished, Ended, Delivered, Slot, ring
  <2> QED  BY <2>1, <2>2, RestUnseen
<1>2. ASSUME NEW c \in Receivers, PopRead(c) PROVE UNCHANGED Queue!qvars
  <2>1. /\ UNCHANGED <<ring, sent, pos>>
        /\ got' = [got EXCEPT ![c] = Append(@, buf[Slot(pos[c])])]
        /\ pc[c] = "read" /\ pc'[c] = "release"
        /\ \A u \in Threads \ {c} : pc'[u] = pc[u]
    BY <1>2, StreamTypes DEF PopRead, Goto
  <2>2. Writers' = Writers /\ Finished' = Finished /\ Ended' = Ended
    BY <2>1, StreamTypes DEF Writers, Finished, Ended
  <2>3. Delivered' = Delivered
    <3>1. got'[c] = Append(got[c], buf[Slot(pos[c])]) /\ \A d \in Receivers \ {c} : got'[d] = got[d]
      BY <2>1, StreamTypes
    <3> QED  BY <2>1, <3>1, StreamTypes DEF Delivered, Slot, ring
  <2> QED  BY <2>1, <2>2, <2>3, RestUnseen
<1>3. ASSUME NEW t \in Threads, LocalMove(t) PROVE UNCHANGED Queue!qvars
  <2>1. /\ UNCHANGED <<ring, sent, got>>
        /\ pc[t] \in Inner /\ pc'[t] \in Inner
        /\ \A u \in Threads \ {t} : pc'[u] = pc[u] /\ pos'[u] = pos[u]
    BY <1>3 DEF LocalMove
  <2>2. Writers' = Writers /\ Finished' = Finished /\ Ended' = Ended
    BY <2>1, StreamTypes DEF Writers, Finished, Ended, Inner
  <2>3. Delivered' = Delivered  BY <2>1, StreamTypes DEF Delivered, Slot, ring, Inner
  <2>4. \A p \in Writers : pos'[p] = pos[p]  BY <2>1, StreamTypes DEF Writers, Inner
  <2> QED  BY <2>1, <2>2, <2>3, <2>4, RestUnseen
<1>4. CASE UNCHANGED vars
  BY <1>4, RestUnseen DEF vars, ring, Delivered, Finished, Ended, Writers, Slot
<1>5. CASE Next
  BY <1>1, <1>2, <1>3, <1>5, StepKinds, TakesTicket, MakesReady, ReceivesOldest, Finishes,
     ToldTheEnd, WriteUnseen, ReleaseUnseen DEF Good, Queue!QNext
<1> QED  BY <1>4, <1>5

(***************************************************************************)
(* The ring implements the ticket queue: whatever senders and receivers    *)
(* do, and however their steps interleave, items leave in the order of     *)
(* their tickets, each to one receiver, and no more than Cap are held.     *)
(***************************************************************************)
THEOREM RefinesTicketQueue ==
  ASSUME Cap >= 2
  PROVE  Spec => ImplementsTicketQueue
<1>1. Init => Queue!QInit  BY RefinesInitially
<1>2. Good /\ Good' /\ [Next]_vars => [Queue!QNext]_(Queue!qvars)  BY QueueStep
<1>3. TypeOK /\ RingInv /\ StreamInv => Good  BY DEF Good
<1> QED
  BY <1>1, <1>2, <1>3, TypeCorrect, RingCorrect, StreamCorrect, PTL
     DEF Spec, ImplementsTicketQueue, Queue!QSpec
------------------------------------------------------------------------------
(* The ring of spsc_queue.                                                   *)

LEMMA SpscCapType == SpscCap \in Nat \ {0} /\ Capacity \in Nat /\ SpscSlots = 0 .. SpscCap - 1
BY SpscQueueAssumption DEF SpscCap, SpscSlots

LEMMA SpscSlotType ==
  ASSUME NEW q \in Nat
  PROVE  q % SpscCap \in SpscSlots /\ NextSlot(q % SpscCap) = (q + 1) % SpscCap
BY SpscCapType, DivMod, NextSlotOf DEF NextSlot

LEMMA NextSlotType ==
  ASSUME NEW i \in SpscSlots
  PROVE  NextSlot(i) \in SpscSlots
BY SpscCapType, DivMod, i + 1 \in Nat DEF NextSlot

(***************************************************************************)
(* Type correctness of every state that push and pop can reach.            *)
(***************************************************************************)
THEOREM SpscTypeCorrect == SpscSpec => []SpscTypeOK
<1>1. SpscInit => SpscTypeOK
  BY SpscCapType DEF SpscInit, SpscTypeOK, SpscSlots, Modes
<1>2. SpscTypeOK /\ [SpscNext]_spscVars => SpscTypeOK'
  <2> SUFFICES ASSUME SpscTypeOK, [SpscNext]_spscVars PROVE SpscTypeOK'  OBVIOUS
  <2> USE DEF SpscTypeOK
  <2>1. ASSUME NEW v \in Items, NEW m \in Modes, SpscPushStart(v, m) PROVE SpscTypeOK'
    BY <2>1 DEF SpscPushStart, consumer
  <2>2. CASE SpscPushCheck  BY <2>2 DEF SpscPushCheck, consumer
  <2>3. CASE SpscPushWrite  BY <2>3 DEF SpscPushWrite, consumer
  <2>4. CASE SpscPushPublish  BY <2>4, NextSlotType DEF SpscPushPublish, consumer
  <2>5. ASSUME NEW m \in Modes, SpscPopStart(m) PROVE SpscTypeOK'
    BY <2>5 DEF SpscPopStart, producer
  <2>6. CASE SpscPopCheck  BY <2>6 DEF SpscPopCheck, producer
  <2>7. CASE SpscPopRead  BY <2>7 DEF SpscPopRead, producer
  <2>8. CASE SpscPopPublish  BY <2>8, NextSlotType DEF SpscPopPublish, producer
  <2>9. CASE UNCHANGED spscVars  BY <2>9 DEF spscVars
  <2> QED
    BY <2>1, <2>2, <2>3, <2>4, <2>5, <2>6, <2>7, <2>8, <2>9
       DEF SpscNext, ProducerStep, ConsumerStep
<1> QED  BY <1>1, <1>2, PTL DEF SpscSpec

-----------------------------------------------------------------------------
(***************************************************************************)
(* The inductive invariant: the indices are counts modulo the ring, and    *)
(* the slots in between hold what was pushed and not yet popped.           *)
(***************************************************************************)
LEMMA QueueInvInductive ==
  ASSUME SpscTypeOK, SpscTypeOK', QueueInv, [SpscNext]_spscVars
  PROVE  QueueInv'
<1> DEFINE s == Len(pushed)
           g == Len(popped)
<1>0. s \in Nat /\ g \in Nat /\ Capacity \in Nat /\ SpscCap = Capacity + 1
  BY SpscCapType DEF SpscTypeOK, SpscCap
<1>1. g <= s /\ s <= g + Capacity /\ head = s % SpscCap /\ tail = g % SpscCap
  BY DEF QueueInv, CountsBounded, IndicesCount
<1>2. ASSUME NEW v \in Items, NEW m \in Modes, SpscPushStart(v, m) PROVE QueueInv'
  BY <1>2 DEF SpscPushStart, consumer, QueueInv, IndicesCount, CountsBounded, ProducerHasRoom,
              ConsumerHasItem, SlotsHoldItems
<1>3. CASE SpscPushCheck
  <2>1. ppc' = "write" => s < g + Capacity
    <3> SUFFICES ASSUME NextSlot(head) # tail, s = g + Capacity PROVE FALSE
      BY <1>0, <1>1, <1>3 DEF SpscPushCheck
    <3>1. NextSlot(head) = (g + SpscCap) % SpscCap  BY <1>0, <1>1, SpscSlotType
    <3> QED  BY <3>1, <1>0, <1>1, SpscCapType, NextLap
  <2> QED
    BY <1>3, <2>1 DEF SpscPushCheck, consumer, QueueInv, IndicesCount, CountsBounded,
                      ProducerHasRoom, ConsumerHasItem, SlotsHoldItems
<1>4. CASE SpscPushWrite
  <2>1. UNCHANGED <<head, tail, pushed, popped, item, out, cpc>> /\ ppc' = "publish"
    BY <1>4 DEF SpscPushWrite, consumer
  <2>2. s < g + Capacity  BY <1>4 DEF SpscPushWrite, QueueInv, ProducerHasRoom
  <2>3. buf'[head] = item  BY <1>4 DEF SpscPushWrite, SpscTypeOK
  <2>4. ASSUME NEW k \in g .. s - 1 PROVE buf'[k % SpscCap] = pushed[k + 1]
    <3>1. k \in Nat /\ k < s /\ s < k + SpscCap  BY <1>0, <2>2
    <3>2. k % SpscCap # head  BY <3>1, <1>0, <1>1, SpscCapType, ApartWithinLap
    <3>3. k % SpscCap \in SpscSlots  BY <3>1, SpscSlotType
    <3>4. buf[k % SpscCap] = pushed[k + 1]  BY DEF QueueInv, SlotsHoldItems
    <3> QED  BY <1>4, <3>2, <3>3, <3>4 DEF SpscPushWrite, SpscTypeOK
  <2> QED
    BY <2>1, <2>2, <2>3, <2>4 DEF QueueInv, IndicesCount, CountsBounded, ProducerHasRoom,
                                  ConsumerHasItem, SlotsHoldItems
<1>5. CASE SpscPushPublish
  <2>1. /\ UNCHANGED <<tail, popped, item, out, cpc, buf>> /\ ppc' = "idle"
        /\ head' = NextSlot(head) /\ pushed' = Append(pushed, item)
    BY <1>5 DEF SpscPushPublish, consumer
  <2>2. s < g + Capacity /\ buf[head] = item
    BY <1>5 DEF SpscPushPublish, QueueInv, ProducerHasRoom
  <2>3. Len(pushed') = s + 1 /\ pushed'[s + 1] = item
    BY <1>5, <2>1 DEF SpscTypeOK, SpscPushPublish
  <2>4. \A i \in 1 .. s : pushed'[i] = pushed[i]  BY <2>1 DEF SpscTypeOK
  <2>5. head' = (s + 1) % SpscCap  BY <2>1, <1>0, <1>1, SpscSlotType
  <2>6. ASSUME NEW k \in g .. s PROVE buf[k % SpscCap] = pushed'[k + 1]
    <3>1. CASE k = s  BY <3>1, <2>2, <2>3, <1>1
    <3>2. CASE k # s
      <4>1. k \in g .. s - 1 /\ k + 1 \in 1 .. s  BY <3>2, <1>0
      <4> QED  BY <4>1, <2>4 DEF QueueInv, SlotsHoldItems
    <3> QED  BY <3>1, <3>2
  <2>7. CountsBounded' /\ IndicesCount' /\ ProducerHasRoom'
    BY <1>0, <1>1, <2>1, <2>2, <2>3, <2>5 DEF CountsBounded, IndicesCount, ProducerHasRoom
  <2>8. ConsumerHasItem'
    <3>1. cpc \in {"read", "publish"} => g < s  BY DEF QueueInv, ConsumerHasItem
    <3>2. cpc = "publish" => out = pushed[g + 1]  BY DEF QueueInv, ConsumerHasItem
    <3>3. cpc = "publish" => pushed'[g + 1] = pushed[g + 1]  BY <3>1, <2>4, <1>0
    <3> QED  BY <1>0, <2>1, <2>3, <3>1, <3>2, <3>3 DEF ConsumerHasItem
  <2>9. SlotsHoldItems'
    BY <1>0, <2>1, <2>3, <2>6 DEF SlotsHoldItems
  <2> QED  BY <2>7, <2>8, <2>9 DEF QueueInv
<1>6. ASSUME NEW m \in Modes, SpscPopStart(m) PROVE QueueInv'
  BY <1>6 DEF SpscPopStart, producer, QueueInv, IndicesCount, CountsBounded, ProducerHasRoom,
              ConsumerHasItem, SlotsHoldItems
<1>7. CASE SpscPopCheck
  <2>1. cpc' = "read" => g < s  BY <1>0, <1>1, <1>7 DEF SpscPopCheck
  <2>2. UNCHANGED <<head, tail, pushed, popped, item, out, ppc, buf>> /\ cpc' \in {"read", "idle"}
    BY <1>7 DEF SpscPopCheck, producer
  <2> QED
    BY <2>1, <2>2 DEF QueueInv, IndicesCount, CountsBounded, ProducerHasRoom,
                      ConsumerHasItem, SlotsHoldItems
<1>8. CASE SpscPopRead
  <2>1. g < s  BY <1>8 DEF SpscPopRead, QueueInv, ConsumerHasItem
  <2>2. buf[tail] = pushed[g + 1]
    BY <2>1, <1>0, <1>1, g \in g .. s - 1 DEF QueueInv, SlotsHoldItems
  <2>3. /\ UNCHANGED <<head, tail, pushed, popped, item, ppc, buf>>
        /\ cpc' = "publish" /\ out' = buf[tail]
    BY <1>8 DEF SpscPopRead, producer
  <2> QED
    BY <2>1, <2>2, <2>3 DEF QueueInv, IndicesCount, CountsBounded, ProducerHasRoom,
                            ConsumerHasItem, SlotsHoldItems
<1>9. CASE SpscPopPublish
  <2>1. /\ UNCHANGED <<head, pushed, item, ppc, buf>> /\ cpc' = "idle"
        /\ tail' = NextSlot(tail) /\ popped' = Append(popped, out)
    BY <1>9 DEF SpscPopPublish, producer
  <2>2. g < s  BY <1>9 DEF SpscPopPublish, QueueInv, ConsumerHasItem
  <2>3. Len(popped') = g + 1  BY <2>1 DEF SpscTypeOK
  <2>4. tail' = (g + 1) % SpscCap  BY <2>1, <1>0, <1>1, SpscSlotType
  <2>5. CountsBounded' /\ IndicesCount' /\ ConsumerHasItem'
    <3>1. CountsBounded'  BY <1>0, <1>1, <2>1, <2>2, <2>3 DEF CountsBounded
    <3>2. IndicesCount'  BY <1>1, <2>1, <2>3, <2>4 DEF IndicesCount
    <3>3. ConsumerHasItem'  BY <2>1 DEF ConsumerHasItem
    <3> QED  BY <3>1, <3>2, <3>3
  <2>6. ProducerHasRoom'
    BY <1>0, <2>1, <2>3 DEF QueueInv, ProducerHasRoom
  <2>7. SlotsHoldItems'
    BY <1>0, <2>1, <2>3 DEF QueueInv, SlotsHoldItems
  <2> QED  BY <2>5, <2>6, <2>7 DEF QueueInv
<1>10. CASE UNCHANGED spscVars
  BY <1>10 DEF spscVars, QueueInv, IndicesCount, CountsBounded, ProducerHasRoom,
               ConsumerHasItem, SlotsHoldItems
<1> QED
  BY <1>2, <1>3, <1>4, <1>5, <1>6, <1>7, <1>8, <1>9, <1>10
     DEF SpscNext, ProducerStep, ConsumerStep

LEMMA QueueInvInitially ==
  ASSUME SpscInit
  PROVE  QueueInv
<1>1. 0 % SpscCap = 0  BY SpscCapType, FirstLap, 0 \in 0 .. SpscCap - 1
<1>2. Len(pushed) = 0 /\ Len(popped) = 0  BY DEF SpscInit
<1> QED
  BY <1>1, <1>2, SpscCapType DEF SpscInit, QueueInv, IndicesCount, CountsBounded, ProducerHasRoom,
                             ConsumerHasItem, SlotsHoldItems

\* The indices of push and pop count what was pushed and received, and the slots in
\* between hold it, for every capacity.
THEOREM QueueCorrect == SpscSpec => []QueueInv
<1>1. SpscSpec => []SpscTypeOK  BY SpscTypeCorrect
<1>2. SpscInit => QueueInv  BY QueueInvInitially
<1>3. SpscTypeOK /\ SpscTypeOK' /\ QueueInv /\ [SpscNext]_spscVars => QueueInv'  BY QueueInvInductive
<1> QED  BY <1>1, <1>2, <1>3, PTL DEF SpscSpec

-----------------------------------------------------------------------------
LEMMA CopiesApartFromInv ==
  ASSUME SpscTypeOK, QueueInv
  PROVE  CopiesApart
<1> SUFFICES ASSUME ppc \in {"write", "publish"}, cpc \in {"read", "publish"}
             PROVE  head # tail
  BY DEF CopiesApart
<1>1. Len(pushed) \in Nat /\ Len(popped) \in Nat /\ SpscCap = Capacity + 1 /\ Capacity \in Nat
  BY SpscCapType DEF SpscTypeOK, SpscCap
<1>2. Len(popped) < Len(pushed) /\ Len(pushed) < Len(popped) + SpscCap
  BY <1>1 DEF QueueInv, ProducerHasRoom, ConsumerHasItem
<1>3. head = Len(pushed) % SpscCap /\ tail = Len(popped) % SpscCap  BY DEF QueueInv, IndicesCount
<1> QED  BY <1>1, <1>2, <1>3, SpscCapType, ApartWithinLap

\* The plain copy of push and the plain copy of pop never touch one slot.
THEOREM CopiesNeverMeet == SpscSpec => []CopiesApart
<1>1. SpscTypeOK /\ QueueInv => CopiesApart  BY CopiesApartFromInv
<1> QED  BY <1>1, SpscTypeCorrect, QueueCorrect, PTL

-----------------------------------------------------------------------------
LEMMA RefusalStep ==
  ASSUME SpscTypeOK, QueueInv, [SpscNext]_spscVars
  PROVE  /\ ppc = "check" /\ ppc' = "idle" => Len(pushed) = Len(popped) + Capacity
         /\ cpc = "check" /\ cpc' = "idle" => Len(pushed) = Len(popped)
<1> DEFINE s == Len(pushed)
           g == Len(popped)
<1>0. s \in Nat /\ g \in Nat /\ Capacity \in Nat /\ SpscCap = Capacity + 1
  BY SpscCapType DEF SpscTypeOK, SpscCap
<1>1. g <= s /\ s <= g + Capacity /\ head = s % SpscCap /\ tail = g % SpscCap
  BY DEF QueueInv, CountsBounded, IndicesCount
<1>2. ASSUME ppc = "check", ppc' = "idle" PROVE s = g + Capacity
  <2>1. NextSlot(head) = tail
    BY <1>2 DEF SpscNext, ProducerStep, ConsumerStep, SpscPushStart, SpscPushCheck, SpscPushWrite, SpscPushPublish,
                SpscPopStart, SpscPopCheck, SpscPopRead, SpscPopPublish, producer, spscVars
  <2>2. (s + 1) % SpscCap = g % SpscCap  BY <2>1, <1>0, <1>1, SpscSlotType
  <2>3. s + 1 \in Nat /\ g < s + 1  BY <1>0, <1>1
  <2>4. CASE s + 1 < g + SpscCap
    <3> HIDE DEF s, g
    <3>1. g % SpscCap # (s + 1) % SpscCap  BY <1>0, <2>3, <2>4, SpscCapType, ApartWithinLap
    <3> QED  BY <2>2, <3>1
  <2> QED  BY <1>0, <1>1, <2>4
<1>3. ASSUME cpc = "check", cpc' = "idle" PROVE s = g
  <2>1. head = tail
    BY <1>3 DEF SpscNext, ProducerStep, ConsumerStep, SpscPushStart, SpscPushCheck, SpscPushWrite, SpscPushPublish,
                SpscPopStart, SpscPopCheck, SpscPopRead, SpscPopPublish, consumer, spscVars
  <2> SUFFICES ASSUME g < s PROVE FALSE  BY <1>0, <1>1
  <2>2. s < g + SpscCap  BY <1>0, <1>1
  <2> QED  BY <2>1, <2>2, <1>0, <1>1, SpscCapType, ApartWithinLap
<1> QED  BY <1>2, <1>3

\* try_push is refused exactly when the capacity is used up, try_pop when nothing is left.
THEOREM RefusalsAreRight == SpscSpec => RefusalsRight
<1>1. SpscTypeOK /\ QueueInv /\ [SpscNext]_spscVars =>
        [/\ ppc = "check" /\ ppc' = "idle" => Len(pushed) = Len(popped) + Capacity
         /\ cpc = "check" /\ cpc' = "idle" => Len(pushed) = Len(popped)]_spscVars
  BY RefusalStep
<1> QED  BY <1>1, SpscTypeCorrect, QueueCorrect, PTL DEF SpscSpec, RefusalsRight

-----------------------------------------------------------------------------
LEMMA FifoStep ==
  ASSUME SpscTypeOK, SpscTypeOK', QueueInv, [SpscNext]_spscVars
  PROVE  [Fifo!Put \/ Fifo!Take]_(Fifo!fvars)
<1>0. Len(pushed) \in Nat /\ Len(popped) \in Nat /\ Capacity \in Nat
  BY SpscCapType DEF SpscTypeOK
<1>1. CASE SpscPushPublish
  <2>1. Len(pushed) < Len(popped) + Capacity  BY <1>1 DEF SpscPushPublish, QueueInv, ProducerHasRoom
  <2>2. item \in Items  BY <1>1 DEF SpscPushPublish, SpscTypeOK
  <2>3. Fifo!UnderWay < Capacity  BY <2>1, <1>0 DEF Fifo!UnderWay
  <2>4. Fifo!Put  BY <1>1, <2>2, <2>3 DEF SpscPushPublish, consumer, Fifo!Put
  <2> QED  BY <2>4
<1>2. CASE SpscPopPublish
  <2>1. Len(popped) < Len(pushed) /\ out = pushed[Len(popped) + 1]
    BY <1>2 DEF SpscPopPublish, QueueInv, ConsumerHasItem
  <2>2. Fifo!UnderWay > 0  BY <2>1, <1>0 DEF Fifo!UnderWay
  <2>3. Fifo!Take  BY <1>2, <2>1, <2>2 DEF SpscPopPublish, producer, Fifo!Take
  <2> QED  BY <2>3
<1>3. CASE UNCHANGED <<pushed, popped>>  BY <1>3 DEF Fifo!fvars
<1> QED
  BY <1>1, <1>2, <1>3 DEF SpscNext, ProducerStep, ConsumerStep, SpscPushStart, SpscPushCheck, SpscPushWrite,
                          SpscPopStart, SpscPopCheck, SpscPopRead, producer, consumer, spscVars

(***************************************************************************)
(* The ring of spsc_queue implements a bounded FIFO of the capacity that   *)
(* init was asked for: every step of push and pop is a step of the FIFO or *)
(* invisible to it.                                                        *)
(***************************************************************************)
THEOREM RefinesFifo == SpscSpec => ImplementsFifo
<1>1. SpscInit => Fifo!FInit  BY DEF SpscInit, Fifo!FInit
<1>2. SpscTypeOK /\ SpscTypeOK' /\ QueueInv /\ [SpscNext]_spscVars => [Fifo!Put \/ Fifo!Take]_(Fifo!fvars)
  BY FifoStep
<1> QED
  BY <1>1, <1>2, SpscTypeCorrect, QueueCorrect, PTL DEF SpscSpec, ImplementsFifo, Fifo!FSpec
==============================================================================
